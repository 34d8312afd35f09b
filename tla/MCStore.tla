------------------------------ MODULE MCStore ------------------------------
(***************************************************************************)
(* The images of the applications and the network configuration of the     *)
(* device, for TLC.  They share no state: one of them runs (part) while    *)
(* the other stays where it is.                                            *)
(***************************************************************************)
EXTENDS MCImages, PortConfig

CONSTANTS e0, e1

\* The controller changes its mind between two ports, the platform has one of
\* them and the last resort is both.
MCOffer == [zedagent |-> {{e0}, {e1}}, global |-> {{e0}}, lastresort |-> {{e0, e1}}]

VARIABLE part

storeVars == <<part, vars, pcVars>>

\* At first the controller answers through the port the platform has not.  The
\* part that stays where it is does so in one of its initial states.
StoreInit ==
    /\ Init /\ PcInit
    /\ reach = {e1}
    /\ \/ part = "images"
       \/ part = "network" /\ config = {} /\ path = {}

StoreNext ==
    /\ \/ part = "images"  /\ Next   /\ UNCHANGED pcVars
       \/ part = "network" /\ PcNext /\ UNCHANGED vars
    /\ UNCHANGED part

StoreSpec == StoreInit /\ [][StoreNext]_storeVars
=============================================================================
