------------------------------ MODULE MCDevice ------------------------------
(***************************************************************************)
(* Services of the device that share no state, for TLC: zedrouter's         *)
(* numbers, the pool of proxy lookups, the domain manager, the updates of   *)
(* the base OS and zedagent's info messages.  One of them runs (part) while *)
(* the others stay where they are.                                          *)
(***************************************************************************)
EXTENDS MCNumAllocator, Pac, DomainMgr, BaseOs, InfoReport, TLC

CONSTANTS t1, t2, d1, d2, usb0, eth0, v0, v1, v2, dev, app

\* d1 asks for both adapters, d2 for one of them.
MCIoAdapterList == d1 :> <<usb0, eth0>> @@ d2 :> <<eth0>>

\* One version is replaced, kept or brought back beside another.  baseosmgr has three of them for
\* a moment, one too many, when it learns of a new one before an old one goes.
MCWanted ==
    {[of |-> {v0}, on |-> v0], [of |-> {v0, v1}, on |-> v1], [of |-> {v1}, on |-> v1],
     [of |-> {v1, v2}, on |-> v2], [of |-> {v1, v2}, on |-> v1]}

VARIABLE part

deviceVars == <<part, vars, pacVars, domVars, osVars, infoVars>>

DeviceInit ==
    /\ Init /\ PacInit /\ DomInit /\ BosInit /\ InfoInit
    /\ part \in {"numbers", "pool", "domains", "updates", "info"}

\* domainmgr may stop when it has ended, or when every goroutine waits at its select.
DomainsAtRest ==
    \/ agentFatal # Nobody
    \/ sending = Nobody /\ \A x \in Dom : go[x].pc \in {"none", "select"}

\* Bound: a domain that has met a mishap the code does not handle is followed for one change less.
Followed == stray # {} => domChanges < MaxDomChanges

\* Nothing is left to do for baseosmgr and zedagent until the controller wants something else.
UpdatesAtRest ==
    bricked \/ (MgrIdle /\ osChanges = MaxOsChanges /\ parsedOs = cloudOs /\ answer = NoAnswer /\ ~rebootSet)

DeviceNext ==
    /\ \/ part = "numbers" /\ Next    /\ UNCHANGED <<pacVars, domVars, osVars, infoVars>>
       \/ part = "pool"    /\ PacNext /\ UNCHANGED <<vars, domVars, osVars, infoVars>>
       \/ part = "pool"    /\ main = "gone" /\ UNCHANGED <<vars, pacVars, domVars, osVars, infoVars>>
       \/ part = "domains" /\ Followed /\ DomNext /\ UNCHANGED <<vars, pacVars, osVars, infoVars>>
       \/ part = "domains" /\ (~Followed \/ DomainsAtRest) /\ UNCHANGED <<vars, pacVars, domVars, osVars, infoVars>>
       \/ part = "updates" /\ BosNext /\ UNCHANGED <<vars, pacVars, domVars, infoVars>>
       \/ part = "updates" /\ UpdatesAtRest /\ UNCHANGED <<vars, pacVars, domVars, osVars, infoVars>>
       \/ part = "info"    /\ InfoNext /\ UNCHANGED <<vars, pacVars, domVars, osVars>>
    /\ UNCHANGED part

DeviceSpec == DeviceInit /\ [][DeviceNext]_deviceVars
=============================================================================
