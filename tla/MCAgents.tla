------------------------------ MODULE MCAgents ------------------------------
(***************************************************************************)
(* Agents that work through pubsub, for TLC: a publisher and its subscriber, *)
(* and the progress of an update of the base OS, which zedagent and          *)
(* baseosmgr carry out over such channels (MCDevice has its safety).  They   *)
(* share no state: one of them runs (part) while the other stays where it    *)
(* is.                                                                       *)
(***************************************************************************)
EXTENDS MCPubSub, BaseOs

CONSTANTS o0, o1

MCWanted ==
    {[of |-> {o0}, on |-> o0], [of |-> {o0, o1}, on |-> o1], [of |-> {o0, o1}, on |-> o0],
     [of |-> {o1}, on |-> o1]}

VARIABLE part

agentsVars == <<part, vars, osVars>>

AgentsInit == Init /\ BosInit /\ part \in {"channel", "update"}

Channel(A) == part = "channel" /\ A /\ UNCHANGED <<part, osVars>>
Upgrade(A) == part = "update" /\ A /\ UNCHANGED <<part, vars>>

AgentsNext == Channel(Next) \/ Upgrade(BosNext)

AgentsSpec ==
    /\ AgentsInit /\ [][AgentsNext]_agentsVars
    /\ WF_agentsVars(Channel(updatersNotify))
    /\ WF_agentsVars(Channel(WriteFile \/ WriteFails))
    /\ \A s \in Sub : WF_agentsVars(Channel(Server(s))) /\ WF_agentsVars(Channel(Subscriber(s)))
    /\ WF_agentsVars(Upgrade(mgrStep)) /\ WF_agentsVars(Upgrade(statusStep))
    /\ WF_agentsVars(Upgrade(parseBaseOsConfig)) /\ WF_agentsVars(Upgrade(configTimerTask))
    /\ WF_agentsVars(Upgrade(initiateBaseOsZedCloudTestComplete)) /\ WF_agentsVars(Upgrade(handleExecReboot))

\* A subscriber has the publisher's objects in the end, once nothing changes any more (PubSub).
ChannelAgrees == part = "channel" => EventuallyAgrees

\* The restarted flag reaches the subscriber (PubSub).
ChannelRestarted == part = "channel" => RestartedReaches

\* The test of a new version ends (BaseOs).
UpdateTestEnds == part = "update" => TestEnds
=============================================================================
