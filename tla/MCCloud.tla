------------------------------ MODULE MCCloud ------------------------------
(***************************************************************************)
(* The users of the path to the cloud, for TLC: logmanager's bundles, the   *)
(* ticker that drives zedagent, and the lookups of the proxy to use (their  *)
(* progress; MCDevice has the rest, and zedagent's info messages).  They    *)
(* share no state, so one of them runs (part) while the others stay where   *)
(* they are: a property of one is violated by all together only if it is    *)
(* violated by that one alone.                                              *)
(***************************************************************************)
EXTENDS LogManager, TLC

CONSTANTS imga, app, zedagent, guest, t1, t2

VARIABLES part,
          tPc, cur, expFactor, period, tick, cfg, owner, want, updates, fired,
          th, item, threads, idle, scheduled, scheduled_back, dying, have_scheduled_back,
          lock, main, items, notified, dead, refused, answered, unanswered, failures,
          ctx, held, step

MCImageOf == (zedagent :> imga) @@ (guest :> app)

T == INSTANCE FlexTimer WITH
       MinTime <- 1, MaxTime <- 15, LongTime <- 1440,
       MaxUpdates <- 1, MaxTicks <- 6, pc <- tPc

P == INSTANCE Pac WITH Thread <- {t1, t2}, Ctx <- {1, 2}, Item <- {1, 2}, MaxFailures <- 1

timerVars == <<tPc, cur, expFactor, period, tick, cfg, owner, want, updates, fired>>
lookupVars == <<th, item, threads, idle, scheduled, scheduled_back, dying, have_scheduled_back,
                lock, main, items, notified, dead, refused, answered, unanswered, failures,
                ctx, held, step>>
cloudVars == <<part, vars, timerVars, lookupVars>>

CloudInit ==
    /\ part \in {"logs", "timer", "lookup"}
    /\ Init /\ T!Init /\ P!PacInit

CloudNext ==
    /\ \/ part = "logs"   /\ Next      /\ UNCHANGED <<timerVars, lookupVars>>
       \/ part = "timer"  /\ T!Next    /\ UNCHANGED <<vars, lookupVars>>
       \/ part = "lookup" /\ P!PacNext /\ UNCHANGED <<vars, timerVars>>
    /\ UNCHANGED part

Timer(A)  == part = "timer" /\ A /\ UNCHANGED <<part, vars, lookupVars>>
Lookup(A) == part = "lookup" /\ A /\ UNCHANGED <<part, vars, timerVars>>

CloudSpec ==
    /\ CloudInit /\ [][CloudNext]_cloudVars
    /\ WF_cloudVars(Timer(T!TakeConfig))
    /\ SF_cloudVars(Timer(T!SendTick))
    /\ WF_cloudVars(Timer(T!Return))
    /\ WF_cloudVars(Timer(T!UpdateSent))
    /\ SF_cloudVars(Timer(T!ReceiveTick))
    /\ \A t \in {t1, t2} : SF_cloudVars(Lookup(P!Worker(t)))
    /\ SF_cloudVars(Lookup(P!MainLoop))

\* An owner that calls the ticker once per tick is not blocked and what it sends
\* takes effect (FlexTimer).
UpdateTakesEffect == part = "timer" => T!UpdateTakesEffect

\* Every lookup that is accepted is answered (Pac).
EveryLookupAnswered == part = "lookup" => P!LookupAnswered

\* A blocking threadpool_die returns (Pac).
PoolDieReturns == part = "lookup" => P!DieReturns
=============================================================================
