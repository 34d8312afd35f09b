----------------------------- MODULE FlexTimer -----------------------------
(***************************************************************************)
(* A flextimer ticker (flextimer/flextimer.go) and the goroutine that owns  *)
(* it: an agent's select loop, which receives the ticks and whose handlers  *)
(* change the ticker's parameters. Ticks and parameters travel through two  *)
(* channels of capacity 1. Durations are whole minutes; the randomization   *)
(* only spreads a period around its base and is left out.                   *)
(***************************************************************************)
EXTENDS Naturals

CONSTANTS
  MinTime, MaxTime, \* parameters of the exponential ticker
  LongTime,         \* period of the range ticker
  MaxUpdates,       \* bound: calls by the owner between two received ticks
  MaxTicks          \* bound: ticks that the timer fires

VARIABLES
  pc,         \* the ticker goroutine: where flexTicker is
  cur,        \* its parameters c: "none", "range" or "exp"
  expFactor,
  period,     \* base period of the running timer
  tick,       \* the tick channel holds a tick
  cfg,        \* parameters in configChan, "none" if it is empty
  owner,      \* the owner is in its select or in a handler
  want,       \* parameters the owner is blocked on, or "none"
  updates, fired

vars == <<pc, cur, expFactor, period, tick, cfg, owner, want, updates, fired>>

Params == {"range", "exp", "stop"}

TypeOK ==
  /\ pc \in {"config", "timing", "ticking", "closed"}
  /\ cur \in {"none", "range", "exp"}
  /\ expFactor \in Nat \ {0} /\ period \in Nat
  /\ tick \in BOOLEAN
  /\ cfg \in Params \cup {"none"} /\ want \in Params \cup {"none"}
  /\ owner \in {"select", "handler"}
  /\ updates \in 0..MaxUpdates /\ fired \in 0..MaxTicks

\* NewRangeTicker: the goroutine waits for the initial parameters.
Init ==
  /\ pc = "config" /\ cur = "none" /\ expFactor = 1 /\ period = 0
  /\ tick = FALSE /\ cfg = "range"
  /\ owner = "select" /\ want = "none"
  /\ updates = 0 /\ fired = 0
-----------------------------------------------------------------------------
(* The ticker goroutine.                                                    *)

\* The factor doubles as long as the base period is below the maximum.
NextFactor(f) == IF MinTime * f < MaxTime THEN 2 * f ELSE f

\* The head of the loop: compute the period from c and start the timer.
StartTimer(c, f) ==
  /\ cur' = c
  /\ period' = IF c = "exp" THEN MinTime * f ELSE LongTime
  /\ expFactor' = IF c = "exp" THEN NextFactor(f) ELSE f

\* Mutant: the select in the loop has no case for configChan.
TakeConfigInitial ==
  /\ pc = "config"
  /\ cfg # "none"
  /\ cfg' = "none"
  /\ IF cfg = "stop"
       THEN pc' = "closed" /\ expFactor' = 1 /\ UNCHANGED <<cur, period>>
       ELSE pc' = "timing" /\ StartTimer(cfg, 1)
  /\ UNCHANGED <<tick, owner, want, updates, fired>>

\* A configuration arrives before the timer fires (or is the initial one).
TakeConfig ==
  /\ pc \in {"config", "timing"}
  /\ cfg # "none"
  /\ cfg' = "none"
  /\ IF cfg = "stop"
       THEN pc' = "closed" /\ expFactor' = 1 /\ UNCHANGED <<cur, period>>
       ELSE pc' = "timing" /\ StartTimer(cfg, 1)
  /\ UNCHANGED <<tick, owner, want, updates, fired>>

\* The timer fires; from here the goroutine looks at nothing but the tick channel.
\* A period is a minute or more, so parameters that are waiting are seen first.
Fire ==
  /\ pc = "timing" /\ cfg = "none"
  /\ fired < MaxTicks /\ fired' = fired + 1
  /\ pc' = "ticking"
  /\ UNCHANGED <<cur, expFactor, period, tick, cfg, owner, want, updates>>

SendTick ==
  /\ pc = "ticking" /\ ~tick
  /\ tick' = TRUE
  /\ pc' = "timing" /\ StartTimer(cur, expFactor)
  /\ UNCHANGED <<cfg, owner, want, updates, fired>>
-----------------------------------------------------------------------------
(* The owner.                                                               *)

ReceiveTick ==
  /\ owner = "select" /\ tick
  /\ tick' = FALSE
  /\ owner' = "handler" /\ updates' = 0
  /\ UNCHANGED <<pc, cur, expFactor, period, cfg, want, fired>>

OtherEvent ==
  /\ owner = "select"
  /\ owner' = "handler"
  /\ UNCHANGED <<pc, cur, expFactor, period, tick, cfg, want, updates, fired>>

Return ==
  /\ owner = "handler" /\ want = "none"
  /\ owner' = "select"
  /\ UNCHANGED <<pc, cur, expFactor, period, tick, cfg, want, updates, fired>>

\* UpdateRangeTicker, UpdateExpTicker and StopTicker: a send into configChan. A
\* stopped ticker is not used again.
Update(c) ==
  /\ owner = "handler" /\ want = "none"
  /\ pc # "closed" /\ cfg # "stop"
  /\ updates < MaxUpdates /\ updates' = updates + 1
  /\ want' = c
  /\ UNCHANGED <<pc, cur, expFactor, period, tick, cfg, owner, fired>>

\* The send goes through once the channel is empty.
UpdateSent ==
  /\ want # "none" /\ cfg = "none"
  /\ cfg' = want /\ want' = "none"
  /\ UNCHANGED <<pc, cur, expFactor, period, tick, owner, updates, fired>>

\* TickNow: a non-blocking send into the tick channel.
TickNow ==
  /\ owner = "handler" /\ want = "none" /\ pc # "closed" /\ cfg # "stop"
  /\ updates < MaxUpdates /\ updates' = updates + 1
  /\ tick' = TRUE
  /\ UNCHANGED <<pc, cur, expFactor, period, cfg, owner, want, fired>>
-----------------------------------------------------------------------------
Next ==
  \/ TakeConfig \/ Fire \/ SendTick
  \/ ReceiveTick \/ OtherEvent \/ Return
  \/ \E c \in Params : Update(c)
  \/ UpdateSent \/ TickNow

Spec == Init /\ [][Next]_vars

\* The goroutines run; Go's select picks among the ready channels at random, so a
\* tick that stays ready is received; a sender blocked on a full channel is served
\* when the channel is read.
FairSpec ==
  /\ Spec
  /\ WF_vars(TakeConfig) /\ WF_vars(Return) /\ WF_vars(UpdateSent)
  /\ SF_vars(ReceiveTick) /\ SF_vars(SendTick)
-----------------------------------------------------------------------------
\* "Replace current parameters without looking at when current timer would fire": a
\* handler that changes the parameters (UpdateRangeTicker, UpdateExpTicker,
\* StopTicker) is not blocked for ever and flexTicker takes what it was sent.
UpdateTakesEffect == want # "none" ~> (want = "none" /\ cfg = "none")
=============================================================================
