----------------------------- MODULE PacProofs -----------------------------
(***************************************************************************)
(* For any number of threads, lookups and failures: no callback is left     *)
(* without a wakeup, no work without a thread that will look at it, no      *)
(* thread without a context, and a pool that has died is empty.             *)
(***************************************************************************)
EXTENDS Pac, FiniteSetTheorems, SequenceTheorems, TLAPS

PacStep == [PacNext]_pacVars

Locked == {"enq", "enqwake"}

\* The types that the arguments need.
PacType ==
  /\ th \in [Thread -> Where]
  /\ item \in [Thread -> Item \cup {NoItem}]
  /\ scheduled \in Seq(Item)
  /\ scheduled_back \in Seq(Item \cup {NoItem})
  /\ items \in Seq(Item \cup {NoItem})
  /\ have_scheduled_back \in BOOLEAN /\ notified \in BOOLEAN
  /\ main \in MainAt

\* Who is inside a split critical section.
LockInv ==
  /\ \A t \in Thread : lock = t <=> th[t] \in Locked
  /\ lock = "main" <=> main = "reset"

\* While the flag is set, the main loop will look or will be notified.
WakeInv ==
  /\ have_scheduled_back =>
       \/ notified
       \/ main \in {"test", "take", "reset"}
       \/ \E t \in Thread : th[t] \in {"enqwake", "wake"}
  /\ \A t \in Thread : th[t] \in Locked => have_scheduled_back
  /\ main = "reset" => scheduled_back = <<>>

BackInv == PacType /\ LockInv /\ WakeInv /\ FlagGuards

-----------------------------------------------------------------------------
(* Functions.                                                               *)

\* An assignment to one entry of a function.
LEMMA ExceptType ==
  ASSUME NEW S, NEW T, NEW f \in [S -> T], NEW x, NEW y \in T
  PROVE  [f EXCEPT ![x] = y] \in [S -> T]
BY Zenon

-----------------------------------------------------------------------------
(* Types.                                                                   *)

\* The types are kept.
LEMMA TypeStep ==
  ASSUME PacType, PacStep
  PROVE  PacType'
<1> USE DEF PacType, mainLoop, history, counts, back, poolVars, Where, MainAt
<1>1. ASSUME NEW i \in Item, pac_find_proxy(i) PROVE PacType'
  <2>0. i \in Item BY Zenon
  <2>1. CASE ScheduleNoMemory(i)
    BY Zenon, <2>1 DEF ScheduleNoMemory
  <2>2. CASE ScheduleSignal(i)
    BY <2>2 DEF ScheduleSignal
  <2>3. CASE ScheduleNewThread(i)
    <3>1. th' \in [Thread -> Where]
      BY Zenon, <2>3, ExceptType DEF ScheduleNewThread
    <3> QED
      BY <2>3, <3>1 DEF ScheduleNewThread
  <2>4. CASE ScheduleNoThread(i)
    BY <2>4 DEF ScheduleNoThread
  <2>5. CASE ScheduleAllBusy(i)
    BY <2>5 DEF ScheduleAllBusy
  <2> QED
    BY Zenon, <1>1, <2>1, <2>2, <2>3, <2>4, <2>5 DEF pac_find_proxy, Pool, threadpool_schedule
<1>2. ASSUME NEW t \in Thread, Look(t) PROVE PacType'
  <2>1. CASE Dequeue(t)
    <3>1. Head(scheduled) \in Item /\ Tail(scheduled) \in Seq(Item)
      BY Zenon, <2>1, HeadTailProperties DEF Dequeue
    <3> QED
      BY Zenon, <1>2, <2>1, <3>1 DEF Look, Dequeue, Die
  <2>2. CASE ~Dequeue(t)
    BY Zenon, <1>2, <2>2 DEF Look, Die
  <2> QED
    BY Zenon, <2>1, <2>2
<1>3. ASSUME NEW t \in Thread, Woken(t) PROVE PacType'
  <2>1. CASE Dequeue(t)
    <3>1. Head(scheduled) \in Item /\ Tail(scheduled) \in Seq(Item)
      BY <2>1, HeadTailProperties DEF Dequeue
    <3> QED
      BY Zenon, <1>3, <2>1, <3>1 DEF Woken, Dequeue
  <2>2. CASE ~Dequeue(t)
    BY Zenon, <1>3, <2>2 DEF Woken, Die
  <2> QED
    BY <2>1, <2>2
<1>4. ASSUME NEW t \in Thread, BackEnqueue(t) PROVE PacType'
  BY <1>4 DEF BackEnqueue
<1>5. ASSUME NEW t \in Thread, Wakeup(t) PROVE PacType'
  BY Zenon, <1>5 DEF Wakeup
<1>6. ASSUME NEW t \in Thread, pop_context(t) \/ push_context(t) PROVE PacType'
  BY Zenon, <1>6 DEF pop_context, push_context
<1>7. ASSUME NEW t \in Thread, BackNoMemory(t) PROVE PacType'
  BY Zenon, <1>7 DEF BackNoMemory
<1>8. ASSUME NEW t \in Thread, BackSet(t) PROVE PacType'
  BY Zenon, <1>8 DEF BackSet
<1>9. ASSUME NEW t \in Thread, Timeout(t) PROVE PacType'
  BY Zenon, <1>9 DEF Timeout
<1>10. ASSUME EnterCallbacks \/ CallbacksTest \/ CallbacksReset \/ CallbacksTake PROVE PacType'
  <2>1. CASE EnterCallbacks
    BY Zenon, <2>1 DEF EnterCallbacks
  <2>2. CASE CallbacksTest
    BY Zenon, <2>2 DEF CallbacksTest
  <2>3. CASE CallbacksReset
    BY Zenon, <2>3 DEF CallbacksReset
  <2>4. CASE CallbacksTake
    BY Zenon, <2>4, EmptySeq DEF CallbacksTake
  <2> QED
    BY Zenon, <1>10, <2>1, <2>2, <2>3, <2>4
<1>11. ASSUME CallbacksRun PROVE PacType'
  <2>1. items # <<>> => Tail(items) \in Seq(Item \cup {NoItem})
    OBVIOUS
  <2> QED
    BY Zenon, <1>11, <2>1 DEF CallbacksRun
<1>12. ASSUME NEW c, DieWoken \/ threadpool_die(c) \/ threadpool_destroy PROVE PacType'
  BY Zenon, <1>12 DEF DieWoken, threadpool_die, DieLoop, threadpool_destroy
<1>13. ASSUME UNCHANGED pacVars PROVE PacType'
  BY Zenon, <1>13 DEF pacVars
<1> QED
  BY <1>1, <1>2, <1>3, <1>4, <1>5, <1>6, <1>7, <1>8, <1>9, <1>10, <1>11, <1>12, <1>13
     DEF PacStep, PacNext, Worker, Pool, ScheduleBack, MainLoop, MainStep

-----------------------------------------------------------------------------
(* The counters.                                                            *)

Alive(f)  == {t \in Thread : f[t] # "none"}
Idlers(f) == {t \in Thread : f[t] \in {"wait", "woken"}}

\* threads counts the threads there are, idle those in pthread_cond_timedwait.
CountInv ==
  /\ threads = Cardinality(Alive(th))
  /\ idle = Cardinality(Idlers(th))

\* The numbers of workers that are alive and that are idle.
LEMMA CountFacts ==
  ASSUME NEW f
  PROVE  /\ IsFiniteSet(Alive(f)) /\ IsFiniteSet(Idlers(f))
         /\ Cardinality(Alive(f)) \in Nat /\ Cardinality(Idlers(f)) \in Nat
         /\ Cardinality(Alive(f)) = 0 <=> Alive(f) = {}
         /\ Cardinality(Idlers(f)) = 0 <=> Idlers(f) = {}
         /\ Cardinality(Alive(f)) = Cardinality(Thread) => Alive(f) = Thread
         /\ Cardinality(Alive(f)) <= Cardinality(Thread)
<1>1. Alive(f) \in SUBSET Thread /\ Idlers(f) \in SUBSET Thread
  BY Zenon DEF Alive, Idlers
<1>2. IsFiniteSet(Thread)
  BY Zenon, PoolAssumption
<1>3. IsFiniteSet(Alive(f)) /\ IsFiniteSet(Idlers(f))
  BY Zenon, <1>1, <1>2, FS_Subset
<1> QED
  BY Zenon, <1>1, <1>2, <1>3, FS_Subset, FS_CardinalityType, FS_EmptySet

\* The counters follow a thread t that goes from th[t] to x.
LEMMA CountMove ==
  ASSUME PacType, CountInv, NEW t \in Thread, NEW x \in Where,
         th' = [th EXCEPT ![t] = x],
         th[t] = "none" => threads' = IF x = "none" THEN threads ELSE threads + 1,
         th[t] # "none" => threads' = IF x = "none" THEN threads - 1 ELSE threads,
         th[t] \in {"wait", "woken"} => idle' = IF x \in {"wait", "woken"} THEN idle ELSE idle - 1,
         th[t] \notin {"wait", "woken"} => idle' = IF x \in {"wait", "woken"} THEN idle + 1 ELSE idle
  PROVE  CountInv'
<1>1. \A u \in Thread : th'[u] = IF u = t THEN x ELSE th[u]
  BY Zenon DEF PacType
<1>2. /\ (th[t] = "none" <=> x = "none") => Alive(th') = Alive(th)
      /\ th[t] = "none" /\ x # "none" => Alive(th') = Alive(th) \cup {t} /\ t \notin Alive(th)
      /\ th[t] # "none" /\ x = "none" => Alive(th') = Alive(th) \ {t} /\ t \in Alive(th)
  BY Zenon, <1>1 DEF Alive
<1>3. /\ (th[t] \in {"wait", "woken"} <=> x \in {"wait", "woken"}) => Idlers(th') = Idlers(th)
      /\ th[t] \notin {"wait", "woken"} /\ x \in {"wait", "woken"} => Idlers(th') = Idlers(th) \cup {t} /\ t \notin Idlers(th)
      /\ th[t] \in {"wait", "woken"} /\ x \notin {"wait", "woken"} => Idlers(th') = Idlers(th) \ {t} /\ t \in Idlers(th)
  BY Zenon, <1>1 DEF Idlers
<1>4. IsFiniteSet(Alive(th)) /\ IsFiniteSet(Idlers(th))
  BY Zenon, CountFacts
<1>5. ASSUME NEW S, IsFiniteSet(S)
      PROVE  /\ Cardinality(S) \in Nat
             /\ t \notin S => Cardinality(S \cup {t}) = Cardinality(S) + 1
             /\ t \in S => Cardinality(S \ {t}) = Cardinality(S) - 1
  BY Zenon, <1>5, FS_AddElement, FS_RemoveElement, FS_CardinalityType
<1>6. threads' = Cardinality(Alive(th'))
  BY Zenon, <1>2, <1>4, <1>5 DEF CountInv
<1>7. idle' = Cardinality(Idlers(th'))
  BY Zenon, <1>3, <1>4, <1>5 DEF CountInv
<1> QED
  BY Zenon, <1>6, <1>7 DEF CountInv

\* threadpool_new_thread is called only when a thread fits.
LEMMA RoomForThread ==
  ASSUME CountInv, threads < maxthreads
  PROVE  \E t \in Thread : th[t] = "none"
<1>1. Alive(th) # Thread
  <2>1. Cardinality(Alive(th)) \in Nat /\ Cardinality(Thread) \in Nat
    BY Zenon, CountFacts, PoolAssumption, FS_CardinalityType
  <2> QED
    BY <2>1 DEF CountInv, maxthreads
<1> QED
  BY Zenon, <1>1 DEF Alive

\* Every step keeps the counters.
LEMMA CountStep ==
  ASSUME PacType, CountInv, PacStep
  PROVE  CountInv'
<1> USE DEF mainLoop, history, counts, back, poolVars
<1>0. CASE UNCHANGED <<th, threads, idle>>
  BY Zenon, <1>0 DEF CountInv, Alive, Idlers
<1>1. ASSUME NEW i \in Item, ScheduleSignal(i) PROVE CountInv'
  <2>1. CASE \E t \in Thread : th[t] = "wait" /\ th' = [th EXCEPT ![t] = "woken"]
    <3>1. PICK t \in Thread : th[t] = "wait" /\ th' = [th EXCEPT ![t] = "woken"]
      BY Zenon, <2>1
    <3>2. UNCHANGED <<threads, idle>>
      BY Zenon, <1>1 DEF ScheduleSignal
    <3> QED
      BY Zenon, <3>1, <3>2, CountMove DEF Where
  <2>2. CASE UNCHANGED th
    BY Zenon, <1>1, <2>2, <1>0 DEF ScheduleSignal
  <2> QED
    BY Zenon, <1>1, <2>1, <2>2 DEF ScheduleSignal
<1>2. ASSUME NEW i \in Item, ScheduleNewThread(i) PROVE CountInv'
  <2>1. \E t \in Thread : th[t] = "none"
    BY Zenon, <1>2, RoomForThread DEF ScheduleNewThread
  <2>2. PICK t \in Thread : t = (CHOOSE u \in Thread : th[u] = "none") /\ th[t] = "none"
    BY Zenon, <2>1
  <2>3. th' = [th EXCEPT ![t] = "again"] /\ threads' = threads + 1 /\ idle' = idle
    BY Zenon, <1>2, <2>2 DEF ScheduleNewThread
  <2> QED
    BY Zenon, <2>2, <2>3, CountMove DEF Where
<1>3. ASSUME NEW t \in Thread, Look(t) PROVE CountInv'
  <2>1. \/ th' = [th EXCEPT ![t] = "run"] /\ UNCHANGED <<threads, idle>>
        \/ th' = [th EXCEPT ![t] = "none"] /\ threads' = threads - 1 /\ idle' = idle
        \/ th' = [th EXCEPT ![t] = "wait"] /\ threads' = threads /\ idle' = idle + 1
    BY Zenon, <1>3 DEF Look, Dequeue, Die
  <2>2. th[t] = "again"
    BY Zenon, <1>3 DEF Look
  <2> QED
    BY Zenon, <2>1, <2>2, CountMove DEF Where
<1>4. ASSUME NEW t \in Thread, Woken(t) PROVE CountInv'
  <2>1. \/ th' = [th EXCEPT ![t] = "run"] /\ threads' = threads
        \/ th' = [th EXCEPT ![t] = "none"] /\ threads' = threads - 1
    BY Zenon, <1>4 DEF Woken, Dequeue, Die
  <2>2. th[t] = "woken" /\ idle' = idle - 1
    BY Zenon, <1>4 DEF Woken
  <2> QED
    BY Zenon, <2>1, <2>2, CountMove DEF Where
<1>5. ASSUME NEW t \in Thread, Timeout(t) PROVE CountInv'
  <2>1. th[t] = "wait" /\ th' = [th EXCEPT ![t] = "woken"] /\ UNCHANGED <<threads, idle>>
    BY Zenon, <1>5 DEF Timeout
  <2> QED
    BY Zenon, <2>1, CountMove DEF Where
<1>6. ASSUME NEW t \in Thread, BackNoMemory(t) \/ BackSet(t) \/ BackEnqueue(t) \/ Wakeup(t)
      PROVE CountInv'
  <2>1. PICK x \in {"again", "enq", "enqwake", "wake"} : th' = [th EXCEPT ![t] = x]
    BY Zenon, <1>6 DEF BackNoMemory, BackSet, BackEnqueue, Wakeup
  <2>2. th[t] \in {"run", "enq", "enqwake", "wake"} /\ UNCHANGED <<threads, idle>>
    BY Zenon, <1>6 DEF BackNoMemory, BackSet, BackEnqueue, Wakeup
  <2> QED
    BY Zenon, <2>1, <2>2, CountMove DEF Where
<1>7. ASSUME NEW c, threadpool_die(c) PROVE CountInv'
  <2>1. \A t \in Thread : th'[t] = th[t] \/ (th[t] = "wait" /\ th'[t] = "woken")
    BY Zenon, <1>7 DEF threadpool_die, PacType
  <2>2. Alive(th') = Alive(th) /\ Idlers(th') = Idlers(th)
    BY Zenon, <2>1 DEF Alive, Idlers
  <2>3. UNCHANGED <<threads, idle>>
    BY Zenon, <1>7 DEF threadpool_die
  <2> QED
    BY Zenon, <2>2, <2>3 DEF CountInv
<1>8. ASSUME NEW i \in Item, ScheduleNoMemory(i) \/ ScheduleNoThread(i) \/ ScheduleAllBusy(i)
      PROVE UNCHANGED <<th, threads, idle>>
  BY Zenon, <1>8 DEF ScheduleNoMemory, ScheduleNoThread, ScheduleAllBusy
<1>9. ASSUME NEW t \in Thread, pop_context(t) \/ push_context(t) PROVE UNCHANGED <<th, threads, idle>>
  BY Zenon, <1>9 DEF pop_context, push_context
<1>10. ASSUME EnterCallbacks \/ MainStep \/ threadpool_destroy \/ UNCHANGED pacVars
       PROVE UNCHANGED <<th, threads, idle>>
  BY Zenon, <1>10 DEF EnterCallbacks, MainStep, CallbacksTest, CallbacksTake, CallbacksReset,
               CallbacksRun, DieWoken, threadpool_destroy, pacVars
<1> QED
  BY Zenon, <1>0, <1>1, <1>2, <1>3, <1>4, <1>5, <1>6, <1>7, <1>8, <1>9, <1>10
     DEF PacStep, PacNext, pac_find_proxy, threadpool_schedule, Worker, Pool, ScheduleBack, MainLoop

-----------------------------------------------------------------------------
(* The callback queue.                                                      *)

\* No thread moves with respect to the critical section, and neither does the main loop.
LEMMA Nowhere ==
  ASSUME BackInv, PacType',
         \A t \in Thread : th'[t] = th[t] \/ {th[t], th'[t]} \cap (Locked \cup {"wake"}) = {},
         main' = main \/ {main, main'} \cap {"test", "take", "reset"} = {},
         UNCHANGED <<back, lock, notified>>
  PROVE  BackInv'
<1> USE DEF BackInv, PacType, back
<1>2. LockInv'
  BY Zenon DEF LockInv, Locked
<1>3. WakeInv'
  <2>1. ASSUME NEW t \in Thread, th[t] \in {"enqwake", "wake"} PROVE th'[t] \in {"enqwake", "wake"}
    BY Zenon, <2>1 DEF Locked
  <2>2. ASSUME NEW t \in Thread, th'[t] \in Locked PROVE th[t] \in Locked
    BY Zenon, <2>2 DEF Locked
  <2> QED
    BY Zenon, <2>1, <2>2 DEF WakeInv
<1>4. FlagGuards'
  BY Zenon DEF FlagGuards
<1> QED
  BY Zenon, <1>2, <1>3, <1>4

\* Every step keeps the invariant of the callback queue.
LEMMA BackStep ==
  ASSUME BackInv, CountInv, PacStep
  PROVE  BackInv'
<1>0. PacType'
  BY Zenon, TypeStep DEF BackInv
<1> USE DEF mainLoop, history, counts, back, poolVars
<1>1. ASSUME NEW i \in Item, pac_find_proxy(i) PROVE BackInv'
  <2>1. /\ \A t \in Thread : th'[t] = th[t] \/ {th[t], th'[t]} \cap (Locked \cup {"wake"}) = {}
        /\ UNCHANGED <<main, back, lock, notified>>
    <3>1. CASE ScheduleNoMemory(i) \/ ScheduleNoThread(i) \/ ScheduleAllBusy(i)
      BY Zenon, <3>1 DEF ScheduleNoMemory, ScheduleNoThread, ScheduleAllBusy
    <3>2. CASE ScheduleSignal(i)
      BY Zenon, <3>2 DEF ScheduleSignal, Locked, BackInv, PacType
    <3>3. CASE ScheduleNewThread(i)
      <4>1. PICK u : u = CHOOSE t \in Thread : th[t] = "none"
        BY Zenon
      <4>2. th' = [th EXCEPT ![u] = "again"] /\ UNCHANGED <<main, back, lock, notified>>
        BY Zenon, <3>3, <4>1 DEF ScheduleNewThread
      <4>3. ASSUME NEW t \in Thread, th'[t] # th[t] PROVE th[t] = "none" /\ th'[t] = "again"
        <5>1. t = u
          BY Zenon, <4>2, <4>3 DEF BackInv, PacType
        <5>2. \E v \in Thread : th[v] = "none"
          BY Zenon, <3>3, RoomForThread DEF ScheduleNewThread
        <5> QED
          BY Zenon, <4>1, <4>2, <5>1, <5>2 DEF BackInv, PacType
      <4> QED
        BY Zenon, <4>2, <4>3 DEF Locked
    <3> QED
      BY Zenon, <1>1, <3>1, <3>2, <3>3 DEF pac_find_proxy, Pool, threadpool_schedule
  <2> QED
    BY Zenon, <1>0, <2>1, Nowhere
<1>2. ASSUME NEW t \in Thread, Look(t) \/ Woken(t) PROVE BackInv'
  <2>1. PICK x \in {"run", "none", "wait"} : th' = [th EXCEPT ![t] = x]
    BY Zenon, <1>2 DEF Look, Woken, Dequeue, Die
  <2>2. th[t] \in {"again", "woken"} /\ UNCHANGED <<back, lock, notified>>
    BY Zenon, <1>2 DEF Look, Woken
  <2>3. main' = main \/ {main, main'} \cap {"test", "take", "reset"} = {}
    BY Zenon, <1>2 DEF Look, Woken, Dequeue, Die
  <2> QED
    BY Zenon, <1>0, <2>1, <2>2, <2>3, Nowhere DEF Locked, BackInv, PacType
<1>3. ASSUME NEW t \in Thread, BackNoMemory(t) \/ Timeout(t) PROVE BackInv'
  <2>1. PICK x \in {"again", "woken"} : th' = [th EXCEPT ![t] = x]
    BY Zenon, <1>3 DEF BackNoMemory, Timeout
  <2>2. th[t] \in {"run", "wait"} /\ UNCHANGED <<back, lock, notified, main>>
    BY Zenon, <1>3 DEF BackNoMemory, Timeout
  <2> QED
    BY Zenon, <1>0, <2>1, <2>2, Nowhere DEF Locked, BackInv, PacType
<1>4. ASSUME NEW t \in Thread, BackSet(t) PROVE BackInv'
  <2>1. lock = "free" /\ lock' = t /\ t # "main" /\ have_scheduled_back'
        /\ UNCHANGED <<main, notified, scheduled_back>>
    BY Zenon, <1>4, PoolAssumption DEF BackSet, Unlocked
  <2>2. \A u \in Thread : th[u] \notin Locked
    BY Zenon, <2>1, PoolAssumption DEF BackInv, LockInv
  <2>3. \A u \in Thread : u # t => th'[u] = th[u]
    BY Zenon, <1>4 DEF BackSet, BackInv, PacType
  <2>4. th'[t] = IF have_scheduled_back THEN "enq" ELSE "enqwake"
    BY Zenon, <1>4 DEF BackSet, BackInv, PacType
  <2>5. LockInv'
    BY Zenon, <2>1, <2>2, <2>3, <2>4 DEF BackInv, LockInv, Locked
  <2>6. WakeInv'
    BY <1>4, <2>1, <2>2, <2>3, <2>4 DEF BackSet, BackInv, WakeInv, Locked
  <2> QED
    BY Zenon, <1>0, <2>1, <2>5, <2>6 DEF BackInv, FlagGuards
<1>5. ASSUME NEW t \in Thread, BackEnqueue(t) PROVE BackInv'
  <2>1. lock = t /\ lock' = "free" /\ t # "main" /\ have_scheduled_back
        /\ UNCHANGED <<main, notified, have_scheduled_back>>
    BY Zenon, <1>5, PoolAssumption DEF BackEnqueue, BackInv, LockInv, WakeInv, Unlocked, Locked
  <2>2. \A u \in Thread : u # t => th'[u] = th[u] /\ th[u] \notin Locked
    BY Zenon, <1>5, <2>1 DEF BackEnqueue, BackInv, LockInv, PacType
  <2>3. th'[t] = IF th[t] = "enqwake" THEN "wake" ELSE "again"
    BY Zenon, <1>5 DEF BackEnqueue, BackInv, PacType
  <2>4. main # "reset"
    BY Zenon, <2>1 DEF BackInv, LockInv
  <2>5. LockInv'
    BY Zenon, <2>1, <2>2, <2>3, <2>4, PoolAssumption DEF LockInv, Locked
  <2>6. WakeInv'
    <3>1. \A u \in Thread : th[u] \in {"enqwake", "wake"} => th'[u] \in {"enqwake", "wake"}
      BY Zenon, <1>5, <2>2, <2>3 DEF BackEnqueue
    <3>2. \A u \in Thread : th'[u] \notin Locked
      BY Zenon, <2>2, <2>3 DEF Locked
    <3> QED
      BY Zenon, <2>1, <2>4, <3>1, <3>2 DEF BackInv, WakeInv
  <2> QED
    BY Zenon, <1>0, <2>1, <2>5, <2>6 DEF BackInv, FlagGuards
<1>6. ASSUME NEW t \in Thread, Wakeup(t) PROVE BackInv'
  <2>1. notified' /\ UNCHANGED <<main, back, lock>>
    BY Zenon, <1>6 DEF Wakeup
  <2>2. \A u \in Thread : th'[u] = IF u = t THEN "again" ELSE th[u]
    BY Zenon, <1>6 DEF Wakeup, BackInv, PacType
  <2>3. th[t] = "wake"
    BY Zenon, <1>6 DEF Wakeup
  <2> QED
    BY Zenon, <1>0, <2>1, <2>2, <2>3 DEF BackInv, LockInv, WakeInv, FlagGuards, Locked
<1>7. ASSUME NEW t \in Thread, pop_context(t) \/ push_context(t) PROVE BackInv'
  BY <1>0, <1>7 DEF pop_context, push_context, BackInv, LockInv, WakeInv, FlagGuards
<1>8. ASSUME EnterCallbacks PROVE BackInv'
  BY Zenon, <1>0, <1>8 DEF EnterCallbacks, BackInv, LockInv, WakeInv, FlagGuards
<1>9. ASSUME CallbacksTest PROVE BackInv'
  BY Zenon, <1>0, <1>9 DEF CallbacksTest, BackInv, LockInv, WakeInv, FlagGuards
<1>10. ASSUME CallbacksTake PROVE BackInv'
  BY Zenon, <1>0, <1>10, PoolAssumption DEF CallbacksTake, BackInv, LockInv, WakeInv, FlagGuards, Unlocked, Locked
<1>11. ASSUME CallbacksReset PROVE BackInv'
  BY Zenon, <1>0, <1>11, PoolAssumption DEF CallbacksReset, BackInv, LockInv, WakeInv, FlagGuards, Unlocked, Locked
<1>12. ASSUME CallbacksRun PROVE BackInv'
  BY Zenon, <1>0, <1>12 DEF CallbacksRun, BackInv, LockInv, WakeInv, FlagGuards
<1>13. ASSUME NEW c, threadpool_die(c) \/ DieWoken \/ threadpool_destroy PROVE BackInv'
  <2>1. main' = main \/ {main, main'} \cap {"test", "take", "reset"} = {}
    BY Zenon, <1>13 DEF threadpool_die, DieWoken, threadpool_destroy, DieLoop
  <2>2. UNCHANGED <<back, lock, notified>>
    BY Zenon, <1>13 DEF threadpool_die, DieWoken, threadpool_destroy
  <2>3. \A t \in Thread : th'[t] = th[t] \/ (th[t] = "wait" /\ th'[t] = "woken")
    BY Zenon, <1>13 DEF threadpool_die, DieWoken, threadpool_destroy, BackInv, PacType
  <2> QED
    BY Zenon, <1>0, <2>1, <2>2, <2>3, Nowhere DEF Locked
<1>14. ASSUME UNCHANGED pacVars PROVE BackInv'
  BY Zenon, <1>0, <1>14, Nowhere DEF pacVars
<1> QED
  BY <1>1, <1>2, <1>3, <1>4, <1>5, <1>6, <1>7, <1>8, <1>9, <1>10, <1>11, <1>12, <1>13, <1>14
     DEF PacStep, PacNext, Worker, Pool, ScheduleBack, MainLoop, MainStep

-----------------------------------------------------------------------------
(* The queue of work.                                                       *)

\* Work without a thread is work for which none could be made, and a pool that has
\* died has no threads.
QueueInv ==
  /\ QueueServed
  /\ threads = 0 => Range(scheduled) \subseteq refused
  /\ dead => threads = 0

\* The elements of a list that grows at its end.
LEMMA AppendSet ==
  ASSUME NEW S, NEW s \in Seq(S), NEW x \in S
  PROVE  Range(Append(s, x)) = Range(s) \cup {x}
<1>1. /\ DOMAIN Append(s, x) = 1 .. Len(s) + 1
      /\ \A i \in 1 .. Len(s) : Append(s, x)[i] = s[i]
      /\ Append(s, x)[Len(s) + 1] = x
      /\ DOMAIN s = 1 .. Len(s) /\ Len(s) \in Nat
  BY AppendProperties
<1>2. 1 .. Len(s) + 1 = (1 .. Len(s)) \cup {Len(s) + 1}
  BY <1>1
<1>3. ASSUME NEW y PROVE y \in Range(Append(s, x)) <=> y \in Range(s) \cup {x}
  <2>1. y \in Range(Append(s, x)) <=> \E i \in 1 .. Len(s) + 1 : y = Append(s, x)[i]
    BY Zenon, <1>1 DEF Range
  <2>2. y \in Range(s) <=> \E i \in 1 .. Len(s) : y = s[i]
    BY Zenon, <1>1 DEF Range
  <2> QED
    BY Zenon, <1>1, <1>2, <2>1, <2>2
<1> QED
  BY Zenon, <1>3

\* What the counters say of the threads.
LEMMA CountsSay ==
  ASSUME NEW f, NEW n, NEW m, n = Cardinality(Alive(f)), m = Cardinality(Idlers(f))
  PROVE  /\ n \in Nat /\ m \in Nat
         /\ n = 0 <=> \A t \in Thread : f[t] = "none"
         /\ m = 0 <=> \A t \in Thread : f[t] \notin {"wait", "woken"}
         /\ n >= maxthreads => n # 0
<1>1. n \in Nat /\ m \in Nat
  BY Zenon, CountFacts
<1>2. n = 0 <=> Alive(f) = {}
  BY Zenon, CountFacts
<1>3. m = 0 <=> Idlers(f) = {}
  BY Zenon, CountFacts
<1>4. maxthreads \in Nat /\ maxthreads # 0
  BY Zenon, PoolAssumption, FS_CardinalityType, FS_EmptySet DEF maxthreads
<1>5. n = 0 <=> \A t \in Thread : f[t] = "none"
  BY Zenon, <1>2 DEF Alive
<1>6. m = 0 <=> \A t \in Thread : f[t] \notin {"wait", "woken"}
  BY Zenon, <1>3 DEF Idlers
<1> QED
  BY <1>1, <1>4, <1>5, <1>6

\* Every step keeps the queue served.
LEMMA QueueStep ==
  ASSUME PacType, CountInv, QueueInv, PacStep
  PROVE  QueueInv'
<1> USE DEF mainLoop, history, counts, back, poolVars
<1>0. CountInv' /\ PacType'
  BY Zenon, CountStep, TypeStep
<1>1. /\ threads \in Nat /\ threads' \in Nat
      /\ threads = 0 <=> \A t \in Thread : th[t] = "none"
      /\ threads' = 0 <=> \A t \in Thread : th'[t] = "none"
      /\ idle = 0 <=> \A t \in Thread : th[t] \notin {"wait", "woken"}
      /\ threads >= maxthreads => threads # 0
  <2>1. threads' = Cardinality(Alive(th')) /\ idle' = Cardinality(Idlers(th'))
    BY Zenon, <1>0 DEF CountInv
  <2>2. threads = Cardinality(Alive(th)) /\ idle = Cardinality(Idlers(th))
    BY Zenon DEF CountInv
  <2> QED
    BY <2>1, <2>2, CountsSay
<1>2. ASSUME NEW t \in Thread, th'[t] \notin {"none", "wait"}, UNCHANGED dead, ~dead PROVE QueueInv'
  <2>1. threads' # 0 /\ ~dead'
    BY Zenon, <1>1, <1>2
  <2>2. QueueServed'
    BY Zenon, <1>2 DEF QueueServed
  <2> QED
    BY Zenon, <2>1, <2>2 DEF QueueInv
<1>3. ASSUME UNCHANGED <<scheduled, threads>>, refused \subseteq refused', dead' => dead \/ threads = 0,
             \A t \in Thread : th[t] \notin {"none", "wait"} => th'[t] \notin {"none", "wait"}
      PROVE  QueueInv'
  <2>1. QueueServed'
    BY Zenon, <1>3 DEF QueueInv, QueueServed
  <2> QED
    BY Zenon, <1>3, <2>1 DEF QueueInv
<1>4. ASSUME NEW t \in Thread, th[t] # "none", scheduled' = <<>>, UNCHANGED dead PROVE QueueInv'
  <2>1. ~dead'
    BY Zenon, <1>1, <1>4 DEF QueueInv
  <2>2. Range(scheduled') = {}
    BY <1>4 DEF Range
  <2> QED
    BY Zenon, <1>4, <2>1, <2>2 DEF QueueInv, QueueServed
<1>5. ASSUME NEW i \in Item, pac_find_proxy(i) PROVE QueueInv'
  <2>1. CASE ScheduleNoMemory(i)
    BY Zenon, <2>1, <1>3 DEF ScheduleNoMemory
  <2>2. CASE ScheduleSignal(i)
    <3>1. ~dead /\ UNCHANGED dead /\ idle # 0
      BY Zenon, <2>2 DEF ScheduleSignal, MaySchedule
    <3>2. CASE \E t \in Thread : th[t] = "wait"
      <4>1. PICK t \in Thread : th' = [th EXCEPT ![t] = "woken"]
        BY Zenon, <2>2, <3>2 DEF ScheduleSignal
      <4> QED
        BY Zenon, <1>2, <3>1, <4>1 DEF PacType
    <3>3. CASE ~\E t \in Thread : th[t] = "wait"
      <4>1. PICK t \in Thread : th[t] = "woken"
        BY Zenon, <1>1, <3>1, <3>3
      <4>2. th' = th
        BY Zenon, <2>2, <3>3 DEF ScheduleSignal
      <4> QED
        BY Zenon, <1>2, <3>1, <4>1, <4>2
    <3> QED
      BY Zenon, <3>2, <3>3
  <2>3. CASE ScheduleNewThread(i)
    <3>1. PICK t \in Thread : t = (CHOOSE u \in Thread : th[u] = "none")
      BY Zenon, <2>3, RoomForThread DEF ScheduleNewThread
    <3>2. th' = [th EXCEPT ![t] = "again"] /\ ~dead /\ UNCHANGED dead
      BY Zenon, <2>3, <3>1 DEF ScheduleNewThread, MaySchedule
    <3> QED
      BY Zenon, <1>2, <3>1, <3>2 DEF PacType
  <2>4. CASE ScheduleNoThread(i)
    <3>1. ~dead /\ UNCHANGED <<dead, th, threads>> /\ idle = 0 /\ scheduled' = Append(scheduled, i)
          /\ refused' = IF threads > 0 THEN refused ELSE refused \cup {i}
      BY Zenon, <2>4 DEF ScheduleNoThread, MaySchedule
    <3>2. CASE threads > 0
      <4>1. PICK t \in Thread : th[t] # "none"
        BY <1>1, <3>2
      <4> QED
        BY Zenon, <1>1, <1>2, <3>1, <4>1
    <3>3. CASE threads = 0
      <4>1. Range(scheduled') = Range(scheduled) \cup {i} /\ i \in refused'
        BY <1>5, <3>1, <3>3, AppendSet DEF PacType
      <4>2. Range(scheduled) \subseteq refused'
        BY Zenon, <3>1, <3>3 DEF QueueInv
      <4> QED
        BY Zenon, <3>1, <3>3, <4>1, <4>2 DEF QueueInv, QueueServed
    <3> QED
      BY <1>1, <3>2, <3>3
  <2>5. CASE ScheduleAllBusy(i)
    <3>1. ~dead /\ UNCHANGED <<dead, th>> /\ idle = 0 /\ threads >= maxthreads
      BY Zenon, <2>5 DEF ScheduleAllBusy, MaySchedule
    <3>2. PICK t \in Thread : th[t] # "none"
      BY Zenon, <1>1, <3>1
    <3> QED
      BY Zenon, <1>1, <1>2, <3>1, <3>2
  <2> QED
    BY Zenon, <1>5, <2>1, <2>2, <2>3, <2>4, <2>5 DEF pac_find_proxy, Pool, threadpool_schedule
<1>6. ASSUME NEW t \in Thread, Look(t) \/ Woken(t) PROVE QueueInv'
  <2>1. th[t] # "none" /\ UNCHANGED dead
    BY Zenon, <1>6 DEF Look, Woken
  <2>2. ~dead
    BY Zenon, <1>1, <2>1 DEF QueueInv
  <2>3. CASE Dequeue(t)
    <3>1. th' = [th EXCEPT ![t] = "run"]
      BY Zenon, <2>3 DEF Dequeue
    <3> QED
      BY Zenon, <1>2, <2>1, <2>2, <3>1 DEF PacType
  <2>4. CASE ~Dequeue(t)
    <3>1. scheduled' = <<>>
      BY Zenon, <1>6, <2>4 DEF Look, Woken, Die
    <3> QED
      BY Zenon, <1>4, <2>1, <3>1
  <2> QED
    BY Zenon, <2>3, <2>4
<1>7. ASSUME NEW t \in Thread,
             BackNoMemory(t) \/ BackSet(t) \/ BackEnqueue(t) \/ Wakeup(t) \/ Timeout(t)
      PROVE  QueueInv'
  <2>1. UNCHANGED <<scheduled, threads, refused, dead>>
    BY Zenon, <1>7 DEF BackNoMemory, BackSet, BackEnqueue, Wakeup, Timeout
  <2>2. \E x \in {"again", "enq", "enqwake", "wake", "woken"} : th' = [th EXCEPT ![t] = x]
    BY Zenon, <1>7 DEF BackNoMemory, BackSet, BackEnqueue, Wakeup, Timeout
  <2>3. \A u \in Thread : th[u] \notin {"none", "wait"} => th'[u] \notin {"none", "wait"}
    BY Zenon, <2>2 DEF PacType
  <2> QED
    BY Zenon, <1>3, <2>1, <2>3
<1>8. ASSUME NEW c, threadpool_die(c) PROVE QueueInv'
  <2>1. \A t \in Thread : th[t] \notin {"none", "wait"} => th'[t] \notin {"none", "wait"}
    BY Zenon, <1>8 DEF threadpool_die, PacType
  <2>2. UNCHANGED <<scheduled, threads, refused>> /\ (dead' => dead \/ threads = 0)
    BY Zenon, <1>8 DEF threadpool_die, DieLoop
  <2> QED
    BY Zenon, <1>3, <2>1, <2>2
<1>9. ASSUME MainLoop \/ threadpool_destroy \/ UNCHANGED pacVars PROVE QueueInv'
  <2>1. UNCHANGED <<scheduled, threads, refused, th>> /\ (dead' => dead \/ threads = 0)
    <3>1. CASE DieWoken
      BY Zenon, <3>1 DEF DieWoken, DieLoop
    <3>2. CASE threadpool_destroy
      BY Zenon, <3>2 DEF threadpool_destroy
    <3>3. CASE UNCHANGED pacVars
      BY Zenon, <3>3 DEF pacVars
    <3>4. CASE EnterCallbacks \/ CallbacksTest \/ CallbacksTake \/ CallbacksReset \/ CallbacksRun
      BY <3>4 DEF EnterCallbacks, CallbacksTest, CallbacksTake, CallbacksReset, CallbacksRun
    <3> QED
      BY Zenon, <1>9, <3>1, <3>2, <3>3, <3>4 DEF MainLoop, Pool, MainStep
  <2> QED
    BY Zenon, <1>3, <2>1
<1>10. ASSUME NEW t \in Thread, pop_context(t) \/ push_context(t) PROVE QueueInv'
  BY Zenon, <1>3, <1>10 DEF pop_context, push_context
<1> QED
  BY Zenon, <1>5, <1>6, <1>7, <1>8, <1>9, <1>10 DEF PacStep, PacNext, Worker, Pool, ScheduleBack

-----------------------------------------------------------------------------
(* The contexts.                                                            *)

\* Every context is in the table or with one thread, which runs find_proxy.
CtxInv ==
  /\ ctx \subseteq Ctx
  /\ held \in [Thread -> SUBSET Ctx]
  /\ step \in [Thread -> {"pop", "push", "back"}]
  /\ \A t \in Thread : step[t] # "pop" => th[t] = "run"
  /\ \A t \in Thread : step[t] # "push" => held[t] = {}
  /\ \A t \in Thread : \A c, d \in held[t] : c = d
  /\ \A c \in Ctx : c \in ctx \/ \E t \in Thread : c \in held[t]
  /\ \A t, u \in Thread : t # u => held[t] \cap held[u] = {}
  /\ \A t \in Thread : held[t] \cap ctx = {}

\* A thread without a context leaves one in the table: there are as many as threads.
LEMMA ContextLeft ==
  ASSUME CtxInv, NEW t \in Thread, step[t] = "pop"
  PROVE  ctx # {}
<1>0. \A c \in Ctx : c \in ctx \/ \E u \in Thread : c \in held[u]
  BY Zenon DEF CtxInv
<1> SUFFICES ASSUME ctx = {} PROVE FALSE
  BY Zenon
<1> DEFINE Others == Thread \ {t}
           holder == [c \in Ctx |-> CHOOSE u \in Thread : c \in held[u]]
<1>1. \A c \in Ctx : holder[c] \in Thread /\ c \in held[holder[c]]
  BY Zenon, <1>0
<1>2. held[t] = {}
  BY Zenon DEF CtxInv
<1>3. holder \in [Ctx -> Others]
  BY Zenon, <1>1, <1>2
<1>4. IsFiniteSet(Others) /\ Cardinality(Others) < Cardinality(Ctx)
  <2>1. IsFiniteSet(Others) /\ Cardinality(Others) = Cardinality(Thread) - 1
    BY Zenon, PoolAssumption, FS_RemoveElement
  <2>2. Cardinality(Thread) \in Nat /\ Cardinality(Ctx) = Cardinality(Thread)
    BY Zenon, PoolAssumption, PacAssumption, FS_CardinalityType
  <2> HIDE DEF Others, holder
  <2> QED
    BY <2>1, <2>2
<1>5. PICK c, d \in Ctx : c # d /\ holder[c] = holder[d]
  <2> HIDE DEF Others, holder
  <2> QED
    BY <1>3, <1>4, PacAssumption, FS_PigeonHole
<1> QED
  BY <1>1, <1>5 DEF CtxInv

\* Every step keeps every context in one place.
LEMMA CtxStep ==
  ASSUME PacType, CountInv, CtxInv, PacStep
  PROVE  CtxInv'
<1> USE DEF mainLoop, history, counts, back, poolVars
<1>1. ASSUME UNCHANGED <<ctx, held, step>>, \A t \in Thread : th[t] = "run" => th'[t] = "run"
      PROVE  CtxInv'
  BY <1>1 DEF CtxInv
<1>2. ASSUME NEW t \in Thread, pop_context(t) PROVE CtxInv'
  <2>1. PICK c \in ctx : ctx' = ctx \ {c} /\ held' = [held EXCEPT ![t] = {c}]
    BY Zenon, <1>2 DEF pop_context
  <2>2. step' = [step EXCEPT ![t] = "push"] /\ th' = th /\ th[t] = "run" /\ held[t] = {}
    BY Zenon, <1>2 DEF pop_context, CtxInv
  <2>3. \A u \in Thread : /\ held'[u] = IF u = t THEN {c} ELSE held[u]
                          /\ step'[u] = IF u = t THEN "push" ELSE step[u]
    BY <2>1, <2>2 DEF CtxInv
  <2>4. held' \in [Thread -> SUBSET Ctx] /\ step' \in [Thread -> {"pop", "push", "back"}] /\ ctx' \subseteq Ctx
    BY <2>1, <2>2 DEF CtxInv
  <2>5. \A d \in Ctx : d \in ctx' \/ \E u \in Thread : d \in held'[u]
    BY Zenon, <2>1, <2>2, <2>3 DEF CtxInv
  <2> QED
    BY <2>1, <2>2, <2>3, <2>4, <2>5 DEF CtxInv
<1>3. ASSUME NEW t \in Thread, push_context(t) PROVE CtxInv'
  <2>1. ctx' = ctx \cup held[t] /\ held' = [held EXCEPT ![t] = {}]
    BY Zenon, <1>3 DEF push_context
  <2>2. step' = [step EXCEPT ![t] = "back"] /\ th' = th /\ th[t] = "run"
    BY Zenon, <1>3 DEF push_context
  <2>3. \A u \in Thread : /\ held'[u] = IF u = t THEN {} ELSE held[u]
                          /\ step'[u] = IF u = t THEN "back" ELSE step[u]
    BY <2>1, <2>2 DEF CtxInv
  <2>4. held' \in [Thread -> SUBSET Ctx] /\ step' \in [Thread -> {"pop", "push", "back"}] /\ ctx' \subseteq Ctx
    BY Zenon, <2>1, <2>2 DEF CtxInv
  <2>5. \A d \in Ctx : d \in ctx' \/ \E u \in Thread : d \in held'[u]
    BY Zenon, <2>1, <2>3 DEF CtxInv
  <2> QED
    BY <2>1, <2>2, <2>3, <2>4, <2>5 DEF CtxInv
<1>4. ASSUME NEW t \in Thread, ScheduleBack(t) PROVE CtxInv'
  <2>1. step[t] = "back" /\ step' = [step EXCEPT ![t] = "pop"] /\ UNCHANGED <<ctx, held>>
    BY Zenon, <1>4 DEF ScheduleBack
  <2>2. \A u \in Thread : u # t => th'[u] = th[u]
    BY Zenon, <1>4 DEF ScheduleBack, BackNoMemory, BackSet, PacType
  <2>3. \A u \in Thread : step'[u] = IF u = t THEN "pop" ELSE step[u]
    BY <2>1 DEF CtxInv
  <2> QED
    BY <2>1, <2>2, <2>3 DEF CtxInv
<1>5. ASSUME NEW i \in Item, threadpool_schedule(i)
      PROVE \A t \in Thread : th[t] = "run" => th'[t] = "run"
  <2>1. CASE ScheduleNewThread(i)
    <3>1. PICK t \in Thread : t = (CHOOSE u \in Thread : th[u] = "none") /\ th[t] = "none"
      BY Zenon, <2>1, RoomForThread DEF ScheduleNewThread
    <3> QED
      BY Zenon, <2>1, <3>1 DEF ScheduleNewThread, PacType
  <2>2. CASE ScheduleSignal(i)
    BY Zenon, <2>2 DEF ScheduleSignal, PacType
  <2> QED
    BY Zenon, <1>5, <2>1, <2>2 DEF threadpool_schedule, ScheduleNoMemory, ScheduleNoThread, ScheduleAllBusy
<1>6. ASSUME NEW t \in Thread, Look(t) \/ Woken(t) \/ BackEnqueue(t) \/ Wakeup(t) \/ Timeout(t)
      PROVE \A u \in Thread : th[u] = "run" => th'[u] = "run"
  BY Zenon, <1>6 DEF Look, Woken, Dequeue, Die, BackEnqueue, Wakeup, Timeout, PacType
<1>7. ASSUME NEW c, threadpool_die(c)
      PROVE \A u \in Thread : th[u] = "run" => th'[u] = "run"
  BY Zenon, <1>7 DEF threadpool_die, PacType
<1>8. ASSUME EnterCallbacks \/ MainStep \/ threadpool_destroy \/ UNCHANGED pacVars PROVE UNCHANGED th
  BY Zenon, <1>8 DEF EnterCallbacks, MainStep, CallbacksTest, CallbacksTake, CallbacksReset,
              CallbacksRun, DieWoken, threadpool_destroy, pacVars
<1>9. UNCHANGED pacVars => UNCHANGED <<ctx, held, step>>
  BY Zenon DEF pacVars
<1> QED
  BY Zenon, <1>1, <1>2, <1>3, <1>4, <1>5, <1>6, <1>7, <1>8, <1>9
     DEF PacStep, PacNext, pac_find_proxy, Worker, Pool, MainLoop

-----------------------------------------------------------------------------
(* The inductive invariant and the theorems.                                *)

PacInv == BackInv /\ CountInv /\ QueueInv /\ CtxInv

\* The pool before pac_init.
LEMMA InitInv == PacInit => PacInv
<1> SUFFICES ASSUME PacInit PROVE PacInv
  BY Zenon
<1> USE DEF PacInit, PoolInit
<1>1. PacType
  BY Zenon, EmptySeq DEF PacType, Where, MainAt
<1>2. LockInv /\ WakeInv /\ FlagGuards
  BY Zenon, PoolAssumption DEF LockInv, WakeInv, FlagGuards, Locked, Unlocked
<1>3. CountInv
  <2>1. Alive(th) = {} /\ Idlers(th) = {}
    BY Zenon DEF Alive, Idlers
  <2> QED
    BY Zenon, <2>1, FS_EmptySet DEF CountInv
<1>4. QueueInv
  <2>1. Range(scheduled) = {}
    BY DEF Range
  <2> QED
    BY Zenon, <2>1 DEF QueueInv, QueueServed
<1>5. CtxInv
  BY Zenon DEF CtxInv
<1> QED
  BY Zenon, <1>1, <1>2, <1>3, <1>4, <1>5 DEF PacInv, BackInv

\* Every step of a worker, of the main loop and of the callers.
LEMMA StepInv == PacInv /\ [PacNext]_pacVars => PacInv'
  BY Zenon, BackStep, CountStep, QueueStep, CtxStep DEF PacInv, BackInv, PacStep

\* The invariant holds in every state of the pool.
THEOREM InvHolds == PacSpec => []PacInv
  BY InitInv, StepInv, PTL DEF PacSpec

\* A false have_scheduled_back means an empty callback queue, so that the test of
\* threadpool_run_callbacks without the mutex loses nothing (threadpool.c:118).
THEOREM FlagGuardsAlways == PacSpec => []FlagGuards
<1>1. PacInv => FlagGuards
  BY Zenon DEF PacInv, BackInv
<1> QED
  BY <1>1, InvHolds, PTL

\* No interleaving of threadpool_schedule_back with threadpool_run_callbacks leaves a
\* callback in the queue that nobody has been or will be woken for.
THEOREM WakeupNeverLost == PacSpec => []WakeupNotLost
<1>1. PacInv => WakeupNotLost
  BY Zenon DEF PacInv, BackInv, WakeInv, FlagGuards, PacType, WakeupNotLost
<1> QED
  BY <1>1, InvHolds, PTL

\* Queued work always has a thread that will look at the queue, unless no thread could
\* be made for it.
THEOREM QueueAlwaysServed == PacSpec => []QueueServed
<1>1. PacInv => QueueServed
  BY Zenon DEF PacInv, QueueInv
<1> QED
  BY <1>1, InvHolds, PTL

\* The assertion of pop_context never fails, and no two threads share a context.
THEOREM ContextsAlwaysSuffice == PacSpec => []ContextsSuffice
<1>1. PacInv => ContextsSuffice
  BY Zenon, ContextLeft DEF PacInv, CtxInv, ContextsSuffice
<1> QED
  BY <1>1, InvHolds, PTL

\* When threadpool_die has returned true, no thread is left and nothing is queued that
\* was not refused.
THEOREM DeadAlwaysEmpty == PacSpec => []DeadIsEmpty
<1>1. PacInv => DeadIsEmpty
  BY Zenon DEF PacInv, QueueInv, DeadIsEmpty
<1> QED
  BY <1>1, InvHolds, PTL

=============================================================================
