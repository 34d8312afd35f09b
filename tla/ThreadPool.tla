----------------------------- MODULE ThreadPool -----------------------------
(***************************************************************************)
(* The thread pool of the proxy-autoconfiguration library                   *)
(* (zedpac/threadpool.c): callers schedule work, worker threads run it and  *)
(* hand an answer back, and the main loop of the owner runs the answers and *)
(* at the end lets the pool die.                                            *)
(*                                                                          *)
(* A step is what one thread does from taking the mutex to releasing it.    *)
(* Two critical sections are split, with the mutex held in between, because *)
(* threadpool_run_callbacks reads have_scheduled_back without the mutex.    *)
(***************************************************************************)
EXTENDS Naturals, Sequences, FiniteSets, Functions

CONSTANTS
  Thread,      \* room for maxthreads threads
  Item,        \* the pieces of work
  MaxFailures  \* bound: pthread_create and malloc calls that fail

ASSUME PoolAssumption ==
  /\ IsFiniteSet(Thread) /\ Thread # {} /\ Thread \cap {"free", "main"} = {}
  /\ 0 \notin Item
  /\ MaxFailures \in Nat

VARIABLES
  th,              \* where a thread of thread_main is; "none": there is no such thread
  item,            \* the item it has dequeued
  threads, idle, scheduled, scheduled_back, dying, have_scheduled_back,
  lock,            \* who is inside a split critical section
  main,            \* where the main loop is
  items,           \* the callbacks threadpool_run_callbacks has taken
  notified,        \* wakeup was called and the main loop has not reacted yet
  dead,            \* threadpool_die has returned true
  refused,         \* items for which threadpool_schedule returned -1
  answered,        \* items whose callback has run
  unanswered,      \* items whose threadpool_schedule_back failed
  failures

counts   == <<threads, idle>>
back     == <<scheduled_back, have_scheduled_back>>
mainLoop == <<main, items, notified, dead>>
history  == <<refused, answered, unanswered, failures>>
poolVars == <<th, item, counts, scheduled, back, dying, lock, mainLoop, history>>

NoItem == 0
Unlocked   == "free"
maxthreads == Cardinality(Thread)

Where == {"none", "again", "wait", "woken", "run", "enq", "enqwake", "wake"}
MainAt == {"loop", "test", "take", "reset", "calls", "diewait", "diewoken", "gone"}

PoolInit ==
  /\ th = [t \in Thread |-> "none"]
  /\ item = [t \in Thread |-> NoItem]
  /\ threads = 0 /\ idle = 0
  /\ scheduled = <<>> /\ scheduled_back = <<>>
  /\ dying = FALSE /\ have_scheduled_back = FALSE
  /\ lock = Unlocked
  /\ main = "loop" /\ items = <<>> /\ notified = FALSE /\ dead = FALSE
  /\ refused = {} /\ answered = {} /\ unanswered = {}
  /\ failures = 0

----------------------------------------------------------------------------
(* threadpool_schedule, called by any thread.                               *)

Fails == failures < MaxFailures /\ failures' = failures + 1

\* The pieces of work not scheduled yet.
NewWork ==
  Item \ (refused \cup answered \cup unanswered \cup Range(scheduled) \cup Range(scheduled_back)
          \cup Range(items) \cup {item[t] : t \in Thread})

\* Work is scheduled once, and not on a pool its owner has seen dead; one piece of work
\* is as good as another.
MaySchedule(i) ==
  /\ lock = Unlocked
  /\ main # "gone" /\ ~dead
  /\ NewWork # {} /\ i = CHOOSE j \in NewWork : TRUE

\* threadpool_item_alloc returns NULL.
ScheduleNoMemory(i) ==
  /\ MaySchedule(i)
  /\ Fails
  /\ refused' = refused \cup {i}
  /\ UNCHANGED <<th, item, counts, scheduled, back, dying, lock, mainLoop, answered, unanswered>>

ScheduleSignalNoSignal(i) ==
  /\ MaySchedule(i)
  /\ idle # 0
  /\ scheduled' = Append(scheduled, i)
  /\ UNCHANGED <<th, item, counts, back, dying, lock, mainLoop, history>>

\* Some thread is idle, waiting on cond or woken already: signal one that waits, if any.
ScheduleSignal(i) ==
  /\ MaySchedule(i)
  /\ idle # 0
  /\ scheduled' = Append(scheduled, i)
  /\ LET waiting == {t \in Thread : th[t] = "wait"}
     IN  IF waiting = {} THEN th' = th
         ELSE \E t \in waiting : th' = [th EXCEPT ![t] = "woken"]
  /\ UNCHANGED <<item, counts, back, dying, lock, mainLoop, history>>

\* threadpool_new_thread succeeds.
ScheduleNewThread(i) ==
  /\ MaySchedule(i)
  /\ idle = 0 /\ threads < maxthreads
  /\ scheduled' = Append(scheduled, i)
  /\ th' = [th EXCEPT ![CHOOSE t \in Thread : th[t] = "none"] = "again"]
  /\ threads' = threads + 1
  /\ UNCHANGED <<item, idle, back, dying, lock, mainLoop, history>>

\* pthread_create fails: "we'll recover" if there is a thread, -1 if there is none; the
\* item stays in the queue.
ScheduleNoThread(i) ==
  /\ MaySchedule(i)
  /\ idle = 0 /\ threads < maxthreads
  /\ Fails
  /\ scheduled' = Append(scheduled, i)
  /\ refused' = IF threads > 0 THEN refused ELSE refused \cup {i}
  /\ UNCHANGED <<th, item, counts, back, dying, lock, mainLoop, answered, unanswered>>

ScheduleAllBusy(i) ==
  /\ MaySchedule(i)
  /\ idle = 0 /\ threads >= maxthreads
  /\ scheduled' = Append(scheduled, i)
  /\ UNCHANGED <<th, item, counts, back, dying, lock, mainLoop, history>>

threadpool_schedule(i) ==
  \/ ScheduleNoMemory(i) \/ ScheduleSignal(i) \/ ScheduleNewThread(i)
  \/ ScheduleNoThread(i) \/ ScheduleAllBusy(i)

----------------------------------------------------------------------------
(* thread_main.                                                             *)

DieNoBroadcast(t) ==
  /\ th' = [th EXCEPT ![t] = "none"]
  /\ threads' = threads - 1
  /\ UNCHANGED <<item, scheduled, main>>

\* The label die: the thread ends, and threadpool_die is signalled if it waits.
Die(t) ==
  /\ th' = [th EXCEPT ![t] = "none"]
  /\ threads' = threads - 1
  /\ main' = IF main = "diewait" THEN "diewoken" ELSE main
  /\ UNCHANGED <<item, scheduled>>

Dequeue(t) ==
  /\ scheduled # <<>>
  /\ th' = [th EXCEPT ![t] = "run"]
  /\ item' = [item EXCEPT ![t] = Head(scheduled)]
  /\ scheduled' = Tail(scheduled)
  /\ UNCHANGED <<threads, main>>

\* The label again, up to the wait or to the unlock.
Look(t) ==
  /\ th[t] = "again" /\ lock = Unlocked
  /\ \/ Dequeue(t) /\ idle' = idle
     \/ scheduled = <<>> /\ (dying \/ idle >= 2) /\ Die(t) /\ idle' = idle
     \/ /\ scheduled = <<>> /\ ~dying /\ idle < 2
        /\ th' = [th EXCEPT ![t] = "wait"]
        /\ idle' = idle + 1
        /\ UNCHANGED <<item, threads, scheduled, main>>
  /\ UNCHANGED <<back, dying, lock, items, notified, dead, history>>

\* The second of pthread_cond_timedwait is over, or it returns for no reason.
Timeout(t) ==
  /\ th[t] = "wait"
  /\ th' = [th EXCEPT ![t] = "woken"]
  /\ UNCHANGED <<item, counts, scheduled, back, dying, lock, mainLoop, history>>

\* The thread has the mutex again after the wait.
Woken(t) ==
  /\ th[t] = "woken" /\ lock = Unlocked
  /\ idle' = idle - 1
  /\ \/ Dequeue(t)
     \/ scheduled = <<>> /\ Die(t)
  /\ UNCHANGED <<back, dying, lock, items, notified, dead, history>>

----------------------------------------------------------------------------
(* threadpool_schedule_back, called by the work a thread runs, as its last  *)
(* act; then the thread starts again.                                       *)

BackNoMemory(t) ==
  /\ th[t] = "run"
  /\ Fails
  /\ unanswered' = unanswered \cup {item[t]}
  /\ th' = [th EXCEPT ![t] = "again"]
  /\ item' = [item EXCEPT ![t] = NoItem]
  /\ UNCHANGED <<counts, scheduled, back, dying, lock, mainLoop, refused, answered>>

BackSet(t) ==
  /\ th[t] = "run" /\ lock = Unlocked
  /\ lock' = t
  /\ th' = [th EXCEPT ![t] = IF have_scheduled_back THEN "enq" ELSE "enqwake"]
  /\ have_scheduled_back' = TRUE
  /\ UNCHANGED <<item, counts, scheduled, scheduled_back, dying, mainLoop, history>>

BackEnqueue(t) ==
  /\ th[t] \in {"enq", "enqwake"}
  /\ lock' = Unlocked
  /\ scheduled_back' = Append(scheduled_back, item[t])
  /\ item' = [item EXCEPT ![t] = NoItem]
  /\ th' = [th EXCEPT ![t] = IF th[t] = "enqwake" THEN "wake" ELSE "again"]
  /\ UNCHANGED <<counts, scheduled, have_scheduled_back, dying, mainLoop, history>>

WakeupNotCalled(t) ==
  /\ th[t] = "wake"
  /\ th' = [th EXCEPT ![t] = "again"]
  /\ UNCHANGED <<item, counts, scheduled, back, dying, lock, mainLoop, history>>

\* The call of wakeup, after the unlock.
Wakeup(t) ==
  /\ th[t] = "wake"
  /\ notified' = TRUE
  /\ th' = [th EXCEPT ![t] = "again"]
  /\ UNCHANGED <<item, counts, scheduled, back, dying, lock, main, items, dead, history>>

----------------------------------------------------------------------------
(* The owner's main loop.                                                   *)

\* It reacts to the notification.
EnterCallbacks ==
  /\ main = "loop" /\ notified
  /\ main' = "test"
  /\ notified' = FALSE
  /\ UNCHANGED <<th, item, counts, scheduled, back, dying, lock, items, dead, history>>

\* The test of the flag without the mutex.
CallbacksTest ==
  /\ main = "test"
  /\ main' = IF have_scheduled_back THEN "take" ELSE "loop"
  /\ UNCHANGED <<th, item, counts, scheduled, back, dying, lock, items, notified, dead, history>>

CallbacksTake ==
  /\ main = "take" /\ lock = Unlocked
  /\ lock' = "main" /\ main' = "reset"
  /\ items' = scheduled_back
  /\ scheduled_back' = <<>>
  /\ UNCHANGED <<th, item, counts, scheduled, have_scheduled_back, dying, notified, dead, history>>

CallbacksResetMissing ==
  /\ main = "reset"
  /\ lock' = Unlocked /\ main' = "calls"
  /\ UNCHANGED <<th, item, counts, scheduled, back, dying, items, notified, dead, history>>

CallbacksReset ==
  /\ main = "reset"
  /\ lock' = Unlocked /\ main' = "calls"
  /\ have_scheduled_back' = FALSE
  /\ UNCHANGED <<th, item, counts, scheduled, scheduled_back, dying, items, notified, dead, history>>

CallbacksRun ==
  /\ main = "calls"
  /\ IF items = <<>> THEN main' = "loop" /\ UNCHANGED <<items, answered>>
     ELSE /\ answered' = answered \cup {Head(items)}
          /\ items' = Tail(items)
          /\ main' = main
  /\ UNCHANGED <<th, item, counts, scheduled, back, dying, lock, notified, dead, refused,
                 unanswered, failures>>

\* The loop of threadpool_die: it returns with whether no thread is left, or waits.
DieLoop(canblock) ==
  IF threads > 0 /\ scheduled_back = <<>> /\ canblock
  THEN main' = "diewait" /\ dead' = dead
  ELSE main' = "loop" /\ dead' = (threads = 0)

threadpool_die(canblock) ==
  /\ main = "loop" /\ lock = Unlocked
  /\ dying' = TRUE
  /\ th' = [t \in Thread |-> IF th[t] = "wait" THEN "woken" ELSE th[t]]
  /\ DieLoop(canblock)
  /\ UNCHANGED <<item, counts, scheduled, back, lock, items, notified, history>>

\* The owner has the mutex again after a thread has died.
DieWoken ==
  /\ main = "diewoken" /\ lock = Unlocked
  /\ DieLoop(TRUE)
  /\ UNCHANGED <<th, item, counts, scheduled, back, dying, lock, items, notified, history>>

\* Called after threadpool_die has returned true; it returns -1 and does nothing unless
\* no thread is left and both queues are empty.
threadpool_destroy ==
  /\ main = "loop" /\ lock = Unlocked /\ dead
  /\ threads = 0 /\ scheduled = <<>> /\ scheduled_back = <<>>
  /\ main' = "gone"
  /\ UNCHANGED <<th, item, counts, scheduled, back, dying, lock, items, notified, dead, history>>

MainStep ==
  \/ CallbacksTest \/ CallbacksTake \/ CallbacksReset \/ CallbacksRun \/ DieWoken

=============================================================================
