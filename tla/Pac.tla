-------------------------------- MODULE Pac --------------------------------
(***************************************************************************)
(* Asynchronous proxy lookups (zedpac/pac.c) on the thread pool: an item is *)
(* the struct proxy_args of one pac_find_proxy, the work of a thread is     *)
(* _pac_find_proxy, which borrows one of the n_threads JavaScript contexts, *)
(* and the callback is main_result.  What a context computes is left out:   *)
(* that no two threads use one at a time is what matters.                   *)
(***************************************************************************)
EXTENDS ThreadPool

CONSTANT
  Ctx          \* the JavaScript contexts pac_init allocates, one per thread

ASSUME PacAssumption ==
  IsFiniteSet(Ctx) /\ Cardinality(Ctx) = Cardinality(Thread)

VARIABLES
  ctx,         \* the contexts in the table, those not lent
  held,        \* the contexts a thread holds: one or none
  step         \* where a thread is in _pac_find_proxy

pacVars == <<poolVars, ctx, held, step>>

PacInit ==
  /\ PoolInit
  /\ ctx = Ctx
  /\ held = [t \in Thread |-> {}]
  /\ step = [t \in Thread |-> "pop"]

\* pop_context; without a context in the table its assertion fails and nothing goes on.
pop_context(t) ==
  /\ th[t] = "run" /\ step[t] = "pop"
  /\ ctx # {}
  /\ LET c == CHOOSE c \in ctx : TRUE
     IN  ctx' = ctx \ {c} /\ held' = [held EXCEPT ![t] = {c}]
  /\ step' = [step EXCEPT ![t] = "push"]
  /\ UNCHANGED poolVars

\* find_proxy has returned; push_context.
push_context(t) ==
  /\ th[t] = "run" /\ step[t] = "push"
  /\ ctx' = ctx \cup held[t]
  /\ held' = [held EXCEPT ![t] = {}]
  /\ step' = [step EXCEPT ![t] = "back"]
  /\ UNCHANGED poolVars

\* The last call of _pac_find_proxy; its result is not looked at.
ScheduleBack(t) ==
  /\ step[t] = "back"
  /\ BackNoMemory(t) \/ BackSet(t)
  /\ step' = [step EXCEPT ![t] = "pop"]
  /\ UNCHANGED <<ctx, held>>

\* Steps of the pool that leave the contexts alone.
Pool(A) == A /\ UNCHANGED <<ctx, held, step>>

Worker(t) ==
  \/ pop_context(t) \/ push_context(t) \/ ScheduleBack(t)
  \/ Pool(Look(t) \/ Woken(t) \/ BackEnqueue(t) \/ Wakeup(t))

pac_find_proxy(i) == Pool(threadpool_schedule(i))

MainLoop == Pool(EnterCallbacks \/ MainStep)

PacNext ==
  \/ \E i \in Item : pac_find_proxy(i)
  \/ \E t \in Thread : Worker(t) \/ Pool(Timeout(t))
  \/ MainLoop \/ Pool(threadpool_destroy)
  \/ \E canblock \in BOOLEAN : Pool(threadpool_die(canblock))

\* Threads and the main loop run, the mutex is handed out again and again to those
\* that ask for it, and the main loop calls threadpool_run_callbacks in a timely
\* manner after wakeup, as threadpool.h asks of it.  Nothing is assumed of Timeout.
PacFairness ==
  /\ \A t \in Thread : SF_pacVars(Worker(t))
  /\ SF_pacVars(MainLoop)

PacSpec == PacInit /\ [][PacNext]_pacVars /\ PacFairness

----------------------------------------------------------------------------
\* The values of the variables.
PacTypeOK ==
  /\ th \in [Thread -> Where] /\ item \in [Thread -> Item \cup {NoItem}]
  /\ threads \in 0..maxthreads /\ idle \in 0..maxthreads
  /\ scheduled \in Seq(Item) /\ scheduled_back \in Seq(Item) /\ items \in Seq(Item)
  /\ dying \in BOOLEAN /\ have_scheduled_back \in BOOLEAN
  /\ lock \in Thread \cup {Unlocked, "main"}
  /\ main \in MainAt /\ notified \in BOOLEAN /\ dead \in BOOLEAN
  /\ refused \subseteq Item /\ answered \subseteq Item /\ unanswered \subseteq Item
  /\ failures \in 0..MaxFailures
  /\ ctx \subseteq Ctx /\ held \in [Thread -> SUBSET Ctx]
  /\ step \in [Thread -> {"pop", "push", "back"}]

\* "If this is false, we are guaranteed that scheduled_back is empty": the test
\* of threadpool_run_callbacks without the mutex never skips a queued callback
\* (threadpool.c:118).
FlagGuards == ~have_scheduled_back => scheduled_back = <<>>

\* While callbacks are queued, the main loop has been notified, is about to take
\* them, or some thread is about to call wakeup: the wake flag of
\* threadpool_schedule_back, computed under the mutex and used after it, never
\* leaves a callback behind.
WakeupNotLost ==
  scheduled_back # <<>> =>
    \/ notified
    \/ main \in {"test", "take"}
    \/ \E t \in Thread : th[t] \in {"enqwake", "wake"}

\* While work is queued, some thread is running or woken and will look at the
\* queue before it ends or waits: no work depends on the one-second timeout of
\* an idle thread.  The exception is work for which no thread could be made.
QueueServed ==
  scheduled # <<>> =>
    \/ \E t \in Thread : th[t] \notin {"none", "wait"}
    \/ refused \cap Range(scheduled) # {}

\* A thread that runs _pac_find_proxy finds a context in the table, so the
\* assertion of pop_context does not fail, and no two threads have the same one.
ContextsSuffice ==
  /\ \A t \in Thread : th[t] = "run" /\ step[t] = "pop" => ctx # {}
  /\ \A t, u \in Thread : t # u => held[t] \cap held[u] = {}
  /\ \A t \in Thread : held[t] \cap ctx = {}

\* Once threadpool_die has returned true, no thread is left and no work is
\* queued, so that threadpool_destroy succeeds as soon as the callbacks are run;
\* the exception is again work for which no thread could be made.
DeadIsEmpty ==
  dead => threads = 0 /\ Range(scheduled) \subseteq refused

\* Every lookup that pac_find_proxy accepts is answered by its callback, unless
\* the answer could not be allocated.
LookupAnswered ==
  \A i \in Item :
    i \in Range(scheduled) \ refused ~> i \in answered \cup unanswered

\* A blocking threadpool_die returns: some thread dies, or callbacks are queued and
\* a thread dies after them.
DieReturns == main = "diewait" ~> main = "loop"
=============================================================================
