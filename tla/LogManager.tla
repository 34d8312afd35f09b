----------------------------- MODULE LogManager -----------------------------
(***************************************************************************)
(* logmanager (cmd/logmanager/logmanager.go): one processEvents goroutine   *)
(* per image reads the lines of its log files, bundles them and sends the   *)
(* bundles; the main goroutine retries the deferred ones. Both work on the  *)
(* deferred queue without a lock. Time counts log lines. The line that      *)
(* announces a new file and the filter on levels are left out.              *)
(***************************************************************************)
EXTENDS Deferred

CONSTANTS
  Source,       \* log files
  ImageOf,      \* [Source -> Key]: the image under which a file is reported
  LogMax,       \* logMaxMessages: lines in a bundle
  MaxLines,     \* bound: lines in all files together
  MaxBufs,      \* bound: bundles sent
  MaxCrash      \* bound: restarts of the process

ASSUME LogAssumption ==
  /\ ImageOf \in [Source -> Key] /\ Buf = 1..MaxBufs
  /\ LogMax \in Nat \ {0} /\ MaxLines \in Nat /\ MaxCrash \in Nat

VARIABLES
  log,       \* [Source -> Seq(Nat)]: the time of every line
  pos,       \* [Source -> Nat]: lines read
  bundle,    \* [Key -> Seq(Line)]: reportLogs
  pc, mine,  \* processEvents of an image: its step, its buffer (0: none)
  l,         \* [Key -> Seq(Buf)]: addDeferred's copy of the list
  deferInprogress, globalDeferInprogress,
  lastSent,  \* [Key -> Nat]: time of the file that recordLast touches
  prevLastSent,
  content,   \* what every buffer made so far holds
  since,     \* history: length of received when the process started
  crashes

logVars == <<log, pos, bundle, pc, mine, l, deferInprogress, globalDeferInprogress,
             lastSent, prevLastSent, content, since, crashes>>
vars == <<deferredVars, logVars>>

Line == Source \X (1..MaxLines)
clock == MapThenSumSet(LAMBDA s : Len(log[s]), Source) + 1

TypeOK ==
  /\ DeferredTypeOK
  /\ log \in [Source -> Seq(1..MaxLines)] /\ pos \in [Source -> 0..MaxLines]
  /\ bundle \in [Key -> Seq(Line)] /\ \A k \in Key : Len(bundle[k]) <= LogMax
  /\ pc \in [Key -> {"select", "check", "send", "record", "add", "store"}]
  /\ mine \in [Key -> Buf \cup {0}] /\ l \in [Key -> Seq(Buf)]
  /\ deferInprogress \in [Key -> BOOLEAN] /\ globalDeferInprogress \in BOOLEAN
  /\ lastSent \in [Key -> 0..MaxLines + 1] /\ prevLastSent \in [Key -> 0..MaxLines + 1]
  /\ content \in Seq(Seq(Line))
  /\ crashes \in 0..MaxCrash

Init ==
  /\ DeferredInit
  /\ log = [s \in Source |-> <<>>] /\ pos = [s \in Source |-> 0]
  /\ bundle = [k \in Key |-> <<>>]
  /\ pc = [k \in Key |-> "select"] /\ mine = [k \in Key |-> 0]
  /\ l = [k \in Key |-> <<>>]
  /\ deferInprogress = [k \in Key |-> FALSE] /\ globalDeferInprogress = FALSE
  /\ lastSent = [k \in Key |-> 0] /\ prevLastSent = [k \in Key |-> 0]
  /\ content = <<>> /\ since = 0 /\ crashes = 0

\* An agent or an app writes a line.
WriteLine(s) ==
  /\ clock <= MaxLines
  /\ log' = [log EXCEPT ![s] = Append(@, clock)]
  /\ UNCHANGED <<deferredVars, pos, bundle, pc, mine, l, deferInprogress,
                 globalDeferInprogress, lastSent, prevLastSent, content, since, crashes>>
-----------------------------------------------------------------------------
(* processEvents                                                            *)

\* sendProtoStrForLogs makes the buffer; the bundle is empty after the call.
MakeBuffer(k, lines) ==
  /\ Len(content) < MaxBufs
  /\ content' = Append(content, lines)
  /\ mine' = [mine EXCEPT ![k] = Len(content) + 1]
  /\ bundle' = [bundle EXCEPT ![k] = <<>>]
  /\ pc' = [pc EXCEPT ![k] = "check"]

\* A line read from a file; older than the last send before the restart: dropped.
ReadEvent(s) ==
  LET k == ImageOf[s]
      n == pos[s] + 1
      lines == Append(bundle[k], <<s, n>>)
  IN  /\ pc[k] = "select" /\ ~deferInprogress[k]
      /\ n <= Len(log[s])
      /\ pos' = [pos EXCEPT ![s] = n]
      /\ \/ /\ log[s][n] < prevLastSent[k]
            /\ UNCHANGED <<bundle, content, mine, pc>>
         \/ /\ log[s][n] >= prevLastSent[k]
            /\ IF Len(lines) < LogMax
                 THEN bundle' = [bundle EXCEPT ![k] = lines]
                      /\ UNCHANGED <<content, mine, pc>>
                 ELSE MakeBuffer(k, lines)
      /\ UNCHANGED <<deferredVars, log, l, deferInprogress, globalDeferInprogress,
                     lastSent, prevLastSent, since, crashes>>

\* The flush timer
Flush(k) ==
  /\ pc[k] = "select" /\ ~deferInprogress[k] /\ bundle[k] # <<>>
  /\ MakeBuffer(k, bundle[k])
  /\ UNCHANGED <<deferredVars, log, pos, l, deferInprogress, globalDeferInprogress,
                 lastSent, prevLastSent, since, crashes>>

\* Mutant: a bundle is sent at once although older ones of its image are deferred.
CheckDeferredNever(k) ==
  /\ pc[k] = "check"
  /\ pc' = [pc EXCEPT ![k] = "send"]
  /\ UNCHANGED <<deferredVars, log, pos, bundle, mine, l, deferInprogress,
                 globalDeferInprogress, lastSent, prevLastSent, content, since, crashes>>

\* Queue behind what is already deferred for the image, otherwise send.
CheckDeferred(k) ==
  /\ pc[k] = "check"
  /\ pc' = [pc EXCEPT ![k] = IF hasDeferred(k) THEN "add" ELSE "send"]
  /\ UNCHANGED <<deferredVars, log, pos, bundle, mine, l, deferInprogress,
                 globalDeferInprogress, lastSent, prevLastSent, content, since, crashes>>

\* The send; a 400 counts as success.
SendBundle(k, o) ==
  /\ pc[k] = "send"
  /\ Sent(mine[k], o)
  /\ pc' = [pc EXCEPT ![k] = IF o.result = "error" THEN "add" ELSE "record"]
  /\ mine' = [mine EXCEPT ![k] = IF o.result = "error" THEN @ ELSE 0]
  /\ UNCHANGED <<deferredItems, timer, hd, log, pos, bundle, l, deferInprogress,
                 globalDeferInprogress, lastSent, prevLastSent, content,
                 since, crashes>>

\* recordLast notes the present time, not that of the newest line sent.
RecordLast(k) ==
  /\ pc[k] = "record"
  /\ lastSent' = [lastSent EXCEPT ![k] = clock]
  /\ pc' = [pc EXCEPT ![k] = "select"]
  /\ UNCHANGED <<deferredVars, log, pos, bundle, mine, l, deferInprogress,
                 globalDeferInprogress, prevLastSent, content, since, crashes>>

\* addDeferred: start the timer for an empty map and fetch the list of the image ...
AddDeferred(k) ==
  /\ pc[k] = "add"
  /\ timer' = IF Keys = {} THEN "short" ELSE timer
  /\ l' = [l EXCEPT ![k] = deferredItems[k]]
  /\ pc' = [pc EXCEPT ![k] = "store"]
  /\ UNCHANGED <<deferredItems, drained, received, hd, log, pos, bundle, mine,
                 deferInprogress, globalDeferInprogress, lastSent, prevLastSent,
                 content, since, crashes>>

\* ... and store it with the buffer at its end; processEvents goes to sleep.
StoreDeferred(k) ==
  /\ pc[k] = "store"
  /\ deferredItems' = [deferredItems EXCEPT ![k] = Append(l[k], mine[k])]
  /\ pc' = [pc EXCEPT ![k] = "select"]
  /\ mine' = [mine EXCEPT ![k] = 0] /\ l' = [l EXCEPT ![k] = <<>>]
  /\ deferInprogress' = [deferInprogress EXCEPT ![k] = TRUE]
  /\ UNCHANGED <<timer, drained, received, hd, log, pos, bundle,
                 globalDeferInprogress, lastSent, prevLastSent, content, since, crashes>>

\* After two minutes, unless the main goroutine says that a retry failed.
Wake(k) ==
  /\ deferInprogress[k] /\ ~globalDeferInprogress
  /\ deferInprogress' = [deferInprogress EXCEPT ![k] = FALSE]
  /\ UNCHANGED <<deferredVars, log, pos, bundle, pc, mine, l, globalDeferInprogress,
                 lastSent, prevLastSent, content, since, crashes>>
-----------------------------------------------------------------------------
\* The main goroutine: handleDeferred, and globalDeferInprogress when it returns.
Main ==
  /\ HandleDeferred \/ handleDeferredStep
  /\ globalDeferInprogress' = IF hd # NotHandling /\ hd' = NotHandling THEN Keys # {}
                                                         ELSE globalDeferInprogress
  /\ UNCHANGED <<log, pos, bundle, pc, mine, l, deferInprogress, lastSent,
                 prevLastSent, content, since, crashes>>

\* The process ends and starts again: the files are read from their beginning.
Crash ==
  /\ crashes < MaxCrash /\ crashes' = crashes + 1
  /\ deferredItems' = [k \in Key |-> <<>>] /\ timer' = "long" /\ hd' = NotHandling
  /\ pos' = [s \in Source |-> 0] /\ bundle' = [k \in Key |-> <<>>]
  /\ pc' = [k \in Key |-> "select"] /\ mine' = [k \in Key |-> 0]
  /\ l' = [k \in Key |-> <<>>]
  /\ deferInprogress' = [k \in Key |-> FALSE] /\ globalDeferInprogress' = FALSE
  /\ prevLastSent' = lastSent /\ since' = Len(received)
  /\ UNCHANGED <<drained, received, log, lastSent, content>>

Next ==
  \/ \E s \in Source : WriteLine(s) \/ ReadEvent(s)
  \/ \E k \in Key : Flush(k) \/ CheckDeferred(k) \/ AddDeferred(k)
                      \/ StoreDeferred(k) \/ Wake(k)
  \/ \E k \in Key, o \in SendOutcomes[TRUE] : SendBundle(k, o)
  \/ \E k \in Key : RecordLast(k)
  \/ Main
  \/ Crash

Spec == Init /\ [][Next]_vars
-----------------------------------------------------------------------------
\* Line m of the i-th bundle received comes before line n of the j-th.
Earlier(i, m, j, n) == i < j \/ (i = j /\ m < n)

\* "we'll keep things in order for a given image": from one start of logmanager to
\* the next the cloud gets the lines of a file in the order in which they were
\* written, and none of them twice, whichever bundles are deferred and retried.
InOrder ==
  \A i, j \in (since + 1)..Len(received) :
    LET one == content[received[i]]
        two == content[received[j]]
    IN  \A m \in DOMAIN one, n \in DOMAIN two :
          Earlier(i, m, j, n) /\ one[m][1] = two[n][1] => one[m][2] < two[n][2]

\* "Try sending later": a bundle is at the cloud, deferred, or in the hands of the
\* goroutine that sends or defers it.
NoneLost ==
  \A b \in DOMAIN content :
    \/ b \in Range(received)
    \/ \E k \in Key : b \in Range(deferredItems[k]) \/ b = mine[k]
=============================================================================
