----------------------------- MODULE InfoReport -----------------------------
(***************************************************************************)
(* zedagent's info messages (handlemetrics.go, handlenetworkservice.go):    *)
(* the state of the device, of an app instance or of a network service is   *)
(* sent when it changes, and deferred under its UUID when the send fails.   *)
(* All of it runs in the main goroutine. Buffers are numbered in the order  *)
(* in which their messages are made.                                        *)
(***************************************************************************)
EXTENDS Deferred

CONSTANT MaxInfo  \* bound: messages made

VARIABLE about  \* the key of every message made so far

infoVars == <<deferredItems, timer, drained, received, hd, about>>

InfoInit == DeferredInit /\ about = <<>>

\* Mutant: RemoveDeferred is not called before the send.
RequeueKeepsOld(key, b, failed) ==
  /\ deferredItems' = IF failed THEN set(key, b) ELSE deferredItems
  /\ timer' = IF failed /\ Keys = {} THEN "short" ELSE timer

\* Mutant: a failed send is deferred only when nothing else is.
RequeueOne(key, b, failed) ==
  /\ deferredItems' = IF failed /\ Keys = {} THEN set(key, b) ELSE removed(key)
  /\ timer' = IF failed /\ Keys = {} THEN "short" ELSE timerAfterRemove(key)

\* RemoveDeferred before the send and SetDeferred after a failed one. Both change
\* the timer when the map is empty in between.
Requeue(key, b, failed) ==
  /\ deferredItems' = IF failed THEN set(key, b) ELSE removed(key)
  /\ timer' = IF failed /\ Keys \ {key} = {} THEN "short" ELSE timerAfterRemove(key)

\* A message about key is made and sent; SendProtobuf ignores a 400.
PublishInfo(key, o) ==
  LET b == Len(about) + 1
  IN  /\ hd.pc = "idle" /\ Len(about) < MaxInfo
      /\ about' = Append(about, key)
      /\ Sent(b, o)
      /\ Requeue(key, b, o.result = "error")
      /\ UNCHANGED hd

Retry ==
  /\ HandleDeferred \/ handleDeferredStep
  /\ UNCHANGED about

InfoNext ==
  \/ \E key \in Key, o \in SendOutcomes[TRUE] : PublishInfo(key, o)
  \/ Retry

InfoSpec == InfoInit /\ [][InfoNext]_infoVars
-----------------------------------------------------------------------------
\* The cloud never sees an older state of a device or an app after a newer one, in
\* whatever order publishing and retrying take turns.
NeverOlder ==
  \A i, j \in DOMAIN received :
    i < j /\ about[received[i]] = about[received[j]] => received[i] < received[j]

Newest(b) == \A c \in DOMAIN about : about[c] = about[b] => c <= b

\* "Try sending later": the newest message about a key has reached the cloud, was
\* read by a request that failed, or is still deferred and the retries run
\* (PublishDeviceInfoToZedCloud and its likes, SetDeferred, HandleDeferred).
NothingForgotten ==
  \A b \in DOMAIN about : Newest(b) =>
    \/ b \in Range(received) \cup drained
    \/ b \in Range(deferredItems[about[b]]) /\ timer = "short"
=============================================================================
