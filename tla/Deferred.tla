------------------------------ MODULE Deferred ------------------------------
(***************************************************************************)
(* The queue of messages that could not be sent (zedcloud/deferred.go): a   *)
(* map from a key to a list of buffers, and the timer that retries them.    *)
(* The operations are given as actions on the queue alone, for the agents   *)
(* that use it: zedagent (InfoReport) and logmanager (LogManager).          *)
(***************************************************************************)
EXTENDS CloudSend

CONSTANTS
  Key,   \* keys of the queue: the UUID of a device or app, an image name
  Buf    \* buffers, each made for one message

ASSUME KeyAssumption == Key \cap {"idle", "range", "end", "stop"} = {}

VARIABLES
  deferredItems,  \* [Key -> Seq(Buf)], <<>> for a key that is not in the map
  timer,          \* "short": 1 to 15 minutes, "long": 24 to 48 hours
  drained,        \* the buffers that a request has read
  received,       \* the buffers that the cloud took in, in order
  hd              \* handleDeferred: where it is and its local variables

deferredVars == <<deferredItems, timer, drained, received, hd>>

NotHandling == [pc |-> "idle", visited |-> {}, list |-> <<>>]

DeferredTypeOK ==
  /\ deferredItems \in [Key -> Seq(Buf)]
  /\ timer \in {"short", "long"}
  /\ drained \subseteq Buf
  /\ received \in Seq(Buf)
  /\ hd.pc \in {"idle", "range", "end", "stop"} \cup Key
  /\ hd.visited \subseteq Key /\ hd.list \in Seq(Buf)

\* initImpl
DeferredInit ==
  /\ deferredItems = [k \in Key |-> <<>>]
  /\ timer = "long"
  /\ drained = {}
  /\ received = <<>>
  /\ hd = NotHandling

Keys == {k \in Key : deferredItems[k] # <<>>}

hasDeferred(key) == key \in Keys

\* A buffer that was read before arrives empty, whatever the attempt meets.
Arrives(b, o) == IF b \in drained THEN {FALSE} ELSE MayArrive(o.body)

\* A send of buffer b with the outcome o: the buffer and the cloud afterwards.
Sent(b, o) ==
  /\ drained' = IF o.body = "none" THEN drained ELSE drained \cup {b}
  /\ \E arrived \in Arrives(b, o) :
       received' = IF arrived THEN Append(received, b) ELSE received
-----------------------------------------------------------------------------
(* removeDeferred, setDeferred and addDeferred as they are when nothing else  *)
(* runs: the map and the timer after the call.                               *)

removed(key) == [deferredItems EXCEPT ![key] = <<>>]

timerAfterRemove(key) == IF Keys = {key} THEN "long" ELSE timer

set(key, b) == [deferredItems EXCEPT ![key] = <<b>>]
-----------------------------------------------------------------------------
(* handleDeferred, which takes as long as its sends: the queue may change     *)
(* under it.                                                                 *)

\* The range over the map reaches a key: l is the list that the key has now.
NextKey(key) ==
  /\ hd.pc = "range"
  /\ key \in Keys \ hd.visited
  /\ hd' = [pc |-> key, visited |-> hd.visited \cup {key}, list |-> deferredItems[key]]
  /\ UNCHANGED <<deferredItems, timer, drained, received>>

\* The next buffer of the list; a 400 counts as sent, an error ends the range.
SendItem(o) ==
  /\ hd.pc \in Key /\ hd.list # <<>>
  /\ Sent(Head(hd.list), o)
  /\ hd' = IF o.result = "error" THEN [hd EXCEPT !.pc = "end", !.list = <<>>]
                                 ELSE [hd EXCEPT !.list = Tail(hd.list)]
  /\ UNCHANGED <<deferredItems, timer>>

\* Every buffer of the list was sent: the key goes, whatever it holds by now.
DeleteKey ==
  /\ hd.pc \in Key /\ hd.list = <<>>
  /\ deferredItems' = removed(hd.pc)
  /\ hd' = [hd EXCEPT !.pc = "range"]
  /\ UNCHANGED <<timer, drained, received>>

RangeDone ==
  \/ hd.pc = "range" /\ Keys \subseteq hd.visited
  \/ hd.pc = "end"

\* The map is seen to be empty; stopTimer follows.
EndEmpty ==
  /\ RangeDone /\ Keys = {}
  /\ hd' = [hd EXCEPT !.pc = "stop"]
  /\ UNCHANGED <<deferredItems, timer, drained, received>>

EndNonEmpty ==
  /\ RangeDone /\ Keys # {}
  /\ hd' = NotHandling
  /\ UNCHANGED <<deferredItems, timer, drained, received>>

StopTimer ==
  /\ hd.pc = "stop"
  /\ timer' = "long"
  /\ hd' = NotHandling
  /\ UNCHANGED <<deferredItems, drained, received>>

\* The call: the timer fires, or an address appears.
HandleDeferred ==
  /\ hd.pc = "idle"
  /\ hd' = [NotHandling EXCEPT !.pc = "range"]
  /\ UNCHANGED <<deferredItems, timer, drained, received>>

handleDeferredStep ==
  \/ \E key \in Key : NextKey(key)
  \/ \E o \in SendOutcomes[TRUE] : SendItem(o)
  \/ DeleteKey \/ EndEmpty \/ EndNonEmpty \/ StopTimer
=============================================================================
