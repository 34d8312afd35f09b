------------------------------- MODULE PubSub -------------------------------
(***************************************************************************)
(* One pubsub topic (pubsub/pubsub.go): the agent that publishes it, one    *)
(* serveConnection goroutine per connected subscriber, the AF_UNIX sockets  *)
(* between them, the subscribers, and the directory of checkpoint files the *)
(* publisher reads back when its process starts again.                      *)
(*                                                                          *)
(* The publisher's calls are split where another goroutine or a crash can   *)
(* come in between: store in the map, notify the updaters, write the file.  *)
(***************************************************************************)
EXTENDS Naturals, Sequences

CONSTANTS
  Key,       \* keys of the collection
  Val,       \* items, compared with cmp.Equal
  None,      \* no item under this key
  Sub,       \* subscribing processes
  SockBuf,   \* messages a socket holds before Write blocks
  MaxOps,    \* bound: calls of Publish, Unpublish and restartImpl
  MaxCrash   \* bound: crashes, restarts and failed file operations

ASSUME NoneAssumption == None \notin Val /\ None \notin Key
ASSUME BoundsAssumption ==
  SockBuf \in Nat \ {0} /\ MaxOps \in Nat /\ MaxCrash \in Nat

VARIABLES
  up,            \* the publishing process runs
  km,            \* pub.km.key
  restarted,     \* pub.km.restarted
  opPc, opKey,   \* rest of the call in progress; opKey = None for restartImpl
  files,         \* <key>.json below pub.dirName
  restartedFile, \* the "restarted" file below pub.dirName
  pc,            \* where serveConnection is, per subscriber
  updater,       \* its notification channel (capacity 1) holds a token
  sendToPeer,    \* the collection it has sent or is about to send
  todo,          \* keys from determineDiffs that serialize has not sent yet
  initial,       \* it has still to send "complete"
  sentRestarted,
  wire,          \* messages in the socket
  sock,          \* sub.sock # nil
  skm,           \* sub.km.key
  srestarted,    \* sub.km.restarted
  synchronized,  \* sub.synchronized
  unsaved,       \* history: calls whose file operation failed
  left,          \* history: keys held when this connection was dialled and
                 \* not mentioned on it yet
  owed,          \* history: keys of the initial snapshot not received yet
  signalled,     \* history: keys held since the last SignalRestarted
  ops, crashes   \* counters for the bounds

pubVars  == <<up, km, restarted, opPc, opKey, signalled>>
dirVars  == <<files, restartedFile, unsaved>>
servVars == <<pc, sendToPeer, todo, initial, sentRestarted>>
subVars  == <<sock, skm, srestarted, synchronized, left>>
bounds   == <<ops, crashes>>
vars     == <<pubVars, dirVars, servVars, updater, wire, subVars, owed,
                 bounds>>

Item == Val \cup {None}
Collection == [Key -> Item]
Empty == [k \in Key |-> None]

Update(k, v) == [op |-> "update", key |-> k, val |-> v]
Delete(k)    == [op |-> "delete", key |-> k, val |-> None]
Complete     == [op |-> "complete", key |-> None, val |-> None]
Restarted    == [op |-> "restarted", key |-> None, val |-> None]

Msg == {Update(k, v) : k \in Key, v \in Val} \cup {Delete(k) : k \in Key}
         \cup {Complete, Restarted}

TypeOK ==
  /\ up \in BOOLEAN /\ restarted \in BOOLEAN /\ restartedFile \in BOOLEAN
  /\ km \in Collection /\ files \in Collection
  /\ opPc \in {"idle", "notify", "file"}
  /\ opKey \in Key \cup {None}
  /\ pc \in [Sub -> {"none", "hello", "snapshot", "send", "wait"}]
  /\ updater \in [Sub -> BOOLEAN]
  /\ sendToPeer \in [Sub -> Collection]
  /\ todo \in [Sub -> SUBSET Key]
  /\ initial \in [Sub -> BOOLEAN] /\ sentRestarted \in [Sub -> BOOLEAN]
  /\ wire \in [Sub -> Seq(Msg)] /\ \A s \in Sub : Len(wire[s]) <= SockBuf
  /\ sock \in [Sub -> BOOLEAN]
  /\ skm \in [Sub -> Collection]
  /\ srestarted \in [Sub -> BOOLEAN] /\ synchronized \in [Sub -> BOOLEAN]
  /\ left \in [Sub -> SUBSET Key] /\ owed \in [Sub -> SUBSET Key]
  /\ signalled \subseteq Key
  /\ unsaved \subseteq Key \cup {None}
  /\ ops \in Nat /\ crashes \in Nat

\* First start of the publisher: the directory is empty, nobody is connected.
Init ==
  /\ up = TRUE /\ restarted = FALSE /\ restartedFile = FALSE
  /\ km = Empty /\ files = Empty
  /\ opPc = "idle" /\ opKey = None
  /\ pc = [s \in Sub |-> "none"]
  /\ updater = [s \in Sub |-> FALSE]
  /\ sendToPeer = [s \in Sub |-> Empty]
  /\ todo = [s \in Sub |-> {}]
  /\ initial = [s \in Sub |-> FALSE] /\ sentRestarted = [s \in Sub |-> FALSE]
  /\ wire = [s \in Sub |-> <<>>]
  /\ sock = [s \in Sub |-> FALSE]
  /\ skm = [s \in Sub |-> Empty]
  /\ srestarted = [s \in Sub |-> FALSE] /\ synchronized = [s \in Sub |-> FALSE]
  /\ left = [s \in Sub |-> {}] /\ owed = [s \in Sub |-> {}]
  /\ signalled = {} /\ unsaved = {}
  /\ ops = 0 /\ crashes = 0
-----------------------------------------------------------------------------
(* The publishing agent.                                                    *)

Call == up /\ opPc = "idle" /\ ops < MaxOps /\ ops' = ops + 1

\* Publish of an item equal to the stored one returns at once, hence km[k] # v.
Publish(k, v) ==
  /\ Call
  /\ km[k] # v
  /\ km' = [km EXCEPT ![k] = v]
  /\ opPc' = "notify" /\ opKey' = k
  /\ UNCHANGED <<up, restarted, signalled, dirVars, servVars, updater, wire,
                 subVars, owed, crashes>>

Unpublish(k) ==
  /\ Call
  /\ km[k] # None
  /\ km' = [km EXCEPT ![k] = None]
  /\ signalled' = signalled \ {k}
  /\ opPc' = "notify" /\ opKey' = k
  /\ UNCHANGED <<up, restarted, dirVars, servVars, updater, wire, subVars, owed,
                 crashes>>

\* Mutant: SignalRestarted forgets to notify the connections.
restartImplNoNotify(r) ==
  /\ Call
  /\ restarted # r
  /\ restarted' = r
  /\ signalled' = IF r THEN {k \in Key : km[k] # None} ELSE {}
  /\ opPc' = "file" /\ opKey' = None
  /\ UNCHANGED <<up, km, dirVars, servVars, updater, wire, subVars, owed,
                 crashes>>

\* SignalRestarted and ClearRestarted; only the first notifies.
restartImpl(r) ==
  /\ Call
  /\ restarted # r
  /\ restarted' = r
  /\ signalled' = IF r THEN {k \in Key : km[k] # None} ELSE {}
  /\ opPc' = IF r THEN "notify" ELSE "file"
  /\ opKey' = None
  /\ UNCHANGED <<up, km, dirVars, servVars, updater, wire, subVars, owed,
                 crashes>>

\* Mutant: updatersAdd only once the initial keys have been sent.
AttachedLate(s) == pc[s] = "wait"

\* serveConnection has called updatersAdd and not returned.
Attached(s) == pc[s] \in {"snapshot", "send", "wait"}

\* A non-blocking send into a channel of capacity 1.
updatersNotify ==
  /\ opPc = "notify"
  /\ updater' = [s \in Sub |-> updater[s] \/ Attached(s)]
  /\ opPc' = "file"
  /\ UNCHANGED <<up, km, restarted, opKey, signalled, dirVars, servVars, wire,
                 subVars, owed, bounds>>

\* Mutant: Unpublish leaves the file behind.
WriteFileKeepsDeleted ==
  /\ opPc = "file"
  /\ IF opKey = None
       THEN restartedFile' = restarted /\ UNCHANGED files
       ELSE /\ files' = IF km[opKey] = None THEN files
                        ELSE [files EXCEPT ![opKey] = km[opKey]]
            /\ UNCHANGED restartedFile
  /\ unsaved' = unsaved \ {opKey}
  /\ opPc' = "idle" /\ opKey' = None
  /\ UNCHANGED <<up, km, restarted, signalled, servVars, updater, wire, subVars,
                 owed, bounds>>

\* WriteRename replaces the file atomically; Unpublish removes it; restartImpl
\* creates or removes the "restarted" file.
WriteFile ==
  /\ opPc = "file"
  /\ IF opKey = None
       THEN restartedFile' = restarted /\ UNCHANGED files
       ELSE /\ files' = [files EXCEPT ![opKey] = km[opKey]]
            /\ UNCHANGED restartedFile
  /\ unsaved' = unsaved \ {opKey}
  /\ opPc' = "idle" /\ opKey' = None
  /\ UNCHANGED <<up, km, restarted, signalled, servVars, updater, wire, subVars,
                 owed, bounds>>

\* The file operation fails: the call returns an error the agents only log.
WriteFails ==
  /\ opPc = "file"
  /\ crashes < MaxCrash /\ crashes' = crashes + 1
  /\ unsaved' = unsaved \cup {opKey}
  /\ opPc' = "idle" /\ opKey' = None
  /\ UNCHANGED <<up, km, restarted, signalled, files, restartedFile, servVars,
                 updater, wire, subVars, owed, ops>>

\* The process dies: map, goroutines and channels are gone, the files and what
\* the sockets already hold stay.
Crash ==
  /\ up
  /\ crashes < MaxCrash /\ crashes' = crashes + 1
  /\ up' = FALSE
  /\ km' = Empty /\ restarted' = FALSE /\ signalled' = {}
  /\ opPc' = "idle" /\ opKey' = None
  /\ pc' = [s \in Sub |-> "none"]
  /\ updater' = [s \in Sub |-> FALSE]
  /\ sendToPeer' = [s \in Sub |-> Empty]
  /\ todo' = [s \in Sub |-> {}]
  /\ initial' = [s \in Sub |-> FALSE] /\ sentRestarted' = [s \in Sub |-> FALSE]
  /\ unsaved' = {}
  /\ UNCHANGED <<files, restartedFile, wire, subVars, owed, ops>>

\* publishImpl with populate.
Start ==
  /\ ~up
  /\ up' = TRUE
  /\ km' = files
  /\ restarted' = restartedFile
  /\ signalled' = IF restartedFile THEN {k \in Key : files[k] # None} ELSE {}
  /\ UNCHANGED <<opPc, opKey, dirVars, servVars, updater, wire, subVars, owed,
                 bounds>>
-----------------------------------------------------------------------------
(* serveConnection.                                                         *)

\* updatersAdd, before the snapshot is taken.
Attach(s) ==
  /\ pc[s] = "hello"
  /\ pc' = [pc EXCEPT ![s] = "snapshot"]
  /\ updater' = [updater EXCEPT ![s] = FALSE]
  /\ UNCHANGED <<pubVars, dirVars, sendToPeer, todo, initial, sentRestarted,
                 wire, subVars, owed, bounds>>

\* Keys determineDiffs returns: deleted, added or changed.
Diffs(peer) == {k \in Key : peer[k] # km[k]}

\* determineDiffs: GetAll reads the map under one read lock. The first call
\* needs no notification; later ones consume the token.
determineDiffs(s) ==
  /\ \/ pc[s] = "snapshot" /\ UNCHANGED updater
     \/ pc[s] = "wait" /\ updater[s] /\ updater' = [updater EXCEPT ![s] = FALSE]
  /\ todo' = [todo EXCEPT ![s] = Diffs(sendToPeer[s])]
  /\ sendToPeer' = [sendToPeer EXCEPT ![s] = km]
  /\ owed' = IF pc[s] = "snapshot" THEN [owed EXCEPT ![s] = todo'[s]] ELSE owed
  /\ pc' = [pc EXCEPT ![s] = "send"]
  /\ UNCHANGED <<pubVars, dirVars, initial, sentRestarted, wire, subVars, bounds>>

\* Mutant: Write never blocks.
SendUnbounded(s, m) == wire' = [wire EXCEPT ![s] = Append(@, m)]

Send(s, m) ==
  /\ Len(wire[s]) < SockBuf
  /\ wire' = [wire EXCEPT ![s] = Append(@, m)]

\* serialize: deletes come first, the order among the others is Go's map order.
serialize(s, k) ==
  /\ pc[s] = "send"
  /\ k \in todo[s]
  /\ \/ sendToPeer[s][k] = None /\ Send(s, Delete(k))
     \/ /\ sendToPeer[s][k] # None
        /\ \A d \in todo[s] : sendToPeer[s][d] # None
        /\ Send(s, Update(k, sendToPeer[s][k]))
  /\ todo' = [todo EXCEPT ![s] = @ \ {k}]
  /\ UNCHANGED <<pubVars, dirVars, pc, sendToPeer, initial, sentRestarted,
                 updater, subVars, owed, bounds>>

\* Mutant: "complete" goes out before the initial keys.
sendCompleteEarly(s) ==
  /\ pc[s] = "send" /\ initial[s]
  /\ Send(s, Complete)
  /\ initial' = [initial EXCEPT ![s] = FALSE]
  /\ UNCHANGED <<pubVars, dirVars, pc, sendToPeer, todo, sentRestarted, updater,
                 subVars, owed, bounds>>

sendComplete(s) ==
  /\ pc[s] = "send" /\ todo[s] = {} /\ initial[s]
  /\ Send(s, Complete)
  /\ initial' = [initial EXCEPT ![s] = FALSE]
  /\ UNCHANGED <<pubVars, dirVars, pc, sendToPeer, todo, sentRestarted, updater,
                 subVars, owed, bounds>>

\* The test of pub.km.restarted after serialize, and the wait for a token.
checkRestarted(s) ==
  /\ pc[s] = "send" /\ todo[s] = {} /\ ~initial[s]
  /\ IF restarted /\ ~sentRestarted[s]
       THEN /\ Send(s, Restarted)
            /\ sentRestarted' = [sentRestarted EXCEPT ![s] = TRUE]
       ELSE UNCHANGED <<wire, sentRestarted>>
  /\ pc' = [pc EXCEPT ![s] = "wait"]
  /\ UNCHANGED <<pubVars, dirVars, sendToPeer, todo, initial, updater, subVars, owed,
                 bounds>>
-----------------------------------------------------------------------------
(* The subscriber.                                                          *)

\* Dial succeeds while the publisher listens; the request starts a goroutine.
Dial(s) ==
  /\ up /\ ~sock[s]
  /\ sock' = [sock EXCEPT ![s] = TRUE]
  /\ left' = [left EXCEPT ![s] = {k \in Key : skm[s][k] # None}]
  /\ owed' = [owed EXCEPT ![s] = {}]
  /\ pc' = [pc EXCEPT ![s] = "hello"]
  /\ updater' = [updater EXCEPT ![s] = FALSE]
  /\ sendToPeer' = [sendToPeer EXCEPT ![s] = Empty]
  /\ todo' = [todo EXCEPT ![s] = {}]
  /\ initial' = [initial EXCEPT ![s] = TRUE]
  /\ sentRestarted' = [sentRestarted EXCEPT ![s] = FALSE]
  /\ UNCHANGED <<pubVars, dirVars, wire, skm, srestarted, synchronized, bounds>>

\* connectAndRead, watchSock and ProcessChange for one message.
ProcessChange(s) ==
  /\ sock[s] /\ wire[s] # <<>>
  /\ LET m == Head(wire[s])
     IN  /\ skm' = IF m.op \in {"update", "delete"}
                     THEN [skm EXCEPT ![s][m.key] = m.val] ELSE skm
         /\ left' = [left EXCEPT ![s] = @ \ {m.key}]
         /\ owed' = [owed EXCEPT ![s] = @ \ {m.key}]
         /\ srestarted' = [srestarted EXCEPT ![s] = @ \/ m.op = "restarted"]
         /\ synchronized' = [synchronized EXCEPT ![s] = @ \/ m.op = "complete"]
  /\ wire' = [wire EXCEPT ![s] = Tail(@)]
  /\ UNCHANGED <<pubVars, dirVars, servVars, updater, sock, bounds>>

\* Mutant: connectAndRead keeps a socket on which Read failed.
ReadFailsKeepsSock(s) ==
  /\ sock[s] /\ wire[s] = <<>> /\ pc[s] = "none"
  /\ UNCHANGED vars

\* Read fails once the publisher is gone and the socket is drained.
ReadFails(s) ==
  /\ sock[s] /\ wire[s] = <<>> /\ pc[s] = "none"
  /\ sock' = [sock EXCEPT ![s] = FALSE]
  /\ UNCHANGED <<pubVars, dirVars, servVars, updater, wire, skm, srestarted,
                 synchronized, left, owed, bounds>>

\* The subscribing process starts again with an empty collection. The goroutine
\* that served it ends with its next Write and no longer matters.
Resubscribe(s) ==
  /\ crashes < MaxCrash /\ crashes' = crashes + 1
  /\ sock' = [sock EXCEPT ![s] = FALSE]
  /\ skm' = [skm EXCEPT ![s] = Empty]
  /\ srestarted' = [srestarted EXCEPT ![s] = FALSE]
  /\ synchronized' = [synchronized EXCEPT ![s] = FALSE]
  /\ left' = [left EXCEPT ![s] = {}] /\ owed' = [owed EXCEPT ![s] = {}]
  /\ wire' = [wire EXCEPT ![s] = <<>>]
  /\ pc' = [pc EXCEPT ![s] = "none"]
  /\ updater' = [updater EXCEPT ![s] = FALSE]
  /\ sendToPeer' = [sendToPeer EXCEPT ![s] = Empty]
  /\ todo' = [todo EXCEPT ![s] = {}]
  /\ initial' = [initial EXCEPT ![s] = FALSE]
  /\ sentRestarted' = [sentRestarted EXCEPT ![s] = FALSE]
  /\ UNCHANGED <<pubVars, dirVars, ops>>
-----------------------------------------------------------------------------
Agent ==
  \/ \E k \in Key, v \in Val : Publish(k, v)
  \/ \E k \in Key : Unpublish(k)
  \/ \E r \in BOOLEAN : restartImpl(r)

Server(s) ==
  \/ Attach(s)
  \/ determineDiffs(s)
  \/ \E k \in Key : serialize(s, k)
  \/ sendComplete(s)
  \/ checkRestarted(s)

Subscriber(s) == Dial(s) \/ ProcessChange(s) \/ ReadFails(s)

Next ==
  \/ Agent
  \/ updatersNotify
  \/ WriteFile
  \/ WriteFails
  \/ Crash
  \/ Start
  \/ \E s \in Sub : Server(s) \/ Subscriber(s) \/ Resubscribe(s)

Spec == Init /\ [][Next]_vars

\* The goroutines of a running process and the subscriber's loop keep running;
\* nothing makes the agent call Publish, and nothing restarts it after a crash.
Fairness ==
  /\ WF_vars(updatersNotify)
  /\ WF_vars(WriteFile \/ WriteFails)
  /\ \A s \in Sub : WF_vars(Server(s)) /\ WF_vars(Subscriber(s))

FairSpec == Spec /\ Fairness
-----------------------------------------------------------------------------
(* What the protocol promises.                                              *)

\* Nothing is under way for s: no token, no call short of its notification, no
\* key to send, no message in the socket.
Quiescent(s) ==
  /\ pc[s] = "wait" /\ ~updater[s] /\ opPc # "notify"
  /\ wire[s] = <<>>

\* The subscriber holds the publisher's items, and beyond them only keys that it
\* brought along from an earlier connection.
Agrees(s) ==
  \A k \in Key : skm[s][k] # km[k] => km[k] = None /\ k \in left[s]

\* No update or delete is lost however Publish and Unpublish interleave with the
\* goroutine (updatersAdd before the snapshot, coalesced tokens, diffs against
\* sendToPeer): a subscriber for which nothing is under way agrees.
NoUpdateLost == \A s \in Sub : Quiescent(s) => Agrees(s)

\* Where messages about k are in a socket that holds w.
About(w, k) == {i \in 1..Len(w) : w[i].key = k}

\* The last message about k in the socket, or else the item the subscriber has,
\* is what the goroutine believes the peer to hold (want); a key that is left over
\* from an earlier connection (old) may still be there.
Delivered(w, k, have, want, old) ==
  /\ About(w, k) = {} => have = want \/ (want = None /\ old)
  /\ \A i \in About(w, k) :
       (\A j \in About(w, k) : j <= i) => w[i].val = want

\* sendToPeer is accurate for every key that serialize has dealt with.
PeerTracked ==
  \A s \in Sub : pc[s] # "none" =>
    \A k \in Key \ todo[s] :
      Delivered(wire[s], k, skm[s][k], sendToPeer[s][k], k \in left[s])

\* A goroutine past its snapshot that lags behind the map has a token or is about
\* to get one from the call in progress.
WakeupPending ==
  \A s \in Sub :
    pc[s] \in {"send", "wait"} /\ sendToPeer[s] # km =>
      updater[s] \/ opPc = "notify"

\* Connections: a subscriber without a socket is not served and has nothing to
\* read, only a running publisher serves, and keys are pending only while sending.
Connections ==
  \A s \in Sub :
    /\ ~sock[s] => pc[s] = "none" /\ wire[s] = <<>>
    /\ pc[s] # "none" => up
    /\ pc[s] # "send" => todo[s] = {}

\* The inductive invariant behind NoUpdateLost.
DeliveryInv == Connections /\ WakeupPending /\ PeerTracked

\* A subscriber holds exactly the publisher's items once nothing is under way: so
\* it is until something crashes (Publish, Unpublish, serveConnection, watchSock).
ExactCopy == \A s \in Sub : Quiescent(s) => skm[s] = km

\* As long as nothing crashed, no subscriber brings keys along.
NothingLeft ==
  /\ crashes <= MaxCrash
  /\ crashes = 0 =>
       /\ up
       /\ \A s \in Sub : left[s] = {} /\ (sock[s] => pc[s] # "none")
       /\ \A s \in Sub : ~sock[s] => skm[s] = Empty

\* The files are those of the map but for the call in progress and for calls
\* whose file operation failed, so a crash forgets at most the call it interrupts.
CheckpointCurrent ==
  up => \A k \in Key :
          files[k] # km[k] => (opPc # "idle" /\ opKey = k) \/ k \in unsaved

\* "complete" reaches the subscriber after every key of the snapshot that
\* serveConnection took when the connection was set up.
CompleteAfterSnapshot ==
  \A s \in Sub : wire[s] # <<>> /\ Head(wire[s]) = Complete => owed[s] = {}

\* "restarted" reaches the subscriber after the items that were published before
\* SignalRestarted (zedmanager waits for the verifier's "restarted" in order to
\* know every image that is already in place).
RestartedAfterItems ==
  [][\A s \in Sub :
       ~srestarted[s] /\ srestarted'[s] =>
         \A k \in signalled : skm[s][k] # None]_vars

\* A subscriber keeps up with a publisher that stays up: it ends up agreeing.
EventuallyAgrees ==
  \A s \in Sub : <>[]up => <>[](Agrees(s) /\ synchronized[s])

\* A restarted flag that stays set reaches every subscriber.
RestartedReaches ==
  \A s \in Sub : <>[](up /\ restarted) => <>[]srestarted[s]
=============================================================================
