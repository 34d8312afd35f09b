---------------------------- MODULE PubSubProofs ----------------------------
(* Proofs about PubSub, for all keys, items, subscribers and bounds.          *)
EXTENDS PubSub, TLAPS

\* The four kinds of message that serveConnection sends.
LEMMA MsgType ==
  ASSUME NEW m \in Msg
  PROVE  /\ m.op \in {"update", "delete"} => m.key \in Key /\ m.val \in Item
         /\ m.op \notin {"update", "delete"} => m.key = None
BY DEF Msg, Update, Delete, Complete, Restarted, Item

\* The types hold before any connection.
LEMMA InitType == Init => TypeOK
<1> SUFFICES ASSUME Init PROVE TypeOK
  BY Zenon
<1> USE DEF Init, Empty, Collection, Item
<1>1. km \in Collection /\ files \in Collection
  BY Zenon
<1>2. sendToPeer \in [Sub -> Collection] /\ skm \in [Sub -> Collection]
  BY Zenon
<1>3. wire \in [Sub -> Seq(Msg)] /\ \A s \in Sub : Len(wire[s]) <= SockBuf
  BY BoundsAssumption
<1>4. QED
  BY <1>1, <1>2, <1>3, Zenon DEF TypeOK

\* A message that is sent fits the socket.
LEMMA SendType ==
  ASSUME TypeOK, NEW s \in Sub, NEW m \in Msg, Send(s, m)
  PROVE  /\ wire' \in [Sub -> Seq(Msg)]
         /\ \A t \in Sub : Len(wire'[t]) <= SockBuf
BY BoundsAssumption DEF TypeOK, Send

\* Every step of publisher, subscriber and goroutines keeps the types.
LEMMA NextType == TypeOK /\ [Next]_vars => TypeOK'
<1> SUFFICES ASSUME TypeOK, [Next]_vars PROVE TypeOK'
  BY Zenon
<1> USE NoneAssumption, BoundsAssumption DEF TypeOK, Collection, Item, Empty
<1> USE DEF pubVars, dirVars, servVars, subVars, bounds
<1>1. CASE Agent
  <2>1. ASSUME NEW k \in Key, NEW v \in Val, Publish(k, v) PROVE TypeOK'
    BY <2>1 DEF Publish, Call
  <2>2. ASSUME NEW k \in Key, Unpublish(k) PROVE TypeOK'
    BY <2>2 DEF Unpublish, Call
  <2>3. ASSUME NEW r \in BOOLEAN, restartImpl(r) PROVE TypeOK'
    <3>1. signalled' \subseteq Key
      BY Zenon, <2>3 DEF restartImpl
    <3>2. QED
      BY <2>3, <3>1 DEF restartImpl, Call
  <2>4. QED
    BY Zenon, <1>1, <2>1, <2>2, <2>3 DEF Agent
<1>2. CASE updatersNotify
  BY Zenon, <1>2 DEF updatersNotify
<1>3. CASE WriteFile
  BY <1>3, Zenon DEF WriteFile
<1>4. CASE WriteFails
  BY <1>4 DEF WriteFails
<1>5. CASE Crash
  <2>1. km' \in Collection /\ sendToPeer' \in [Sub -> Collection]
    BY Zenon, <1>5 DEF Crash
  <2>2. /\ pc' \in [Sub -> {"none", "hello", "snapshot", "send", "wait"}]
        /\ updater' \in [Sub -> BOOLEAN] /\ todo' \in [Sub -> SUBSET Key]
        /\ initial' \in [Sub -> BOOLEAN] /\ sentRestarted' \in [Sub -> BOOLEAN]
    BY Zenon, <1>5 DEF Crash
  <2>3. /\ up' = FALSE /\ restarted' = FALSE /\ signalled' = {} /\ unsaved' = {}
        /\ opPc' = "idle" /\ opKey' = None /\ crashes' \in Nat
        /\ UNCHANGED <<files, restartedFile, wire, subVars, owed, ops>>
    BY <1>5 DEF Crash
  <2>4. QED
    BY <2>1, <2>2, <2>3, Zenon
<1>6. CASE Start
  BY Zenon, <1>6 DEF Start
<1>7. ASSUME NEW s \in Sub, Server(s) PROVE TypeOK'
  <2>1. CASE Attach(s)
    BY Zenon, <2>1 DEF Attach
  <2>2. CASE determineDiffs(s)
    <3>1. Diffs(sendToPeer[s]) \subseteq Key
      BY Zenon DEF Diffs
    <3>2. todo' \in [Sub -> SUBSET Key] /\ todo'[s] \subseteq Key
      BY Zenon, <2>2, <3>1 DEF determineDiffs
    <3>3. owed' \in [Sub -> SUBSET Key] /\ updater' \in [Sub -> BOOLEAN]
      BY <2>2, <3>2, Zenon DEF determineDiffs
    <3>4. sendToPeer' \in [Sub -> Collection]
      BY Zenon, <2>2 DEF determineDiffs
    <3>5. QED
      BY Zenon, <2>2, <3>2, <3>3, <3>4 DEF determineDiffs
  <2>3. ASSUME NEW k \in Key, serialize(s, k) PROVE TypeOK'
    <3>1. \E m \in Msg : Send(s, m)
      BY <2>3 DEF serialize, Msg
    <3>2. QED
      BY Zenon, <2>3, <3>1, SendType DEF serialize
  <2>4. CASE sendComplete(s)
    <3>1. Complete \in Msg
      BY DEF Msg
    <3>2. QED
      BY Zenon, <2>4, <3>1, SendType DEF sendComplete
  <2>5. CASE checkRestarted(s)
    <3>1. Restarted \in Msg
      BY DEF Msg
    <3>2. wire' \in [Sub -> Seq(Msg)] /\ \A t \in Sub : Len(wire'[t]) <= SockBuf
      BY Zenon, <2>5, <3>1, SendType DEF checkRestarted
    <3>3. QED
      BY <2>5, <3>2, Zenon DEF checkRestarted
  <2>6. QED
    BY Zenon, <1>7, <2>1, <2>2, <2>3, <2>4, <2>5 DEF Server
<1>8. ASSUME NEW s \in Sub, Subscriber(s) PROVE TypeOK'
  <2>1. CASE Dial(s)
    BY Zenon, <2>1 DEF Dial
  <2>2. CASE ProcessChange(s)
    <3> DEFINE m == Head(wire[s])
    <3>1. m \in Msg /\ Tail(wire[s]) \in Seq(Msg) /\ Len(Tail(wire[s])) <= SockBuf
      BY <2>2 DEF ProcessChange
    <3>2. wire' \in [Sub -> Seq(Msg)] /\ \A t \in Sub : Len(wire'[t]) <= SockBuf
      BY Zenon, <2>2, <3>1 DEF ProcessChange
    <3>3. m.op \in {"update", "delete"} => m.key \in Key /\ m.val \in Item
      BY Zenon, <3>1, MsgType
    <3>4. skm' \in [Sub -> Collection]
      BY Zenon, <2>2, <3>3 DEF ProcessChange
    <3>5. QED
      BY Zenon, <2>2, <3>2, <3>4 DEF ProcessChange
  <2>3. CASE ReadFails(s)
    BY Zenon, <2>3 DEF ReadFails
  <2>4. QED
    BY Zenon, <1>8, <2>1, <2>2, <2>3 DEF Subscriber
<1>9. ASSUME NEW s \in Sub, Resubscribe(s) PROVE TypeOK'
  BY <1>9 DEF Resubscribe
<1>10. CASE UNCHANGED vars
  BY Zenon, <1>10 DEF vars
<1>11. QED
  BY Zenon, <1>1, <1>2, <1>3, <1>4, <1>5, <1>6, <1>7, <1>8, <1>9, <1>10 DEF Next

\* Every variable keeps its type and no socket holds more than SockBuf messages,
\* for any number of keys, items and subscribers.
THEOREM TypeCorrect == Spec => []TypeOK
<1>1. QED
  BY InitType, NextType, PTL DEF Spec
-----------------------------------------------------------------------------
(* How sending and receiving one message affects Delivered.                 *)

\* A message about another key leaves the last message about k.
LEMMA AppendOther ==
  ASSUME NEW w \in Seq(Msg), NEW m \in Msg, NEW k \in Key, m.key # k,
         NEW have, NEW want, NEW old, Delivered(w, k, have, want, old)
  PROVE  Delivered(Append(w, m), k, have, want, old)
<1>1. About(Append(w, m), k) = About(w, k)
  BY DEF About
<1>2. \A i \in About(w, k) : Append(w, m)[i] = w[i]
  BY DEF About
<1>3. QED
  BY <1>1, <1>2, Zenon DEF Delivered

\* A message about k is the last one about k.
LEMMA AppendSame ==
  ASSUME NEW w \in Seq(Msg), NEW m \in Msg, NEW k \in Key, m.key = k,
         NEW have, NEW old
  PROVE  Delivered(Append(w, m), k, have, m.val, old)
<1>1. Len(w) + 1 \in About(Append(w, m), k)
  BY DEF About
<1>2. \A i \in About(Append(w, m), k) : i \in Nat /\ i <= Len(w) + 1
  BY DEF About
<1>3. Append(w, m)[Len(w) + 1] = m
  OBVIOUS
<1>4. QED
  BY <1>1, <1>2, <1>3 DEF Delivered

\* Receiving the first message of a socket leaves the later ones.
LEMMA TailAbout ==
  ASSUME NEW w \in Seq(Msg), w # <<>>, NEW k \in Key
  PROVE  /\ \A i \in About(Tail(w), k) :
              i \in Nat /\ i + 1 \in About(w, k) /\ Tail(w)[i] = w[i + 1]
         /\ \A i \in About(w, k) :
              i \in Nat /\ (i # 1 => i - 1 \in About(Tail(w), k))
BY DEF About

\* What the rest of a socket leads to once its first message is handled.
LEMMA TailDelivered ==
  ASSUME NEW w \in Seq(Msg), w # <<>>, NEW k \in Key,
         NEW have, NEW want, NEW old, Delivered(w, k, have, want, old),
         NEW got, w[1].key = k => got = w[1].val, w[1].key # k => got = have,
         NEW still, w[1].key # k => (old => still)
  PROVE  Delivered(Tail(w), k, got, want, still)
<1> DEFINE t == Tail(w)
<1>1. ASSUME NEW i \in About(t, k), \A j \in About(t, k) : j <= i
      PROVE  t[i].val = want
  <2>1. i \in Nat /\ i + 1 \in About(w, k) /\ t[i] = w[i + 1]
    BY TailAbout, Zenon
  <2>2. ASSUME NEW j \in About(w, k) PROVE j <= i + 1
    <3>1. CASE j = 1
      BY <3>1, <2>1
    <3>2. CASE j # 1
      BY <3>2, <1>1, <2>1, TailAbout
    <3>3. QED
      BY Zenon, <3>1, <3>2
  <2>3. QED
    BY <2>1, <2>2, Zenon DEF Delivered
<1>2. ASSUME About(t, k) = {} PROVE got = want \/ (want = None /\ still)
  <2>1. \A j \in About(w, k) : j = 1
    BY Zenon, <1>2, TailAbout
  <2>2. CASE w[1].key = k
    <3>1. 1 \in About(w, k)
      BY <2>2 DEF About
    <3>2. QED
      BY <2>1, <2>2, <3>1 DEF Delivered
  <2>3. CASE w[1].key # k
    <3>1. About(w, k) = {}
      BY Zenon, <2>1, <2>3 DEF About
    <3>2. QED
      BY Zenon, <2>3, <3>1 DEF Delivered
  <2>4. QED
    BY Zenon, <2>2, <2>3
<1>3. QED
  BY <1>1, <1>2, Zenon DEF Delivered
-----------------------------------------------------------------------------
(* DeliveryInv is inductive.                                                *)

\* No step disturbs the bookkeeping of connections.
LEMMA ConnectionsStep == TypeOK /\ Connections /\ [Next]_vars => Connections'
<1> SUFFICES ASSUME TypeOK, Connections, [Next]_vars PROVE Connections'
  BY Zenon
<1>t. /\ pc \in [Sub -> {"none", "hello", "snapshot", "send", "wait"}]
      /\ todo \in [Sub -> SUBSET Key] /\ sock \in [Sub -> BOOLEAN]
      /\ wire \in [Sub -> Seq(Msg)]
  BY Zenon DEF TypeOK
<1> USE <1>t DEF Connections, pubVars, dirVars, servVars, subVars, bounds
<1>1. CASE Agent
  BY <1>1 DEF Agent, Publish, Unpublish, restartImpl, Call
<1>2. CASE updatersNotify
  BY Zenon, <1>2 DEF updatersNotify
<1>3. CASE WriteFile \/ WriteFails
  BY <1>3 DEF WriteFile, WriteFails
<1>4. CASE Crash
  BY Zenon, <1>4 DEF Crash
<1>5. CASE Start
  BY Zenon, <1>5 DEF Start
<1>6. ASSUME NEW s \in Sub, Server(s) PROVE Connections'
  <2>1. CASE Attach(s)
    BY Zenon, <2>1 DEF Attach
  <2>2. CASE determineDiffs(s)
    BY Zenon, <2>2 DEF determineDiffs
  <2>3. ASSUME NEW k \in Key, serialize(s, k) PROVE Connections'
    BY Zenon, <2>3 DEF serialize, Send
  <2>4. CASE sendComplete(s)
    BY Zenon, <2>4 DEF sendComplete, Send
  <2>5. CASE checkRestarted(s)
    BY Zenon, <2>5 DEF checkRestarted, Send
  <2>6. QED
    BY Zenon, <1>6, <2>1, <2>2, <2>3, <2>4, <2>5 DEF Server
<1>7. ASSUME NEW s \in Sub, Subscriber(s) \/ Resubscribe(s) PROVE Connections'
  BY <1>7 DEF Subscriber, Dial, ProcessChange, ReadFails, Resubscribe
<1>8. CASE UNCHANGED vars
  BY Zenon, <1>8 DEF vars
<1>9. QED
  BY Zenon, <1>1, <1>2, <1>3, <1>4, <1>5, <1>6, <1>7, <1>8 DEF Next

\* No step loses a wakeup of an updater.
LEMMA WakeupStep ==
  TypeOK /\ Connections /\ WakeupPending /\ [Next]_vars => WakeupPending'
<1> SUFFICES ASSUME TypeOK, Connections, WakeupPending, [Next]_vars
             PROVE  WakeupPending'
  BY Zenon
<1>t. /\ pc \in [Sub -> {"none", "hello", "snapshot", "send", "wait"}]
      /\ updater \in [Sub -> BOOLEAN] /\ sendToPeer \in [Sub -> Collection]
  BY Zenon DEF TypeOK
<1> USE <1>t DEF WakeupPending, pubVars, dirVars, servVars, subVars, bounds
<1>1. CASE Agent
  BY <1>1, Zenon DEF Agent, Publish, Unpublish, restartImpl, Call
<1>2. CASE updatersNotify
  BY <1>2, Zenon DEF updatersNotify, Attached
<1>3. CASE WriteFile \/ WriteFails
  BY Zenon, <1>3 DEF WriteFile, WriteFails
<1>4. CASE Crash
  BY Zenon, <1>4 DEF Crash
<1>5. CASE Start
  BY Zenon, <1>5 DEF Start, Connections
<1>6. ASSUME NEW s \in Sub, Server(s) PROVE WakeupPending'
  <2>1. CASE Attach(s)
    BY Zenon, <2>1 DEF Attach
  <2>2. CASE determineDiffs(s)
    <3>1. sendToPeer'[s] = km'
      BY Zenon, <2>2 DEF determineDiffs
    <3>2. ASSUME NEW t \in Sub, t # s
          PROVE  /\ sendToPeer'[t] = sendToPeer[t] /\ pc'[t] = pc[t]
                 /\ updater'[t] = updater[t]
      BY Zenon, <2>2, <3>2 DEF determineDiffs
    <3>3. km' = km /\ opPc' = opPc
      BY Zenon, <2>2 DEF determineDiffs
    <3>4. QED
      BY Zenon, <3>1, <3>2, <3>3
  <2>3. ASSUME NEW k \in Key, serialize(s, k) PROVE WakeupPending'
    BY Zenon, <2>3 DEF serialize
  <2>4. CASE sendComplete(s)
    BY Zenon, <2>4 DEF sendComplete
  <2>5. CASE checkRestarted(s)
    BY Zenon, <2>5 DEF checkRestarted
  <2>6. QED
    BY Zenon, <1>6, <2>1, <2>2, <2>3, <2>4, <2>5 DEF Server
<1>7. ASSUME NEW s \in Sub, Subscriber(s) \/ Resubscribe(s) PROVE WakeupPending'
  BY <1>7 DEF Subscriber, Dial, ProcessChange, ReadFails, Resubscribe
<1>8. CASE UNCHANGED vars
  BY Zenon, <1>8 DEF vars
<1>9. QED
  BY Zenon, <1>1, <1>2, <1>3, <1>4, <1>5, <1>6, <1>7, <1>8 DEF Next

\* No step leaves a change of a key untracked for a peer.
LEMMA PeerTrackedStep ==
  TypeOK /\ Connections /\ PeerTracked /\ [Next]_vars => PeerTracked'
<1> SUFFICES ASSUME TypeOK, Connections, PeerTracked, [Next]_vars
             PROVE  PeerTracked'
  OBVIOUS
<1>t. /\ pc \in [Sub -> {"none", "hello", "snapshot", "send", "wait"}]
      /\ todo \in [Sub -> SUBSET Key] /\ left \in [Sub -> SUBSET Key]
      /\ wire \in [Sub -> Seq(Msg)]
      /\ sendToPeer \in [Sub -> Collection] /\ skm \in [Sub -> Collection]
  BY Zenon DEF TypeOK
<1> USE <1>t DEF pubVars, dirVars, servVars, subVars, bounds
<1> DEFINE Same(t) == /\ pc'[t] = pc[t] /\ todo'[t] = todo[t]
                      /\ wire'[t] = wire[t] /\ sendToPeer'[t] = sendToPeer[t]
                      /\ skm'[t] = skm[t] /\ left'[t] = left[t]
           Tracked(t) == pc[t] # "none" =>
             \A k \in Key \ todo[t] :
               Delivered(wire[t], k, skm[t][k], sendToPeer[t][k], k \in left[t])
<1>a. \A t \in Sub : Same(t) => Tracked(t)'
  BY Zenon DEF PeerTracked
<1>b. ASSUME NEW s \in Sub, \A t \in Sub \ {s} : Same(t), Tracked(s)'
      PROVE  PeerTracked'
  BY <1>a, <1>b, Zenon DEF PeerTracked
<1> HIDE DEF Tracked
<1>1. CASE Agent \/ updatersNotify \/ WriteFile \/ WriteFails \/ Start
  <2>1. \A t \in Sub : Same(t)
    BY Zenon, <1>1 DEF Agent, Publish, Unpublish, restartImpl, updatersNotify, WriteFile,
                WriteFails, Start
  <2>2. QED
    BY <2>1, <1>a, Zenon DEF PeerTracked, Tracked
<1>2. CASE Crash
  BY <1>2, Zenon DEF Crash, PeerTracked
<1>3. ASSUME NEW s \in Sub, Server(s) PROVE PeerTracked'
  <2>0. ASSUME NEW k \in Key \ todo[s], pc[s] # "none"
        PROVE  Delivered(wire[s], k, skm[s][k], sendToPeer[s][k], k \in left[s])
    BY Zenon, <2>0 DEF PeerTracked
  <2>1. CASE Attach(s)
    <3>1. \A t \in Sub \ {s} : Same(t)
      BY Zenon, <2>1 DEF Attach
    <3>2. Tracked(s)'
      BY Zenon, <2>1, <2>0 DEF Attach, Tracked
    <3>3. QED
      BY Zenon, <3>1, <3>2, <1>b
  <2>2. CASE determineDiffs(s)
    <3>1. \A t \in Sub \ {s} : Same(t)
      BY Zenon, <2>2 DEF determineDiffs
    <3>2. todo[s] = {} /\ pc[s] # "none"
      BY Zenon, <2>2 DEF determineDiffs, Connections
    <3>3. ASSUME NEW k \in Key \ todo'[s] PROVE sendToPeer'[s][k] = sendToPeer[s][k]
      BY Zenon, <2>2, <3>3 DEF determineDiffs, Diffs
    <3>4. wire' = wire /\ skm' = skm /\ left' = left
      BY Zenon, <2>2 DEF determineDiffs
    <3>5. Tracked(s)'
      BY Zenon, <2>0, <3>2, <3>3, <3>4 DEF Tracked
    <3>6. QED
      BY <3>1, <3>5, <1>b
  <2>3. ASSUME NEW m \in Msg, Send(s, m), UNCHANGED <<sendToPeer, subVars>>,
               pc[s] = "send", NEW sent \in SUBSET Key,
               todo'[s] = todo[s] \ sent,
               \A t \in Sub \ {s} : pc'[t] = pc[t] /\ todo'[t] = todo[t],
               \A k \in sent : m.key = k /\ m.val = sendToPeer[s][k],
               sent = {} => m.key \notin Key
        PROVE  PeerTracked'
    <3>1. \A t \in Sub \ {s} : Same(t)
      BY Zenon, <2>3 DEF Send
    <3>2. wire'[s] = Append(wire[s], m)
      BY Zenon, <2>3 DEF Send
    <3>3. ASSUME NEW k \in Key \ todo'[s]
          PROVE  Delivered(wire'[s], k, skm[s][k], sendToPeer[s][k], k \in left[s])
      <4>1. CASE k \in sent
        <5>1. wire[s] \in Seq(Msg) /\ m.key = k /\ m.val = sendToPeer[s][k]
          BY Zenon, <4>1, <2>3
        <5>2. Delivered(Append(wire[s], m), k, skm[s][k], m.val, k \in left[s])
          BY <5>1, AppendSame, Zenon
        <5>3. QED
          BY <5>1, <5>2, <3>2, Zenon
      <4>2. CASE k \notin sent
        <5>1. m.key # k
          BY <4>2, <2>3
        <5>2. k \notin todo[s]
          BY Zenon, <4>2, <2>3, <3>3
        <5>3. wire[s] \in Seq(Msg) /\ k \in Key
          BY Zenon
        <5>4. Delivered(wire[s], k, skm[s][k], sendToPeer[s][k], k \in left[s])
          BY Zenon, <5>2, <2>0, <2>3
        <5>5. Delivered(Append(wire[s], m), k, skm[s][k], sendToPeer[s][k],
                        k \in left[s])
          BY <5>1, <5>3, <5>4, AppendOther, Zenon
        <5>6. QED
          BY Zenon, <5>5, <3>2
      <4>3. QED
        BY Zenon, <4>1, <4>2
    <3>4. Tracked(s)'
      BY Zenon, <3>3, <2>3 DEF Tracked
    <3>5. QED
      BY Zenon, <3>1, <3>4, <1>b
  <2>4. ASSUME NEW k \in Key, serialize(s, k) PROVE PeerTracked'
    <3> DEFINE m == IF sendToPeer[s][k] = None THEN Delete(k)
                    ELSE Update(k, sendToPeer[s][k])
    <3>1. m \in Msg /\ m.key = k /\ m.val = sendToPeer[s][k]
      BY DEF Msg, Delete, Update, Collection, Item
    <3>2. Send(s, m)
      BY Zenon, <2>4 DEF serialize
    <3>3. /\ UNCHANGED <<sendToPeer, subVars>> /\ pc[s] = "send" /\ pc' = pc
          /\ todo'[s] = todo[s] \ {k}
          /\ \A t \in Sub \ {s} : todo'[t] = todo[t]
      BY Zenon, <2>4 DEF serialize
    <3> HIDE DEF m
    <3>4. QED
      BY <3>1, <3>2, <3>3, <2>3, Zenon
  <2>5. CASE sendComplete(s)
    <3>1. Complete \in Msg /\ Complete.key \notin Key
      BY NoneAssumption DEF Msg, Complete
    <3>2. /\ UNCHANGED <<sendToPeer, subVars>> /\ pc[s] = "send" /\ pc' = pc
          /\ todo' = todo /\ Send(s, Complete)
      BY Zenon, <2>5 DEF sendComplete
    <3>3. todo'[s] = todo[s] \ {} /\ {} \in SUBSET Key
      BY Zenon, <3>2
    <3>4. QED
      BY <3>1, <3>2, <3>3, <2>3, Zenon
  <2>6. CASE checkRestarted(s)
    <3>1. Restarted \in Msg /\ Restarted.key \notin Key
      BY NoneAssumption DEF Msg, Restarted
    <3>2. /\ UNCHANGED <<sendToPeer, subVars>> /\ pc[s] = "send" /\ todo' = todo
          /\ \A t \in Sub \ {s} : pc'[t] = pc[t]
      BY Zenon, <2>6 DEF checkRestarted
    <3>3. CASE Send(s, Restarted)
      <4>1. todo'[s] = todo[s] \ {} /\ {} \in SUBSET Key
        BY Zenon, <3>2
      <4>2. QED
        BY <3>1, <3>2, <3>3, <4>1, <2>3, Zenon
    <3>4. CASE UNCHANGED wire
      <4>1. \A t \in Sub \ {s} : Same(t)
        BY Zenon, <3>2, <3>4
      <4>2. Tracked(s)'
        BY Zenon, <3>2, <3>4, <2>0 DEF Tracked
      <4>3. QED
        BY <4>1, <4>2, <1>b
    <3>5. QED
      BY Zenon, <2>6, <3>3, <3>4 DEF checkRestarted
  <2>7. QED
    BY Zenon, <1>3, <2>1, <2>2, <2>4, <2>5, <2>6 DEF Server
<1>4. ASSUME NEW s \in Sub, Dial(s) PROVE PeerTracked'
  <2>1. \A t \in Sub \ {s} : Same(t)
    BY Zenon, <1>4 DEF Dial
  <2>2. wire'[s] = <<>> /\ skm' = skm
    BY Zenon, <1>4 DEF Dial, Connections
  <2>3. ASSUME NEW k \in Key
        PROVE  Delivered(wire'[s], k, skm'[s][k], sendToPeer'[s][k], k \in left'[s])
    <3>1. About(wire'[s], k) = {}
      BY <2>2 DEF About
    <3>2. sendToPeer'[s][k] = None /\ (skm[s][k] # None => k \in left'[s])
      BY Zenon, <1>4 DEF Dial, Empty
    <3>3. QED
      BY Zenon, <3>1, <3>2, <2>2 DEF Delivered
  <2>4. Tracked(s)'
    BY <2>3, Zenon DEF Tracked
  <2>5. QED
    BY <2>1, <2>4, <1>b
<1>5. ASSUME NEW s \in Sub, ProcessChange(s) PROVE PeerTracked'
  <2> DEFINE w == wire[s]
             m == w[1]
  <2>1. w \in Seq(Msg) /\ w # <<>> /\ m \in Msg /\ m = Head(w)
    BY <1>5 DEF ProcessChange
  <2>2. wire'[s] = Tail(w) /\ sendToPeer' = sendToPeer /\ todo' = todo /\ pc' = pc
    BY Zenon, <1>5 DEF ProcessChange
  <2>3. \A t \in Sub \ {s} : Same(t)
    <3>1. skm' \in {skm, [skm EXCEPT ![s][m.key] = m.val]}
      BY Zenon, <1>5, <2>1 DEF ProcessChange
    <3>2. QED
      BY Zenon, <1>5, <3>1 DEF ProcessChange
  <2>4. ASSUME NEW k \in Key
        PROVE  /\ m.key = k => skm'[s][k] = m.val
               /\ m.key # k => skm'[s][k] = skm[s][k]
               /\ m.key # k => (k \in left[s] => k \in left'[s])
    <3>1. m.key # k => (k \in left[s] => k \in left'[s])
      BY Zenon, <1>5, <2>1 DEF ProcessChange
    <3>2. CASE m.op \in {"update", "delete"}
      <4>1. skm' = [skm EXCEPT ![s][m.key] = m.val] /\ m.key \in Key
        BY Zenon, <1>5, <2>1, <3>2, MsgType DEF ProcessChange
      <4>2. QED
        BY Zenon, <4>1, <3>1 DEF Collection
    <3>3. CASE m.op \notin {"update", "delete"}
      <4>1. skm' = skm /\ m.key # k
        BY Zenon, <1>5, <2>1, <3>3, MsgType, NoneAssumption DEF ProcessChange
      <4>2. QED
        BY Zenon, <4>1, <3>1
    <3>4. QED
      BY Zenon, <3>2, <3>3
  <2>5. ASSUME pc[s] # "none", NEW k \in Key \ todo[s]
        PROVE  Delivered(wire'[s], k, skm'[s][k], sendToPeer[s][k], k \in left'[s])
    <3>1. Delivered(w, k, skm[s][k], sendToPeer[s][k], k \in left[s])
      BY Zenon, <2>5 DEF PeerTracked
    <3>2. k \in Key
      BY Zenon
    <3>3. /\ w[1].key = k => skm'[s][k] = w[1].val
          /\ w[1].key # k => skm'[s][k] = skm[s][k]
          /\ w[1].key # k => (k \in left[s] => k \in left'[s])
      BY <2>4, <3>2, Zenon
    <3> HIDE DEF w
    <3>4. Delivered(Tail(w), k, skm'[s][k], sendToPeer[s][k], k \in left'[s])
      BY <3>1, <3>2, <3>3, <2>1, TailDelivered, Zenon
    <3>5. QED
      BY <3>4, <2>2, Zenon
  <2>6. Tracked(s)'
    BY <2>2, <2>5, Zenon DEF Tracked
  <2>7. QED
    BY <2>3, <2>6, <1>b
<1>6. ASSUME NEW s \in Sub, ReadFails(s) \/ Resubscribe(s) PROVE PeerTracked'
  <2>1. \A t \in Sub \ {s} : Same(t)
    BY Zenon, <1>6 DEF ReadFails, Resubscribe
  <2>2. pc'[s] = "none"
    BY Zenon, <1>6 DEF ReadFails, Resubscribe
  <2>3. QED
    BY <2>1, <2>2, <1>b, Zenon DEF Tracked
<1>7. CASE UNCHANGED vars
  BY Zenon, <1>7, <1>a DEF vars, PeerTracked, Tracked
<1>8. QED
  BY Zenon, <1>1, <1>2, <1>3, <1>4, <1>5, <1>6, <1>7 DEF Next, Subscriber

\* The invariant holds before any connection.
LEMMA DeliveryInit == Init => DeliveryInv
BY DEF Init, DeliveryInv, Connections, WakeupPending, PeerTracked

\* A subscriber for which nothing is under way agrees with the publisher, for any
\* keys, items, subscribers, socket size and number of calls and crashes.
THEOREM DeliverySafe == Spec => []NoUpdateLost
<1>1. TypeOK /\ DeliveryInv /\ [Next]_vars => DeliveryInv'
  BY Zenon, ConnectionsStep, WakeupStep, PeerTrackedStep DEF DeliveryInv
<1>2. TypeOK /\ DeliveryInv => NoUpdateLost
  <2> SUFFICES ASSUME TypeOK, DeliveryInv, NEW s \in Sub, Quiescent(s)
               PROVE  Agrees(s)
    BY Zenon DEF NoUpdateLost
  <2>1. sendToPeer[s] = km
    BY Zenon DEF DeliveryInv, WakeupPending, Quiescent
  <2>2. todo[s] = {} /\ pc[s] # "none"
    BY Zenon DEF DeliveryInv, Connections, Quiescent
  <2>3. ASSUME NEW k \in Key PROVE About(wire[s], k) = {}
    BY DEF About, Quiescent
  <2>4. QED
    BY Zenon, <2>1, <2>2, <2>3 DEF DeliveryInv, PeerTracked, Delivered, Agrees
<1>3. QED
  BY TypeCorrect, DeliveryInit, <1>1, <1>2, PTL DEF Spec
-----------------------------------------------------------------------------
(* The checkpoint directory, and runs without crashes.                      *)

\* A crash of the publisher forgets at most the call that it interrupts and calls
\* whose file operation failed.
THEOREM CheckpointSafe == Spec => []CheckpointCurrent
<1>1. Init => CheckpointCurrent
  BY Zenon DEF Init, CheckpointCurrent
<1>2. TypeOK /\ CheckpointCurrent /\ [Next]_vars => CheckpointCurrent'
  <2> SUFFICES ASSUME TypeOK, CheckpointCurrent, [Next]_vars
               PROVE  CheckpointCurrent'
    OBVIOUS
  <2>t. /\ km \in Collection /\ files \in Collection
        /\ opPc \in {"idle", "notify", "file"} /\ opKey \in Key \cup {None}
    BY Zenon DEF TypeOK
  <2> USE <2>t DEF Collection, CheckpointCurrent
  <2> USE DEF pubVars, dirVars, servVars, subVars, bounds
  <2>1. CASE Agent
    <3>1. ASSUME NEW k \in Key, NEW v \in Val, Publish(k, v)
          PROVE  CheckpointCurrent'
      BY Zenon, <3>1 DEF Publish, Call
    <3>2. ASSUME NEW k \in Key, Unpublish(k) PROVE CheckpointCurrent'
      BY Zenon, <3>2 DEF Unpublish, Call
    <3>3. ASSUME NEW r \in BOOLEAN, restartImpl(r) PROVE CheckpointCurrent'
      BY Zenon, <3>3, NoneAssumption DEF restartImpl, Call
    <3>4. QED
      BY Zenon, <2>1, <3>1, <3>2, <3>3 DEF Agent
  <2>2. CASE updatersNotify
    BY Zenon, <2>2 DEF updatersNotify
  <2>3. CASE WriteFile
    BY Zenon, <2>3, NoneAssumption DEF WriteFile
  <2>4. CASE WriteFails
    BY Zenon, <2>4 DEF WriteFails
  <2>5. CASE Crash \/ Start
    BY Zenon, <2>5 DEF Crash, Start
  <2>6. ASSUME NEW s \in Sub, Server(s) \/ Subscriber(s) \/ Resubscribe(s)
        PROVE  UNCHANGED <<up, km, opPc, opKey, files, unsaved>>
    BY <2>6, Zenon DEF Server, Attach, determineDiffs, serialize, sendComplete,
                checkRestarted, Subscriber, Dial, ProcessChange, ReadFails,
                Resubscribe
  <2>7. CASE UNCHANGED vars
    BY Zenon, <2>7 DEF vars
  <2>8. QED
    BY <2>1, <2>2, <2>3, <2>4, <2>5, <2>6, <2>7, Zenon DEF Next
<1>3. QED
  BY <1>1, <1>2, TypeCorrect, PTL DEF Spec

\* Without a crash no key is left over from an earlier connection.
LEMMA NothingLeftStep ==
  TypeOK /\ Connections /\ NothingLeft /\ [Next]_vars => NothingLeft'
<1> SUFFICES ASSUME TypeOK, Connections, NothingLeft, [Next]_vars
             PROVE  NothingLeft'
  BY Zenon
<1>t. /\ pc \in [Sub -> {"none", "hello", "snapshot", "send", "wait"}]
      /\ left \in [Sub -> SUBSET Key] /\ sock \in [Sub -> BOOLEAN]
      /\ skm \in [Sub -> Collection] /\ crashes \in Nat
  BY Zenon DEF TypeOK
<1> USE <1>t, BoundsAssumption DEF NothingLeft
<1> USE DEF pubVars, dirVars, servVars, subVars, bounds
<1>1. CASE Agent \/ updatersNotify \/ WriteFile
  BY <1>1, Zenon DEF Agent, Publish, Unpublish, restartImpl, updatersNotify,
                     WriteFile
<1>2. CASE WriteFails \/ Crash
  BY <1>2 DEF WriteFails, Crash
<1>3. CASE Start
  BY Zenon, <1>3 DEF Start
<1>4. ASSUME NEW s \in Sub, Server(s) PROVE NothingLeft'
  <2>1. pc[s] # "none" /\ \A t \in Sub : pc[t] # "none" => pc'[t] # "none"
    BY <1>4, Zenon DEF Server, Attach, determineDiffs, serialize, sendComplete,
                checkRestarted
  <2>2. UNCHANGED <<up, subVars, crashes>>
    BY <1>4, Zenon DEF Server, Attach, determineDiffs, serialize, sendComplete,
                checkRestarted
  <2>3. QED
    BY Zenon, <2>1, <2>2
<1>5. ASSUME NEW s \in Sub, Subscriber(s) \/ Resubscribe(s) PROVE NothingLeft'
  <2>1. CASE Dial(s)
    <3>1. crashes = 0 => left'[s] = {}
      BY Zenon, <2>1 DEF Dial, Empty
    <3>2. QED
      BY Zenon, <2>1, <3>1 DEF Dial
  <2>2. CASE ProcessChange(s)
    <3>1. \A t \in Sub : left[t] = {} => left'[t] = {}
      BY Zenon, <2>2 DEF ProcessChange
    <3>2. \A t \in Sub : ~sock[t] => skm'[t] = skm[t]
      BY Zenon, <2>2 DEF ProcessChange
    <3>3. UNCHANGED <<up, sock, pc, crashes>>
      BY Zenon, <2>2 DEF ProcessChange
    <3>4. QED
      BY Zenon, <3>1, <3>2, <3>3
  <2>3. CASE ReadFails(s)
    BY Zenon, <2>3 DEF ReadFails
  <2>4. CASE Resubscribe(s)
    <3>1. crashes' <= MaxCrash /\ crashes' # 0
      BY <2>4 DEF Resubscribe
    <3>2. QED
      BY Zenon, <3>1
  <2>5. QED
    BY <1>5, <2>1, <2>2, <2>3, <2>4, Zenon DEF Subscriber
<1>6. CASE UNCHANGED vars
  BY Zenon, <1>6 DEF vars
<1>7. QED
  BY <1>1, <1>2, <1>3, <1>4, <1>5, <1>6, Zenon DEF Next

\* As long as no process of the topic crashes, a subscriber for which nothing is
\* under way holds exactly the publisher's collection.
THEOREM ExactWithoutCrash ==
  ASSUME MaxCrash = 0
  PROVE  Spec => []ExactCopy
<1>1. Init => Connections /\ NothingLeft
  BY BoundsAssumption DEF Init, Connections, NothingLeft
<1>2. TypeOK /\ NothingLeft /\ NoUpdateLost => ExactCopy
  <2> SUFFICES ASSUME TypeOK, NothingLeft, NoUpdateLost,
                      NEW s \in Sub, Quiescent(s)
               PROVE  skm[s] = km
    BY Zenon DEF ExactCopy
  <2>1. left[s] = {}
    BY BoundsAssumption DEF NothingLeft, TypeOK
  <2>2. \A k \in Key : skm[s][k] = km[k]
    BY <2>1, Zenon DEF NoUpdateLost, Agrees
  <2>3. QED
    BY <2>2 DEF TypeOK, Collection
<1>3. QED
  BY <1>1, <1>2, TypeCorrect, DeliverySafe, ConnectionsStep, NothingLeftStep, PTL
  DEF Spec
-----------------------------------------------------------------------------
(* "complete" comes after the snapshot.                                     *)

\* The keys of the messages in a socket w that come before the i-th.
Before(w, i) == {w[j].key : j \in 1..(i - 1)}

\* For a goroutine at p that has (ini) not sent "complete" on this connection,
\* with the keys td to send and w in the socket: what the subscriber is owed of
\* the snapshot is still to be sent, or in the socket, and in front of a
\* "complete" if there is one there.
SnapshotOK(p, ini, w, td, ow) ==
  /\ p \in {"hello", "snapshot"} => ini
  /\ p = "wait" => ~ini
  /\ p # "none" /\ ini => \A i \in 1..Len(w) : w[i] # Complete
  /\ p = "send" /\ ini => ow \subseteq td \cup Before(w, Len(w) + 1)
  /\ \A i \in 1..Len(w) : w[i] = Complete => ow \subseteq Before(w, i)

\* The inductive invariant behind CompleteAfterSnapshot.
SnapshotInv ==
  \A s \in Sub : SnapshotOK(pc[s], initial[s], wire[s], todo[s], owed[s])

\* A message that is sent comes after those in the socket.
LEMMA AppendBefore ==
  ASSUME NEW w \in Seq(Msg), NEW m \in Msg
  PROVE  /\ \A i \in 1..(Len(w) + 1) : Before(Append(w, m), i) = Before(w, i)
         /\ Before(Append(w, m), Len(Append(w, m)) + 1)
              = Before(w, Len(w) + 1) \cup {m.key}
<1>1. /\ Len(Append(w, m)) = Len(w) + 1 /\ Append(w, m)[Len(w) + 1] = m
      /\ \A j \in 1..Len(w) : Append(w, m)[j] = w[j]
      /\ Len(w) \in Nat
  OBVIOUS
<1> DEFINE a == Append(w, m)
<1> HIDE DEF a
<1>2. ASSUME NEW i \in 1..(Len(w) + 1) PROVE Before(a, i) = Before(w, i)
  <2>1. \A j \in 1..(i - 1) : a[j] = w[j]
    BY <1>1 DEF a
  <2>2. QED
    BY <2>1, Zenon DEF Before
<1>3. Before(a, Len(w) + 2) = Before(w, Len(w) + 1) \cup {m.key}
  <2>1. 1..((Len(w) + 2) - 1) = 1..((Len(w) + 1) - 1) \cup {Len(w) + 1}
    BY <1>1
  <2>2. /\ \A j \in 1..((Len(w) + 1) - 1) : a[j] = w[j]
        /\ a[Len(w) + 1] = m
    BY <1>1 DEF a
  <2>3. ASSUME NEW I, NEW J, NEW n, I = J \cup {n}, a[n] = m,
               \A j \in J : a[j] = w[j]
        PROVE  {a[j].key : j \in I} = {w[j].key : j \in J} \cup {m.key}
    BY Zenon, <2>3
  <2>4. QED
    BY <2>1, <2>2, <2>3, Zenon DEF Before
<1>4. Len(a) + 1 = Len(w) + 2
  BY <1>1 DEF a
<1>5. QED
  BY Zenon, <1>2, <1>3, <1>4 DEF a

\* Reading the first message leaves the others in front of the i-th.
LEMMA TailBefore ==
  ASSUME NEW w \in Seq(Msg), w # <<>>, NEW i \in 1..(Len(Tail(w)) + 1)
  PROVE  Before(w, i + 1) \ {Head(w).key} \subseteq Before(Tail(w), i)
<1> SUFFICES ASSUME NEW k \in Before(w, i + 1), k # Head(w).key
             PROVE  k \in Before(Tail(w), i)
  BY Zenon
<1>1. PICK j \in 1..(i + 1 - 1) : k = w[j].key
  BY DEF Before
<1>2. j # 1
  BY <1>1
<1>3. j - 1 \in 1..(i - 1) /\ Tail(w)[j - 1] = w[j]
  BY <1>2
<1>4. QED
  BY <1>1, <1>3, Zenon DEF Before

\* Sending a message other than "complete".
LEMMA SnapshotSend ==
  ASSUME NEW w \in Seq(Msg), NEW m \in Msg, m # Complete,
         NEW p, NEW ini, NEW td, NEW ow, NEW left2,
         SnapshotOK(p, ini, w, td, ow), td \subseteq left2 \cup {m.key}
  PROVE  SnapshotOK(p, ini, Append(w, m), left2, ow)
<1> DEFINE a == Append(w, m)
<1>1. /\ Len(a) = Len(w) + 1 /\ Len(w) \in Nat /\ a[Len(w) + 1] = m
      /\ \A j \in 1..Len(w) : a[j] = w[j]
  OBVIOUS
<1>2. /\ \A i \in 1..Len(w) : Before(a, i) = Before(w, i)
      /\ Before(a, Len(a) + 1) = Before(w, Len(w) + 1) \cup {m.key}
  BY AppendBefore
<1> HIDE DEF a
<1>3. \A i \in 1..Len(a) : a[i] = Complete => i \in 1..Len(w) /\ w[i] = Complete
  BY <1>1
<1>4. QED
  BY <1>2, <1>3, Zenon DEF SnapshotOK, a

\* Sending "complete" once every key of the snapshot is in the socket.
LEMMA SnapshotComplete ==
  ASSUME NEW w \in Seq(Msg), NEW ow, SnapshotOK("send", TRUE, w, {}, ow)
  PROVE  SnapshotOK("send", FALSE, Append(w, Complete), {}, ow)
<1> DEFINE a == Append(w, Complete)
<1>1. /\ Len(a) = Len(w) + 1 /\ Len(w) \in Nat
      /\ \A j \in 1..Len(w) : a[j] = w[j]
  OBVIOUS
<1>2. \A i \in 1..(Len(w) + 1) : Before(a, i) = Before(w, i)
  <2>1. Complete \in Msg
    BY DEF Msg
  <2>2. QED
    BY Zenon, <2>1, AppendBefore
<1> HIDE DEF a
<1>3. \A i \in 1..Len(a) : a[i] = Complete => i = Len(w) + 1
  BY <1>1 DEF SnapshotOK
<1>4. ow \subseteq Before(a, Len(w) + 1)
  BY <1>1, <1>2 DEF SnapshotOK
<1>5. QED
  BY <1>3, <1>4, Zenon DEF SnapshotOK, a

\* Handling the first message of a socket.
LEMMA SnapshotReceive ==
  ASSUME NEW w \in Seq(Msg), w # <<>>, NEW p, NEW ini, NEW td, NEW ow,
         SnapshotOK(p, ini, w, td, ow)
  PROVE  SnapshotOK(p, ini, Tail(w), td, ow \ {Head(w).key})
<1> DEFINE t == Tail(w)
<1>1. /\ Len(t) + 1 = Len(w) /\ Len(t) \in Nat
      /\ \A i \in 1..Len(t) : i + 1 \in 1..Len(w) /\ t[i] = w[i + 1]
  OBVIOUS
<1>2. \A i \in 1..(Len(t) + 1) : Before(w, i + 1) \ {Head(w).key} \subseteq Before(t, i)
  BY TailBefore, Zenon
<1> HIDE DEF t
<1>3. Before(w, Len(w) + 1) \ {Head(w).key} \subseteq Before(t, Len(t) + 1)
  BY <1>1, <1>2
<1>4. ASSUME NEW i \in 1..Len(t), t[i] = Complete
      PROVE  ow \ {Head(w).key} \subseteq Before(t, i)
  <2>1. i + 1 \in 1..Len(w) /\ w[i + 1] = Complete /\ i \in 1..(Len(t) + 1)
    BY <1>1, <1>4
  <2>2. ow \subseteq Before(w, i + 1)
    BY <2>1, Zenon DEF SnapshotOK
  <2>3. QED
    BY <1>2, <2>1, <2>2, Zenon
<1>5. p # "none" /\ ini => \A i \in 1..Len(t) : t[i] # Complete
  BY <1>1, Zenon DEF SnapshotOK
<1>6. p = "send" /\ ini => ow \ {Head(w).key} \subseteq td \cup Before(t, Len(t) + 1)
  BY Zenon, <1>3 DEF SnapshotOK
<1>7. QED
  BY <1>4, <1>5, <1>6, Zenon DEF SnapshotOK, t

\* A socket with nothing in it.
LEMMA SnapshotEmpty ==
  ASSUME NEW p, p \notin {"send", "wait"}, NEW ini, p # "none" => ini, NEW td, NEW ow
  PROVE  SnapshotOK(p, ini, <<>>, td, ow)
BY DEF SnapshotOK

\* No step brings "complete" in front of a key of the snapshot.
LEMMA SnapshotStep ==
  TypeOK /\ Connections /\ SnapshotInv /\ [Next]_vars => SnapshotInv'
<1> SUFFICES ASSUME TypeOK, Connections, SnapshotInv, [Next]_vars
             PROVE  SnapshotInv'
  OBVIOUS
<1>t. /\ pc \in [Sub -> {"none", "hello", "snapshot", "send", "wait"}]
      /\ todo \in [Sub -> SUBSET Key] /\ owed \in [Sub -> SUBSET Key]
      /\ initial \in [Sub -> BOOLEAN] /\ wire \in [Sub -> Seq(Msg)]
      /\ sendToPeer \in [Sub -> Collection]
  BY Zenon DEF TypeOK
<1>f. ASSUME NEW s \in Sub,
             SnapshotOK(pc'[s], initial'[s], wire'[s], todo'[s], owed'[s]),
             \A t \in Sub \ {s} :
               /\ pc'[t] = pc[t] /\ initial'[t] = initial[t] /\ wire'[t] = wire[t]
               /\ todo'[t] = todo[t] /\ owed'[t] = owed[t]
      PROVE  SnapshotInv'
  BY <1>f, Zenon DEF SnapshotInv
<1> USE DEF pubVars, dirVars, servVars, subVars, bounds
<1>1. CASE Agent \/ updatersNotify \/ WriteFile \/ WriteFails \/ Start \/ UNCHANGED vars
  <2>1. UNCHANGED <<pc, initial, wire, todo, owed>>
    BY <1>1, Zenon DEF Agent, Publish, Unpublish, restartImpl, updatersNotify,
                       WriteFile, WriteFails, Start, vars
  <2>2. QED
    BY <2>1, Zenon DEF SnapshotInv
<1>2. CASE Crash
  <2>1. \A s \in Sub : pc'[s] = "none" /\ initial'[s] = FALSE
    BY Zenon, <1>2 DEF Crash
  <2>2. UNCHANGED <<wire, owed>>
    BY Zenon, <1>2 DEF Crash
  <2>3. QED
    BY <2>1, <2>2, Zenon DEF SnapshotInv, SnapshotOK
<1>3. ASSUME NEW s \in Sub, Attach(s) PROVE SnapshotInv'
  <2>1. pc[s] = "hello" /\ pc' = [pc EXCEPT ![s] = "snapshot"]
        /\ UNCHANGED <<initial, wire, todo, owed>>
    BY Zenon, <1>3 DEF Attach
  <2>2. SnapshotOK("snapshot", initial[s], wire[s], todo[s], owed[s])
    BY Zenon, <2>1 DEF SnapshotInv, SnapshotOK
  <2>3. QED
    BY Zenon, <1>t, <1>f, <2>1, <2>2
<1>4. ASSUME NEW s \in Sub, determineDiffs(s) PROVE SnapshotInv'
  <2>1. /\ pc[s] \in {"snapshot", "wait"} /\ pc' = [pc EXCEPT ![s] = "send"]
        /\ UNCHANGED <<initial, wire>>
        /\ todo' = [todo EXCEPT ![s] = Diffs(sendToPeer[s])]
        /\ owed' = IF pc[s] = "snapshot" THEN [owed EXCEPT ![s] = todo'[s]] ELSE owed
    BY Zenon, <1>4 DEF determineDiffs
  <2>2. SnapshotOK("send", initial[s], wire[s], todo'[s], owed'[s])
    <3>1. CASE pc[s] = "snapshot"
      <4>1. owed'[s] = todo'[s]
        BY Zenon, <3>1, <2>1, <1>t
      <4>2. initial[s] /\ \A i \in 1..Len(wire[s]) : wire[s][i] # Complete
        BY Zenon, <3>1 DEF SnapshotInv, SnapshotOK
      <4>3. QED
        BY <4>1, <4>2, Zenon DEF SnapshotOK
    <3>2. CASE pc[s] = "wait"
      <4>1. owed'[s] = owed[s]
        BY Zenon, <3>2, <2>1
      <4>2. QED
        BY Zenon, <3>2, <4>1 DEF SnapshotInv, SnapshotOK
    <3>3. QED
      BY Zenon, <2>1, <3>1, <3>2
  <2>3. QED
    BY Zenon, <1>t, <1>f, <2>1, <2>2
<1>5. ASSUME NEW s \in Sub, NEW k \in Key, serialize(s, k) PROVE SnapshotInv'
  <2>1. /\ UNCHANGED <<pc, initial, owed>> /\ todo' = [todo EXCEPT ![s] = @ \ {k}]
        /\ \/ Send(s, Delete(k))
           \/ sendToPeer[s][k] # None /\ Send(s, Update(k, sendToPeer[s][k]))
    BY <1>5, Zenon DEF serialize
  <2>2. PICK m \in Msg : m.key = k /\ m # Complete /\ Send(s, m)
    BY <2>1, <1>t DEF Msg, Update, Delete, Complete, Collection, Item
  <2>3. SnapshotOK(pc[s], initial[s], Append(wire[s], m), todo[s] \ {k}, owed[s])
    BY Zenon, <1>t, <2>2, SnapshotSend DEF SnapshotInv
  <2>4. QED
    BY Zenon, <1>t, <1>f, <2>1, <2>2, <2>3 DEF Send
<1>6. ASSUME NEW s \in Sub, sendComplete(s) PROVE SnapshotInv'
  <2>1. /\ UNCHANGED <<pc, todo, owed>> /\ pc[s] = "send" /\ todo[s] = {}
        /\ initial[s] /\ initial' = [initial EXCEPT ![s] = FALSE]
        /\ wire' = [wire EXCEPT ![s] = Append(@, Complete)]
    BY Zenon, <1>6 DEF sendComplete, Send
  <2>2. SnapshotOK("send", FALSE, Append(wire[s], Complete), {}, owed[s])
    <3>1. SnapshotOK("send", TRUE, wire[s], {}, owed[s])
      BY Zenon, <1>t, <2>1 DEF SnapshotInv
    <3>2. QED
      BY Zenon, <1>t, <3>1, SnapshotComplete
  <2>3. QED
    BY Zenon, <1>t, <1>f, <2>1, <2>2
<1>7. ASSUME NEW s \in Sub, checkRestarted(s) PROVE SnapshotInv'
  <2>1. /\ UNCHANGED <<initial, todo, owed>> /\ pc[s] = "send" /\ ~initial[s]
        /\ pc' = [pc EXCEPT ![s] = "wait"]
        /\ UNCHANGED wire \/ Send(s, Restarted)
    BY <1>7, Zenon DEF checkRestarted
  <2>2. CASE UNCHANGED wire
    <3>1. SnapshotOK("wait", initial[s], wire[s], todo[s], owed[s])
      BY Zenon, <2>1 DEF SnapshotInv, SnapshotOK
    <3>2. QED
      BY Zenon, <1>t, <1>f, <2>1, <2>2, <3>1
  <2>3. CASE Send(s, Restarted)
    <3>1. Restarted \in Msg /\ Restarted # Complete
      BY DEF Msg, Restarted, Complete
    <3>2. SnapshotOK(pc[s], initial[s], Append(wire[s], Restarted), todo[s], owed[s])
      BY Zenon, <1>t, <3>1, SnapshotSend DEF SnapshotInv
    <3>3. SnapshotOK("wait", initial[s], Append(wire[s], Restarted), todo[s], owed[s])
      BY Zenon, <2>1, <3>2 DEF SnapshotOK
    <3>4. QED
      BY Zenon, <1>t, <1>f, <2>1, <2>3, <3>3 DEF Send
  <2>4. QED
    BY Zenon, <2>1, <2>2, <2>3
<1>8. ASSUME NEW s \in Sub, Dial(s) PROVE SnapshotInv'
  <2>1. /\ UNCHANGED wire /\ wire[s] = <<>>
        /\ pc' = [pc EXCEPT ![s] = "hello"] /\ todo' = [todo EXCEPT ![s] = {}]
        /\ initial' = [initial EXCEPT ![s] = TRUE] /\ owed' = [owed EXCEPT ![s] = {}]
    BY Zenon, <1>8 DEF Dial, Connections
  <2>2. SnapshotOK("hello", TRUE, wire[s], {}, {})
    BY Zenon, <2>1, SnapshotEmpty
  <2>3. QED
    BY Zenon, <1>t, <1>f, <2>1, <2>2
<1>9. ASSUME NEW s \in Sub, ProcessChange(s) PROVE SnapshotInv'
  <2>1. /\ UNCHANGED <<pc, initial, todo>> /\ wire[s] # <<>>
        /\ wire' = [wire EXCEPT ![s] = Tail(@)]
        /\ owed' = [owed EXCEPT ![s] = @ \ {Head(wire[s]).key}]
    BY Zenon, <1>9 DEF ProcessChange
  <2>2. SnapshotOK(pc[s], initial[s], Tail(wire[s]), todo[s],
                   owed[s] \ {Head(wire[s]).key})
    BY Zenon, <1>t, <2>1, SnapshotReceive DEF SnapshotInv
  <2>3. QED
    BY Zenon, <1>t, <1>f, <2>1, <2>2
<1>10. ASSUME NEW s \in Sub, ReadFails(s) PROVE SnapshotInv'
  <2>1. UNCHANGED <<pc, initial, wire, todo, owed>>
    BY Zenon, <1>10 DEF ReadFails
  <2>2. QED
    BY <2>1, Zenon DEF SnapshotInv
<1>11. ASSUME NEW s \in Sub, Resubscribe(s) PROVE SnapshotInv'
  <2>1. /\ wire' = [wire EXCEPT ![s] = <<>>] /\ pc' = [pc EXCEPT ![s] = "none"]
        /\ initial' = [initial EXCEPT ![s] = FALSE]
        /\ todo' = [todo EXCEPT ![s] = {}] /\ owed' = [owed EXCEPT ![s] = {}]
    BY Zenon, <1>11 DEF Resubscribe
  <2>2. SnapshotOK("none", FALSE, <<>>, {}, {})
    BY Zenon, SnapshotEmpty
  <2>3. QED
    BY Zenon, <1>t, <1>f, <2>1, <2>2
<1>12. QED
  BY <1>1, <1>2, <1>3, <1>4, <1>5, <1>6, <1>7, <1>8, <1>9, <1>10, <1>11, Zenon
  DEF Next, Server, Subscriber

\* "complete" reaches a subscriber only after every key of the snapshot that
\* serveConnection took for the connection, however the publisher's calls, the
\* socket's blocking and crashes interleave.
THEOREM CompleteSafe == Spec => []CompleteAfterSnapshot
<1>1. Init => Connections /\ SnapshotInv
  BY DEF Init, Connections, SnapshotInv, SnapshotOK
<1>2. TypeOK /\ SnapshotInv => CompleteAfterSnapshot
  <2> SUFFICES ASSUME TypeOK, SnapshotInv, NEW s \in Sub, wire[s] # <<>>,
                      Head(wire[s]) = Complete
               PROVE  owed[s] = {}
    BY Zenon DEF CompleteAfterSnapshot
  <2>1. 1 \in 1..Len(wire[s]) /\ wire[s][1] = Complete
    BY DEF TypeOK
  <2>2. owed[s] \subseteq Before(wire[s], 1)
    BY Zenon, <2>1 DEF SnapshotInv, SnapshotOK
  <2>3. Before(wire[s], 1) = {}
    BY DEF Before
  <2>4. QED
    BY Zenon, <2>2, <2>3
<1>3. QED
  BY <1>1, <1>2, TypeCorrect, ConnectionsStep, SnapshotStep, PTL DEF Spec
=============================================================================
