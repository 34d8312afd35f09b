---------------------------- MODULE InfoProofs -----------------------------
(***************************************************************************)
(* Proofs about zedagent's messages (InfoReport): for any keys, faults,     *)
(* numbers of interfaces and addresses, and number of messages, no older    *)
(* state is received after a newer one and the newest is not forgotten.     *)
(***************************************************************************)
EXTENDS InfoReport, CloudProofs

\* At most one message about k is deferred, and it is the newest about k.
ItemOK(k) ==
  deferredItems[k] # <<>> =>
    \E b \in DOMAIN about : /\ deferredItems[k] = <<b>>
                            /\ about[b] = k /\ Newest(b)

\* handleDeferred's copy of the list of a key is that list, until it is sent.
CopyOK ==
  hd.pc \in Key => \/ hd.list = deferredItems[hd.pc]
                   \/ hd.list = <<>> /\ Range(deferredItems[hd.pc]) \subseteq drained

\* What publishing and retrying keep between them: nothing that was received is
\* still unread, the timer runs while something is deferred.
InfoInv ==
  /\ about \in Seq(Key) /\ received \in Seq(Nat)
  /\ deferredItems \in [Key -> Seq(Nat)]
  /\ hd \in HdType
  /\ Range(received) \subseteq drained /\ drained \subseteq DOMAIN about
  /\ \A k \in Key : ItemOK(k)
  /\ CopyOK
  /\ Keys # {} => timer = "short"
  /\ hd.pc = "stop" => Keys = {}
  /\ NeverOlder /\ NothingForgotten

\* A message that is newer than all received ones of its key keeps the order.
LEMMA OrderKept ==
  ASSUME about \in Seq(Key), about' \in Seq(Key), received \in Seq(Nat),
         \A c \in DOMAIN about : c \in DOMAIN about' /\ about'[c] = about[c],
         Range(received) \subseteq DOMAIN about, NeverOlder,
         NEW b \in Nat,
         \/ received' = received
         \/ /\ received' = Append(received, b)
            /\ \A c \in Range(received) : about[c] = about'[b] => c < b
  PROVE  NeverOlder'
<1> SUFFICES ASSUME NEW i \in DOMAIN received', NEW j \in DOMAIN received', i < j,
                    about'[received'[i]] = about'[received'[j]]
             PROVE  received'[i] < received'[j]
  BY Zenon DEF NeverOlder
<1>1. \A n \in DOMAIN received : /\ received[n] \in Range(received)
                                 /\ about'[received[n]] = about[received[n]]
  BY Zenon DEF Range
<1>2. CASE received' = received
  BY Zenon, <1>1, <1>2 DEF NeverOlder
<1>3. CASE /\ received' = Append(received, b)
           /\ \A c \in Range(received) : about[c] = about'[b] => c < b
  <2>1. /\ DOMAIN received' = DOMAIN received \cup {Len(received) + 1}
        /\ \A n \in DOMAIN received : received'[n] = received[n]
        /\ received'[Len(received) + 1] = b
        /\ DOMAIN received = 1..Len(received) /\ Len(received) \in Nat
    BY <1>3, ReceivedFacts, Zenon
  <2>2. i \in DOMAIN received
    BY <2>1
  <2>3. CASE j \in DOMAIN received
    BY <1>1, <2>1, <2>2, <2>3 DEF NeverOlder
  <2>4. CASE j = Len(received) + 1
    BY Zenon, <1>1, <1>3, <2>1, <2>2, <2>4
  <2>5. QED
    BY Zenon, <2>1, <2>3, <2>4
<1>4. QED
  BY Zenon, <1>2, <1>3

\* An agent that starts has made no message.
LEMMA InfoInvInit == InfoInit => InfoInv
  BY KeyAssumption DEF InfoInit, DeferredInit, InfoInv, HdType, NotHandling, ItemOK, CopyOK, Keys,
     NeverOlder, NothingForgotten, Range, Newest

\* Publishing: the new message replaces the deferred one of its key, or is read.
LEMMA PublishKeeps ==
  ASSUME InfoInv, NEW key \in Key, NEW o \in SendOutcomes[TRUE], PublishInfo(key, o)
  PROVE  InfoInv'
<1>0. PICK b : b = Len(about) + 1
  BY Zenon
<1>1. /\ hd.pc = "idle" /\ hd' = hd /\ about' = Append(about, key)
      /\ Sent(b, o) /\ Requeue(key, b, o.result = "error")
  BY Zenon, <1>0 DEF PublishInfo
<1>2. /\ about \in Seq(Key) /\ received \in Seq(Nat)
      /\ deferredItems \in [Key -> Seq(Nat)]
      /\ Range(received) \subseteq drained /\ drained \subseteq DOMAIN about
      /\ Keys # {} => timer = "short"
  BY Zenon DEF InfoInv
<1>3. /\ b \in Nat /\ b \notin DOMAIN about /\ \A c \in DOMAIN about : c \in Nat /\ c < b
      /\ about' \in Seq(Key) /\ DOMAIN about' = DOMAIN about \cup {b} /\ about'[b] = key
      /\ \A c \in DOMAIN about : about'[c] = about[c] /\ about[c] \in Key
  <2>1. /\ about' \in Seq(Key) /\ Len(about) \in Nat /\ DOMAIN about = 1..Len(about)
        /\ DOMAIN about' = DOMAIN about \cup {b} /\ about'[b] = key
        /\ \A c \in DOMAIN about : about'[c] = about[c]
    BY <1>0, <1>1, <1>2, AppendFacts
  <2>2. b \in Nat /\ b \notin DOMAIN about /\ \A c \in DOMAIN about : c \in Nat /\ c < b
    BY <1>0, <2>1
  <2>3. \A c \in DOMAIN about : about[c] \in Key
    BY <1>2
  <2>4. QED
    BY Zenon, <2>1, <2>2, <2>3
<1>4. /\ drained \subseteq drained' /\ drained' \subseteq drained \cup {b}
      /\ o.result # "error" => b \in drained'
      /\ \/ received' = received
         \/ received' = Append(received, b) /\ b \notin drained /\ b \in drained'
      /\ received' \in Seq(Nat) /\ Range(received') \subseteq drained'
  BY Zenon, <1>1, <1>2, <1>3, SentFacts
<1>5. drained' \subseteq DOMAIN about'
  BY Zenon, <1>2, <1>3, <1>4
<1>6. /\ deferredItems' \in [Key -> Seq(Nat)]
      /\ \A k \in Key \ {key} : deferredItems'[k] = deferredItems[k]
      /\ o.result = "error" => deferredItems'[key] = <<b>>
      /\ o.result # "error" => deferredItems'[key] = <<>>
  BY <1>1, <1>2, <1>3 DEF Requeue, set, removed
<1>7. Newest(b)'
  BY <1>3 DEF Newest
<1>8. ASSUME NEW k \in Key
      PROVE  ItemOK(k)'
  <2>1. CASE k = key
    BY Zenon, <1>3, <1>6, <1>7, <2>1 DEF ItemOK
  <2>2. CASE k # key
    <3>1. ItemOK(k) /\ deferredItems'[k] = deferredItems[k]
      BY Zenon, <1>6, <2>2 DEF InfoInv
    <3>2. ASSUME NEW c \in DOMAIN about, about[c] = k, Newest(c)
          PROVE  c \in DOMAIN about' /\ about'[c] = k /\ Newest(c)'
      BY Zenon, <1>3, <2>2, <3>2 DEF Newest
    <3>3. QED
      BY Zenon, <3>1, <3>2 DEF ItemOK
  <2>3. QED
    BY Zenon, <2>1, <2>2
<1>9. /\ Keys \ {key} # {} => timer' = "short"
      /\ o.result = "error" => timer' = "short"
      /\ Keys' \subseteq IF o.result = "error" THEN Key ELSE Keys \ {key}
  BY Zenon, <1>1, <1>2, <1>6 DEF Requeue, timerAfterRemove, Keys
<1>10. (Keys # {} => timer = "short")'
  BY Zenon, <1>9
<1>11. NeverOlder'
  <2>1. \A c \in Range(received) : c < b
    BY Zenon, <1>2, <1>3
  <2>2. Range(received) \subseteq DOMAIN about /\ NeverOlder
    BY Zenon, <1>2 DEF InfoInv
  <2>3. QED
    BY Zenon, <1>2, <1>3, <1>4, <2>1, <2>2, OrderKept
<1>12. NothingForgotten'
  <2> SUFFICES ASSUME NEW c \in DOMAIN about', Newest(c)'
               PROVE  \/ c \in Range(received') \cup drained'
                      \/ c \in Range(deferredItems'[about'[c]]) /\ timer' = "short"
    BY Zenon DEF NothingForgotten
  <2>1. CASE c = b
    <3>1. Range(<<b>>) = {b}
      BY DEF Range
    <3>2. QED
      BY Zenon, <1>3, <1>4, <1>6, <1>9, <2>1, <3>1
  <2>2. CASE c # b
    <3>1. c \in DOMAIN about /\ about'[c] = about[c] /\ about[c] # key
      BY <1>3, <2>2 DEF Newest
    <3>2. Newest(c)
      BY Zenon, <1>3, <3>1 DEF Newest
    <3>3. \/ c \in Range(received) \cup drained
          \/ c \in Range(deferredItems[about[c]]) /\ timer = "short"
      BY Zenon, <3>1, <3>2 DEF InfoInv, NothingForgotten
    <3>4. CASE c \in Range(received) \cup drained
      BY Zenon, <1>2, <1>4, <3>4
    <3>5. CASE c \in Range(deferredItems[about[c]])
      <4>1. about[c] \in Keys \ {key}
        BY <1>3, <3>1, <3>5 DEF Keys, Range
      <4>2. QED
        BY Zenon, <1>3, <1>6, <1>9, <3>1, <3>5, <4>1
    <3>6. QED
      BY Zenon, <3>3, <3>4, <3>5
  <2>3. QED
    BY Zenon, <2>1, <2>2
<1>13. CopyOK' /\ (hd.pc = "stop" => Keys = {})'
  BY Zenon, <1>1, KeyAssumption DEF CopyOK
<1>14. QED
  BY Zenon, <1>1, <1>3, <1>4, <1>5, <1>6, <1>8, <1>10, <1>11, <1>12, <1>13 DEF InfoInv

\* Sending one deferred message: it is the newest of its key, so it keeps the order.
LEMMA SendItemKeeps ==
  ASSUME InfoInv, NEW o \in SendOutcomes[TRUE], SendItem(o), UNCHANGED about
  PROVE  InfoInv'
<1>1. /\ hd.pc \in Key /\ hd.list # <<>> /\ Sent(Head(hd.list), o)
      /\ hd' = IF o.result = "error" THEN [hd EXCEPT !.pc = "end", !.list = <<>>]
                                     ELSE [hd EXCEPT !.list = Tail(hd.list)]
      /\ deferredItems' = deferredItems /\ timer' = timer /\ about' = about
  BY Zenon DEF SendItem
<1>2. /\ about \in Seq(Key) /\ received \in Seq(Nat)
      /\ deferredItems \in [Key -> Seq(Nat)]
      /\ Range(received) \subseteq drained /\ drained \subseteq DOMAIN about
      /\ hd \in HdType
      /\ NeverOlder /\ NothingForgotten
  BY Zenon DEF InfoInv
<1>3. hd.list = deferredItems[hd.pc]
  BY Zenon, <1>1 DEF InfoInv, CopyOK
<1>4. PICK b \in DOMAIN about : hd.list = <<b>> /\ about[b] = hd.pc /\ Newest(b)
  BY Zenon, <1>1, <1>3 DEF InfoInv, ItemOK
<1>5. b \in Nat /\ Head(hd.list) = b /\ Tail(hd.list) = <<>> /\ Range(hd.list) = {b}
  BY <1>2, <1>4 DEF Range
<1>6. /\ drained \subseteq drained' /\ drained' \subseteq drained \cup {b}
      /\ o.result # "error" => b \in drained'
      /\ \/ received' = received
         \/ received' = Append(received, b) /\ b \notin drained /\ b \in drained'
      /\ received' \in Seq(Nat) /\ Range(received') \subseteq drained'
  BY Zenon, <1>1, <1>2, <1>5, SentFacts
<1>7. /\ hd' \in HdType
      /\ o.result = "error" => hd'.pc = "end"
      /\ o.result # "error" => hd'.pc = hd.pc /\ hd'.list = <<>>
  <2>0. <<>> \in Seq(Nat)
    OBVIOUS
  <2>1. CASE o.result = "error"
    BY Zenon, <1>1, <1>2, <2>0, <2>1, HdUpdate
  <2>2. CASE o.result # "error"
    BY Zenon, <1>1, <1>2, <1>5, <2>0, <2>2, HdUpdate
  <2>3. QED
    BY Zenon, <2>1, <2>2
<1>8. NeverOlder'
  <2>1. ASSUME NEW c \in Range(received), about[c] = about[b], b \notin drained
        PROVE  c < b
    <3>1. c \in DOMAIN about /\ c # b /\ c \in Nat
      BY <1>2, <2>1
    <3>2. QED
      BY <1>4, <1>5, <2>1, <3>1 DEF Newest
  <2>2. Range(received) \subseteq DOMAIN about
    BY Zenon, <1>2
  <2>3. QED
    BY Zenon, <1>1, <1>2, <1>5, <1>6, <2>1, <2>2, OrderKept
<1>9. NothingForgotten'
  <2>1. \A c \in DOMAIN about : c \in Range(received) => c \in drained'
    BY Zenon, <1>2, <1>6
  <2>2. \A c : Newest(c)' <=> Newest(c)
    BY Zenon, <1>1 DEF Newest
  <2>3. QED
    BY Zenon, <1>1, <1>2, <1>6, <2>1, <2>2 DEF NothingForgotten
<1>10. CopyOK'
  BY Zenon, <1>1, <1>3, <1>5, <1>6, <1>7, KeyAssumption DEF CopyOK
<1>11. \A k \in Key : ItemOK(k)'
  BY <1>1 DEF InfoInv, ItemOK, Newest
<1>12. (Keys # {} => timer = "short")' /\ (hd.pc = "stop" => Keys = {})'
  BY Zenon, <1>1, <1>7, KeyAssumption DEF InfoInv, Keys
<1>13. drained' \subseteq DOMAIN about'
  BY Zenon, <1>1, <1>2, <1>4, <1>6
<1>14. QED
  BY Zenon, <1>1, <1>2, <1>6, <1>7, <1>8, <1>9, <1>10, <1>11, <1>12, <1>13 DEF InfoInv

\* The other steps of handleDeferred send nothing.
LEMMA RetryKeeps ==
  ASSUME InfoInv, UNCHANGED <<about, drained, received>>,
         \/ HandleDeferred \/ DeleteKey \/ EndEmpty \/ EndNonEmpty \/ StopTimer
         \/ \E key \in Key : NextKey(key)
  PROVE  InfoInv'
<1>1. /\ about \in Seq(Key) /\ received \in Seq(Nat)
      /\ deferredItems \in [Key -> Seq(Nat)] /\ hd \in HdType
      /\ Range(received) \subseteq drained /\ drained \subseteq DOMAIN about
      /\ \A k \in Key : ItemOK(k)
      /\ CopyOK /\ (Keys # {} => timer = "short") /\ (hd.pc = "stop" => Keys = {})
      /\ NeverOlder /\ NothingForgotten
  BY Zenon DEF InfoInv
<1>2. NeverOlder' /\ \A c : Newest(c)' <=> Newest(c)
  BY Zenon, <1>1 DEF NeverOlder, Newest
<1>3. /\ about' \in Seq(Key) /\ received' \in Seq(Nat)
      /\ Range(received') \subseteq drained' /\ drained' \subseteq DOMAIN about'
  BY Zenon, <1>1
<1>4. ASSUME UNCHANGED <<deferredItems, timer>>
      PROVE  /\ deferredItems' \in [Key -> Seq(Nat)] /\ Keys' = Keys
             /\ \A k \in Key : ItemOK(k)'
             /\ (Keys # {} => timer = "short")' /\ NothingForgotten'
  BY Zenon, <1>1, <1>2, <1>4 DEF ItemOK, NothingForgotten, Keys
<1>5. CASE HandleDeferred
  <2>0. NotHandling \in HdType
    BY DEF NotHandling, HdType
  <2>1. hd' \in HdType /\ hd'.pc = "range" /\ UNCHANGED <<deferredItems, timer>>
    BY Zenon, <1>5, <2>0 DEF HandleDeferred, HdType
  <2>2. CopyOK' /\ (hd.pc = "stop" => Keys = {})'
    BY Zenon, <2>1, KeyAssumption DEF CopyOK
  <2>3. QED
    BY Zenon, <1>2, <1>3, <1>4, <2>1, <2>2 DEF InfoInv
<1>6. CASE EndEmpty
  <2>1. Keys = {} /\ hd' = [hd EXCEPT !.pc = "stop"] /\ UNCHANGED <<deferredItems, timer>>
    BY Zenon, <1>6 DEF EndEmpty
  <2>2. hd' \in HdType /\ hd'.pc = "stop"
    BY Zenon, <1>1, <2>1 DEF HdType
  <2>3. CopyOK' /\ (hd.pc = "stop" => Keys = {})'
    BY Zenon, <1>4, <2>1, <2>2, KeyAssumption DEF CopyOK
  <2>4. QED
    BY Zenon, <1>2, <1>3, <1>4, <2>1, <2>2, <2>3 DEF InfoInv
<1>7. CASE EndNonEmpty
  <2>1. hd' \in HdType /\ hd'.pc = "idle" /\ UNCHANGED <<deferredItems, timer>>
    BY <1>7 DEF EndNonEmpty, NotHandling, HdType
  <2>2. CopyOK' /\ (hd.pc = "stop" => Keys = {})'
    BY Zenon, <2>1, KeyAssumption DEF CopyOK
  <2>3. QED
    BY Zenon, <1>2, <1>3, <1>4, <2>1, <2>2 DEF InfoInv
<1>8. CASE StopTimer
  <2>1. /\ hd' \in HdType /\ hd'.pc = "idle" /\ Keys = {}
        /\ deferredItems' = deferredItems
    BY <1>1, <1>8 DEF StopTimer, NotHandling, HdType
  <2>2. Keys' = {} /\ \A k \in Key : deferredItems[k] = <<>>
    BY Zenon, <2>1 DEF Keys
  <2>3. CopyOK' /\ \A k \in Key : ItemOK(k)'
    BY Zenon, <2>1, <2>2, KeyAssumption DEF CopyOK, ItemOK
  <2>4. NothingForgotten'
    <3>1. \A c \in DOMAIN about : Range(deferredItems[about[c]]) = {}
      BY <1>1, <2>2 DEF Range
    <3>2. QED
      BY Zenon, <1>1, <1>2, <3>1 DEF NothingForgotten
  <2>5. QED
    BY Zenon, <1>1, <1>2, <1>3, <2>1, <2>2, <2>3, <2>4 DEF InfoInv
<1>9. CASE DeleteKey
  <2>1. /\ hd.pc \in Key /\ hd.list = <<>> /\ hd' = [hd EXCEPT !.pc = "range"]
        /\ deferredItems' = removed(hd.pc) /\ timer' = timer
    BY Zenon, <1>9 DEF DeleteKey
  <2>2. hd' \in HdType /\ hd'.pc = "range"
    BY Zenon, <1>1, <2>1 DEF HdType
  <2>3. Range(deferredItems[hd.pc]) \subseteq drained
    BY <1>1, <2>1 DEF CopyOK, Range
  <2>4. /\ deferredItems' \in [Key -> Seq(Nat)] /\ deferredItems'[hd.pc] = <<>>
        /\ \A k \in Key \ {hd.pc} : deferredItems'[k] = deferredItems[k]
    BY <1>1, <2>1 DEF removed
  <2>5. Keys' \subseteq Keys
    BY Zenon, <2>4 DEF Keys
  <2>6. ASSUME NEW k \in Key PROVE ItemOK(k)'
    BY Zenon, <1>1, <1>2, <2>4 DEF ItemOK
  <2>7. NothingForgotten'
    <3> SUFFICES ASSUME NEW c \in DOMAIN about, Newest(c)
                 PROVE  \/ c \in Range(received) \cup drained
                        \/ c \in Range(deferredItems'[about[c]]) /\ timer = "short"
      BY Zenon, <1>2, <2>1 DEF NothingForgotten
    <3>1. about[c] \in Key
      BY <1>1
    <3>2. \/ c \in Range(received) \cup drained
          \/ c \in Range(deferredItems[about[c]]) /\ timer = "short"
      BY Zenon, <1>1 DEF NothingForgotten
    <3>3. QED
      BY Zenon, <2>3, <2>4, <3>1, <3>2
  <2>8. CopyOK' /\ (hd.pc = "stop" => Keys = {})'
    BY Zenon, <2>2, KeyAssumption DEF CopyOK
  <2>9. QED
    BY Zenon, <1>1, <1>2, <1>3, <2>1, <2>2, <2>4, <2>5, <2>6, <2>7, <2>8 DEF InfoInv
<1>10. CASE \E key \in Key : NextKey(key)
  <2>1. PICK key \in Key : NextKey(key)
    BY Zenon, <1>10
  <2>2. /\ hd' \in HdType /\ hd'.pc = key /\ hd'.list = deferredItems[key]
        /\ UNCHANGED <<deferredItems, timer>>
    BY Zenon, <1>1, <2>1 DEF NextKey, HdType
  <2>3. CopyOK' /\ (hd.pc = "stop" => Keys = {})'
    BY Zenon, <2>2, KeyAssumption DEF CopyOK
  <2>4. QED
    BY Zenon, <1>2, <1>3, <1>4, <2>2, <2>3 DEF InfoInv
<1>11. QED
  BY Zenon, <1>5, <1>6, <1>7, <1>8, <1>9, <1>10

\* Publishing and retrying, in any order.
LEMMA InfoStep == InfoInv /\ [InfoNext]_infoVars => InfoInv'
<1> SUFFICES ASSUME InfoInv, [InfoNext]_infoVars
             PROVE  InfoInv'
  BY Zenon
<1>1. CASE \E key \in Key, o \in SendOutcomes[TRUE] : PublishInfo(key, o)
  BY Zenon, <1>1, PublishKeeps
<1>2. CASE Retry
  <2>1. UNCHANGED about
    BY Zenon, <1>2 DEF Retry
  <2>2. CASE \E o \in SendOutcomes[TRUE] : SendItem(o)
    BY Zenon, <2>1, <2>2, SendItemKeeps
  <2>3. CASE \/ HandleDeferred \/ DeleteKey \/ EndEmpty \/ EndNonEmpty \/ StopTimer
             \/ \E key \in Key : NextKey(key)
    <3>1. UNCHANGED <<drained, received>>
      BY Zenon, <2>3 DEF HandleDeferred, DeleteKey, EndEmpty, EndNonEmpty, StopTimer, NextKey
    <3>2. QED
      BY Zenon, <2>1, <2>3, <3>1, RetryKeeps
  <2>4. QED
    BY Zenon, <1>2, <2>2, <2>3 DEF Retry, handleDeferredStep
<1>3. CASE UNCHANGED infoVars
  <2>1. UNCHANGED <<deferredItems, timer, drained, received, hd, about>>
    BY Zenon, <1>3 DEF infoVars
  <2>2. /\ \A k \in Key : ItemOK(k)' <=> ItemOK(k)
        /\ CopyOK' <=> CopyOK
        /\ Keys' = Keys
        /\ NeverOlder' <=> NeverOlder
        /\ NothingForgotten' <=> NothingForgotten
    BY Zenon, <2>1 DEF ItemOK, CopyOK, Keys, NeverOlder, NothingForgotten, Newest
  <2>3. QED
    BY Zenon, <2>1, <2>2 DEF InfoInv, HdType
<1>4. QED
  BY Zenon, <1>1, <1>2, <1>3 DEF InfoNext

\* In whatever order PublishInfo and handleDeferred take turns, the invariant holds.
THEOREM InfoInvariant == InfoSpec => []InfoInv
  BY InfoInvInit, InfoStep, PTL DEF InfoSpec

\* The cloud never receives an older state of a device or an app after a newer one:
\* RemoveDeferred before every send, and one buffer per key, see to it.
THEOREM InfoNeverOlder == InfoSpec => []NeverOlder
<1>1. InfoInv => NeverOlder
  BY Zenon DEF InfoInv
<1>2. QED
  BY <1>1, InfoInvariant, PTL

\* The newest message about a device or an app is at the cloud, was read by a
\* request, or is deferred while the retry timer is short.
THEOREM InfoNotForgotten == InfoSpec => []NothingForgotten
<1>1. InfoInv => NothingForgotten
  BY Zenon DEF InfoInv
<1>2. QED
  BY <1>1, InfoInvariant, PTL
=============================================================================
