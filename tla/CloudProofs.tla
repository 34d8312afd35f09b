---------------------------- MODULE CloudProofs ----------------------------
(***************************************************************************)
(* Lemmas about a send (CloudSend) and about the deferred queue (Deferred), *)
(* for the proofs about zedagent (InfoProofs) and logmanager (LogProofs).   *)
(***************************************************************************)
EXTENDS Deferred, WellFoundedInduction, TLAPS

-----------------------------------------------------------------------------
(* Sending.                                                                 *)

\* A set of numbers has a least element.
LEMMA MinIn ==
  ASSUME NEW S \in SUBSET Nat, S # {}
  PROVE  Min(S) \in S
<1> DEFINE R == OpToRel(<, Nat)
<1>0. IsWellFoundedOn(R, Nat)
  BY NatLessThanWellFounded
<1> HIDE DEF R
<1>1. \E x \in S : \A y \in S : ~(<<y, x>> \in R)
  <2>1. S \subseteq Nat
    OBVIOUS
  <2>2. QED
    BY <1>0, <2>1, WFMin, Zenon
<1>2. \E x \in S : \A y \in S : x <= y
  <2>1. \A x, y \in Nat : y < x => <<y, x>> \in R
    BY Zenon DEF R, OpToRel
  <2>2. PICK x \in S : \A y \in S : ~(<<y, x>> \in R)
    BY <1>1
  <2>3. ASSUME NEW y \in S
        PROVE  x <= y
    <3>1. x \in Nat /\ y \in Nat
      OBVIOUS
    <3>2. ~(y < x)
      BY <2>1, <2>2, <3>1, Zenon
    <3>3. QED
      BY <3>1, <3>2
  <2>4. QED
    BY <2>3
<1>3. QED
  BY <1>2 DEF Min

\* The attempts on one interface are among those that could be made.
LEMMA MadeType ==
  ASSUME NEW n \in Nat, NEW a \in [1..n -> Attempt]
  PROVE  Made(a) \in Seq(Attempt)
<1>1. a \in Seq(Attempt) /\ DOMAIN a = 1..n /\ Len(a) = n
  OBVIOUS
<1> DEFINE answered == {i \in DOMAIN a : a[i] \in Response}
<1>2. CASE answered = {}
  BY Zenon, <1>1, <1>2 DEF Made
<1>3. CASE answered # {}
  <2>0. answered \in SUBSET Nat /\ answered \subseteq 1..n
    BY <1>1
  <2>1. Min(answered) \in 1..n
    BY <1>3, <2>0, MinIn, Zenon
  <2> DEFINE e == Min(answered)
  <2> HIDE DEF e
  <2>a. e \in 1..n
    BY Zenon, <2>1 DEF e
  <2>b. SubSeq(a, 1, e) \in Seq(Attempt)
    BY <1>1, <2>a
  <2>2. SubSeq(a, 1, Min(answered)) \in Seq(Attempt)
    BY Zenon, <2>b DEF e
  <2>3. QED
    BY Zenon, <1>3, <2>2 DEF Made
<1>4. QED
  BY Zenon, <1>2, <1>3

\* An interface that gives an answer had a connection.
LEMMA AnswerConnected ==
  ASSUME NEW n \in Nat, NEW a \in [1..n -> Attempt], SendOnIntf(a) # "none"
  PROVE  Connected(Made(a)) # {}
<1>1. Made(a) \in Seq(Attempt) /\ Made(a) # <<>> /\ Made(a)[Len(Made(a))] \in Response
  BY Zenon, MadeType DEF SendOnIntf
<1>2. Len(Made(a)) \in DOMAIN Made(a) /\ Made(a)[Len(Made(a))] # "dial"
  BY <1>1 DEF Response
<1>3. QED
  BY Zenon, <1>2 DEF Connected

\* A send that returns no error has handed the message to a request
\* (SendOnAllIntf, SendOnIntf): the buffer is read.
LEMMA SuccessReads ==
  ASSUME NEW r \in BOOLEAN, NEW o \in SendOutcomes[r], o.result # "error"
  PROVE  o.body # "none"
<1> DEFINE addrs == UNION {[1..n -> Attempt] : n \in 0..MaxAddrs}
           calls == UNION {[1..n -> addrs] : n \in 0..MaxIntfs}
<1>1. PICK intfs \in calls :
        o = [result |-> SendOnAllIntf(intfs, r).result,
             body |-> BodyAttempt(SendOnAllIntf(intfs, r).made)]
  BY Zenon DEF SendOutcomes
<1>2. PICK m \in 0..MaxIntfs : intfs \in [1..m -> addrs]
  BY Zenon
<1>a. \A j \in 1..m : \E n \in Nat : intfs[j] \in [1..n -> Attempt]
  <2> SUFFICES ASSUME NEW j \in 1..m PROVE \E n \in Nat : intfs[j] \in [1..n -> Attempt]
    BY Zenon
  <2>1. intfs[j] \in addrs
    BY Zenon, <1>2
  <2>2. QED
    BY <2>1, SendAssumption
<1> DEFINE final == {j \in DOMAIN intfs : Final(SendOnIntf(intfs[j]), r)}
           last == IF final = {} THEN Len(intfs) ELSE Min(final)
           made == [j \in 1..last |-> Made(intfs[j])]
           up == {j \in DOMAIN made : Connected(made[j]) # {}}
<1>3. /\ SendOnAllIntf(intfs, r).result = IF final = {} THEN "error" ELSE SendOnIntf(intfs[last])
      /\ SendOnAllIntf(intfs, r).made = made
  BY Zenon DEF SendOnAllIntf
<1>4. final # {} /\ o.body = BodyAttempt(made)
  BY Zenon, <1>1, <1>3
<1>5. last \in final /\ last \in 1..m /\ m \in Nat
  <2>1. final \subseteq 1..m /\ m \in Nat /\ final \in SUBSET Nat
    BY <1>2, SendAssumption
  <2>2. Min(final) \in final
    BY <1>4, <2>1, MinIn, Zenon
  <2>3. QED
    BY Zenon, <1>4, <2>1, <2>2
<1>6. Connected(Made(intfs[last])) # {}
  <2>1. SendOnIntf(intfs[last]) # "none"
    BY Zenon, <1>5 DEF Final
  <2>2. QED
    BY Zenon, <1>5, <1>a, <2>1, AnswerConnected
<1> HIDE DEF last
<1>7. last \in up
  BY <1>5, <1>6
<1>8. Min(up) \in up /\ Min(up) \in 1..m
  <2>1. up \subseteq 1..m /\ 1..m \subseteq Nat
    BY <1>5
  <2>2. QED
    BY Zenon, <1>7, <2>1, MinIn
<1> DEFINE f == made[Min(up)]
<1>9. f \in Seq(Attempt) /\ Connected(f) # {}
  <2>1. f = Made(intfs[Min(up)])
    BY Zenon, <1>8
  <2>2. QED
    BY Zenon, <1>8, <1>a, <2>1, MadeType
<1>10. BodyAttempt(made) = f[Min(Connected(f))]
  BY Zenon, <1>7 DEF BodyAttempt
<1> HIDE DEF f
<1>11. Min(Connected(f)) \in Connected(f)
  <2>1. Connected(f) \in SUBSET Nat
    BY <1>9 DEF Connected
  <2>2. QED
    BY <1>9, <2>1, MinIn, Zenon
<1>12. f[Min(Connected(f))] \in Attempt
  BY <1>9, <1>11 DEF Connected
<1>13. "none" \notin Attempt
  BY Zenon, SendAssumption DEF Attempt, Fault
<1>14. QED
  BY Zenon, <1>4, <1>10, <1>12, <1>13

-----------------------------------------------------------------------------
(* The deferred queue.                                                      *)

\* handleDeferred's local variables
HdType == [pc : {"idle", "range", "end", "stop"} \cup Key,
           visited : SUBSET Key, list : Seq(Nat)]

\* A sequence that grows at its end.
LEMMA AppendFacts ==
  ASSUME NEW S, NEW s \in Seq(S), NEW x \in S
  PROVE  /\ Append(s, x) \in Seq(S)
         /\ Len(s) \in Nat /\ DOMAIN s = 1..Len(s)
         /\ Len(Append(s, x)) = Len(s) + 1
         /\ DOMAIN Append(s, x) = DOMAIN s \cup {Len(s) + 1}
         /\ \A n \in DOMAIN s : Append(s, x)[n] = s[n]
         /\ Append(s, x)[Len(s) + 1] = x
         /\ Range(Append(s, x)) = Range(s) \cup {x}
<1>1. PICK t : t = Append(s, x)
  BY Zenon
<1>2. /\ t \in Seq(S) /\ Len(s) \in Nat /\ Len(t) = Len(s) + 1 /\ DOMAIN s = 1..Len(s)
      /\ DOMAIN t = 1..Len(t)
  BY <1>1
<1>3. (\A n \in DOMAIN s : t[n] = s[n]) /\ t[Len(s) + 1] = x
  BY <1>1
<1>4. DOMAIN t = DOMAIN s \cup {Len(s) + 1}
  BY <1>2
<1>5. Range(t) = Range(s) \cup {x}
  <2>1. ASSUME NEW y \in Range(t) PROVE y \in Range(s) \cup {x}
    BY Zenon, <1>3, <1>4 DEF Range
  <2>2. ASSUME NEW y \in Range(s) PROVE y \in Range(t)
    BY Zenon, <1>3, <1>4 DEF Range
  <2>3. x \in Range(t)
    BY Zenon, <1>3, <1>4 DEF Range
  <2>4. QED
    BY Zenon, <2>1, <2>2, <2>3
<1>6. QED
  BY Zenon, <1>1, <1>2, <1>3, <1>4, <1>5

\* The same for a variable that a step appends a number to.
LEMMA ReceivedFacts ==
  ASSUME received \in Seq(Nat), NEW b \in Nat, received' = Append(received, b)
  PROVE  /\ received' \in Seq(Nat)
         /\ Len(received) \in Nat /\ DOMAIN received = 1..Len(received)
         /\ Len(received') = Len(received) + 1
         /\ DOMAIN received' = DOMAIN received \cup {Len(received) + 1}
         /\ \A n \in DOMAIN received : received'[n] = received[n]
         /\ received'[Len(received) + 1] = b
         /\ Range(received') = Range(received) \cup {b}
<1>1. PICK s \in Seq(Nat) : s = received
  BY Zenon
<1>2. PICK t : t = received' /\ t = Append(s, b)
  BY Zenon, <1>1
<1>3. /\ t \in Seq(Nat)
      /\ Len(s) \in Nat /\ DOMAIN s = 1..Len(s)
      /\ Len(t) = Len(s) + 1
      /\ DOMAIN t = DOMAIN s \cup {Len(s) + 1}
      /\ \A n \in DOMAIN s : t[n] = s[n]
      /\ t[Len(s) + 1] = b
      /\ Range(t) = Range(s) \cup {b}
  BY SMTT(20), <1>2, AppendFacts
<1>4. QED
  BY Zenon, <1>1, <1>2, <1>3

\* An assignment to two of handleDeferred's variables.
LEMMA HdUpdate ==
  ASSUME hd \in HdType, NEW p \in {"idle", "range", "end", "stop"} \cup Key,
         NEW x \in Seq(Nat)
  PROVE  /\ [hd EXCEPT !.pc = p, !.list = x] \in HdType
         /\ [hd EXCEPT !.pc = p, !.list = x].pc = p
         /\ [hd EXCEPT !.pc = p, !.list = x].list = x
         /\ [hd EXCEPT !.list = x] \in HdType
         /\ [hd EXCEPT !.list = x].pc = hd.pc
         /\ [hd EXCEPT !.list = x].list = x
  BY Zenon DEF HdType

\* One send, as the queue and the cloud see it: a send without an error has read
\* the buffer, and a buffer arrives at most once.
LEMMA SentFacts ==
  ASSUME NEW b \in Nat, NEW o \in SendOutcomes[TRUE], Sent(b, o),
         received \in Seq(Nat), Range(received) \subseteq drained
  PROVE  /\ drained \subseteq drained' /\ drained' \subseteq drained \cup {b}
         /\ o.result # "error" => b \in drained'
         /\ \/ received' = received
            \/ received' = Append(received, b) /\ b \notin drained /\ b \in drained'
         /\ received' \in Seq(Nat) /\ Range(received') \subseteq drained'
<1>1. drained' = IF o.body = "none" THEN drained ELSE drained \cup {b}
  BY Zenon DEF Sent
<1>2. o.result # "error" => o.body # "none"
  BY Zenon, SuccessReads
<1>3. PICK arrived \in Arrives(b, o) :
        received' = IF arrived THEN Append(received, b) ELSE received
  BY Zenon DEF Sent
<1>4. CASE b \in drained
  <2>1. received' = received
    BY Zenon, <1>3, <1>4 DEF Arrives
  <2>2. QED
    BY Zenon, <1>1, <1>2, <2>1
<1>5. CASE b \notin drained
  <2>1. arrived \in MayArrive(o.body)
    BY Zenon, <1>3, <1>5 DEF Arrives
  <2>2. CASE o.body = "none"
    <3>1. MayArrive(o.body) = {FALSE}
      BY Zenon, <2>2 DEF MayArrive
    <3>2. QED
      BY Zenon, <1>1, <1>2, <1>3, <2>1, <2>2, <3>1
  <2>3. CASE o.body # "none"
    <3>1. b \in drained' /\ drained' = drained \cup {b}
      BY Zenon, <1>1, <2>3
    <3>2. received' = received \/ received' = Append(received, b)
      BY Zenon, <1>3
    <3>3. received' \in Seq(Nat) /\ Range(received') \subseteq Range(received) \cup {b}
      <4>1. CASE received' = received
        BY Zenon, <4>1
      <4>2. CASE received' = Append(received, b)
        BY Zenon, <4>2, ReceivedFacts
      <4>3. QED
        BY Zenon, <3>2, <4>1, <4>2
    <3>4. QED
      BY Zenon, <1>5, <3>1, <3>2, <3>3
  <2>4. QED
    BY Zenon, <2>2, <2>3
<1>6. QED
  BY Zenon, <1>4, <1>5

=============================================================================
