------------------------- MODULE NumAllocatorProofs -------------------------
(***************************************************************************)
(* For any sets of owners and any MaxNum: no number has two owners, the     *)
(* bitmap is exact, every status is backed by an entry, a number in use is  *)
(* kept, and an allocation is refused only when all numbers are in use.     *)
(***************************************************************************)
EXTENDS NumAllocator, TLAPS

Ops == {"create", "publish", "reuse", "free", "unpublish"}

\* The persisted entries f: a number for a UUID, zero for applications only.
EntriesOK(f) ==
    /\ DOMAIN f \subseteq UUID
    /\ \A u \in DOMAIN f :
          /\ f[u] = [num |-> f[u].num, inUse |-> f[u].inUse]
          /\ f[u].num \in Numbered
          /\ u \notin App => f[u].num # 0

\* No two entries of a kind have one number.
Distinct(f) ==
    \A u, v \in DOMAIN f : u # v /\ numType[u] = numType[v] => f[u].num # f[v].num

\* The types that the argument needs.
NumType ==
    /\ EntriesOK(uuidToNum)
    /\ bits \in [Types -> SUBSET Numbered]
    /\ DOMAIN status \subseteq UUID
    /\ pc = Idle \/ (pc = [op |-> pc.op, u |-> pc.u, n |-> pc.n] /\ pc.op \in Ops /\ pc.u \in UUID)

\* What the handler that runs knows: a number on its way to its next owner
\* is in nobody's hands, and an application gives its number back when it
\* has no status any more.
Passing ==
    pc # Idle =>
        /\ pc.op = "reuse" =>
              /\ fatal = "none"
              /\ pc.n \in Numbered \ bits[numType[pc.u]]
              /\ ~Has(pc.u)
              /\ pc.u \notin App => pc.n # 0
        /\ pc.op = "publish" /\ fatal = "none" =>
              Has(pc.u) /\ uuidToNum[pc.u].num = pc.n /\ uuidToNum[pc.u].inUse
        /\ pc.op = "free" => pc.u \in App /\ pc.u \notin DOMAIN status

\* A status whose number is nobody's is one of an object that is being
\* created or deleted, or zedrouter is stopped for it.
Orphan(u) ==
    /\ u \in Object
    /\ \/ status[u] = 0
       \/ /\ status[u] \notin Numbers("bridgeNum")
          /\ fatal = "not set" \/ (pc # Idle /\ pc.op = "unpublish" /\ pc.u = u)

Owns(u) == Has(u) /\ uuidToNum[u].num = status[u] /\ uuidToNum[u].inUse

Backed == \A u \in DOMAIN status \ Instance : Orphan(u) \/ Owns(u)

NumInv == NumType /\ Unique /\ BitsExact /\ Passing /\ Backed

-----------------------------------------------------------------------------
(* What the three ways to change the entries do to their numbers: from the  *)
(* entries f to the entries g.                                             *)

\* What it is for a number to be one of the persisted ones.
LEMMA InNumbers ==
    ASSUME NEW f, NEW t, NEW x
    PROVE  x \in NumbersIn(f, t) <=> \E v \in DOMAIN f : numType[v] = t /\ f[v].num = x
    BY Zenon DEF NumbersIn

\* No entry comes or goes and no number changes (UuidToNumFree, and
\* UuidToNumAllocate for a number that is found).
LEMMA SameNumbers ==
    ASSUME NEW f, NEW g, DOMAIN g = DOMAIN f,
           \A u \in DOMAIN f : g[u].num = f[u].num,
           Distinct(f)
    PROVE  Distinct(g) /\ \A t : NumbersIn(g, t) = NumbersIn(f, t)
<1>1. Distinct(g)
    BY Zenon DEF Distinct
<1>2. ASSUME NEW t PROVE NumbersIn(g, t) = NumbersIn(f, t)
  <2>1. \A x : x \in NumbersIn(g, t) <=> x \in NumbersIn(f, t)
      BY InNumbers
  <2> QED
      BY Zenon, <2>1
<1> QED
    BY Zenon, <1>1, <1>2

\* An entry with a number that is nobody's (UuidToNumAllocate for a new one).
LEMMA NewEntry ==
    ASSUME NEW f, NEW g, NEW u, NEW n,
           u \notin DOMAIN f, Distinct(f), n \notin NumbersIn(f, numType[u]),
           DOMAIN g = DOMAIN f \union {u},
           g[u].num = n,
           \A v \in DOMAIN f : g[v] = f[v]
    PROVE  /\ Distinct(g)
           /\ \A t, x : x \in NumbersIn(g, t) <=>
                            x \in NumbersIn(f, t) \/ (t = numType[u] /\ x = n)
<1>2. \A v \in DOMAIN f : numType[v] = numType[u] => f[v].num # n
    BY Zenon, InNumbers
<1>3. Distinct(g)
    BY Zenon, <1>2 DEF Distinct
<1>4. ASSUME NEW t, NEW x
      PROVE  x \in NumbersIn(g, t) <=> x \in NumbersIn(f, t) \/ (t = numType[u] /\ x = n)
    BY InNumbers
<1> QED
    BY Zenon, <1>3, <1>4

\* An entry goes, and with it its number (UuidToNumDelete).
LEMMA EntryGone ==
    ASSUME NEW f, NEW g, NEW u \in DOMAIN f, Distinct(f),
           DOMAIN g = DOMAIN f \ {u},
           \A v \in DOMAIN f \ {u} : g[v] = f[v]
    PROVE  /\ Distinct(g)
           /\ \A t, x : x \in NumbersIn(g, t) <=>
                            x \in NumbersIn(f, t) /\ ~(t = numType[u] /\ x = f[u].num)
<1>1. /\ DOMAIN g = DOMAIN f \ {u}
      /\ \A v \in DOMAIN f \ {u} : g[v] = f[v]
    BY Zenon
<1>2. \A v \in DOMAIN f \ {u} : numType[v] = numType[u] => f[v].num # f[u].num
    BY Zenon DEF Distinct
<1>3. Distinct(g)
  <2> SUFFICES ASSUME NEW v \in DOMAIN g, NEW w \in DOMAIN g, v # w, numType[v] = numType[w]
               PROVE  g[v].num # g[w].num
      BY Zenon DEF Distinct
  <2>1. f[v].num # f[w].num
      BY Zenon, <1>1 DEF Distinct
  <2> QED
      BY Zenon, <1>1, <2>1
<1>4. ASSUME NEW t, NEW x
      PROVE  x \in NumbersIn(g, t) <=> x \in NumbersIn(f, t) /\ ~(t = numType[u] /\ x = f[u].num)
  <2>1. ASSUME x \in NumbersIn(g, t)
        PROVE  x \in NumbersIn(f, t) /\ ~(t = numType[u] /\ x = f[u].num)
    <3>0. PICK v \in DOMAIN g : numType[v] = t /\ g[v].num = x
        BY <2>1, InNumbers
    <3>1. v \in DOMAIN f \ {u} /\ numType[v] = t /\ f[v].num = x
        BY Zenon, <1>1, <3>0
    <3>2. x \in NumbersIn(f, t)
        BY Zenon, <3>1, InNumbers
    <3>3. ~(t = numType[u] /\ x = f[u].num)
        BY Zenon, <1>2, <3>1
    <3> QED
        BY Zenon, <3>2, <3>3
  <2>2. ASSUME x \in NumbersIn(f, t), ~(t = numType[u] /\ x = f[u].num)
        PROVE  x \in NumbersIn(g, t)
    <3>1. PICK v \in DOMAIN f : numType[v] = t /\ f[v].num = x
        BY <2>2, InNumbers
    <3>2. v \in DOMAIN g /\ g[v].num = x
        BY Zenon, <1>1, <2>2, <3>1
    <3> QED
        BY Zenon, <3>1, <3>2, InNumbers
  <2> QED
      BY Zenon, <2>1, <2>2
<1> QED
    BY Zenon, <1>3, <1>4
-----------------------------------------------------------------------------
(* The steps.                                                              *)

\* A UUID has one of the two kinds of numbers; objects have bridge numbers.
LEMMA KindOf ==
    /\ \A u \in UUID : numType[u] \in Types
    /\ \A u \in UUID : numType[u] = "bridgeNum" => u \notin App
    /\ \A u \in Object : u \in UUID /\ numType[u] = "bridgeNum" /\ u \notin App
    BY Zenon, NumAssumption DEF numType, UUID, Types

\* The first start: no entry, no status, no bit.
LEMMA InitNumInv == Init => NumInv
<1> SUFFICES ASSUME Init PROVE NumInv
    BY Zenon
<1>1. DOMAIN uuidToNum = {} /\ DOMAIN status = {} /\ pc = Idle /\ fatal = "none"
    BY DEF Init
<1>2. bits \in [Types -> SUBSET Numbered] /\ \A t \in Types : bits[t] = {}
    BY Zenon DEF Init, Types
<1>3. NumType
    BY Zenon, <1>1, <1>2 DEF NumType, EntriesOK
<1>4. \A t, x : x \notin NumbersIn(uuidToNum, t)
    BY Zenon, <1>1, InNumbers
<1>5. BitsExact
    BY Zenon, <1>2, <1>4 DEF BitsExact, Numbers
<1> QED
    BY Zenon, <1>1, <1>3, <1>5 DEF NumInv, Unique, Passing, Backed

\* appNumAllocate and bridgeNumAllocate find the number of their UUID.
LEMMA FoundNumStep ==
    ASSUME NumInv, fatal = "none", pc = Idle \/ pc.op = "create", NEW u \in UUID, FoundNum(u)
    PROVE  NumInv'
<1> DEFINE n == uuidToNum[u].num
<1>1. /\ u \in DOMAIN uuidToNum
      /\ DOMAIN uuidToNum' = DOMAIN uuidToNum
      /\ uuidToNum'[u] = [num |-> n, inUse |-> TRUE]
      /\ \A v \in DOMAIN uuidToNum \ {u} : uuidToNum'[v] = uuidToNum[v]
      /\ pc' = [op |-> "publish", u |-> u, n |-> n]
      /\ bits' = bits /\ status' = status /\ fatal' = fatal
    BY Zenon DEF FoundNum, Has, UuidToNumAllocate, Put
<1>2. \A v \in DOMAIN uuidToNum : uuidToNum'[v].num = uuidToNum[v].num
    BY <1>1
<1>3. Distinct(uuidToNum') /\ \A t : NumbersIn(uuidToNum', t) = NumbersIn(uuidToNum, t)
  <2>1. Distinct(uuidToNum)
      BY Zenon DEF NumInv, Unique, Distinct
  <2> QED
      BY Zenon, <1>1, <1>2, <2>1, SameNumbers
<1>4. NumType'
  <2>1. EntriesOK(uuidToNum')
      BY <1>1 DEF NumInv, NumType, EntriesOK
  <2> QED
      BY Zenon, <1>1, <2>1 DEF NumInv, NumType, Ops
<1>5. BitsExact'
    BY Zenon, <1>1, <1>3 DEF NumInv, BitsExact, Numbers
<1>6. Passing'
    BY <1>1 DEF Passing, Has
<1>7. Backed'
  <2> SUFFICES ASSUME NEW v \in DOMAIN status \ Instance PROVE (Orphan(v) \/ Owns(v))'
      BY Zenon, <1>1 DEF Backed
  <2>1. CASE Orphan(v)
    <3>1. v \in Object /\ status[v] = 0
        BY Zenon, <2>1 DEF Orphan, Idle
    <3> QED
        BY Zenon, <1>1, <3>1 DEF Orphan
  <2>2. CASE Owns(v)
      BY <1>1, <2>2 DEF Owns, Has
  <2> QED
      BY Zenon, <2>1, <2>2 DEF NumInv, Backed
<1> QED
    BY Zenon, <1>3, <1>4, <1>5, <1>6, <1>7 DEF NumInv, Unique, Distinct

\* An entry with the number n, whose bit was clear, for u: what NewNum and
\* ReuseAllocate have in common.
LEMMA AddEntry ==
    ASSUME NumInv, fatal = "none", NEW u \in UUID, NEW n \in Numbered,
           pc = Idle \/ pc.op \in {"create", "reuse"},
           ~Has(u), n \notin bits[numType[u]], u \notin App => n # 0,
           bits' = [bits EXCEPT ![numType[u]] = @ \union {n}],
           UuidToNumAllocate(u, n),
           pc' = [op |-> "publish", u |-> u, n |-> n],
           UNCHANGED <<status, fatal>>
    PROVE  NumInv'
<1> DEFINE e == [num |-> n, inUse |-> TRUE]
<1>1. Distinct(uuidToNum) /\ u \notin DOMAIN uuidToNum
    BY Zenon DEF NumInv, Unique, Distinct, Has
<1>2. \A t \in Types : bits[t] = NumbersIn(uuidToNum, t)
    BY Zenon DEF NumInv, BitsExact, Numbers
<1>3. n \notin NumbersIn(uuidToNum, numType[u])
    BY Zenon, <1>2, KindOf
<1>4. /\ Distinct(uuidToNum')
      /\ DOMAIN uuidToNum' = DOMAIN uuidToNum \union {u}
      /\ uuidToNum'[u] = e
      /\ \A v \in DOMAIN uuidToNum : v # u /\ uuidToNum'[v] = uuidToNum[v]
      /\ \A t, x : x \in NumbersIn(uuidToNum', t) <=>
                       x \in NumbersIn(uuidToNum, t) \/ (t = numType[u] /\ x = n)
  <2>1. /\ DOMAIN uuidToNum' = DOMAIN uuidToNum \union {u}
        /\ uuidToNum'[u] = e
        /\ \A v \in DOMAIN uuidToNum : v # u /\ uuidToNum'[v] = uuidToNum[v]
      BY Zenon, <1>1 DEF UuidToNumAllocate, Put
  <2>2. uuidToNum'[u].num = n
      BY <2>1
  <2>3. /\ Distinct(uuidToNum')
        /\ \A t, x : x \in NumbersIn(uuidToNum', t) <=>
                         x \in NumbersIn(uuidToNum, t) \/ (t = numType[u] /\ x = n)
    <3> HIDE DEF e
    <3> QED
        BY <1>1, <1>3, <2>1, <2>2, NewEntry
  <2> QED
      BY Zenon, <2>1, <2>3
<1>5. NumType'
  <2>1. EntriesOK(uuidToNum')
      BY <1>4 DEF NumInv, NumType, EntriesOK
  <2>2. bits' \in [Types -> SUBSET Numbered]
      BY Zenon, KindOf DEF NumInv, NumType
  <2> QED
      BY Zenon, <2>1, <2>2 DEF NumInv, NumType, Ops
<1>6. BitsExact'
  <2> SUFFICES ASSUME NEW t \in Types PROVE bits'[t] = NumbersIn(uuidToNum', t)
      BY Zenon DEF BitsExact, Numbers
  <2>1. \A x : x \in bits'[t] <=> x \in bits[t] \/ (t = numType[u] /\ x = n)
      BY Zenon DEF NumInv, NumType
  <2>2. \A x : x \in bits'[t] <=> x \in NumbersIn(uuidToNum', t)
      BY <1>2, <1>4, <2>1
  <2> QED
      BY Zenon, <2>2
<1>7. Passing'
    BY <1>4 DEF Passing, Has
<1>8. Backed'
  <2> SUFFICES ASSUME NEW v \in DOMAIN status \ Instance PROVE (Orphan(v) \/ Owns(v))'
      BY Zenon DEF Backed
  <2>1. CASE Orphan(v)
    <3>1. v \in Object /\ status[v] = 0
        BY Zenon, <2>1 DEF Orphan, Idle
    <3> QED
        BY Zenon, <3>1 DEF Orphan
  <2>2. CASE Owns(v)
      BY Zenon, <1>4, <2>2 DEF Owns, Has
  <2> QED
      BY Zenon, <2>1, <2>2 DEF NumInv, Backed
<1> QED
    BY Zenon, <1>4, <1>5, <1>6, <1>7, <1>8 DEF NumInv, Unique, Distinct

\* appNumAllocate and bridgeNumAllocate find a free number.
LEMMA NewNumStep ==
    ASSUME NumInv, fatal = "none", pc = Idle \/ pc.op = "create", NEW u \in UUID, NewNum(u)
    PROVE  NumInv'
<1>1. PICK n \in Fresh(u) :
          /\ bits' = [bits EXCEPT ![numType[u]] = @ \union {n}]
          /\ UuidToNumAllocate(u, n)
          /\ pc' = [op |-> "publish", u |-> u, n |-> n]
    BY Zenon DEF NewNum
<1>2. n \in Numbered /\ n \notin bits[numType[u]] /\ (u \notin App => n # 0)
  <2>1. CASE Wants0(u)
      BY <2>1, NumAssumption DEF Fresh, Wants0, Numbered, numType
  <2>2. CASE ~Wants0(u)
    <3>1. n \in 1..MaxNum /\ n \notin bits[numType[u]]
        BY Zenon, <2>2 DEF Fresh, Free
    <3> QED
        BY <3>1, NumAssumption DEF Numbered
  <2> QED
      BY Zenon, <2>1, <2>2
<1>3. ~Has(u) /\ UNCHANGED <<status, fatal>>
    BY Zenon DEF NewNum
<1> QED
    BY Zenon, <1>1, <1>2, <1>3, AddEntry

\* The number that was taken is given to the UUID it was taken for.
LEMMA ReuseAllocateStep ==
    ASSUME NumInv, ReuseAllocate
    PROVE  NumInv'
<1>1. /\ pc # Idle /\ fatal = "none" /\ pc.op = "reuse"
      /\ pc' = [pc EXCEPT !.op = "publish"]
    BY Zenon DEF ReuseAllocate, Running
<1>2. /\ pc.u \in UUID /\ pc.n \in Numbered /\ pc.n \notin bits[numType[pc.u]]
      /\ ~Has(pc.u) /\ (pc.u \notin App => pc.n # 0)
    BY Zenon, <1>1 DEF NumInv, NumType, Passing
<1>3. pc' = [op |-> "publish", u |-> pc.u, n |-> pc.n]
    BY Zenon, <1>1 DEF NumInv, NumType
<1> QED
    BY Zenon, <1>1, <1>2, <1>3, AddEntry DEF ReuseAllocate

\* The entry of u is deleted and its bit cleared: what Reuse and NumFree
\* have in common.
LEMMA RemoveEntry ==
    ASSUME NumInv, fatal = "none", NEW u \in DOMAIN uuidToNum,
           bits' = [bits EXCEPT ![numType[u]] = @ \ {uuidToNum[u].num}],
           UuidToNumDelete(u)
    PROVE  /\ EntriesOK(uuidToNum') /\ bits' \in [Types -> SUBSET Numbered]
           /\ Unique' /\ BitsExact'
           /\ DOMAIN uuidToNum' = DOMAIN uuidToNum \ {u}
           /\ \A v \in DOMAIN uuidToNum \ {u} : uuidToNum'[v] = uuidToNum[v]
           /\ \A t, x : x \in NumbersIn(uuidToNum', t) <=>
                            x \in NumbersIn(uuidToNum, t) /\ ~(t = numType[u] /\ x = uuidToNum[u].num)
<1>1. Distinct(uuidToNum) /\ u \in UUID /\ numType[u] \in Types
    BY Zenon, KindOf DEF NumInv, NumType, EntriesOK, Unique, Distinct
<1>2. /\ DOMAIN uuidToNum' = DOMAIN uuidToNum \ {u}
      /\ \A v \in DOMAIN uuidToNum \ {u} : uuidToNum'[v] = uuidToNum[v]
    BY Zenon DEF UuidToNumDelete, Without
<1>3. /\ Distinct(uuidToNum')
      /\ \A t, x : x \in NumbersIn(uuidToNum', t) <=>
                       x \in NumbersIn(uuidToNum, t) /\ ~(t = numType[u] /\ x = uuidToNum[u].num)
    BY Zenon, <1>1, <1>2, EntryGone
<1>4. EntriesOK(uuidToNum')
    BY Zenon, <1>2 DEF NumInv, NumType, EntriesOK
<1>5. bits' \in [Types -> SUBSET Numbered]
    BY Zenon, <1>1 DEF NumInv, NumType
<1>6. BitsExact'
  <2> SUFFICES ASSUME NEW t \in Types PROVE bits'[t] = NumbersIn(uuidToNum', t)
      BY Zenon DEF BitsExact, Numbers
  <2>1. \A x : x \in bits'[t] <=> x \in bits[t] /\ ~(t = numType[u] /\ x = uuidToNum[u].num)
      BY Zenon DEF NumInv, NumType
  <2>2. bits[t] = NumbersIn(uuidToNum, t)
      BY Zenon DEF NumInv, BitsExact, Numbers
  <2>3. \A x : x \in bits'[t] <=> x \in NumbersIn(uuidToNum', t)
      BY <1>3, <2>1, <2>2
  <2> QED
      BY Zenon, <2>3
<1>7. Unique'
    BY Zenon, <1>3 DEF Unique, Distinct
<1> QED
    BY Zenon, <1>2, <1>3, <1>4, <1>5, <1>6, <1>7

\* The number of an entry that is not in use is taken from it.
LEMMA ReuseStep ==
    ASSUME NumInv, fatal = "none", pc = Idle \/ pc.op = "create", NEW u \in UUID, Reuse(u)
    PROVE  NumInv'
<1>0. status' = status /\ ~Has(u)
    BY Zenon DEF Reuse
<1>1. CASE fatal' = "all in use" /\ UNCHANGED <<uuidToNum, recent, bits, pc>>
  <2>1. NumType' /\ Unique' /\ BitsExact'
      BY <1>0, <1>1 DEF NumInv, NumType, Unique, BitsExact
  <2>2. Passing'
      BY Zenon, <1>0, <1>1 DEF NumInv, Passing, Has
  <2>3. Backed'
      BY Zenon, <1>0, <1>1 DEF NumInv, Backed, Orphan, Owns, Has
  <2> QED
      BY Zenon, <2>1, <2>2, <2>3 DEF NumInv
<1>2. ASSUME NEW old \in UuidToNumGetOldestUnused(numType[u]), UuidToNumDelete(old),
             bits' = [bits EXCEPT ![numType[u]] = @ \ {uuidToNum[old].num}],
             pc' = [op |-> "reuse", u |-> u, n |-> uuidToNum[old].num],
             fatal' = fatal
      PROVE  NumInv'
  <2>1. old \in DOMAIN uuidToNum /\ numType[old] = numType[u] /\ ~uuidToNum[old].inUse
      BY Zenon, <1>2 DEF UuidToNumGetOldestUnused, Unused
  <2>2. /\ EntriesOK(uuidToNum') /\ bits' \in [Types -> SUBSET Numbered]
        /\ Unique' /\ BitsExact'
        /\ DOMAIN uuidToNum' = DOMAIN uuidToNum \ {old}
        /\ \A v \in DOMAIN uuidToNum \ {old} : uuidToNum'[v] = uuidToNum[v]
      BY Zenon, <1>2, <2>1, RemoveEntry
  <2>3. NumType'
      BY Zenon, <1>0, <1>2, <2>2 DEF NumInv, NumType, Ops
  <2>4. Passing'
    <3>1. uuidToNum[old].num \in Numbered /\ (old \notin App => uuidToNum[old].num # 0)
        BY Zenon, <2>1 DEF NumInv, NumType, EntriesOK
    <3>2. u \notin App => old \notin App
        BY Zenon, <2>1 DEF numType, NumInv, NumType, EntriesOK
    <3>3. uuidToNum[old].num \notin bits'[numType[u]]
        BY Zenon, <1>2, KindOf DEF NumInv, NumType
    <3>4. u \notin DOMAIN uuidToNum'
        BY Zenon, <1>0, <2>2 DEF Has
    <3> QED
        BY Zenon, <1>2, <3>1, <3>2, <3>3, <3>4 DEF Passing, Has
  <2>5. Backed'
    <3> SUFFICES ASSUME NEW v \in DOMAIN status \ Instance PROVE (Orphan(v) \/ Owns(v))'
        BY Zenon, <1>0 DEF Backed
    <3>1. CASE Orphan(v)
      <4>1. v \in Object /\ status[v] = 0
          BY Zenon, <3>1 DEF Orphan, Idle
      <4> QED
          BY Zenon, <1>0, <4>1 DEF Orphan
    <3>2. CASE Owns(v)
        BY Zenon, <1>0, <2>1, <2>2, <3>2 DEF Owns, Has
    <3> QED
        BY Zenon, <3>1, <3>2 DEF NumInv, Backed
  <2> QED
      BY Zenon, <2>2, <2>3, <2>4, <2>5 DEF NumInv
<1> QED
    BY Zenon, <1>1, <1>2 DEF Reuse

\* appNumAllocate and bridgeNumAllocate.
LEMMA AllocateStep ==
    ASSUME NumInv, fatal = "none", pc = Idle \/ pc.op = "create", NEW u \in UUID, Allocate(u)
    PROVE  NumInv'
    BY Zenon, FoundNumStep, NewNumStep, ReuseStep DEF Allocate

\* A number is given back, or zedrouter stops because its bit is not set.
LEMMA NumFreeStep ==
    ASSUME NumInv, fatal = "none", NEW u \in UUID, NumFree(u), status' = status,
           \/ pc' = Idle /\ u \notin DOMAIN status
           \/ pc' = [op |-> "unpublish", u |-> u, n |-> 0] /\ u \notin App,
           pc = Idle \/ pc.op = "free"
    PROVE  NumInv'
<1>1. CASE fatal' = "not set" /\ UNCHANGED <<uuidToNum, recent, bits>>
  <2>0. NumType'
    <3>1. pc' = Idle \/ (pc' = [op |-> pc'.op, u |-> pc'.u, n |-> pc'.n] /\ pc'.op \in Ops /\ pc'.u \in UUID)
        BY DEF Ops
    <3> QED
        BY Zenon, <1>1, <3>1 DEF NumInv, NumType
  <2>1. Unique' /\ BitsExact'
      BY <1>1 DEF NumInv, Unique, BitsExact
  <2>2. Passing'
      BY DEF Passing
  <2>3. ASSUME NEW v \in DOMAIN status \ Instance PROVE (Orphan(v) \/ Owns(v))'
    <3>1. CASE Orphan(v)
      <4>1. v \in Object /\ status[v] = 0
          BY Zenon, <3>1 DEF Orphan, Idle
      <4> QED
          BY Zenon, <4>1 DEF Orphan
    <3>2. CASE Owns(v)
        BY Zenon, <1>1, <3>2 DEF Owns, Has
    <3> QED
        BY Zenon, <3>1, <3>2 DEF NumInv, Backed
  <2> QED
      BY Zenon, <2>0, <2>1, <2>2, <2>3 DEF NumInv, Backed
<1>2. CASE /\ Has(u)
           /\ bits' = [bits EXCEPT ![numType[u]] = @ \ {uuidToNum[u].num}]
           /\ UuidToNumDelete(u)
           /\ fatal' = fatal
  <2>1. /\ EntriesOK(uuidToNum') /\ bits' \in [Types -> SUBSET Numbered]
        /\ Unique' /\ BitsExact'
        /\ DOMAIN uuidToNum' = DOMAIN uuidToNum \ {u}
        /\ \A v \in DOMAIN uuidToNum \ {u} : uuidToNum'[v] = uuidToNum[v]
        /\ \A t, x : x \in NumbersIn(uuidToNum', t) <=>
                         x \in NumbersIn(uuidToNum, t) /\ ~(t = numType[u] /\ x = uuidToNum[u].num)
      BY Zenon, <1>2, RemoveEntry DEF Has
  <2>2. NumType'
      BY <2>1 DEF NumInv, NumType, Ops
  <2>3. Passing'
      BY DEF Passing
  <2>4. ASSUME NEW v \in DOMAIN status \ Instance PROVE (Orphan(v) \/ Owns(v))'
    <3>1. CASE Orphan(v)
      <4>1. v \in Object /\ status[v] = 0
          BY <3>1 DEF Orphan, Idle
      <4> QED
          BY <4>1 DEF Orphan
    <3>2. CASE Owns(v) /\ v # u
        BY Zenon, <2>1, <3>2 DEF Owns, Has
    <3>3. CASE Owns(v) /\ v = u
      <4>1. u \in Object /\ numType[u] = "bridgeNum"
          BY Zenon, <3>3 DEF UUID, numType
      <4>2. status[u] \notin NumbersIn(uuidToNum', "bridgeNum")
          BY Zenon, <2>1, <3>3, <4>1 DEF Owns
      <4>3. pc' # Idle /\ pc'.op = "unpublish" /\ pc'.u = u
          BY <3>3 DEF Idle
      <4> QED
          BY Zenon, <3>3, <4>1, <4>2, <4>3 DEF Orphan, Numbers
    <3> QED
        BY Zenon, <3>1, <3>2, <3>3 DEF NumInv, Backed
  <2> QED
      BY Zenon, <2>1, <2>2, <2>3, <2>4 DEF NumInv, Backed
<1> QED
    BY Zenon, <1>1, <1>2 DEF NumFree

\* zedrouter starts with the statuses that the stopped one has left, or with
\* none: an object's number that nobody has stops it; otherwise every status
\* finds its own entry.
LEMMA InitStep ==
    ASSUME NumInv, NEW st, st = status \/ DOMAIN st = {}, AllocatorInit(st)
    PROVE  NumInv'
<1> DEFINE owners == DOMAIN st \ Instance
<1>1. /\ bits' = [t \in Types |-> Numbers(t)] /\ status' = st /\ pc' = Idle
      /\ DOMAIN st \subseteq UUID
    BY Zenon DEF AllocatorInit, Types, NumInv, NumType
<1>2. \A t \in Types : bits'[t] = NumbersIn(uuidToNum, t)
    BY Zenon, <1>1 DEF Numbers
<1>3. bits' \in [Types -> SUBSET Numbered]
  <2>1. ASSUME NEW t \in Types PROVE NumbersIn(uuidToNum, t) \in SUBSET Numbered
      BY InNumbers DEF NumInv, NumType, EntriesOK
  <2> QED
      BY Zenon, <1>1, <2>1 DEF Numbers
<1>4. Passing'
    BY Zenon, <1>1 DEF Passing
<1>5. ASSUME NEW v \in owners
      PROVE  \/ v \in Object /\ st[v] = 0
             \/ v \in Object /\ st[v] \notin Numbers("bridgeNum")
             \/ v \in DOMAIN uuidToNum /\ uuidToNum[v].num = st[v] /\ uuidToNum[v].inUse
    BY Zenon DEF NumInv, Backed, Orphan, Owns, Has
<1>6. CASE fatal' = "not set" /\ UNCHANGED <<uuidToNum, recent>>
  <2>1. NumType' /\ Unique' /\ BitsExact'
      BY <1>1, <1>3, <1>6 DEF NumInv, NumType, Unique, BitsExact
  <2>2. Backed'
      BY Zenon, <1>1, <1>5, <1>6 DEF Backed, Orphan, Owns, Has, Numbers
  <2> QED
      BY Zenon, <1>4, <2>1, <2>2 DEF NumInv
<1>7. CASE /\ \A v \in owners : st[v] \in Numbers(numType[v])
           /\ fatal' = "none"
           /\ uuidToNum' = Marked(st)
  <2>1. ASSUME NEW v \in owners
        PROVE  v \in DOMAIN uuidToNum /\ uuidToNum[v].num = st[v]
    <3>1. CASE v \in Object
      <4>1. st[v] \in NumbersIn(uuidToNum, "bridgeNum")
          BY Zenon, <1>7, <3>1, KindOf DEF Numbers
      <4>2. PICK w \in DOMAIN uuidToNum : numType[w] = "bridgeNum" /\ uuidToNum[w].num = st[v]
          BY <4>1, InNumbers
      <4>3. st[v] # 0
          BY Zenon, <4>2, KindOf DEF NumInv, NumType, EntriesOK
      <4> QED
          BY Zenon, <1>5, <4>1, <4>3 DEF Numbers
    <3>2. CASE v \notin Object
        BY Zenon, <1>5, <3>2
    <3> QED
        BY Zenon, <3>1, <3>2
  <2>2. /\ DOMAIN uuidToNum' = DOMAIN uuidToNum
        /\ \A v \in owners : uuidToNum'[v] = [num |-> st[v], inUse |-> TRUE]
        /\ \A v \in DOMAIN uuidToNum \ owners : uuidToNum'[v] = [uuidToNum[v] EXCEPT !.inUse = FALSE]
      BY Zenon, <1>7, <2>1 DEF Marked
  <2>3. ASSUME NEW v \in DOMAIN uuidToNum
        PROVE  /\ uuidToNum'[v].num = uuidToNum[v].num
               /\ uuidToNum'[v] = [num |-> uuidToNum'[v].num, inUse |-> uuidToNum'[v].inUse]
    <3>1. CASE v \in owners
      <4>1. uuidToNum'[v] = [num |-> st[v], inUse |-> TRUE] /\ uuidToNum[v].num = st[v]
          BY Zenon, <2>1, <2>2, <3>1
      <4> QED
          BY <4>1
    <3>2. CASE v \notin owners
        BY <2>2, <3>2 DEF NumInv, NumType, EntriesOK
    <3> QED
        BY Zenon, <3>1, <3>2
  <2>4. Distinct(uuidToNum') /\ \A t : NumbersIn(uuidToNum', t) = NumbersIn(uuidToNum, t)
    <3>1. Distinct(uuidToNum)
        BY Zenon DEF NumInv, Unique, Distinct
    <3> QED
        BY <2>2, <2>3, <3>1, SameNumbers
  <2>5. EntriesOK(uuidToNum')
      BY Zenon, <2>2, <2>3 DEF NumInv, NumType, EntriesOK
  <2>6. NumType'
      BY Zenon, <1>1, <1>3, <2>5 DEF NumType
  <2>7. BitsExact'
      BY Zenon, <1>2, <2>4 DEF BitsExact, Numbers
  <2>8. Backed'
    <3> SUFFICES ASSUME NEW v \in owners PROVE Owns(v)'
        BY Zenon, <1>1 DEF Backed
    <3>1. v \in DOMAIN uuidToNum' /\ uuidToNum'[v] = [num |-> st[v], inUse |-> TRUE]
        BY Zenon, <2>1, <2>2
    <3> QED
        BY <1>1, <3>1 DEF Owns, Has
  <2> QED
      BY Zenon, <1>4, <2>4, <2>6, <2>7, <2>8 DEF NumInv, Unique, Distinct
<1> QED
    BY Zenon, <1>6, <1>7 DEF AllocatorInit

\* The steps that write a status and no number.
LEMMA StatusStep ==
    ASSUME NumInv, NEW u \in UUID, UNCHANGED <<uuidToNum, recent, bits, fatal>>,
           fatal = "none",
           \/ NetworkCreate(u)
           \/ AppDelete(u)
           \/ NetworkRefuse
           \/ PublishStatus
           \/ NetworkUnpublish
           \/ pc = Idle /\ status' = status /\ pc' = [op |-> "unpublish", u |-> u, n |-> 0]
    PROVE  NumInv'
<1>1. /\ Unique' /\ BitsExact' /\ EntriesOK(uuidToNum')
      /\ \A t : Numbers(t)' = Numbers(t)
    BY Zenon DEF NumInv, NumType, Unique, BitsExact, Numbers
<1>2. ASSUME NEW v \in DOMAIN status \ Instance, status'[v] = status[v],
             pc = Idle \/ pc.op # "unpublish" \/ pc.u # v
      PROVE  (Orphan(v) \/ Owns(v))'
  <2>1. CASE Orphan(v)
    <3>1. v \in Object /\ status[v] = 0
        BY Zenon, <1>2, <2>1 DEF Orphan, Idle
    <3> QED
        BY Zenon, <1>2, <3>1 DEF Orphan
  <2>2. CASE Owns(v)
      BY Zenon, <1>2, <2>2 DEF Owns, Has
  <2> QED
      BY Zenon, <2>1, <2>2 DEF NumInv, Backed
<1>3. CASE NetworkCreate(u)
  <2>1. /\ u \notin App /\ u \notin DOMAIN status /\ pc = Idle
        /\ DOMAIN status' = DOMAIN status \union {u} /\ status'[u] = 0
        /\ \A v \in DOMAIN status : status'[v] = status[v]
        /\ pc' = [op |-> "create", u |-> u, n |-> 0]
      BY Zenon, <1>3 DEF NetworkCreate, Put, Ready
  <2>2. NumType' /\ Passing'
      BY Zenon, <1>1, <2>1 DEF NumInv, NumType, Ops, Passing
  <2>3. u \notin Instance => Orphan(u)'
      BY Zenon, <2>1 DEF Orphan, UUID
  <2>4. Backed'
      BY Zenon, <1>2, <2>1, <2>3 DEF Backed
  <2> QED
      BY Zenon, <1>1, <2>2, <2>4 DEF NumInv
<1>4. CASE AppDelete(u)
  <2>1. /\ u \in App /\ pc = Idle
        /\ DOMAIN status' = DOMAIN status \ {u}
        /\ \A v \in DOMAIN status \ {u} : status'[v] = status[v]
        /\ pc' = [op |-> "free", u |-> u, n |-> 0]
      BY Zenon, <1>4 DEF AppDelete, Unpublish, Without, Ready
  <2>2. NumType' /\ Passing'
      BY Zenon, <1>1, <2>1 DEF NumInv, NumType, Ops, Passing
  <2>3. Backed'
      BY Zenon, <1>2, <2>1 DEF Backed
  <2> QED
      BY <1>1, <2>2, <2>3 DEF NumInv
<1>5. CASE NetworkRefuse
  <2>1. pc # Idle /\ pc.op = "create" /\ pc' = Idle /\ status' = status
      BY Zenon, <1>5 DEF NetworkRefuse, Running
  <2>2. NumType' /\ Passing'
      BY Zenon, <1>1, <2>1 DEF NumInv, NumType, Passing
  <2>3. Backed'
      BY Zenon, <1>2, <2>1 DEF Backed
  <2> QED
      BY <1>1, <2>2, <2>3 DEF NumInv
<1>6. CASE PublishStatus
  <2>1. /\ pc # Idle /\ pc.op = "publish" /\ pc' = Idle
        /\ DOMAIN status' = DOMAIN status \union {pc.u}
        /\ status'[pc.u] = pc.n
        /\ \A v \in DOMAIN status \ {pc.u} : status'[v] = status[v]
      BY Zenon, <1>6 DEF PublishStatus, Running, Put
  <2>2. Has(pc.u) /\ uuidToNum[pc.u].num = pc.n /\ uuidToNum[pc.u].inUse /\ pc.u \in UUID
      BY Zenon, <2>1 DEF NumInv, NumType, Passing
  <2>3. NumType' /\ Passing'
      BY Zenon, <1>1, <2>1, <2>2 DEF NumInv, NumType, Passing
  <2>4. \A v : v = pc.u => Owns(v)'
      BY Zenon, <2>1, <2>2 DEF Owns, Has
  <2>5. Backed'
      BY Zenon, <1>2, <2>1, <2>4 DEF Backed
  <2> QED
      BY <1>1, <2>3, <2>5 DEF NumInv
<1>7. CASE NetworkUnpublish
  <2>1. /\ pc # Idle /\ pc.op = "unpublish" /\ pc' = Idle
        /\ DOMAIN status' = DOMAIN status \ {pc.u}
        /\ \A v \in DOMAIN status \ {pc.u} : status'[v] = status[v]
      BY Zenon, <1>7 DEF NetworkUnpublish, Running, Unpublish, Without
  <2>2. NumType' /\ Passing'
      BY Zenon, <1>1, <2>1 DEF NumInv, NumType, Passing
  <2>3. Backed'
      BY Zenon, <1>2, <2>1 DEF Backed
  <2> QED
      BY <1>1, <2>2, <2>3 DEF NumInv
<1>8. CASE pc = Idle /\ status' = status /\ pc' = [op |-> "unpublish", u |-> u, n |-> 0]
  <2>1. NumType' /\ Passing'
      BY Zenon, <1>1, <1>8 DEF NumInv, NumType, Ops, Passing
  <2>2. Backed'
      BY Zenon, <1>2, <1>8 DEF Backed
  <2> QED
      BY <1>1, <2>1, <2>2 DEF NumInv
<1> QED
    BY Zenon, <1>3, <1>4, <1>5, <1>6, <1>7, <1>8

\* Every step of zedrouter, and its stops and starts, keep the invariant.
LEMMA NumInvStep == NumInv /\ [Next]_vars => NumInv'
<1> SUFFICES ASSUME NumInv, [Next]_vars PROVE NumInv'
    BY Zenon
<1>1. ASSUME NEW u \in UUID, AppCreate(u) PROVE NumInv'
    BY Zenon, <1>1, AllocateStep DEF AppCreate, Ready
<1>2. ASSUME NEW u \in UUID, NetworkCreate(u) PROVE NumInv'
    BY Zenon, <1>2, StatusStep DEF NetworkCreate, Ready
<1>3. ASSUME NEW u \in UUID, AppDelete(u) PROVE NumInv'
    BY Zenon, <1>3, StatusStep DEF AppDelete, Ready
<1>4. ASSUME NEW u \in UUID, NetworkDelete(u) PROVE NumInv'
  <2>1. /\ fatal = "none" /\ pc = Idle /\ status' = status /\ u \notin App
        /\ pc' = [op |-> "unpublish", u |-> u, n |-> 0]
      BY Zenon, <1>4 DEF NetworkDelete, Ready
  <2>2. CASE NumFree(u)
      BY Zenon, <2>1, <2>2, NumFreeStep
  <2>3. CASE UNCHANGED <<uuidToNum, recent, bits, fatal>>
      BY Zenon, <2>1, <2>3, StatusStep
  <2> QED
      BY Zenon, <1>4, <2>2, <2>3 DEF NetworkDelete
<1>5. CASE NetworkAllocate
  <2>1. pc.u \in UUID /\ fatal = "none" /\ pc.op = "create" /\ Allocate(pc.u)
      BY Zenon, <1>5 DEF NetworkAllocate, Running, NumInv, NumType
  <2> QED
      BY Zenon, <2>1, AllocateStep
<1>6. CASE NetworkRefuse \/ PublishStatus \/ NetworkUnpublish
  <2>1. /\ fatal = "none" /\ pc.u \in UUID
        /\ UNCHANGED <<uuidToNum, recent, bits, fatal>>
      BY Zenon, <1>6 DEF NetworkRefuse, PublishStatus, NetworkUnpublish, Running, NumInv, NumType
  <2> QED
      BY Zenon, <1>6, <2>1, StatusStep
<1>7. CASE AppFree
  <2>1. /\ fatal = "none" /\ pc # Idle /\ pc.op = "free" /\ NumFree(pc.u)
        /\ pc' = Idle /\ status' = status
      BY Zenon, <1>7 DEF AppFree, Running
  <2>2. pc.u \in UUID /\ pc.u \notin DOMAIN status
      BY Zenon, <2>1 DEF NumInv, NumType, Passing
  <2> QED
      BY Zenon, <2>1, <2>2, NumFreeStep
<1>8. CASE Restart
    BY Zenon, <1>8, InitStep DEF Restart
<1>9. CASE Reboot
  <2>1. DOMAIN <<>> = {}
      OBVIOUS
  <2> QED
      BY Zenon, <1>9, <2>1, InitStep DEF Reboot
<1>10. CASE UNCHANGED vars
    BY Zenon, <1>10 DEF vars, NumInv, NumType, Unique, BitsExact, Numbers, Passing, Has, Backed, Orphan, Owns
<1> QED
    BY Zenon, <1>1, <1>2, <1>3, <1>4, <1>5, <1>6, <1>7, <1>8, <1>9, <1>10, ReuseAllocateStep DEF Next

\* The inductive invariant holds of every run of zedrouter.
THEOREM NumInvHolds == Spec => []NumInv
    BY InitNumInv, NumInvStep, PTL DEF Spec

\* No two owners of a kind have one number, whatever the sequence of
\* creations, deletions, stops and starts, for any number of owners
\* (appNumAllocate, bridgeNumAllocate, UuidToNumAllocate).
THEOREM NumbersUnique == Spec => []Unique
<1>1. NumInv => Unique
    BY Zenon DEF NumInv
<1> QED
    BY <1>1, NumInvHolds, PTL

\* While zedrouter runs, the bitmap says exactly which numbers are persisted
\* (appNumAllocatorInit, bridgeNumAllocatorInit, appNumFree, bridgeNumFree).
THEOREM BitmapExact == Spec => []BitsExact
<1>1. NumInv => BitsExact
    BY Zenon DEF NumInv
<1> QED
    BY <1>1, NumInvHolds, PTL

\* A status that a stopped zedrouter leaves never names a number of another
\* owner (handleDelete, doNetworkDelete).
THEOREM StatusesBacked == Spec => []StatusBacked
<1>1. NumInv => StatusBacked
  <2> SUFFICES ASSUME NumInv, NEW u \in DOMAIN status \ Instance
               PROVE  \/ Has(u) /\ uuidToNum[u].num = status[u]
                      \/ u \in Object /\ status[u] \notin Numbers("bridgeNum")
      BY Zenon DEF StatusBacked
  <2>1. 0 \notin Numbers("bridgeNum")
    <3>1. \A v \in DOMAIN uuidToNum : numType[v] = "bridgeNum" => uuidToNum[v].num # 0
        BY Zenon, KindOf DEF NumInv, NumType, EntriesOK
    <3> QED
        BY <3>1, InNumbers DEF Numbers
  <2> QED
      BY Zenon, <2>1 DEF NumInv, Backed, Orphan, Owns
<1> QED
    BY <1>1, NumInvHolds, PTL
-----------------------------------------------------------------------------
(* Who uses a number.                                                      *)

\* The owner v of an entry in use has published its number, or its handler is
\* about to publish it or to give it back.
Claimed(v) ==
    \/ v \in DOMAIN status /\ status[v] = uuidToNum[v].num
    \/ pc # Idle /\ pc.op \in {"publish", "free"} /\ pc.u = v

InUse(v) == v \in DOMAIN uuidToNum /\ uuidToNum[v].inUse

\* No entry is in use for an owner that is gone, as long as the statuses were all
\* found to have their bits; and one about to go without its number has none.
UsedOK ==
    fatal # "not set" =>
        /\ \A v \in UUID : InUse(v) => Claimed(v)
        /\ pc # Idle /\ pc.op = "unpublish" => ~InUse(pc.u)

\* The first start.
LEMMA UsedInit == Init => UsedOK /\ FullWhenSaid
BY DEF Init, UsedOK, InUse, FullWhenSaid, Idle

\* A number goes to u and its handler is going to publish it.
LEMMA UsedAllocate ==
    ASSUME UsedOK, fatal = "none", pc = Idle \/ pc.op \in {"create", "reuse"},
           NEW u \in UUID, NEW n, UuidToNumAllocate(u, n),
           pc' = [op |-> "publish", u |-> u, n |-> n], UNCHANGED <<status, fatal>>
    PROVE  (UsedOK /\ FullWhenSaid)'
<1>1. /\ DOMAIN uuidToNum' = DOMAIN uuidToNum \cup {u}
      /\ \A v \in DOMAIN uuidToNum \ {u} : uuidToNum'[v] = uuidToNum[v]
    BY Zenon DEF UuidToNumAllocate, Put
<1>2. pc' # Idle /\ pc'.op = "publish" /\ pc'.u = u
    BY Zenon DEF Idle
<1>3. ASSUME NEW v \in UUID, InUse(v)' PROVE Claimed(v)'
  <2>1. CASE v = u
      BY Zenon, <1>2, <2>1 DEF Claimed
  <2>2. CASE v # u
    <3>1. v \in DOMAIN uuidToNum /\ uuidToNum'[v] = uuidToNum[v]
        BY Zenon, <1>1, <1>3, <2>2 DEF InUse
    <3>2. v \in DOMAIN status /\ status[v] = uuidToNum[v].num
        BY Zenon, <1>3, <3>1 DEF UsedOK, InUse, Claimed
    <3> QED
        BY Zenon, <3>1, <3>2 DEF Claimed
  <2> QED
      BY Zenon, <2>1, <2>2
<1> QED
    BY Zenon, <1>2, <1>3 DEF UsedOK, FullWhenSaid

\* An entry goes, and its owner's handler goes on to p.
LEMMA UsedDelete ==
    ASSUME UsedOK, fatal = "none", NEW u \in UUID, UuidToNumDelete(u), UNCHANGED <<status, fatal>>,
           pc = Idle \/ pc.op = "create" \/ (pc.op = "free" /\ pc.u = u),
           pc' = Idle \/ pc'.op = "reuse" \/ (pc'.op = "unpublish" /\ pc'.u = u)
    PROVE  (UsedOK /\ FullWhenSaid)'
<1>1. /\ DOMAIN uuidToNum' = DOMAIN uuidToNum \ {u}
      /\ \A v \in DOMAIN uuidToNum \ {u} : uuidToNum'[v] = uuidToNum[v]
    BY Zenon DEF UuidToNumDelete, Without
<1>2. ASSUME NEW v \in UUID, InUse(v)' PROVE Claimed(v)'
  <2>1. v # u /\ v \in DOMAIN uuidToNum /\ uuidToNum'[v] = uuidToNum[v]
      BY Zenon, <1>1, <1>2 DEF InUse
  <2>2. v \in DOMAIN status /\ status[v] = uuidToNum[v].num
      BY Zenon, <1>2, <2>1 DEF UsedOK, InUse, Claimed
  <2> QED
      BY Zenon, <2>1, <2>2 DEF Claimed
<1>3. ~InUse(u)'
    BY Zenon, <1>1 DEF InUse
<1> QED
    BY Zenon, <1>2, <1>3 DEF UsedOK, FullWhenSaid

\* appNumAllocate and bridgeNumAllocate; "all in use" is said when they are.
LEMMA UsedAllocateStep ==
    ASSUME NumInv, UsedOK, fatal = "none", pc = Idle \/ pc.op = "create",
           NEW u \in UUID, Allocate(u)
    PROVE  (UsedOK /\ FullWhenSaid)'
<1>1. CASE FoundNum(u)
    BY Zenon, <1>1, UsedAllocate DEF FoundNum
<1>2. CASE NewNum(u)
    BY Zenon, <1>2, UsedAllocate DEF NewNum
<1>3. CASE Reuse(u)
  <2> DEFINE t == numType[u]
  <2>1. CASE Unused(t) = {} /\ fatal' = "all in use" /\ UNCHANGED <<uuidToNum, recent, bits, pc>>
    <3>1. UNCHANGED <<uuidToNum, pc, status>> /\ Free(t) = {} /\ t \in Types
        BY Zenon, <1>3, <2>1, KindOf DEF Reuse
    <3>2. UsedOK'
        BY Zenon, <2>1, <3>1 DEF UsedOK, InUse, Claimed
    <3>3. ASSUME NEW n \in 1..MaxNum
          PROVE  \E v \in DOMAIN status : numType[v] = t /\ status[v] = n
      <4>1. n \in NumbersIn(uuidToNum, t)
          BY Zenon, <3>1 DEF Free, NumInv, BitsExact, Numbers
      <4>2. PICK v \in DOMAIN uuidToNum : numType[v] = t /\ uuidToNum[v].num = n
          BY <4>1, InNumbers
      <4>3. v \in UUID /\ InUse(v)
          BY Zenon, <2>1, <4>2 DEF Unused, InUse, NumInv, NumType, EntriesOK
      <4> QED
          BY Zenon, <4>2, <4>3 DEF UsedOK, Claimed
    <3> QED
        BY <3>1, <3>2, <3>3 DEF FullWhenSaid
  <2>2. ASSUME NEW old \in UuidToNumGetOldestUnused(t), UuidToNumDelete(old),
               pc' = [op |-> "reuse", u |-> u, n |-> uuidToNum[old].num], UNCHANGED fatal
        PROVE  (UsedOK /\ FullWhenSaid)'
    <3>1. old \in UUID
        BY Zenon DEF UuidToNumGetOldestUnused, Unused, NumInv, NumType, EntriesOK
    <3> QED
        BY Zenon, <1>3, <2>2, <3>1, UsedDelete DEF Reuse
  <2> QED
      BY Zenon, <1>3, <2>1, <2>2 DEF Reuse
<1> QED
    BY Zenon, <1>1, <1>2, <1>3 DEF Allocate

\* appNumFree and bridgeNumFree.
LEMMA UsedFreeStep ==
    ASSUME UsedOK, fatal = "none", NEW u \in UUID, NumFree(u), UNCHANGED status,
           \/ pc = Idle /\ pc' = [op |-> "unpublish", u |-> u, n |-> 0]
           \/ pc.op = "free" /\ pc.u = u /\ pc' = Idle
    PROVE  (UsedOK /\ FullWhenSaid)'
<1>1. CASE fatal' = "not set"
    BY Zenon, <1>1 DEF UsedOK, FullWhenSaid
<1>2. CASE UuidToNumDelete(u) /\ UNCHANGED fatal
    BY <1>2, UsedDelete
<1> QED
    BY Zenon, <1>1, <1>2 DEF NumFree

\* appNumAllocatorInit and bridgeNumAllocatorInit.
LEMMA UsedInitStep ==
    ASSUME NumInv, NEW st, AllocatorInit(st)
    PROVE  (UsedOK /\ FullWhenSaid)'
<1>1. CASE fatal' = "not set"
    BY Zenon, <1>1 DEF UsedOK, FullWhenSaid
<1>2. CASE fatal' = "none" /\ uuidToNum' = Marked(st)
  <2>1. status' = st /\ pc' = Idle
      BY Zenon DEF AllocatorInit
  <2>2. ASSUME NEW v \in UUID, InUse(v)' PROVE Claimed(v)'
    <3>1. v \in DOMAIN Marked(st) /\ Marked(st)[v].inUse
        BY Zenon, <1>2, <2>2 DEF InUse
    <3>2. CASE v \in DOMAIN st \ Instance
      <4>1. Marked(st)[v] = [num |-> st[v], inUse |-> TRUE]
          BY Zenon, <3>2 DEF Marked
      <4>2. uuidToNum'[v].num = st[v]
          BY <1>2, <4>1
      <4> QED
          BY Zenon, <2>1, <3>2, <4>2 DEF Claimed
    <3>3. CASE v \notin DOMAIN st \ Instance
      <4>1. v \in DOMAIN uuidToNum /\ Marked(st)[v] = [uuidToNum[v] EXCEPT !.inUse = FALSE]
          BY Zenon, <3>1, <3>3 DEF Marked
      <4>2. uuidToNum[v] = [num |-> uuidToNum[v].num, inUse |-> uuidToNum[v].inUse]
          BY Zenon, <4>1 DEF NumInv, NumType, EntriesOK
      <4> QED
          BY Zenon, <3>1, <4>1, <4>2
    <3> QED
        BY Zenon, <3>2, <3>3
  <2> QED
      BY Zenon, <1>2, <2>1, <2>2 DEF UsedOK, FullWhenSaid
<1> QED
    BY Zenon, <1>1, <1>2 DEF AllocatorInit

\* The status of u, or nothing, changes: the entries stay.
LEMMA UsedStatusStep ==
    ASSUME NumInv, UsedOK, fatal = "none", UNCHANGED <<uuidToNum, fatal>>, NEW u \in UUID,
           \/ NetworkCreate(u) \/ AppDelete(u) \/ (NetworkDelete(u) /\ status[u] = 0)
           \/ (pc # Idle /\ pc.u = u /\ (NetworkRefuse \/ PublishStatus \/ NetworkUnpublish))
    PROVE  (UsedOK /\ FullWhenSaid)'
<1>1. \A v \in UUID : InUse(v)' <=> InUse(v)
    BY Zenon DEF InUse
<1>2. CASE NetworkCreate(u)
  <2>1. /\ pc = Idle /\ u \notin DOMAIN status /\ pc' = [op |-> "create", u |-> u, n |-> 0]
        /\ \A v \in DOMAIN status : v \in DOMAIN status' /\ status'[v] = status[v]
      BY Zenon, <1>2 DEF NetworkCreate, Ready, Put
  <2>2. \A v \in UUID : InUse(v) => v \in DOMAIN status /\ status[v] = uuidToNum[v].num
      BY Zenon, <2>1 DEF UsedOK, Claimed
  <2> QED
      BY Zenon, <1>1, <2>1, <2>2 DEF UsedOK, Claimed, FullWhenSaid
<1>3. CASE AppDelete(u)
  <2>1. /\ pc = Idle /\ pc' = [op |-> "free", u |-> u, n |-> 0] /\ pc' # Idle
        /\ \A v \in DOMAIN status \ {u} : v \in DOMAIN status' /\ status'[v] = status[v]
      BY Zenon, <1>3 DEF AppDelete, Ready, Unpublish, Without, Idle
  <2>2. \A v \in UUID : InUse(v) => v \in DOMAIN status /\ status[v] = uuidToNum[v].num
      BY Zenon, <2>1 DEF UsedOK, Claimed
  <2>3. \A v \in UUID : InUse(v) => Claimed(v)'
      BY Zenon, <2>1, <2>2 DEF Claimed
  <2> QED
      BY Zenon, <1>1, <2>1, <2>3 DEF UsedOK, FullWhenSaid
<1>4. CASE NetworkDelete(u) /\ status[u] = 0
  <2>1. /\ pc = Idle /\ pc' = [op |-> "unpublish", u |-> u, n |-> 0] /\ u \notin App
        /\ status' = status
      BY Zenon, <1>4 DEF NetworkDelete, Ready
  <2>2. \A v \in UUID : InUse(v) => v \in DOMAIN status /\ status[v] = uuidToNum[v].num
      BY Zenon, <2>1 DEF UsedOK, Claimed
  <2>3. ~InUse(u)
      BY Zenon, <1>4, <2>1, <2>2 DEF InUse, NumInv, NumType, EntriesOK
  <2> QED
      BY Zenon, <1>1, <2>1, <2>2, <2>3 DEF UsedOK, Claimed, FullWhenSaid
<1>5. CASE pc # Idle /\ pc.u = u /\ NetworkRefuse
  <2>1. pc' = Idle /\ pc.op = "create" /\ status' = status
      BY Zenon, <1>5 DEF NetworkRefuse
  <2> QED
      BY Zenon, <1>1, <2>1 DEF UsedOK, Claimed, FullWhenSaid
<1>6. CASE pc # Idle /\ pc.u = u /\ PublishStatus
  <2>1. /\ pc' = Idle /\ pc.op = "publish" /\ u \in DOMAIN status' /\ status'[u] = pc.n
        /\ \A v \in DOMAIN status \ {u} : v \in DOMAIN status' /\ status'[v] = status[v]
      BY Zenon, <1>6 DEF PublishStatus, Put
  <2>2. uuidToNum[u].num = pc.n
      BY Zenon, <1>6, <2>1 DEF NumInv, Passing
  <2>3. \A v \in UUID : InUse(v) => Claimed(v)'
      BY Zenon, <1>6, <2>1, <2>2 DEF UsedOK, Claimed
  <2> QED
      BY Zenon, <1>1, <2>1, <2>3 DEF UsedOK, FullWhenSaid
<1>7. CASE pc # Idle /\ pc.u = u /\ NetworkUnpublish
  <2>1. /\ pc' = Idle /\ pc.op = "unpublish"
        /\ \A v \in DOMAIN status \ {u} : v \in DOMAIN status' /\ status'[v] = status[v]
      BY Zenon, <1>7 DEF NetworkUnpublish, Unpublish, Without
  <2>2. \A v \in UUID : InUse(v) => v # u /\ Claimed(v)'
      BY Zenon, <1>7, <2>1 DEF UsedOK, Claimed
  <2> QED
      BY Zenon, <1>1, <2>1, <2>2 DEF UsedOK, FullWhenSaid
<1> QED
    BY Zenon, <1>2, <1>3, <1>4, <1>5, <1>6, <1>7

\* Every step of zedrouter.
LEMMA UsedStep ==
    NumInv /\ UsedOK /\ FullWhenSaid /\ [Next]_vars => (UsedOK /\ FullWhenSaid)'
<1> SUFFICES ASSUME NumInv, UsedOK, FullWhenSaid, [Next]_vars PROVE (UsedOK /\ FullWhenSaid)'
    BY Zenon
<1>u. pc # Idle => pc.u \in UUID
    BY Zenon DEF NumInv, NumType
<1>1. ASSUME NEW u \in UUID, AppCreate(u) PROVE (UsedOK /\ FullWhenSaid)'
    BY Zenon, <1>1, UsedAllocateStep DEF AppCreate, Ready
<1>2. ASSUME NEW u \in UUID, NetworkCreate(u) \/ AppDelete(u) PROVE (UsedOK /\ FullWhenSaid)'
  <2>1. fatal = "none" /\ UNCHANGED <<uuidToNum, fatal>>
      BY Zenon, <1>2 DEF NetworkCreate, AppDelete, Ready
  <2> QED
      BY Zenon, <1>2, <2>1, UsedStatusStep
<1>3. ASSUME NEW u \in UUID, NetworkDelete(u) PROVE (UsedOK /\ FullWhenSaid)'
  <2>1. /\ fatal = "none" /\ pc = Idle /\ status' = status
        /\ pc' = [op |-> "unpublish", u |-> u, n |-> 0]
      BY Zenon, <1>3 DEF NetworkDelete, Ready
  <2>2. CASE NumFree(u)
      BY Zenon, <2>1, <2>2, UsedFreeStep
  <2>3. CASE status[u] = 0 /\ UNCHANGED <<uuidToNum, recent, bits, fatal>>
      BY Zenon, <1>3, <2>1, <2>3, UsedStatusStep
  <2> QED
      BY Zenon, <1>3, <2>2, <2>3 DEF NetworkDelete
<1>4. CASE NetworkAllocate
    BY Zenon, <1>4, <1>u, UsedAllocateStep DEF NetworkAllocate, Running
<1>5. CASE NetworkRefuse \/ PublishStatus \/ NetworkUnpublish
  <2>1. fatal = "none" /\ pc # Idle /\ UNCHANGED <<uuidToNum, fatal>>
      BY Zenon, <1>5 DEF NetworkRefuse, PublishStatus, NetworkUnpublish, Running
  <2> QED
      BY Zenon, <1>5, <1>u, <2>1, UsedStatusStep
<1>6. CASE ReuseAllocate
  <2>1. /\ pc # Idle /\ fatal = "none" /\ pc.op = "reuse" /\ pc' = [pc EXCEPT !.op = "publish"]
        /\ UuidToNumAllocate(pc.u, pc.n) /\ UNCHANGED <<status, fatal>>
      BY Zenon, <1>6 DEF ReuseAllocate, Running
  <2>2. pc' = [op |-> "publish", u |-> pc.u, n |-> pc.n]
      BY Zenon, <2>1 DEF NumInv, NumType
  <2> QED
      BY Zenon, <1>u, <2>1, <2>2, UsedAllocate
<1>7. CASE AppFree
    BY Zenon, <1>7, <1>u, UsedFreeStep DEF AppFree, Running
<1>8. CASE Restart \/ Reboot
    BY Zenon, <1>8, UsedInitStep DEF Restart, Reboot
<1>9. CASE UNCHANGED vars
  <2>1. UNCHANGED <<uuidToNum, status, pc, fatal>>
      BY Zenon, <1>9 DEF vars
  <2>2. \A v \in UUID : (InUse(v)' <=> InUse(v)) /\ (Claimed(v)' <=> Claimed(v))
      BY Zenon, <2>1 DEF InUse, Claimed
  <2>3. UsedOK'
      BY Zenon, <2>1, <2>2 DEF UsedOK, InUse
  <2>4. FullWhenSaid'
      BY Zenon, <2>1 DEF FullWhenSaid
  <2> QED
      BY Zenon, <2>3, <2>4
<1> QED
    BY Zenon, <1>1, <1>2, <1>3, <1>4, <1>5, <1>6, <1>7, <1>8, <1>9 DEF Next

\* An application or a network object keeps the number in its status until it is
\* deleted, over any restarts (UuidToNumGetOldestUnused, appNumAllocatorInit).
THEOREM NumbersKept == Spec => []InUseKept
<1>1. NumInv => InUseKept
  <2> SUFFICES ASSUME NumInv, NEW u \in DOMAIN status \ Instance PROVE Kept(u)
      BY Zenon DEF InUseKept
  <2>1. CASE Orphan(u)
      BY Zenon, <2>1 DEF Orphan, Kept
  <2>2. CASE Owns(u)
      BY Zenon, <2>2 DEF Owns, Kept
  <2> QED
      BY Zenon, <2>1, <2>2 DEF NumInv, Backed
<1> QED
    BY <1>1, NumInvHolds, PTL

\* Whenever "All 255 appNums are in use!" is said, each of the numbers is in the
\* published status of an owner of that kind: a number that no owner holds is
\* found, among the free ones or the unused ones (appNumAllocate).
THEOREM FullIsFull == Spec => []FullWhenSaid
<1>1. Init => UsedOK /\ FullWhenSaid
    BY Zenon, UsedInit
<1>2. NumInv /\ UsedOK /\ FullWhenSaid /\ [Next]_vars => (UsedOK /\ FullWhenSaid)'
    BY Zenon, UsedStep
<1> QED
    BY <1>1, <1>2, NumInvHolds, PTL DEF Spec
=============================================================================
