---------------------------- MODULE NumAllocator ----------------------------
(***************************************************************************)
(* Small numbers for UUIDs: uuidtonum/uuidtonum.go and the two allocators   *)
(* of zedrouter built on it, appnumallocator.go (a number per application)  *)
(* and bridgenumallocator.go (a number per network object or network        *)
(* instance), with the handlers that create and delete their owners.        *)
(*                                                                          *)
(* zedrouter runs its handlers one after the other, but may stop between    *)
(* any two writes.  UuidToNum is persistent; the statuses of the owners     *)
(* survive a restart of the process, not a reboot; the bitmap is in memory. *)
(* LastUseTime is modelled by the order it gives to the entries.            *)
(***************************************************************************)
EXTENDS Naturals, Sequences, FiniteSets, Functions, KeyMap

CONSTANTS App, Object, Instance,  \* UUIDs of applications, network objects and network instances
          Zedmanager,             \* the applications with IsZedmanager
          MaxNum                  \* the largest number (255)

ASSUME NumAssumption ==
    /\ MaxNum \in Nat \ {0}
    /\ App \intersect (Object \union Instance) = {}
    /\ Object \intersect Instance = {}
    /\ Zedmanager \subseteq App

VARIABLES uuidToNum,  \* the persistent publication: UUID -> [num, inUse]
          recent,     \* its UUIDs in the order of LastUseTime
          bits,       \* AllocReservedAppNumBits and AllocReservedBridgeNumBits
          status,     \* the owner's status: UUID -> its number, 0 while it has none
          pc,         \* the handler that runs, its UUID and number
          fatal       \* the log.Fatal that has stopped zedrouter

vars == <<uuidToNum, recent, bits, status, pc, fatal>>

UUID == App \union Object \union Instance

numType == [u \in UUID |-> IF u \in App THEN "appNum" ELSE "bridgeNum"]

Idle == [op |-> "idle"]

Has(u) == u \in DOMAIN uuidToNum

Running == pc # Idle /\ fatal = "none"

-----------------------------------------------------------------------------
(* uuidtonum                                                               *)

\* UuidToNumAllocate: the entry is in use and the most recently used one
UuidToNumAllocate(u, n) ==
    /\ uuidToNum' = Put(uuidToNum, u, [num |-> n, inUse |-> TRUE])
    /\ recent' = Append(SelectSeq(recent, LAMBDA v : v # u), u)

UuidToNumDelete(u) ==
    /\ uuidToNum' = Without(uuidToNum, u)
    /\ recent' = SelectSeq(recent, LAMBDA v : v # u)

Unused(t) == {u \in DOMAIN uuidToNum : numType[u] = t /\ ~uuidToNum[u].inUse}

Age(u) == CHOOSE i \in DOMAIN recent : recent[i] = u

\* Mutant: whether an entry is in use is not looked at.
AnyEntry(t) == {u \in DOMAIN uuidToNum : numType[u] = t}

\* UuidToNumGetOldestUnused: of the unused entries the one whose LastUseTime
\* all others are Before
UuidToNumGetOldestUnused(t) == {u \in Unused(t) : \A v \in Unused(t) : Age(v) <= Age(u)}

-----------------------------------------------------------------------------
(* appNumAllocate and bridgeNumAllocate                                    *)

\* Mutant: the bitmap is not looked at.
FreeAll(t) == 1..MaxNum

Free(t) == {n \in 1..MaxNum : n \notin bits[t]}

Wants0(u) == u \in Zedmanager /\ 0 \notin bits["appNum"]

\* The number a UUID without one gets: zero for zedmanager, else the least free
Fresh(u) ==
    IF Wants0(u) THEN {0} ELSE {n \in Free(numType[u]) : \A m \in Free(numType[u]) : n <= m}

\* UuidToNumGet has found one; its bit is set (BitsExact), else log.Fatalf
FoundNum(u) ==
    /\ Has(u)
    /\ uuidToNum[u].num \in bits[numType[u]]
    /\ UuidToNumAllocate(u, uuidToNum[u].num)
    /\ pc' = [op |-> "publish", u |-> u, n |-> uuidToNum[u].num]
    /\ UNCHANGED <<bits, status, fatal>>

NewNum(u) ==
    /\ ~Has(u)
    /\ \E n \in Fresh(u) :
          /\ bits' = [bits EXCEPT ![numType[u]] = @ \union {n}]
          /\ UuidToNumAllocate(u, n)
          /\ pc' = [op |-> "publish", u |-> u, n |-> n]
    /\ UNCHANGED <<status, fatal>>

\* No number is free: take one that is not in use from its UUID, for which
\* UuidToNumDelete and UuidToNumAllocate write twice.
Reuse(u) ==
    LET t == numType[u] IN
    /\ ~Has(u) /\ ~Wants0(u) /\ Free(t) = {}
    /\ \/ /\ Unused(t) = {}
          /\ fatal' = "all in use"
          /\ UNCHANGED <<uuidToNum, recent, bits, pc>>
       \/ /\ \E old \in UuidToNumGetOldestUnused(t) :
                /\ UuidToNumDelete(old)
                /\ bits' = [bits EXCEPT ![t] = @ \ {uuidToNum[old].num}]
                /\ pc' = [op |-> "reuse", u |-> u, n |-> uuidToNum[old].num]
          /\ UNCHANGED fatal
    /\ UNCHANGED status

ReuseAllocate ==
    /\ Running /\ pc.op = "reuse"
    /\ bits' = [bits EXCEPT ![numType[pc.u]] = @ \union {pc.n}]
    /\ UuidToNumAllocate(pc.u, pc.n)
    /\ pc' = [pc EXCEPT !.op = "publish"]
    /\ UNCHANGED <<status, fatal>>

Allocate(u) == FoundNum(u) \/ NewNum(u) \/ Reuse(u)

\* appNumFree and bridgeNumFree
NumFree(u) ==
    /\ \/ /\ Has(u)
          /\ uuidToNum[u].num \in bits[numType[u]]
          /\ bits' = [bits EXCEPT ![numType[u]] = @ \ {uuidToNum[u].num}]
          /\ UuidToNumDelete(u)
          /\ UNCHANGED fatal
       \/ /\ ~(Has(u) /\ uuidToNum[u].num \in bits[numType[u]])
          /\ fatal' = "not set"
          /\ UNCHANGED <<uuidToNum, recent, bits>>

-----------------------------------------------------------------------------
(* The owners.                                                             *)

Ready == pc = Idle /\ fatal = "none"

\* handleAppNetworkCreate: a number, then the status
AppCreate(u) ==
    /\ Ready /\ u \in App /\ u \notin DOMAIN status
    /\ Allocate(u)

\* handleNetworkObjectCreate, handleNetworkInstanceCreate: a status without
\* a number, then the number, then the status with it
NetworkCreate(u) ==
    /\ Ready /\ u \notin App /\ u \notin DOMAIN status
    /\ status' = Put(status, u, 0)
    /\ pc' = [op |-> "create", u |-> u, n |-> 0]
    /\ UNCHANGED <<uuidToNum, recent, bits, fatal>>

NetworkAllocate ==
    /\ Running /\ pc.op = "create"
    /\ Allocate(pc.u)

\* doNetworkCreate or doNetworkInstanceSanityCheck returns an error
NetworkRefuse ==
    /\ Running /\ pc.op = "create"
    /\ pc' = Idle
    /\ UNCHANGED <<uuidToNum, recent, bits, status, fatal>>

PublishStatus ==
    /\ Running /\ pc.op = "publish"
    /\ status' = Put(status, pc.u, pc.n)
    /\ pc' = Idle
    /\ UNCHANGED <<uuidToNum, recent, bits, fatal>>

Unpublish(u) == status' = Without(status, u)

\* Mutant: the number goes first.
AppDeleteNumFirst(u) ==
    /\ Ready /\ u \in App /\ u \in DOMAIN status
    /\ NumFree(u)
    /\ pc' = [op |-> "unpublish", u |-> u, n |-> 0]
    /\ UNCHANGED status

\* handleDelete of an application: the status goes first
AppDelete(u) ==
    /\ Ready /\ u \in App /\ u \in DOMAIN status
    /\ Unpublish(u)
    /\ pc' = [op |-> "free", u |-> u, n |-> 0]
    /\ UNCHANGED <<uuidToNum, recent, bits, fatal>>

AppFree ==
    /\ Running /\ pc.op = "free"
    /\ NumFree(pc.u)
    /\ pc' = Idle
    /\ UNCHANGED status

\* doNetworkDelete, networkInstanceBridgeDelete: the number goes first
NetworkDelete(u) ==
    /\ Ready /\ u \notin App /\ u \in DOMAIN status
    /\ \/ /\ status[u] # 0
          /\ NumFree(u)
       \/ /\ status[u] = 0
          /\ UNCHANGED <<uuidToNum, recent, bits, fatal>>
    /\ pc' = [op |-> "unpublish", u |-> u, n |-> 0]
    /\ UNCHANGED status

NetworkUnpublish ==
    /\ Running /\ pc.op = "unpublish"
    /\ Unpublish(pc.u)
    /\ pc' = Idle
    /\ UNCHANGED <<uuidToNum, recent, bits, fatal>>

-----------------------------------------------------------------------------
(* appNumAllocatorInit and bridgeNumAllocatorInit                          *)

NumbersIn(f, t) == {f[u].num : u \in {v \in DOMAIN f : numType[v] = t}}

Numbers(t) == NumbersIn(uuidToNum, t)

\* Mutant: an entry stays in use without an owner.
Restored(st) ==
    [u \in DOMAIN uuidToNum \union (DOMAIN st \ Instance) |->
        IF u \in DOMAIN st \ Instance THEN [num |-> st[u], inUse |-> TRUE] ELSE uuidToNum[u]]

\* UuidToNumFree for every entry, then UuidToNumAllocate for those of the
\* owners with a status; the statuses of instances are not looked at.  Two
\* entries with one number do not occur (Unique), so no entry is skipped.
Marked(st) ==
    [u \in DOMAIN uuidToNum \union (DOMAIN st \ Instance) |->
        IF u \in DOMAIN st \ Instance THEN [num |-> st[u], inUse |-> TRUE]
        ELSE [uuidToNum[u] EXCEPT !.inUse = FALSE]]

\* The orders in which GetAll's map can be visited.
Orders(S) == Bijection(1..Cardinality(S), S)

\* Start with the statuses st that zedrouter finds.  Entries are visited in
\* any order.  What log.Fatalf leaves half done the next start does again.
AllocatorInit(st) ==
    LET owners == DOMAIN st \ Instance
    IN  /\ bits' = [t \in {"appNum", "bridgeNum"} |-> Numbers(t)]
        /\ \/ /\ \E u \in owners : st[u] \notin Numbers(numType[u])
              /\ fatal' = "not set"
              /\ UNCHANGED <<uuidToNum, recent>>
           \/ /\ \A u \in owners : st[u] \in Numbers(numType[u])
              /\ fatal' = "none"
              /\ uuidToNum' = Marked(st)
              /\ \E first \in Orders(DOMAIN uuidToNum \ owners), last \in Orders(owners) :
                    recent' = first \o last
        /\ status' = st
        /\ pc' = Idle

\* The process is started again; or the device.
Restart == AllocatorInit(status)

Reboot == AllocatorInit(<<>>)

-----------------------------------------------------------------------------
Init ==
    /\ uuidToNum = <<>> /\ recent = <<>> /\ status = <<>>
    /\ bits = [t \in {"appNum", "bridgeNum"} |-> {}]
    /\ pc = Idle /\ fatal = "none"

Next ==
    \/ \E u \in UUID : AppCreate(u) \/ NetworkCreate(u) \/ AppDelete(u) \/ NetworkDelete(u)
    \/ NetworkAllocate \/ NetworkRefuse \/ ReuseAllocate \/ PublishStatus
    \/ AppFree \/ NetworkUnpublish
    \/ Restart \/ Reboot

Spec == Init /\ [][Next]_vars

-----------------------------------------------------------------------------
Numbered == 0..MaxNum

Types == {"appNum", "bridgeNum"}

\* The values of the variables.
TypeOK ==
    /\ DOMAIN uuidToNum \subseteq UUID
    /\ \A u \in DOMAIN uuidToNum : uuidToNum[u] \in [num : Numbered, inUse : BOOLEAN]
    /\ Range(recent) = DOMAIN uuidToNum /\ IsInjective(recent)
    /\ bits \in [Types -> SUBSET Numbered]
    /\ DOMAIN status \subseteq UUID
    /\ \A u \in DOMAIN status : status[u] \in Numbered
    /\ pc = Idle \/ pc \in [op : {"create", "publish", "reuse", "free", "unpublish"}, u : UUID, n : Numbered]
    /\ fatal \in {"none", "not set", "all in use"}

\* No two owners of a kind are given one number: it names bridges, files and
\* subnets (appNumAllocate, bridgeNumAllocate).
Unique ==
    \A u, v \in DOMAIN uuidToNum :
        u # v /\ numType[u] = numType[v] => uuidToNum[u].num # uuidToNum[v].num

\* While zedrouter runs, a bit is set exactly for the persisted numbers:
\* no number is lost and none is given away twice.
BitsExact == fatal = "none" => \A t \in Types : bits[t] = Numbers(t)

\* Whatever zedrouter was doing when it stopped, the number in the status of
\* an application or a network object is the persisted one of that owner, or
\* is nobody's: marking it InUse at the next start takes it from no other
\* (handleDelete, doNetworkDelete, appNumAllocatorInit, bridgeNumAllocatorInit).
StatusBacked ==
    \A u \in DOMAIN status \ Instance :
        \/ Has(u) /\ uuidToNum[u].num = status[u]
        \/ u \in Object /\ status[u] \notin Numbers("bridgeNum")

Kept(u) ==
    \/ status[u] = 0 \/ fatal # "none"
    \/ pc # Idle /\ pc.u = u
    \/ Has(u) /\ uuidToNum[u].num = status[u]

\* An application or a network object with a number in its status keeps it, over
\* restarts, until it is deleted: UuidToNumGetOldestUnused finds no other.
InUseKept == \A u \in DOMAIN status \ Instance : Kept(u)

\* "When there are no free numbers then reuse the unused numbers"
\* (bridgenumallocator.go): no owner of whatever kind loses a number it uses.
OnlyUnusedReused == \A u \in DOMAIN status : Kept(u)

\* zedrouter comes up whatever it was doing when it stopped: "In case
\* zedrouter process restarted we fill in InUse from" the statuses
\* (appNumAllocatorInit, bridgeNumAllocatorInit) meets no number without its bit.
RestartWorks == fatal # "not set"

\* "All 255 appNums are in use!" (appNumAllocate) is true when it is said.
FullWhenSaid ==
    fatal = "all in use" =>
        \E t \in Types : \A n \in 1..MaxNum :
            \E u \in DOMAIN status : numType[u] = t /\ status[u] = n
=============================================================================
