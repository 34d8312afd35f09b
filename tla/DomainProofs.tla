---------------------------- MODULE DomainProofs ----------------------------
(***************************************************************************)
(* Proofs about the domain manager (DomainMgr), for any domains, lists of   *)
(* adapters, numbers of changes, mishaps and reboots.                       *)
(***************************************************************************)
EXTENDS DomainMgr, TLAPS

\* Where a goroutine of runHandler is, what it does, the DomainStatus, and its own state.
Pcs == {"none", "select", "test", "set", "disks", "created", "cp", "copying", "assign", "create",
        "unpause", "halt", "shutdown", "destroy", "halted", "unassign", "cleanup"}
Ops == {"none", "create", "modify", "retry", "delete"}
StatusT == [pending : BOOLEAN, activated : BOOLEAN, id : BOOLEAN, err : BOOLEAN,
            bootFailed : BOOLEAN, adaptersFailed : BOOLEAN, io : BOOLEAN, disks : BOOLEAN,
            state : {"INSTALLED", "BOOTING", "RUNNING", "HALTING", "HALTED"}]
GoT == [pc : Pcs, op : Ops, on : BOOLEAN, k : Nat, tried : Nat, st : StatusT \cup {<<>>}]

\* The status that d goes on with: the published one while its goroutine waits.
Cur(d) == IF go[d].pc = "select" THEN domStatus[d] ELSE go[d].st

\* The types, and what gcObjects looks at, which is nothing while a handler sends a config.
Types ==
  /\ DomTypeOK
  /\ go \in [Dom -> GoT]
  /\ \A d \in DOMAIN domStatus : domStatus[d] \in StatusT
  /\ usbAccess \in BOOLEAN /\ stray \subseteq Dom
  /\ gcPass = [snap |-> gcPass.snap, at |-> gcPass.at] /\ DOMAIN gcPass.snap \subseteq Dom
  /\ sending # Nobody => gcPass = NoGc

\* What a goroutine knows where it is.
PlaceOK(d) ==
  LET g == go[d] IN
  /\ g.pc = "none" => d \notin DOMAIN domStatus
  /\ g.pc \notin {"none", "select"} => g.st \in StatusT /\ d \in DOMAIN domStatus
  /\ g.pc \in {"test", "set"} =>
       /\ g.k \in DOMAIN IoAdapterList[d] /\ g.op \in {"create", "modify"}
       /\ g.st.disks /\ ~g.st.io
  /\ g.pc \in {"disks", "created"} => g.op = "create" /\ g.st.disks
  /\ g.pc \in {"cp", "copying", "assign"} => g.op \in {"create", "modify"}
  /\ g.pc \in {"cp", "copying"} /\ d \in Preserve => g.op = "create"
  /\ g.pc \in {"cp", "copying", "create", "unpause"} => g.st.disks
  /\ g.op = "create" /\ g.pc \in {"test", "set", "disks"} => ~g.st.bootFailed
  /\ g.op = "retry" => g.pc \in {"create", "unpause"}
  /\ g.op = "delete" => g.pc \in {"halt", "shutdown", "destroy", "halted", "unassign", "cleanup"}
  /\ g.pc \in {"halt", "shutdown", "destroy", "halted"} => g.op \in {"modify", "delete"}
  /\ g.pc \in {"unassign", "cleanup"} => g.op = "delete"
  /\ agentFatal = d => g.pc = "assign"

\* The status published while a goroutine works.
PublishedOK(d) ==
  LET g == go[d] IN
  g.pc \notin {"none", "select"} =>
    /\ ~(g.op = "create" /\ g.pc \in {"test", "set", "disks"}) => domStatus[d].disks = g.st.disks
    /\ g.pc = "unpause" => domStatus[d] = g.st
    /\ g.op = "retry" => domStatus[d].io = g.st.io /\ ~domStatus[d].pending /\ ~g.st.pending

\* A status with adapters or a failure has disks, adapters that failed are not reserved, and
\* nothing is pending or halting once the goroutine waits.
StatusOK(d) ==
  d \in DOMAIN domStatus =>
    LET s == Cur(d) IN
    /\ ~s.disks => ~s.io /\ ~s.adaptersFailed /\ ~s.bootFailed
    /\ s.adaptersFailed => ~s.io
    /\ go[d].pc = "select" => ~s.pending
    /\ s.state = "HALTING" => s.err \/ go[d].pc \in {"halt", "shutdown", "destroy", "halted"}
                                    \/ (go[d].pc = "create" /\ go[d].op = "retry")

\* What is reserved for d has a status that says so.  But for the USB adapters, which a
\* change of the usbAccess setting may take, the adapters that the status names are reserved,
\* those that configAdapters has passed are, and all are before the boot.
ReservedOK(d) ==
  /\ \A a \in Adapter : usedBy[a] = d =>
       /\ d \in DOMAIN domStatus
       /\ go[d].pc \notin {"test", "set"} => Cur(d).io
  /\ d \notin stray =>
       /\ d \in DOMAIN domStatus /\ go[d].pc # "none" /\ Cur(d).io =>
            \A a \in Mine(d) \ Usb : usedBy[a] = d
       /\ go[d].pc \in {"test", "set"} => \A j \in 1..(go[d].k - 1) : usedBy[IoAdapterList[d][j]] = d
       /\ \/ go[d].pc = "create" /\ go[d].op # "retry"
          \/ go[d].pc \in {"cp", "copying"} /\ d \notin Preserve
          => \A a \in Mine(d) : usedBy[a] = d

\* The adapter that d is about to reserve.
Wanted1(d) == IoAdapterList[d][go[d].k]

\* Between the look of configAdapters and its assignment nobody else takes the adapter, or
\* the domain is one of the exceptions.
RaceOK ==
  \A d \in Dom : go[d].pc = "set" =>
    /\ usedBy[Wanted1(d)] \in {Nobody} \cup stray
    /\ \A e \in Dom \ {d} : go[e].pc = "set" /\ Wanted1(e) = Wanted1(d) => d \in stray

\* A domain is in Xen only where its goroutine knows it, with a whole disk and its adapters.
XenOK(d) ==
  d \notin stray /\ xen[d] # "none" =>
    /\ go[d].pc \in {"select", "unpause", "halt", "shutdown", "destroy", "halted"}
    /\ d \in DOMAIN domStatus /\ domStatus[d].disks
    /\ go[d].pc \in {"select", "unpause"} => Cur(d).activated /\ ~Cur(d).bootFailed
    /\ disk[d] = "whole"
    /\ \A a \in Mine(d) : usedBy[a] = d /\ a \in pciback

\* A disk half written is one that is being copied, or a scratch disk that is not booted; a
\* preserved one that no status uses may be removed.
DiskOK(d) ==
  d \notin stray =>
    /\ disk[d] = "partial" =>
         IF d \in Preserve THEN go[d].pc = "copying"
         ELSE ~(go[d].pc = "create" /\ go[d].op # "retry")
    /\ d \in Preserve /\ disk[d] # "none" /\ (d \in DOMAIN domStatus => ~Cur(d).disks) =>
         d \in DOMAIN image /\ ~image[d]

\* gcObjects is about to remove a disk: nobody runs from it, and no goroutine is to boot from it.
GcOK(d) ==
  d \notin stray /\ gcPass.at = d =>
    /\ xen[d] = "none" /\ sending # d
    /\ InStatus(d) => \/ go[d].op = "delete"
                      \/ go[d].pc = "select" /\ ~domStatus[d].bootFailed

DomainOK(d) == PlaceOK(d) /\ PublishedOK(d) /\ StatusOK(d) /\ ReservedOK(d) /\ XenOK(d) /\ DiskOK(d) /\ GcOK(d)

\* The inductive invariant.
DomInv == Types /\ RaceOK /\ \A d \in Dom : DomainOK(d)
-----------------------------------------------------------------------------
(* The constants and the operators.                                         *)

\* The adapters a domain asks for.
LEMMA MineFacts ==
  ASSUME NEW d \in Dom
  PROVE  /\ Nobody \notin Dom /\ Usb \subseteq Adapter
         /\ Len(IoAdapterList[d]) \in Nat \ {0} /\ DOMAIN IoAdapterList[d] = 1..Len(IoAdapterList[d])
         /\ Mine(d) \subseteq Adapter /\ Mine(d) # {}
         /\ \A j \in DOMAIN IoAdapterList[d] : IoAdapterList[d][j] \in Mine(d)
         /\ \A a \in Mine(d) : \E j \in DOMAIN IoAdapterList[d] : a = IoAdapterList[d][j]
<1>1. IoAdapterList[d] \in Seq(Adapter) /\ IoAdapterList[d] # <<>>
  BY Zenon, DomAssumption
<1>2. PICK s \in Seq(Adapter) : s = IoAdapterList[d]
  BY Zenon, <1>1
<1>3. Len(s) \in Nat \ {0} /\ DOMAIN s = 1..Len(s) /\ \A j \in DOMAIN s : s[j] \in Adapter
  BY <1>1, <1>2
<1>4. 1 \in DOMAIN s
  BY <1>3
<1>5. Range(s) = {s[j] : j \in DOMAIN s} /\ Mine(d) = {a \in Adapter : a \in Range(s)}
  BY Zenon, <1>2 DEF Mine, Range
<1>6. /\ Mine(d) \subseteq Adapter /\ \A j \in DOMAIN s : s[j] \in Mine(d)
      /\ \A a \in Mine(d) : \E j \in DOMAIN s : a = s[j]
  BY Zenon, <1>3, <1>5
<1>7. Mine(d) # {}
  BY Zenon, <1>4, <1>6
<1>8. QED
  BY <1>2, <1>3, <1>6, <1>7, DomAssumption

\* A status is published.
LEMMA PublishFacts ==
  ASSUME NEW d, NEW s, publishDomainStatus(d, s)
  PROVE  /\ DOMAIN domStatus' = DOMAIN domStatus \cup {d} /\ domStatus'[d] = s
         /\ \A e \in DOMAIN domStatus \ {d} : domStatus'[e] = domStatus[e]
  BY Zenon DEF publishDomainStatus, Put

\* A map that loses a key.
LEMMA WithoutFacts ==
  ASSUME NEW f, NEW d
  PROVE  /\ DOMAIN Without(f, d) = DOMAIN f \ {d}
         /\ \A e \in DOMAIN f \ {d} : Without(f, d)[e] = f[e]
  BY Zenon DEF Without

\* The goroutine of d gets a new state g, and no other one does.
Moves(d, g) == go' \in [Dom -> GoT] /\ go'[d] = g /\ \A e \in Dom \ {d} : go'[e] = go[e]

\* A goroutine gets a new state.
LEMMA MoveFacts ==
  ASSUME go \in [Dom -> GoT], NEW d \in Dom, NEW g \in GoT, go' = [go EXCEPT ![d] = g]
  PROVE  Moves(d, g)
  BY Zenon DEF Moves

\* A goroutine goes on elsewhere, as Goto says.
LEMMA GotoFacts ==
  ASSUME go \in [Dom -> GoT], NEW d \in Dom, NEW w \in Pcs, Goto(d, w)
  PROVE  Moves(d, [go[d] EXCEPT !.pc = w])
<1>1. PICK g \in GoT : g = go[d]
  BY Zenon
<1>2. [g EXCEPT !.pc = w] \in GoT
  BY Zenon DEF GoT
<1>3. go' = [go EXCEPT ![d] = [g EXCEPT !.pc = w]]
  BY Zenon, <1>1 DEF Goto
<1>4. QED
  BY Zenon, <1>1, <1>2, <1>3, MoveFacts

\* A goroutine goes on elsewhere with another status, as With says.
LEMMA WithFacts ==
  ASSUME go \in [Dom -> GoT], NEW d \in Dom, NEW w \in Pcs, NEW s \in StatusT, With(d, w, s)
  PROVE  Moves(d, [go[d] EXCEPT !.pc = w, !.st = s])
<1>1. PICK g \in GoT : g = go[d]
  BY Zenon
<1>2. [g EXCEPT !.pc = w, !.st = s] \in GoT
  BY Zenon DEF GoT
<1>3. go' = [go EXCEPT ![d] = [g EXCEPT !.pc = w, !.st = s]]
  BY Zenon, <1>1 DEF With
<1>4. QED
  BY Zenon, <1>1, <1>2, <1>3, MoveFacts

\* A goroutine at rest.
LEMMA RestFacts == AtRest \in GoT /\ AtRest.pc = "select" /\ AtRest.op = "none"
  BY DEF AtRest, GoT, Pcs, Ops

-----------------------------------------------------------------------------
(* A step of d leaves the other domains as they are.                        *)

OthersSame(d) ==
  /\ stray \subseteq stray' /\ agentFatal' \in {agentFatal, d}
  /\ \A e \in Dom \ {d} :
       /\ go'[e] = go[e] /\ xen'[e] = xen[e] /\ disk'[e] = disk[e]
       /\ e \in DOMAIN domStatus' <=> e \in DOMAIN domStatus
       /\ e \in DOMAIN domStatus => domStatus'[e] = domStatus[e]
       /\ e \in DOMAIN image /\ ~image[e] => e \in DOMAIN image' /\ ~image'[e]
       /\ gcPass'.at = e => gcPass.at = e /\ (sending' = e => sending = e)
       /\ \A a \in Adapter : usedBy'[a] = e => usedBy[a] = e
       /\ \A a \in Adapter : usedBy[a] = e /\ e \notin stray' => usedBy'[a] = e /\ (a \in pciback => a \in pciback')

\* Then their part of the invariant is kept.
LEMMA OthersKept ==
  ASSUME NEW d, OthersSame(d), NEW e \in Dom \ {d}, DomainOK(e)
  PROVE  DomainOK(e)'
<1>1. /\ go'[e] = go[e] /\ xen'[e] = xen[e] /\ disk'[e] = disk[e]
      /\ e \in DOMAIN domStatus' <=> e \in DOMAIN domStatus
      /\ e \in DOMAIN domStatus => domStatus'[e] = domStatus[e]
      /\ e \notin stray' => e \notin stray
      /\ agentFatal' = e => agentFatal = e
  BY Zenon DEF OthersSame
<1>2. e \in DOMAIN domStatus => Cur(e)' = Cur(e)
  BY Zenon, <1>1 DEF Cur
<1>3. PlaceOK(e)' /\ PublishedOK(e)'
  BY <1>1 DEF DomainOK, PlaceOK, PublishedOK
<1>4. StatusOK(e)'
  BY Zenon, <1>1, <1>2 DEF DomainOK, StatusOK
<1>5. ReservedOK(e)'
  <2>1. /\ \A a \in Adapter : usedBy'[a] = e => usedBy[a] = e
        /\ e \notin stray' => \A a \in Adapter : usedBy[a] = e => usedBy'[a] = e
    BY DEF OthersSame
  <2>2. /\ Mine(e) \subseteq Adapter /\ \A j \in DOMAIN IoAdapterList[e] : IoAdapterList[e][j] \in Adapter
        /\ DOMAIN IoAdapterList[e] = 1..Len(IoAdapterList[e]) /\ Len(IoAdapterList[e]) \in Nat
    BY Zenon, MineFacts
  <2>3. go[e].pc \in {"test", "set"} => go[e].k \in DOMAIN IoAdapterList[e]
    BY Zenon DEF DomainOK, PlaceOK
  <2>4. go[e].pc \in {"test", "set"} => \A j \in 1..(go[e].k - 1) : IoAdapterList[e][j] \in Adapter
    BY <2>2, <2>3
  <2>5. QED
    BY Zenon, <1>1, <1>2, <2>1, <2>2, <2>4 DEF DomainOK, ReservedOK
<1>6. XenOK(e)'
  <2>1. e \notin stray' => \A a \in Mine(e) : usedBy[a] = e /\ a \in pciback => usedBy'[a] = e /\ a \in pciback'
    <3>1. \A a \in Adapter : usedBy[a] = e /\ e \notin stray' => usedBy'[a] = e /\ (a \in pciback => a \in pciback')
      BY Zenon DEF OthersSame
    <3>2. Mine(e) \subseteq Adapter
      BY Zenon, MineFacts
    <3>3. QED
      BY Zenon, <3>1, <3>2
  <2>2. QED
    BY Zenon, <1>1, <1>2, <2>1 DEF DomainOK, XenOK
<1>7. DiskOK(e)'
  <2>1. e \in DOMAIN image /\ ~image[e] => e \in DOMAIN image' /\ ~image'[e]
    BY Zenon DEF OthersSame
  <2>2. QED
    BY Zenon, <1>1, <1>2, <2>1 DEF DomainOK, DiskOK
<1>8. GcOK(e)'
  <2>1. gcPass'.at = e => gcPass.at = e /\ (sending' = e => sending = e)
    BY Zenon DEF OthersSame
  <2>2. QED
    BY <1>1, <2>1 DEF DomainOK, GcOK, InStatus
<1>9. QED
  BY Zenon, <1>3, <1>4, <1>5, <1>6, <1>7, <1>8 DEF DomainOK

\* Nobody starts to reserve an adapter: the races are those there were.
LEMMA RacesKept ==
  ASSUME DomInv, \A e \in Dom : go'[e] = go[e] \/ go'[e].pc # "set", stray \subseteq stray',
         \A a \in Adapter : usedBy'[a] \in {usedBy[a], Nobody}
  PROVE  RaceOK'
<1>1. \A e \in Dom : go'[e].pc = "set" => go'[e] = go[e] /\ Wanted1(e)' = Wanted1(e) /\ Wanted1(e) \in Adapter
  <2> SUFFICES ASSUME NEW e \in Dom, go'[e].pc = "set"
               PROVE  go'[e] = go[e] /\ Wanted1(e)' = Wanted1(e) /\ Wanted1(e) \in Adapter
    BY Zenon
  <2>1. go'[e] = go[e]
    BY Zenon
  <2>2. go[e].k \in DOMAIN IoAdapterList[e]
    BY Zenon, <2>1 DEF DomInv, DomainOK, PlaceOK
  <2>3. QED
    BY Zenon, <2>1, <2>2, MineFacts DEF Wanted1
<1>2. ASSUME NEW e \in Dom, go'[e].pc = "set" PROVE usedBy'[Wanted1(e)'] \in {Nobody} \cup stray'
  <2>1. usedBy[Wanted1(e)] \in {Nobody} \cup stray
    BY Zenon, <1>1, <1>2 DEF DomInv, RaceOK
  <2>2. usedBy'[Wanted1(e)] \in {usedBy[Wanted1(e)], Nobody} /\ Wanted1(e)' = Wanted1(e)
    BY Zenon, <1>1, <1>2
  <2>3. QED
    BY Zenon, <2>1, <2>2
<1>3. ASSUME NEW e \in Dom, go'[e].pc = "set", NEW f \in Dom \ {e}, go'[f].pc = "set", Wanted1(f)' = Wanted1(e)'
      PROVE  e \in stray'
  <2>1. go[e].pc = "set" /\ go[f].pc = "set" /\ Wanted1(f) = Wanted1(e)
    BY Zenon, <1>1, <1>3
  <2>2. QED
    BY Zenon, <2>1 DEF DomInv, RaceOK
<1>4. QED
  BY Zenon, <1>2, <1>3 DEF RaceOK

\* A step of d preserves the invariant if it preserves d's part of it.
LEMMA Assemble ==
  ASSUME DomInv, NEW d, OthersSame(d), Types', RaceOK', d \in Dom => DomainOK(d)'
  PROVE  DomInv'
<1>1. \A e \in Dom \ {d} : DomainOK(e)'
  BY Zenon, OthersKept DEF DomInv
<1>2. QED
  BY Zenon, <1>1 DEF DomInv

-----------------------------------------------------------------------------
(* What a step of the goroutine of d may change.                            *)

GoOnly(d) ==
  /\ go' \in [Dom -> GoT] /\ (d \in Dom => go'[d].k \in 0..Len(IoAdapterList[d]))
  /\ \A e \in Dom \ {d} : go'[e] = go[e]

StatusOnly(d) ==
  /\ DOMAIN domStatus' \subseteq Dom
  /\ d \in DOMAIN domStatus' => domStatus'[d] \in StatusT
  /\ \A e \in Dom \ {d} : /\ e \in DOMAIN domStatus' <=> e \in DOMAIN domStatus
                          /\ e \in DOMAIN domStatus => domStatus'[e] = domStatus[e]

XenT  == {"none", "paused", "running", "rebooting"}
DiskT == {"none", "partial", "whole"}

XenOnly(d)  == xen' \in [Dom -> XenT] /\ \A e \in Dom \ {d} : xen'[e] = xen[e]
DiskOnly(d) == disk' \in [Dom -> DiskT] /\ \A e \in Dom \ {d} : disk'[e] = disk[e]

ImageOnly(d) ==
  /\ DOMAIN image' \subseteq Dom
  /\ \A e \in Dom \ {d} : e \in DOMAIN image => e \in DOMAIN image' /\ image'[e] = image[e]

IoOnly(d) ==
  /\ usedBy' \in [Adapter -> Dom \cup {Nobody}] /\ pciback' \subseteq Adapter
  /\ \A a \in Adapter :
       \/ usedBy'[a] = usedBy[a] /\ (a \in pciback => a \in pciback')
       \/ usedBy[a] \in {d, Nobody} \cup stray /\ usedBy'[a] \in {d, Nobody, usedBy[a]}

CtlOnly(d) ==
  /\ domConfig' \in [Dom -> {"none", "off", "on"}] /\ usbAccess' \in BOOLEAN
  /\ agentFatal' \in {agentFatal, d} /\ sending' \in {sending, Nobody, d}
  /\ gcPass' = [snap |-> gcPass'.snap, at |-> gcPass'.at] /\ DOMAIN gcPass'.snap \subseteq Dom
  /\ gcPass'.at \in {gcPass.at, Nobody, d} /\ (sending' # Nobody => gcPass' = NoGc)

StrayOnly == stray' \subseteq Dom /\ stray \subseteq stray'

\* What does not change.
LEMMA Unchanged ==
  ASSUME DomInv, NEW d
  PROVE  /\ go' = go => GoOnly(d)
         /\ domStatus' = domStatus => StatusOnly(d)
         /\ xen' = xen => XenOnly(d)
         /\ disk' = disk => DiskOnly(d)
         /\ image' = image => ImageOnly(d)
         /\ usedBy' = usedBy /\ pciback' = pciback => IoOnly(d)
         /\ stray' = stray => StrayOnly
         /\ UNCHANGED <<domConfig, usbAccess, gcPass, agentFatal>> /\ sending' \in {sending, Nobody} => CtlOnly(d)
<1>1. /\ go \in [Dom -> GoT] /\ \A e \in Dom : go[e].k \in 0..Len(IoAdapterList[e])
      /\ DOMAIN domStatus \subseteq Dom /\ DOMAIN image \subseteq Dom
      /\ \A e \in DOMAIN domStatus : domStatus[e] \in StatusT
      /\ xen \in [Dom -> XenT] /\ disk \in [Dom -> DiskT] /\ stray \subseteq Dom
      /\ usedBy \in [Adapter -> Dom \cup {Nobody}] /\ pciback \subseteq Adapter
  BY Zenon DEF DomInv, Types, DomTypeOK, XenT, DiskT
<1>2. /\ domConfig \in [Dom -> {"none", "off", "on"}] /\ usbAccess \in BOOLEAN
      /\ gcPass = [snap |-> gcPass.snap, at |-> gcPass.at] /\ DOMAIN gcPass.snap \subseteq Dom
      /\ sending # Nobody => gcPass = NoGc
  BY Zenon DEF DomInv, Types, DomTypeOK
<1>3. UNCHANGED <<domConfig, usbAccess, gcPass, agentFatal>> /\ sending' \in {sending, Nobody} => CtlOnly(d)
  BY Zenon, <1>2 DEF CtlOnly
<1>4. QED
  BY Zenon, <1>1, <1>3 DEF GoOnly, StatusOnly, XenOnly, DiskOnly, ImageOnly, IoOnly, StrayOnly

\* The goroutine moves.
LEMMA MoveOnly ==
  ASSUME NEW d \in Dom, NEW g, Moves(d, g), g.k \in 0..Len(IoAdapterList[d])
  PROVE  GoOnly(d)
  BY Zenon DEF Moves, GoOnly

\* A status is published.
LEMMA PublishOnly ==
  ASSUME DomInv, NEW d \in Dom, NEW s \in StatusT, publishDomainStatus(d, s)
  PROVE  StatusOnly(d)
<1>1. DOMAIN domStatus \subseteq Dom
  BY Zenon DEF DomInv, Types, DomTypeOK
<1>2. QED
  <2>1. /\ DOMAIN domStatus' = DOMAIN domStatus \cup {d} /\ domStatus'[d] = s
        /\ \A e \in DOMAIN domStatus \ {d} : domStatus'[e] = domStatus[e]
    BY Zenon, PublishFacts
  <2>2. QED
    BY <1>1, <2>1 DEF StatusOnly

\* A file or a domain in Xen changes.
LEMMA SetOnly ==
  ASSUME DomInv, NEW d \in Dom
  PROVE  /\ \A x \in XenT : xen' = [xen EXCEPT ![d] = x] => XenOnly(d) /\ xen'[d] = x
         /\ \A x \in DiskT : disk' = [disk EXCEPT ![d] = x] => DiskOnly(d) /\ disk'[d] = x
         /\ image' = addImageStatus(d) => ImageOnly(d) /\ d \in DOMAIN image' /\ image'[d] = TRUE
         /\ image' = Without(image, d) => ImageOnly(d) /\ d \notin DOMAIN image'
<1>1. /\ DOMAIN image \subseteq Dom
      /\ xen \in [Dom -> XenT] /\ disk \in [Dom -> DiskT]
  BY Zenon DEF DomInv, Types, DomTypeOK, XenT, DiskT
<1>2. \A x \in XenT : xen' = [xen EXCEPT ![d] = x] => XenOnly(d) /\ xen'[d] = x
  BY Zenon, <1>1 DEF XenOnly
<1>3. \A x \in DiskT : disk' = [disk EXCEPT ![d] = x] => DiskOnly(d) /\ disk'[d] = x
  BY Zenon, <1>1 DEF DiskOnly
<1>4. image' = addImageStatus(d) => ImageOnly(d) /\ d \in DOMAIN image' /\ image'[d] = TRUE
  <2>1. /\ DOMAIN addImageStatus(d) = DOMAIN image \cup {d} /\ addImageStatus(d)[d] = TRUE
        /\ \A e \in DOMAIN image \ {d} : addImageStatus(d)[e] = image[e]
    BY Zenon DEF addImageStatus, Put
  <2>2. QED
    BY <1>1, <2>1 DEF ImageOnly
<1>5. image' = Without(image, d) => ImageOnly(d) /\ d \notin DOMAIN image'
  <2>1. /\ DOMAIN Without(image, d) = DOMAIN image \ {d}
        /\ \A e \in DOMAIN image \ {d} : Without(image, d)[e] = image[e]
    BY Zenon, WithoutFacts
  <2>2. QED
    BY <1>1, <2>1 DEF ImageOnly
<1>6. QED
  BY Zenon, <1>2, <1>3, <1>4, <1>5

\* Such a step preserves the invariant if it preserves d's part.
LEMMA StepKept ==
  ASSUME DomInv, NEW d \in Dom \cup {Nobody},
         GoOnly(d), StatusOnly(d), XenOnly(d), DiskOnly(d), ImageOnly(d), IoOnly(d), StrayOnly, CtlOnly(d),
         RaceOK', d \in Dom => DomainOK(d)'
  PROVE  DomInv'
<1>1. Types'
  <2>1. /\ DomTypeOK /\ \A e \in DOMAIN domStatus : domStatus[e] \in StatusT
    BY Zenon DEF DomInv, Types
  <2>2. \A e \in Dom : go'[e].k \in 0..Len(IoAdapterList[e])
    <3>1. /\ \A e \in Dom \ {d} : go'[e] = go[e]
          /\ d \in Dom => go'[d].k \in 0..Len(IoAdapterList[d])
          /\ \A e \in Dom : go[e].k \in 0..Len(IoAdapterList[e])
      BY Zenon, <2>1 DEF DomTypeOK, GoOnly
    <3>2. QED
      BY Zenon, <3>1
  <2>3. {sending', agentFatal', gcPass'.at} \subseteq Dom \cup {Nobody}
    <3>1. {sending, agentFatal, gcPass.at} \subseteq Dom \cup {Nobody}
      BY Zenon, <2>1 DEF DomTypeOK
    <3>2. QED
      BY <3>1 DEF CtlOnly
  <2>4. DomTypeOK'
    BY Zenon, <2>1, <2>2, <2>3 DEF DomTypeOK, StatusOnly, XenOnly, DiskOnly, ImageOnly, IoOnly, CtlOnly, XenT, DiskT
  <2>5. \A e \in DOMAIN domStatus' : domStatus'[e] \in StatusT
    BY Zenon, <2>1 DEF StatusOnly
  <2>6. go' \in [Dom -> GoT] /\ stray' \subseteq Dom
    BY Zenon DEF GoOnly, StrayOnly
  <2>7. /\ gcPass' = [snap |-> gcPass'.snap, at |-> gcPass'.at] /\ DOMAIN gcPass'.snap \subseteq Dom
        /\ usbAccess' \in BOOLEAN /\ (sending' # Nobody => gcPass' = NoGc)
    BY Zenon DEF CtlOnly
  <2>8. QED
    BY Zenon, <2>4, <2>5, <2>6, <2>7 DEF Types
<1>2. OthersSame(d)
  <2>1. \A e \in Dom : e # Nobody
    BY Zenon, DomAssumption
  <2>2. ASSUME NEW e \in Dom \ {d}, NEW a \in Adapter
        PROVE  /\ usedBy'[a] = e => usedBy[a] = e
               /\ usedBy[a] = e /\ e \notin stray' => usedBy'[a] = e /\ (a \in pciback => a \in pciback')
    BY <2>1, <2>2 DEF IoOnly, StrayOnly
  <2>3. ASSUME NEW e \in Dom \ {d}
        PROVE  /\ go'[e] = go[e] /\ xen'[e] = xen[e] /\ disk'[e] = disk[e]
               /\ e \in DOMAIN domStatus' <=> e \in DOMAIN domStatus
               /\ e \in DOMAIN domStatus => domStatus'[e] = domStatus[e]
               /\ e \in DOMAIN image /\ ~image[e] => e \in DOMAIN image' /\ ~image'[e]
    BY Zenon, <2>3 DEF GoOnly, XenOnly, DiskOnly, StatusOnly, ImageOnly
  <2>4. ASSUME NEW e \in Dom \ {d}, gcPass'.at = e
        PROVE  gcPass.at = e /\ (sending' = e => sending = e)
    BY <2>1, <2>4 DEF CtlOnly
  <2>5. QED
    BY <2>2, <2>3, <2>4 DEF OthersSame, StrayOnly, CtlOnly
<1>3. QED
  BY Zenon, <1>1, <1>2, Assemble

\* The same for a step that does not come to the reservation of an adapter.
LEMMA StepNoSet ==
  ASSUME DomInv, NEW d \in Dom \cup {Nobody},
         GoOnly(d), StatusOnly(d), XenOnly(d), DiskOnly(d), ImageOnly(d), IoOnly(d), StrayOnly, CtlOnly(d),
         d \in Dom => go'[d].pc # "set" \/ go'[d] = go[d],
         \A a \in Adapter : usedBy'[a] \in {usedBy[a], Nobody}, d \in Dom => DomainOK(d)'
  PROVE  DomInv'
<1>1. (\A e \in Dom : go'[e] = go[e] \/ go'[e].pc # "set") /\ stray \subseteq stray'
  BY Zenon DEF GoOnly, StrayOnly
<1>2. RaceOK'
  BY Zenon, <1>1, RacesKept
<1>3. QED
  BY Zenon, <1>2, StepKept

-----------------------------------------------------------------------------
(* The steps of a goroutine.                                                *)

\* What is known of d before a step.
LEMMA Here ==
  ASSUME DomInv, NEW d \in Dom
  PROVE  /\ go \in [Dom -> GoT] /\ go[d] \in GoT /\ go[d].k \in 0..Len(IoAdapterList[d])
         /\ DOMAIN domStatus \subseteq Dom /\ (d \in DOMAIN domStatus => domStatus[d] \in StatusT)
         /\ Nobody \notin Dom /\ usedBy \in [Adapter -> Dom \cup {Nobody}]
         /\ PlaceOK(d) /\ PublishedOK(d) /\ StatusOK(d) /\ ReservedOK(d) /\ XenOK(d) /\ DiskOK(d) /\ GcOK(d)
  BY Zenon, MineFacts DEF DomInv, Types, DomTypeOK, DomainOK

\* A goroutine goes on elsewhere.
LEMMA GotoStep ==
  ASSUME DomInv, NEW d \in Dom, NEW w \in Pcs, Goto(d, w)
  PROVE  /\ GoOnly(d) /\ go'[d].pc = w /\ go'[d].op = go[d].op /\ go'[d].on = go[d].on
         /\ go'[d].k = go[d].k /\ go'[d].st = go[d].st
<1>1. PICK g \in GoT : g = go[d]
  BY Zenon, Here
<1>2. Moves(d, [g EXCEPT !.pc = w])
  BY Zenon, <1>1, GotoFacts, Here
<1>3. /\ go'[d] = [g EXCEPT !.pc = w] /\ go' \in [Dom -> GoT] /\ \A e \in Dom \ {d} : go'[e] = go[e]
  BY Zenon, <1>2 DEF Moves
<1>4. /\ go'[d].pc = w /\ go'[d].op = go[d].op /\ go'[d].on = go[d].on
      /\ go'[d].k = go[d].k /\ go'[d].st = go[d].st
  BY <1>1, <1>3 DEF GoT
<1>5. GoOnly(d)
  BY Zenon, <1>3, <1>4, Here DEF GoOnly
<1>6. QED
  BY Zenon, <1>4, <1>5

\* A goroutine goes on elsewhere with another status.
LEMMA WithStep ==
  ASSUME DomInv, NEW d \in Dom, NEW w \in Pcs, NEW s \in StatusT, With(d, w, s)
  PROVE  /\ GoOnly(d) /\ go'[d].pc = w /\ go'[d].op = go[d].op /\ go'[d].on = go[d].on
         /\ go'[d].k = go[d].k /\ go'[d].st = s
<1>1. PICK g \in GoT : g = go[d]
  BY Zenon, Here
<1>2. Moves(d, [g EXCEPT !.pc = w, !.st = s])
  BY Zenon, <1>1, WithFacts, Here
<1>3. /\ go'[d] = [g EXCEPT !.pc = w, !.st = s] /\ go' \in [Dom -> GoT] /\ \A e \in Dom \ {d} : go'[e] = go[e]
  BY Zenon, <1>2 DEF Moves
<1>4. /\ go'[d].pc = w /\ go'[d].op = go[d].op /\ go'[d].on = go[d].on
      /\ go'[d].k = go[d].k /\ go'[d].st = s
  BY <1>1, <1>3 DEF GoT
<1>5. GoOnly(d)
  BY Zenon, <1>3, <1>4, Here DEF GoOnly
<1>6. QED
  BY Zenon, <1>4, <1>5

\* A goroutine comes to rest.
LEMMA RestStep ==
  ASSUME DomInv, NEW d \in Dom, go' = [go EXCEPT ![d] = AtRest]
  PROVE  GoOnly(d) /\ go'[d].pc = "select" /\ go'[d].op = "none"
<1>1. Moves(d, AtRest)
  BY Zenon, MoveFacts, RestFacts, Here
<1>2. AtRest.k \in 0..Len(IoAdapterList[d])
  BY MineFacts DEF AtRest
<1>3. QED
  BY Zenon, <1>1, <1>2, MoveOnly, RestFacts DEF Moves

\* The fields that the invariant is about are the same in two statuses.
Alike(s, t) ==
  /\ s.io = t.io /\ s.disks = t.disks /\ s.adaptersFailed = t.adaptersFailed
  /\ s.activated = t.activated /\ s.bootFailed = t.bootFailed

\* A status with an error, and one with nothing pending.
LEMMA FieldFacts ==
  ASSUME NEW s \in StatusT, NEW b \in BOOLEAN
  PROVE  /\ [s EXCEPT !.err = b] \in StatusT /\ [s EXCEPT !.err = b].err = b
         /\ Alike([s EXCEPT !.err = b], s) /\ [s EXCEPT !.err = b].state = s.state
         /\ [s EXCEPT !.err = b].pending = s.pending
         /\ [s EXCEPT !.pending = b] \in StatusT /\ [s EXCEPT !.pending = b].pending = b
         /\ Alike([s EXCEPT !.pending = b], s) /\ [s EXCEPT !.pending = b].state = s.state
         /\ [s EXCEPT !.pending = b].err = s.err
<1>1. [s EXCEPT !.err = b] \in StatusT /\ [s EXCEPT !.pending = b] \in StatusT
  BY Zenon DEF StatusT
<1>2. QED
  BY <1>1 DEF StatusT, Alike

\* A status with another id or state.
LEMMA StateFacts ==
  ASSUME NEW s \in StatusT, NEW b \in BOOLEAN
  PROVE  /\ [s EXCEPT !.id = b] \in StatusT /\ Alike([s EXCEPT !.id = b], s)
         /\ [s EXCEPT !.state = "HALTING"] \in StatusT /\ Alike([s EXCEPT !.state = "HALTING"], s)
         /\ [s EXCEPT !.state = "RUNNING"] \in StatusT /\ Alike([s EXCEPT !.state = "RUNNING"], s)
         /\ [s EXCEPT !.state = "RUNNING"].state = "RUNNING"
<1>1. /\ [s EXCEPT !.id = b] \in StatusT /\ [s EXCEPT !.state = "HALTING"] \in StatusT
      /\ [s EXCEPT !.state = "RUNNING"] \in StatusT
  BY Zenon DEF StatusT
<1>2. QED
  BY <1>1 DEF StatusT, Alike

\* The goroutine's state when it begins to delete a domain or to boot it again, and when it
\* begins a handler that looks through the adapters.
Begun(w, o, s)       == [AtRest EXCEPT !.pc = w, !.op = o, !.st = s]
BegunIo(w, o, on, s) == [AtRest EXCEPT !.pc = w, !.op = o, !.on = on, !.k = 1, !.st = s]

\* A goroutine begins a handler.
LEMMA BeginFacts ==
  ASSUME NEW w \in Pcs, NEW o \in Ops, NEW s \in StatusT
  PROVE  /\ Begun(w, o, s) \in GoT /\ Begun(w, o, s).pc = w /\ Begun(w, o, s).op = o
         /\ Begun(w, o, s).st = s /\ Begun(w, o, s).k = 0
<1>1. PICK g : g = Begun(w, o, s)
  BY Zenon
<1>2. g = [pc |-> w, op |-> o, on |-> FALSE, k |-> 0, tried |-> 0, st |-> s]
  BY Zenon, <1>1 DEF AtRest, Begun
<1>3. g \in GoT /\ g.pc = w /\ g.op = o /\ g.st = s /\ g.k = 0
  BY <1>2 DEF GoT
<1>4. QED
  BY Zenon, <1>1, <1>3

\* The same for the handlers that look through the adapters.
LEMMA BeginIoFacts ==
  ASSUME NEW w \in Pcs, NEW o \in Ops, NEW s \in StatusT, NEW on \in BOOLEAN
  PROVE  /\ BegunIo(w, o, on, s) \in GoT /\ BegunIo(w, o, on, s).pc = w /\ BegunIo(w, o, on, s).op = o
         /\ BegunIo(w, o, on, s).st = s /\ BegunIo(w, o, on, s).k = 1
<1>1. PICK g : g = BegunIo(w, o, on, s)
  BY Zenon
<1>2. g = [pc |-> w, op |-> o, on |-> on, k |-> 1, tried |-> 0, st |-> s]
  BY Zenon, <1>1 DEF AtRest, BegunIo
<1>3. g \in GoT /\ g.pc = w /\ g.op = o /\ g.st = s /\ g.k = 1
  BY <1>2 DEF GoT
<1>4. QED
  BY Zenon, <1>1, <1>3

\* A domain without a goroutine.
LEMMA NoneFacts ==
  \E g \in GoT : g = [AtRest EXCEPT !.pc = "none"] /\ g.pc = "none" /\ g.op = "none" /\ g.k = 0
<1>1. PICK g : g = [AtRest EXCEPT !.pc = "none"]
  BY Zenon
<1>2. g = [pc |-> "none", op |-> "none", on |-> FALSE, k |-> 0, tried |-> 0, st |-> <<>>]
  BY Zenon, <1>1 DEF AtRest
<1>3. g \in GoT /\ g.pc = "none" /\ g.op = "none" /\ g.k = 0
  BY <1>2 DEF GoT, Pcs, Ops
<1>4. QED
  BY Zenon, <1>1, <1>3

\* A handler ends.
LEMMA ReturnStep ==
  ASSUME DomInv, NEW d \in Dom, NEW s \in StatusT, Return(d, s), go[d].op # "retry"
  PROVE  /\ GoOnly(d) /\ go'[d].pc = "select" /\ go'[d].op = "none"
         /\ StatusOnly(d) /\ d \in DOMAIN domStatus'
         /\ Alike(domStatus'[d], s) /\ domStatus'[d].err = s.err /\ domStatus'[d].state = s.state
         /\ domStatus'[d].pending = FALSE
<1>1. GoOnly(d) /\ go'[d].pc = "select" /\ go'[d].op = "none"
  BY Zenon, RestStep DEF Return
<1>2. publishDomainStatus(d, [s EXCEPT !.pending = FALSE])
  BY Zenon DEF Return
<1>3. PICK t \in StatusT : /\ t = [s EXCEPT !.pending = FALSE] /\ Alike(t, s) /\ t.err = s.err /\ t.state = s.state
                           /\ t.pending = FALSE
  <2>1. /\ [s EXCEPT !.pending = FALSE] \in StatusT /\ Alike([s EXCEPT !.pending = FALSE], s)
        /\ [s EXCEPT !.pending = FALSE].err = s.err /\ [s EXCEPT !.pending = FALSE].state = s.state
        /\ [s EXCEPT !.pending = FALSE].pending = FALSE
    BY Zenon, FieldFacts
  <2>2. QED
    BY Zenon, <2>1
<1>4. StatusOnly(d)
  BY Zenon, <1>2, <1>3, PublishOnly
<1>5. d \in DOMAIN domStatus' /\ domStatus'[d] = t
  BY ZenonT(30), <1>2, <1>3, PublishFacts
<1>6. QED
  BY Zenon, <1>1, <1>3, <1>4, <1>5

\* A goroutine that is at rest again.
LEMMA AtSelect ==
  ASSUME NEW d \in Dom, go'[d].pc = "select", go'[d].op = "none", agentFatal' # d, NEW s, Alike(domStatus'[d], s),
         ~s.disks => ~s.io /\ ~s.adaptersFailed /\ ~s.bootFailed, s.adaptersFailed => ~s.io,
         domStatus'[d].pending = FALSE, domStatus'[d].state = "HALTING" => domStatus'[d].err
  PROVE  PlaceOK(d)' /\ PublishedOK(d)' /\ StatusOK(d)' /\ Alike(Cur(d)', s)
<1>1. Cur(d)' = domStatus'[d]
  BY Zenon DEF Cur
<1>2. PlaceOK(d)'
  BY DEF PlaceOK
<1>3. PublishedOK(d)'
  BY Zenon DEF PublishedOK
<1>4. StatusOK(d)'
  BY Zenon, <1>1 DEF StatusOK, Alike
<1>5. QED
  BY Zenon, <1>1, <1>2, <1>3, <1>4

\* The end of handleCreate.
LEMMA DoneKept ==
  ASSUME DomInv, NEW d \in Dom, handleCreateDone(d)
  PROVE  DomInv'
<1>1. /\ go[d].pc = "created" /\ agentFatal = Nobody /\ go[d].op = "create" /\ go[d].op # "retry" /\ go[d].st \in StatusT /\ d \in DOMAIN domStatus
      /\ UNCHANGED <<domConfig, sending, usedBy, pciback, usbAccess, xen, disk, image, gcPass, agentFatal, stray>>
  <2>1. /\ go[d].pc = "created" /\ agentFatal = Nobody
        /\ UNCHANGED <<domConfig, sending, usedBy, pciback, usbAccess, xen, disk, image, gcPass, agentFatal, stray>>
    BY Zenon DEF handleCreateDone, At, cfgVars, ioVars, diskVars, endVars
  <2>2. QED
    BY <2>1, Here DEF PlaceOK
<1>2. XenOnly(d) /\ DiskOnly(d) /\ ImageOnly(d) /\ IoOnly(d) /\ StrayOnly /\ CtlOnly(d)
  BY Zenon, <1>1, Unchanged
<1>3. CASE Goto(d, "assign") /\ UNCHANGED domStatus
  <2>1. /\ GoOnly(d) /\ go'[d].pc = "assign" /\ go'[d].op = go[d].op /\ go'[d].st = go[d].st
    BY Zenon, <1>3, GotoStep DEF Pcs
  <2>2. DomainOK(d)'
    <3>1. PlaceOK(d)'
      BY ZenonT(30), <1>1, <1>3, <2>1, Here DEF PlaceOK
    <3>2. PublishedOK(d)'
      BY ZenonT(30), <1>1, <1>3, <2>1, Here DEF PublishedOK
    <3>3. StatusOK(d)'
      BY Zenon, <1>1, <1>3, <2>1, Here DEF StatusOK, PlaceOK, Cur
    <3>4. ReservedOK(d)'
      BY ZenonT(30), <1>1, <1>3, <2>1, Here DEF ReservedOK, Cur
    <3>5. XenOK(d)'
      BY Zenon, <1>1, <1>3, <2>1, Here DEF XenOK, PlaceOK, Cur
    <3>6. DiskOK(d)'
      BY ZenonT(30), <1>1, <1>3, <2>1, Here DEF DiskOK, PlaceOK, Cur
    <3>7. GcOK(d)'
      BY <1>1, <1>3, <2>1, Here DEF GcOK, InStatus, PlaceOK, PublishedOK, Cur
    <3>8. QED
      BY ZenonT(30), <3>1, <3>2, <3>3, <3>4, <3>5, <3>6, <3>7 DEF DomainOK
  <2>3. QED
    BY ZenonT(30), <1>1, <1>2, <1>3, <2>1, <2>2, StepNoSet, Unchanged
<1>4. CASE Return(d, go[d].st)
  <2>1. /\ GoOnly(d) /\ go'[d].pc = "select" /\ go'[d].op = "none" /\ StatusOnly(d) /\ d \in DOMAIN domStatus'
        /\ Alike(domStatus'[d], go[d].st) /\ domStatus'[d].state = go[d].st.state
        /\ domStatus'[d].err = go[d].st.err /\ domStatus'[d].pending = FALSE
    BY ZenonT(30), <1>1, <1>4, ReturnStep
  <2>2. DomainOK(d)'
    <3>1. PlaceOK(d)'
      BY ZenonT(30), <1>1, <2>1, Here DEF PlaceOK
    <3>2. PublishedOK(d)'
      BY ZenonT(30), <2>1 DEF PublishedOK
    <3>3. StatusOK(d)'
      BY SMTT(30), <1>1, <2>1, Here DEF StatusOK, Cur, Alike
    <3>4. ReservedOK(d)'
      BY SMTT(30), <1>1, <2>1, Here DEF ReservedOK, PlaceOK, Cur, Alike
    <3>5. XenOK(d)'
      BY SMTT(30), <1>1, Here DEF XenOK
    <3>6. DiskOK(d)'
      BY ZenonT(30), <1>1, <2>1, Here DEF DiskOK, Cur, Alike
    <3>7. GcOK(d)'
      BY Zenon, <1>1, <1>4, <2>1, Here DEF GcOK, InStatus, PlaceOK, PublishedOK, Cur, Alike
    <3>8. QED
      BY Zenon, <3>1, <3>2, <3>3, <3>4, <3>5, <3>6, <3>7 DEF DomainOK
  <2>3. QED
    BY Zenon, <1>1, <1>2, <2>1, <2>2, StepNoSet
<1>5. QED
  BY ZenonT(30), <1>3, <1>4 DEF handleCreateDone

\* cp begins.
LEMMA CpStartKept ==
  ASSUME DomInv, NEW d \in Dom, cpStart(d)
  PROVE  DomInv'
<1>1. /\ go[d].pc = "cp" /\ agentFatal = Nobody /\ Goto(d, "copying") /\ disk' = [disk EXCEPT ![d] = "partial"]
      /\ UNCHANGED <<domConfig, sending, domStatus, usedBy, pciback, usbAccess, xen, image, gcPass, agentFatal, stray>>
  BY Zenon DEF cpStart, At, cfgVars, ioVars, endVars
<1>2. "copying" \in Pcs /\ "partial" \in DiskT
  BY DEF Pcs, DiskT
<1>3. XenOnly(d) /\ ImageOnly(d) /\ IoOnly(d) /\ StrayOnly /\ StatusOnly(d) /\ CtlOnly(d)
  BY Zenon, <1>1, Unchanged
<1>4. DiskOnly(d) /\ disk'[d] = "partial"
  BY Zenon, <1>1, <1>2, SetOnly
<1>5. /\ GoOnly(d) /\ go'[d].pc = "copying" /\ go'[d].op = go[d].op /\ go'[d].st = go[d].st
  BY ZenonT(30), <1>1, <1>2, GotoStep
<1>6. DomainOK(d)'
  <2>1. PlaceOK(d)'
    BY Zenon, <1>1, <1>5, Here DEF PlaceOK
  <2>2. PublishedOK(d)'
    BY ZenonT(30), <1>1, <1>5, Here DEF PublishedOK
  <2>3. StatusOK(d)'
    BY Zenon, <1>1, <1>5, Here DEF StatusOK, Cur
  <2>4. ReservedOK(d)'
    BY ZenonT(30), <1>1, <1>5, Here DEF ReservedOK, Cur
  <2>5. XenOK(d)'
    BY SMTT(30), <1>1, Here DEF XenOK
  <2>6. DiskOK(d)'
    BY ZenonT(30), <1>1, <1>5, Here DEF DiskOK, PlaceOK, Cur
  <2>7. GcOK(d)'
    BY <1>1, <1>4, <1>5, Here DEF GcOK, InStatus, PlaceOK, PublishedOK, Cur
  <2>8. QED
    BY Zenon, <2>1, <2>2, <2>3, <2>4, <2>5, <2>6, <2>7 DEF DomainOK
<1>7. QED
  BY Zenon, <1>1, <1>3, <1>4, <1>5, <1>6, StepNoSet

\* cp ends, or fails, or the configuration for xl cannot be written.
LEMMA CpEndKept ==
  ASSUME DomInv, NEW d \in Dom, cpEnd(d)
  PROVE  DomInv'
<1>1. /\ go[d].pc = "copying" /\ agentFatal = Nobody /\ go[d].op # "retry" /\ go[d].op # "delete" /\ go[d].st \in StatusT /\ d \in DOMAIN domStatus
      /\ UNCHANGED <<domConfig, sending, usedBy, pciback, usbAccess, xen, gcPass, agentFatal>>
  <2>1. /\ go[d].pc = "copying" /\ agentFatal = Nobody
        /\ UNCHANGED <<domConfig, sending, usedBy, pciback, usbAccess, xen, gcPass, agentFatal>>
    BY Zenon DEF cpEnd, At, cfgVars, ioVars, endVars
  <2>2. QED
    BY <2>1, Here DEF PlaceOK
<1>2. XenOnly(d) /\ IoOnly(d) /\ CtlOnly(d)
  BY Zenon, <1>1, Unchanged
<1>3. PICK s \in StatusT : s = [go[d].st EXCEPT !.err = TRUE] /\ Alike(s, go[d].st) /\ s.err = TRUE
  BY Zenon, <1>1, FieldFacts
<1>4. ASSUME Return(d, s)
      PROVE  /\ GoOnly(d) /\ go'[d].pc = "select" /\ go'[d].op = "none" /\ StatusOnly(d) /\ d \in DOMAIN domStatus'
             /\ Alike(domStatus'[d], s) /\ domStatus'[d].err = s.err /\ domStatus'[d].pending = FALSE
  BY ZenonT(30), <1>1, <1>4, ReturnStep
<1>5. /\ ~s.disks => ~s.io /\ ~s.adaptersFailed /\ ~s.bootFailed
      /\ s.adaptersFailed => ~s.io
      /\ agentFatal' # d /\ s.disks /\ domStatus[d].disks = s.disks /\ Cur(d) = go[d].st
  BY <1>1, <1>3, Here DEF PlaceOK, StatusOK, PublishedOK, Cur, Alike
<1>6. CASE /\ Return(d, s)
           /\ stray' = stray \cup (Preserve \cap {d})
           /\ UNCHANGED <<disk, image>>
  <2>1. DiskOnly(d) /\ ImageOnly(d)
    BY Zenon, <1>6, Unchanged
  <2>2. StrayOnly /\ (d \in Preserve => d \in stray')
    BY <1>6, Unchanged DEF StrayOnly, DomInv, Types
  <2>3. DomainOK(d)'
    <3>1. PlaceOK(d)' /\ PublishedOK(d)' /\ StatusOK(d)' /\ Alike(Cur(d)', s)
      BY ZenonT(30), <1>1, <1>3, <1>4, <1>6, <1>5, AtSelect
    <3>2. ReservedOK(d)'
      BY SMTT(30), <1>1, <1>3, <1>4, <1>6, <2>2, Here DEF ReservedOK, Cur, Alike, StrayOnly
    <3>3. XenOK(d)'
      BY ZenonT(30), <1>1, <1>3, <1>4, <1>6, <2>2, Here DEF XenOK, StrayOnly
    <3>4. DiskOK(d)'
      BY ZenonT(30), <1>1, <1>3, <1>4, <1>6, <2>2, Here DEF DiskOK, Cur, Alike, StrayOnly
    <3>5. GcOK(d)'
      BY ZenonT(30), <1>1, <1>3, <1>4, <1>6, <1>5, <2>2, Here DEF GcOK, InStatus, Alike, StrayOnly
    <3>6. QED
      BY Zenon, <3>1, <3>2, <3>3, <3>4, <3>5 DEF DomainOK
  <2>4. QED
    BY Zenon, <1>1, <1>2, <1>4, <1>6, <2>1, <2>2, <2>3, StepNoSet
<1>7. CASE /\ disk' = [disk EXCEPT ![d] = "whole"]
           /\ image' = addImageStatus(d)
           /\ stray' = stray
           /\ Goto(d, IF d \in Preserve THEN "created" ELSE "create")
           /\ UNCHANGED domStatus
  <2>1. "created" \in Pcs /\ "create" \in Pcs /\ "whole" \in DiskT
    BY DEF Pcs, DiskT
  <2>2. DiskOnly(d) /\ disk'[d] = "whole" /\ ImageOnly(d) /\ StrayOnly /\ StatusOnly(d)
    BY Zenon, <1>7, <2>1, SetOnly, Unchanged
  <2>3. /\ GoOnly(d) /\ go'[d].pc = IF d \in Preserve THEN "created" ELSE "create"
        /\ go'[d].op = go[d].op /\ go'[d].st = go[d].st
    BY ZenonT(30), <1>7, <2>1, GotoStep
  <2>4. d \in Preserve => go[d].op = "create"
    BY <1>1, Here DEF PlaceOK
  <2>5. DomainOK(d)'
    <3>1. PlaceOK(d)'
      BY ZenonT(30), <1>1, <1>7, <2>3, Here DEF PlaceOK
    <3>2. PublishedOK(d)'
      BY ZenonT(30), <1>1, <1>7, <2>3, Here DEF PublishedOK
    <3>3. StatusOK(d)'
      BY ZenonT(30), <1>1, <2>3, Here DEF StatusOK, Cur
    <3>4. ReservedOK(d)'
      BY ZenonT(30), <1>1, <1>7, <2>3, Here DEF ReservedOK, Cur
    <3>5. XenOK(d)'
      BY Zenon, <1>1, <1>7, Here DEF XenOK
    <3>6. DiskOK(d)'
      BY ZenonT(30), <1>1, <1>7, <2>2, <2>3, Here DEF DiskOK, PlaceOK, Cur
    <3>7. GcOK(d)'
      BY Zenon, <1>1, <1>7, <2>2, <2>3, <2>4, Here DEF GcOK, InStatus, PlaceOK, PublishedOK, Cur
    <3>8. QED
      BY ZenonT(30), <3>1, <3>2, <3>3, <3>4, <3>5, <3>6, <3>7 DEF DomainOK
  <2>6. go'[d].pc # "set"
    BY <2>3
  <2>7. QED
    BY ZenonT(30), <1>1, <1>2, <1>7, <2>2, <2>3, <2>5, <2>6, StepNoSet
<1>8. CASE /\ disk' = [disk EXCEPT ![d] = "whole"]
           /\ image' = addImageStatus(d)
           /\ stray' = stray
           /\ d \notin Preserve /\ Return(d, s)
  <2>1. "whole" \in DiskT
    BY DEF DiskT
  <2>2. DiskOnly(d) /\ disk'[d] = "whole" /\ ImageOnly(d) /\ StrayOnly
    BY Zenon, <1>8, <2>1, SetOnly, Unchanged
  <2>3. DomainOK(d)'
    <3>1. PlaceOK(d)' /\ PublishedOK(d)' /\ StatusOK(d)' /\ Alike(Cur(d)', s)
      BY ZenonT(30), <1>3, <1>4, <1>8, <1>5, AtSelect
    <3>2. ReservedOK(d)'
      BY SMTT(30), <1>1, <1>3, <1>4, <1>8, <1>5, <3>1, Here DEF ReservedOK, Alike
    <3>3. XenOK(d)'
      BY ZenonT(30), <1>1, <1>8, Here DEF XenOK
    <3>4. DiskOK(d)'
      BY Zenon, <1>8, <2>2 DEF DiskOK
    <3>5. GcOK(d)'
      BY ZenonT(30), <1>1, <1>3, <1>4, <1>8, <1>5, Here DEF GcOK, InStatus, Alike
    <3>6. QED
      BY Zenon, <3>1, <3>2, <3>3, <3>4, <3>5 DEF DomainOK
  <2>4. QED
    BY Zenon, <1>1, <1>2, <1>4, <1>8, <2>2, <2>3, StepNoSet
<1>9. QED
  BY ZenonT(30), <1>3, <1>6, <1>7, <1>8 DEF cpEnd

\* handleCreate publishes the disks.
LEMMA DisksKept ==
  ASSUME DomInv, NEW d \in Dom, handleCreateDisks(d)
  PROVE  DomInv'
<1>1. /\ go[d].pc = "disks" /\ agentFatal = Nobody /\ publishDomainStatus(d, go[d].st)
      /\ stray' = IF gcPass.at = d THEN stray \cup {d} ELSE stray
      /\ image' = IF d \in Preserve /\ disk[d] # "none" THEN addImageStatus(d) ELSE image
      /\ Goto(d, IF d \in Preserve /\ disk[d] = "none" THEN "cp" ELSE "created")
      /\ UNCHANGED <<domConfig, sending, usedBy, pciback, usbAccess, xen, disk, gcPass, agentFatal>>
  BY ZenonT(30) DEF handleCreateDisks, At, cfgVars, ioVars, endVars
<1>2. go[d].op = "create" /\ go[d].st \in StatusT /\ d \in DOMAIN domStatus /\ go[d].st.disks /\ agentFatal' # d
  BY <1>1, Here DEF PlaceOK
<1>3. XenOnly(d) /\ DiskOnly(d) /\ IoOnly(d) /\ CtlOnly(d)
  BY Zenon, <1>1, Unchanged
<1>4. ImageOnly(d)
  BY Zenon, <1>1, Unchanged, SetOnly
<1>5. StrayOnly /\ (gcPass.at = d => d \in stray') /\ (d \in stray => d \in stray')
  BY <1>1 DEF StrayOnly, DomInv, Types
<1>6. StatusOnly(d) /\ d \in DOMAIN domStatus' /\ domStatus'[d] = go[d].st
  BY Zenon, <1>1, <1>2, PublishOnly, PublishFacts
<1>7. PICK w \in {"cp", "created"} : w = (IF d \in Preserve /\ disk[d] = "none" THEN "cp" ELSE "created") /\ w \in Pcs
  BY DEF Pcs
<1>8. GoOnly(d) /\ go'[d].pc = w /\ go'[d].op = go[d].op /\ go'[d].st = go[d].st
  BY Zenon, <1>1, <1>7, GotoStep
<1>9. w = "cp" => d \in Preserve
  BY <1>7
<1>10. DomainOK(d)'
  <2>1. PlaceOK(d)'
    BY Zenon, <1>2, <1>6, <1>8 DEF PlaceOK
  <2>2. PublishedOK(d)'
    BY <1>2, <1>6, <1>8, <1>9 DEF PublishedOK
  <2>3. StatusOK(d)'
    BY Zenon, <1>1, <1>2, <1>6, <1>8, Here DEF StatusOK, Cur
  <2>4. ReservedOK(d)'
    BY ZenonT(30), <1>1, <1>2, <1>6, <1>8, <1>9, Here DEF ReservedOK, Cur
  <2>5. XenOK(d)'
    BY <1>1, Here DEF XenOK
  <2>6. DiskOK(d)'
    BY Zenon, <1>1, <1>2, <1>6, <1>8, Here DEF DiskOK, Cur
  <2>7. GcOK(d)'
    BY Zenon, <1>1 DEF GcOK, PlaceOK, PublishedOK
  <2>8. QED
    BY Zenon, <2>1, <2>2, <2>3, <2>4, <2>5, <2>6, <2>7 DEF DomainOK
<1>11. go'[d].pc # "set"
  BY <1>7, <1>8
<1>12. QED
  BY Zenon, <1>1, <1>3, <1>4, <1>5, <1>6, <1>8, <1>10, <1>11, StepNoSet

\* doAssignIoAdaptersToDomain
LEMMA AssignKept ==
  ASSUME DomInv, NEW d \in Dom, doAssignIoAdaptersToDomain(d)
  PROVE  DomInv'
<1>1. /\ go[d].pc = "assign" /\ agentFatal = Nobody
      /\ UNCHANGED <<domConfig, sending, domStatus, usedBy, usbAccess, xen, disk, image, gcPass, stray>>
  BY Zenon DEF doAssignIoAdaptersToDomain, At, cfgVars, diskVars
<1>2. go[d].op \in {"create", "modify"} /\ go[d].st \in StatusT /\ d \in DOMAIN domStatus /\ Cur(d) = go[d].st
  BY Zenon, <1>1, Here DEF PlaceOK, Cur
<1>3. StatusOnly(d) /\ XenOnly(d) /\ DiskOnly(d) /\ ImageOnly(d) /\ StrayOnly
  BY Zenon, <1>1, Unchanged
<1>4. CASE agentFatal' = d /\ UNCHANGED <<go, pciback>>
  <2>1. GoOnly(d) /\ IoOnly(d)
    BY Zenon, <1>1, <1>4, Unchanged
  <2>2. CtlOnly(d)
    BY ZenonT(30), <1>1, <1>4 DEF CtlOnly, DomInv, Types, DomTypeOK
  <2>3. DomainOK(d)'
    <3>1. PlaceOK(d)'
      BY ZenonT(30), <1>1, <1>2, <1>4 DEF PlaceOK
    <3>2. PublishedOK(d)'
      BY <1>1, <1>4, Here DEF PublishedOK
    <3>3. StatusOK(d)'
      BY Zenon, <1>1, <1>4, Here DEF StatusOK, Cur
    <3>4. ReservedOK(d)'
      BY ZenonT(30), <1>1, <1>4, Here DEF ReservedOK, Cur
    <3>5. XenOK(d)'
      BY <1>1, Here DEF XenOK
    <3>6. DiskOK(d)'
      BY ZenonT(30), <1>1, <1>4, Here DEF DiskOK, Cur
    <3>7. GcOK(d)'
      BY Zenon, <1>1, <1>2, <1>4, Here DEF GcOK, InStatus, PublishedOK, Cur
    <3>8. QED
      BY Zenon, <3>1, <3>2, <3>3, <3>4, <3>5, <3>6, <3>7 DEF DomainOK
  <2>4. QED
    BY Zenon, <1>1, <1>3, <1>4, <2>1, <2>2, <2>3, StepNoSet
<1>5. ASSUME \A a \in Mine(d) : usedBy[a] = d, NEW s \in StatusT, Alike(s, go[d].st), s.state = go[d].st.state,
             go[d].st.err => s.err, UNCHANGED agentFatal, pciback \subseteq pciback', pciback' \subseteq Adapter,
             NEW w \in {"cp", "create"}, w = "create" <=> d \in Preserve,
             GoOnly(d), go'[d].pc = w, go'[d].op = go[d].op, go'[d].st = s
      PROVE  DomInv'
  <2>1. /\ go[d].st.io /\ go[d].st.disks /\ agentFatal' # d /\ ~go[d].st.adaptersFailed
        /\ go[d].st.state = "HALTING" => go[d].st.err
    <3>1. PICK a \in Mine(d) : a \in Adapter
      BY MineFacts
    <3>2. Cur(d).io
      BY Zenon, <1>1, <1>5, <3>1, Here DEF ReservedOK
    <3>3. Cur(d).disks
      BY Zenon, <1>2, <3>2, Here DEF StatusOK
    <3>4. ~Cur(d).adaptersFailed /\ (Cur(d).state = "HALTING" => Cur(d).err)
      BY Zenon, <1>1, <1>2, <3>2, Here DEF StatusOK
    <3>5. QED
      BY ZenonT(30), <1>1, <1>2, <1>5, <3>2, <3>3, <3>4, Here
  <2>2. DomainOK(d)'
    <3>1. PlaceOK(d)'
      BY Zenon, <1>1, <1>2, <1>5, <2>1 DEF PlaceOK, Alike
    <3>2. PublishedOK(d)'
      BY Zenon, <1>1, <1>2, <1>5, Here DEF PublishedOK, Alike
    <3>3. StatusOK(d)'
      BY Zenon, <1>5, <2>1 DEF StatusOK, Cur, Alike
    <3>4. ReservedOK(d)'
      BY Zenon, <1>1, <1>2, <1>5, <2>1 DEF ReservedOK, Cur, Alike
    <3>5. XenOK(d)'
      BY ZenonT(30), <1>1, Here DEF XenOK, Cur
    <3>6. DiskOK(d)'
      BY Zenon, <1>1, <1>5, Here DEF DiskOK, Cur, Alike
    <3>7. GcOK(d)'
      BY Zenon, <1>1, <1>2, Here DEF GcOK, InStatus, PublishedOK
    <3>8. QED
      BY ZenonT(30), <3>1, <3>2, <3>3, <3>4, <3>5, <3>6, <3>7 DEF DomainOK
  <2>3. IoOnly(d)
    BY Zenon, <1>1, <1>5, Here DEF IoOnly
  <2>4. CtlOnly(d)
    BY Zenon, <1>1, <1>5, Unchanged
  <2>5. go'[d].pc # "set"
    BY Zenon, <1>5
  <2>6. QED
    BY ZenonT(30), <1>1, <1>3, <1>5, <2>2, <2>3, <2>4, <2>5, StepNoSet
<1>6. PICK w \in {"cp", "create"} : /\ w = (IF d \in Preserve THEN "create" ELSE "cp") /\ w \in Pcs
                                    /\ (w = "create" <=> d \in Preserve)
  BY DEF Pcs
<1>7. PICK u \in SUBSET Adapter : u = IF usbAccess THEN (Mine(d) \cap Usb) \ pciback ELSE {}
  BY Zenon, MineFacts
<1>8. pciback \subseteq Adapter
  BY Zenon DEF DomInv, Types, DomTypeOK
<1>9. CASE (\A a \in Mine(d) : usedBy[a] = d) /\ pciback' = pciback \cup u /\ Goto(d, w) /\ UNCHANGED agentFatal
  <2>1. GoOnly(d) /\ go'[d].pc = w /\ go'[d].op = go[d].op /\ go'[d].st = go[d].st
    BY Zenon, <1>6, <1>9, GotoStep
  <2>2. Alike(go[d].st, go[d].st) /\ pciback \subseteq pciback' /\ pciback' \subseteq Adapter
    BY Zenon, <1>7, <1>8, <1>9 DEF Alike
  <2>3. QED
    BY ZenonT(30), <1>2, <1>5, <1>6, <1>9, <2>1, <2>2
<1>10. CASE /\ \A a \in Mine(d) : usedBy[a] = d
            /\ With(d, w, [go[d].st EXCEPT !.err = TRUE]) /\ UNCHANGED <<agentFatal, pciback>>
  <2>1. PICK s \in StatusT : /\ s = [go[d].st EXCEPT !.err = TRUE] /\ Alike(s, go[d].st) /\ s.state = go[d].st.state
                             /\ s.err = TRUE
    BY ZenonT(30), <1>2, FieldFacts
  <2>2. GoOnly(d) /\ go'[d].pc = w /\ go'[d].op = go[d].op /\ go'[d].st = s
    <3>1. With(d, w, s) /\ w \in Pcs
      BY Zenon, <1>6, <1>10, <2>1
    <3>2. QED
      BY <3>1, WithStep
  <2>3. QED
    BY ZenonT(30), <1>5, <1>6, <1>8, <1>10, <2>1, <2>2
<1>11. QED
  BY Zenon, <1>4, <1>6, <1>7, <1>9, <1>10 DEF doAssignIoAdaptersToDomain

\* handleDelete begins.
LEMMA DeleteKept ==
  ASSUME DomInv, NEW d \in Dom, handleDelete(d)
  PROVE  DomInv'
<1>1. /\ go[d].pc = "select" /\ agentFatal = Nobody /\ d \in DOMAIN domStatus
      /\ UNCHANGED <<domConfig, sending, usedBy, pciback, usbAccess, xen, disk, image, gcPass, agentFatal, stray>>
  BY Zenon DEF handleDelete, At, cfgVars, ioVars, diskVars, endVars
<1>2. domStatus[d] \in StatusT /\ Cur(d) = domStatus[d] /\ agentFatal' # d
  BY Zenon, <1>1, Here DEF Cur
<1>3. PICK s \in StatusT : /\ s = [domStatus[d] EXCEPT !.pending = TRUE] /\ Alike(s, domStatus[d])
                           /\ s.state = domStatus[d].state /\ s.err = domStatus[d].err
  <2>1. /\ [domStatus[d] EXCEPT !.pending = TRUE] \in StatusT /\ Alike([domStatus[d] EXCEPT !.pending = TRUE], domStatus[d])
        /\ [domStatus[d] EXCEPT !.pending = TRUE].state = domStatus[d].state
        /\ [domStatus[d] EXCEPT !.pending = TRUE].err = domStatus[d].err
    BY Zenon, <1>2, FieldFacts
  <2>2. QED
    BY Zenon, <2>1
<1>4. PICK w \in {"halt", "unassign"} : /\ w = (IF s.activated THEN "halt" ELSE "unassign")
                                        /\ (w = "halt" <=> s.activated)
  BY <1>3 DEF StatusT
<1>5. /\ publishDomainStatus(d, s)
      /\ go' = [go EXCEPT ![d] = [AtRest EXCEPT !.pc = w, !.op = "delete", !.st = s]]
  BY Zenon, <1>3, <1>4 DEF handleDelete
<1>6. PICK g \in GoT : g = Begun(w, "delete", s) /\ g.pc = w /\ g.op = "delete" /\ g.st = s /\ g.k = 0
  <2>1. w \in Pcs /\ "delete" \in Ops
    BY <1>4 DEF Pcs, Ops
  <2>2. PICK b : b = Begun(w, "delete", s)
    BY Zenon
  <2>3. b \in GoT /\ b.pc = w /\ b.op = "delete" /\ b.st = s /\ b.k = 0
    BY <2>1, <2>2, BeginFacts
  <2>4. QED
    BY Zenon, <2>2, <2>3
<1>7. GoOnly(d) /\ go'[d].pc = w /\ go'[d].op = "delete" /\ go'[d].st = s
  <2>1. Moves(d, g)
    BY ZenonT(30), <1>5, <1>6, MoveFacts, Here DEF Begun
  <2>2. g.k \in 0..Len(IoAdapterList[d])
    BY <1>6, MineFacts
  <2>3. QED
    BY Zenon, <1>6, <2>1, <2>2, MoveOnly DEF Moves
<1>8. StatusOnly(d) /\ d \in DOMAIN domStatus' /\ domStatus'[d] = s
  BY ZenonT(30), <1>5, PublishOnly, PublishFacts
<1>9. XenOnly(d) /\ DiskOnly(d) /\ ImageOnly(d) /\ IoOnly(d) /\ StrayOnly /\ CtlOnly(d)
  BY Zenon, <1>1, Unchanged
<1>10. DomainOK(d)'
  <2>1. PlaceOK(d)'
    BY Zenon, <1>2, <1>7, <1>8 DEF PlaceOK
  <2>2. PublishedOK(d)'
    BY Zenon, <1>7, <1>8 DEF PublishedOK
  <2>3. StatusOK(d)'
    BY SMTT(30), <1>1, <1>3, <1>7, Here DEF StatusOK, Cur
  <2>4. ReservedOK(d)'
    BY SMTT(30), <1>1, <1>3, <1>7, <1>8, Here DEF ReservedOK, Cur
  <2>5. XenOK(d)'
    BY SMTT(30), <1>1, <1>3, <1>4, <1>7, <1>8, Here DEF XenOK, Cur, Alike
  <2>6. DiskOK(d)'
    BY SMTT(30), <1>1, <1>3, <1>7, <1>8, Here DEF DiskOK, Cur
  <2>7. GcOK(d)'
    BY ZenonT(30), <1>1, <1>2, <1>3, <1>4, <1>7, <1>8, Here DEF GcOK, InStatus, PlaceOK, Cur, Alike
  <2>8. QED
    BY ZenonT(30), <2>1, <2>2, <2>3, <2>4, <2>5, <2>6, <2>7 DEF DomainOK
<1>11. go'[d].pc # "set"
  BY <1>4, <1>7
<1>12. QED
  BY ZenonT(30), <1>1, <1>7, <1>8, <1>9, <1>10, <1>11, StepNoSet

\* doInactivate begins.
LEMMA InactivateKept ==
  ASSUME DomInv, NEW d \in Dom, doInactivate(d)
  PROVE  DomInv'
<1>1. /\ go[d].pc = "halt" /\ agentFatal = Nobody
      /\ UNCHANGED <<domConfig, sending, usedBy, pciback, usbAccess, xen, disk, image, gcPass, agentFatal, stray>>
  BY ZenonT(30) DEF doInactivate, At, cfgVars, ioVars, diskVars, endVars
<1>2. /\ go[d].op \in {"modify", "delete"} /\ go[d].st \in StatusT /\ d \in DOMAIN domStatus /\ agentFatal' # d
      /\ Cur(d) = go[d].st /\ domStatus[d].disks = go[d].st.disks
  BY Zenon, <1>1, Here DEF PlaceOK, PublishedOK, Cur
<1>3. XenOnly(d) /\ DiskOnly(d) /\ ImageOnly(d) /\ IoOnly(d) /\ StrayOnly /\ CtlOnly(d)
  BY Zenon, <1>1, Unchanged
<1>4. PICK b \in BOOLEAN : b = (go[d].st.id \/ Alive(d))
  BY Zenon, <1>2 DEF StatusT
<1>5. PICK s \in StatusT : s = [go[d].st EXCEPT !.id = b] /\ Alike(s, go[d].st)
  BY Zenon, <1>2, StateFacts
<1>6. PICK h \in StatusT : h = [s EXCEPT !.state = "HALTING"] /\ Alike(h, go[d].st)
  <2>1. [s EXCEPT !.state = "HALTING"] \in StatusT /\ Alike([s EXCEPT !.state = "HALTING"], s)
    BY Zenon, StateFacts
  <2>2. Alike([s EXCEPT !.state = "HALTING"], go[d].st)
    BY Zenon, <1>5, <2>1 DEF Alike
  <2>3. QED
    BY Zenon, <2>1, <2>2
<1>7. "shutdown" \in Pcs /\ "halted" \in Pcs
  BY DEF Pcs
<1>8. CASE publishDomainStatus(d, h) /\ With(d, "shutdown", h)
  <2>1. StatusOnly(d) /\ d \in DOMAIN domStatus' /\ domStatus'[d] = h
    BY Zenon, <1>8, PublishOnly, PublishFacts
  <2>2. GoOnly(d) /\ go'[d].pc = "shutdown" /\ go'[d].op = go[d].op /\ go'[d].st = h
    BY <1>7, <1>8, WithStep
  <2>3. DomainOK(d)'
    <3>1. PlaceOK(d)'
      BY <1>2, <2>1, <2>2 DEF PlaceOK
    <3>2. PublishedOK(d)'
      BY ZenonT(30), <1>2, <1>6, <2>1, <2>2 DEF PublishedOK, PlaceOK
    <3>3. StatusOK(d)'
      BY SMTT(30), <1>2, <1>6, <2>1, <2>2, Here DEF StatusOK, PlaceOK, Cur, Alike
    <3>4. ReservedOK(d)'
      BY SMTT(30), <1>1, <1>2, <1>6, <2>1, <2>2, Here DEF ReservedOK, Cur, Alike
    <3>5. XenOK(d)'
      BY SMTT(30), <1>1, <1>2, <1>6, <2>1, <2>2, Here DEF XenOK, Alike
    <3>6. DiskOK(d)'
      BY ZenonT(30), <1>1, <1>6, <2>1, <2>2, Here DEF DiskOK, Cur, Alike
    <3>7. GcOK(d)'
      BY ZenonT(30), <1>1, <1>2, <1>6, <2>1, <2>2, Here DEF GcOK, InStatus, PublishedOK, Cur, Alike
    <3>8. QED
      BY ZenonT(30), <3>1, <3>2, <3>3, <3>4, <3>5, <3>6, <3>7 DEF DomainOK
  <2>4. QED
    BY Zenon, <1>1, <1>3, <2>1, <2>2, <2>3, StepNoSet
<1>9. CASE With(d, "halted", s) /\ UNCHANGED domStatus
  <2>1. StatusOnly(d)
    BY ZenonT(30), <1>9, Unchanged
  <2>2. GoOnly(d) /\ go'[d].pc = "halted" /\ go'[d].op = go[d].op /\ go'[d].st = s
    BY SMTT(30), <1>7, <1>9, WithStep
  <2>3. DomainOK(d)'
    <3>1. PlaceOK(d)'
      BY Zenon, <1>2, <1>9, <2>2 DEF PlaceOK
    <3>2. PublishedOK(d)'
      BY SMTT(30), <1>2, <1>5, <1>9, <2>2 DEF PublishedOK
    <3>3. StatusOK(d)'
      BY SMTT(30), <1>2, <1>5, <2>2, Here DEF StatusOK, Cur
    <3>4. ReservedOK(d)'
      BY SMTT(30), <1>1, <1>5, <1>9, <2>2, Here DEF ReservedOK, PlaceOK, Cur
    <3>5. XenOK(d)'
      BY ZenonT(30), <1>1, <1>2, <1>5, <1>9, <2>2, Here DEF XenOK, PlaceOK, Cur, Alike
    <3>6. DiskOK(d)'
      BY SMTT(30), <1>1, <1>5, <1>9, <2>2, Here DEF DiskOK, Cur
    <3>7. GcOK(d)'
      BY ZenonT(30), <1>1, <1>2, <1>5, <1>9, <2>2, Here DEF GcOK, InStatus, PublishedOK, Cur, Alike
    <3>8. QED
      BY Zenon, <3>1, <3>2, <3>3, <3>4, <3>5, <3>6, <3>7 DEF DomainOK
  <2>4. QED
    BY ZenonT(30), <1>1, <1>3, <2>1, <2>2, <2>3, StepNoSet
<1>10. [go[d].st EXCEPT !.id = @ \/ Alive(d)] = s
  BY Zenon, <1>4, <1>5
<1>11. QED
  BY Zenon, <1>6, <1>8, <1>9, <1>10 DEF doInactivate

\* A domain is shut down or destroyed, or is not.
LEMMA GoneKept ==
  ASSUME DomInv, NEW d \in Dom, waitForDomainGone(d)
  PROVE  DomInv'
<1>1. /\ go[d].pc \in {"shutdown", "destroy"} /\ agentFatal = Nobody
      /\ UNCHANGED <<domConfig, sending, domStatus, usedBy, pciback, usbAccess, disk, image, gcPass, agentFatal, stray>>
  BY Zenon DEF waitForDomainGone, At, cfgVars, ioVars, diskVars, endVars
<1>2. /\ go[d].op \in {"modify", "delete"} /\ go[d].st \in StatusT /\ d \in DOMAIN domStatus /\ agentFatal' # d
      /\ Cur(d) = go[d].st /\ domStatus[d].disks = go[d].st.disks
  BY <1>1, Here DEF PlaceOK, PublishedOK, Cur
<1>3. DiskOnly(d) /\ ImageOnly(d) /\ IoOnly(d) /\ StrayOnly /\ CtlOnly(d) /\ StatusOnly(d)
  BY Zenon, <1>1, Unchanged
<1>4. ASSUME NEW w \in {"destroy", "halted"}, NEW s \in StatusT, Alike(s, go[d].st), XenOnly(d), xen'[d] \in {xen[d], "none"},
             GoOnly(d), go'[d].pc = w, go'[d].op = go[d].op, go'[d].st = s
      PROVE  DomInv'
  <2>1. DomainOK(d)'
    <3>1. PlaceOK(d)'
      BY <1>1, <1>2, <1>4 DEF PlaceOK
    <3>2. PublishedOK(d)'
      BY ZenonT(30), <1>1, <1>2, <1>4 DEF PublishedOK, Alike
    <3>3. StatusOK(d)'
      BY ZenonT(30), <1>1, <1>4, Here DEF StatusOK, Cur, Alike
    <3>4. ReservedOK(d)'
      <4>1. Cur(d)' = s /\ Cur(d) = go[d].st /\ s.io = go[d].st.io
        BY Zenon, <1>2, <1>4 DEF Cur, Alike
      <4>2. go'[d].pc \notin {"none", "test", "set", "create", "cp", "copying"} /\ go[d].pc \notin {"none", "test", "set"}
        BY Zenon, <1>1, <1>4
      <4>3. QED
        BY ZenonT(30), <1>1, <4>1, <4>2, Here DEF ReservedOK
    <3>5. XenOK(d)'
      BY Zenon, <1>1, <1>4, Here DEF XenOK, PlaceOK
    <3>6. DiskOK(d)'
      BY Zenon, <1>1, <1>4, Here DEF DiskOK, Cur, Alike
    <3>7. GcOK(d)'
      BY Zenon, <1>1, <1>4, Here DEF GcOK, InStatus, Cur
    <3>8. QED
      BY ZenonT(30), <3>1, <3>2, <3>3, <3>4, <3>5, <3>6, <3>7 DEF DomainOK
  <2>2. go'[d].pc # "set"
    BY Zenon, <1>4
  <2>3. QED
    BY ZenonT(30), <1>1, <1>3, <1>4, <2>1, <2>2, StepNoSet
<1>5. "destroy" \in Pcs /\ "halted" \in Pcs /\ "none" \in XenT
  BY DEF Pcs, XenT
<1>6. CASE /\ xen' = IF Alive(d) THEN [xen EXCEPT ![d] = "none"] ELSE xen
           /\ With(d, "halted", [go[d].st EXCEPT !.id = FALSE])
  <2>1. XenOnly(d) /\ xen'[d] \in {xen[d], "none"}
    BY Zenon, <1>5, <1>6, Unchanged, SetOnly
  <2>2. PICK s \in StatusT : s = [go[d].st EXCEPT !.id = FALSE] /\ Alike(s, go[d].st)
    BY Zenon, <1>2, StateFacts
  <2>3. GoOnly(d) /\ go'[d].pc = "halted" /\ go'[d].op = go[d].op /\ go'[d].st = s
    BY <1>5, <1>6, <2>2, WithStep
  <2>4. QED
    BY Zenon, <1>4, <2>1, <2>2, <2>3
<1>7. CASE /\ Goto(d, IF At(d, "shutdown") THEN "destroy" ELSE "halted")
           /\ xen' = xen
  <2>1. XenOnly(d) /\ xen'[d] \in {xen[d], "none"}
    BY Zenon, <1>7, Unchanged
  <2>2. PICK w \in {"destroy", "halted"} : w = (IF At(d, "shutdown") THEN "destroy" ELSE "halted") /\ w \in Pcs
    BY Zenon, <1>5
  <2>3. GoOnly(d) /\ go'[d].pc = w /\ go'[d].op = go[d].op /\ go'[d].st = go[d].st /\ Alike(go[d].st, go[d].st)
    BY Zenon, <1>7, <2>2, GotoStep DEF Alike
  <2>4. QED
    BY ZenonT(30), <1>2, <1>4, <2>1, <2>2, <2>3
<1>8. QED
  BY Zenon, <1>6, <1>7 DEF waitForDomainGone

\* A domain ends or reboots by itself, or is back.
LEMMA CrashKept ==
  ASSUME DomInv, NEW d \in Dom, crash(d) \/ comeBack(d)
  PROVE  DomInv'
<1>1. /\ xen[d] \in {"running", "rebooting"}
      /\ UNCHANGED <<domConfig, sending, go, domStatus, usedBy, pciback, usbAccess, disk, image, gcPass, agentFatal, stray>>
  BY Zenon DEF crash, comeBack, cfgVars, ioVars, diskVars, endVars
<1>2. PICK x \in XenT : xen' = [xen EXCEPT ![d] = x]
  BY DEF crash, comeBack, XenT
<1>3. XenOnly(d) /\ GoOnly(d) /\ DiskOnly(d) /\ ImageOnly(d) /\ IoOnly(d) /\ StrayOnly /\ CtlOnly(d) /\ StatusOnly(d)
  BY Zenon, <1>1, <1>2, Unchanged, SetOnly
<1>4. DomainOK(d)'
  <2>1. PlaceOK(d)'
    BY Zenon, <1>1, Here DEF PlaceOK
  <2>2. PublishedOK(d)'
    BY Zenon, <1>1, Here DEF PublishedOK
  <2>3. StatusOK(d)'
    BY ZenonT(30), <1>1, Here DEF StatusOK, Cur
  <2>4. ReservedOK(d)'
    BY Zenon, <1>1, Here DEF ReservedOK, Cur
  <2>5. XenOK(d)'
    BY ZenonT(30), <1>1, Here DEF XenOK, Cur
  <2>6. DiskOK(d)'
    BY Zenon, <1>1, Here DEF DiskOK, Cur
  <2>7. GcOK(d)'
    BY Zenon, <1>1, Here DEF GcOK
  <2>8. QED
    BY ZenonT(30), <2>1, <2>2, <2>3, <2>4, <2>5, <2>6, <2>7 DEF DomainOK
<1>5. QED
  BY Zenon, <1>1, <1>3, <1>4, StepNoSet


\* A new status is not halting, and has neither disks nor adapters.
LEMMA NewFacts ==
  ASSUME NEW s, s = NewDomain \/ s = [NewDomain EXCEPT !.err = TRUE] \/ s = [NewDomain EXCEPT !.disks = TRUE]
  PROVE  /\ s \in StatusT /\ ~s.io /\ ~s.adaptersFailed /\ ~s.bootFailed /\ ~s.activated /\ s.state = "INSTALLED"
         /\ s = [NewDomain EXCEPT !.disks = TRUE] => s.disks
         /\ s # [NewDomain EXCEPT !.disks = TRUE] => ~s.disks
<1>1. CASE s = NewDomain
  BY <1>1 DEF NewDomain, StatusT
<1>2. CASE s = [NewDomain EXCEPT !.err = TRUE]
  BY Zenon, <1>2 DEF NewDomain, StatusT
<1>3. CASE s = [NewDomain EXCEPT !.disks = TRUE]
  BY Zenon, <1>3 DEF NewDomain, StatusT
<1>4. QED
  BY Zenon, <1>1, <1>2, <1>3

\* A configuration comes to a goroutine, which has waited for it: gcObjects does not run.
LEMMA Arrival ==
  ASSUME DomInv, NEW d \in Dom, go[d].pc = "select", agentFatal = Nobody, sending = d
  PROVE  gcPass.at # d /\ go[d].op \notin {"retry", "delete"} /\ agentFatal # d
<1>1. gcPass = NoGc /\ d # Nobody
  BY Zenon, Here DEF DomInv, Types
<1>2. NoGc.at = Nobody
  BY DEF NoGc
<1>3. go[d].op \notin {"retry", "delete"}
  BY Zenon, Here DEF PlaceOK
<1>4. QED
  BY Zenon, <1>1, <1>2, <1>3

\* handleCreate begins.
LEMMA CreateKept ==
  ASSUME DomInv, NEW d \in Dom, handleCreate(d)
  PROVE  DomInv'
<1>1. /\ go[d].pc = "select" /\ agentFatal = Nobody /\ sending = d /\ sending' = Nobody /\ d \notin DOMAIN domStatus
      /\ UNCHANGED <<domConfig, usedBy, pciback, usbAccess, xen, disk, image, gcPass, agentFatal, stray>>
  BY Zenon DEF handleCreate, At, ioVars, diskVars, endVars
<1>2. gcPass.at # d /\ go[d].op # "retry" /\ agentFatal' # d
  BY Zenon, <1>1, Arrival
<1>3. XenOnly(d) /\ DiskOnly(d) /\ ImageOnly(d) /\ IoOnly(d) /\ StrayOnly /\ CtlOnly(d)
  BY Zenon, <1>1, Unchanged
<1>4. /\ \A a \in Adapter : usedBy[a] # d
      /\ d \notin stray => xen[d] = "none" /\ (d \in Preserve => disk[d] # "partial")
      /\ d \notin stray /\ d \in Preserve /\ disk[d] # "none" => d \in DOMAIN image /\ ~image[d]
  <2>1. \A a \in Adapter : usedBy[a] # d
    BY Zenon, <1>1, Here DEF ReservedOK
  <2>2. d \notin stray => xen[d] = "none"
    BY Zenon, <1>1, Here DEF XenOK
  <2>3. QED
    BY Zenon, <1>1, <2>1, <2>2, Here DEF DiskOK
<1>5. CASE /\ publishDomainStatus(d, NewDomain)
           /\ go' = [go EXCEPT ![d] = [AtRest EXCEPT !.pc = "test", !.op = "create", !.on = domConfig[d] = "on",
                                                     !.k = 1, !.st = [NewDomain EXCEPT !.disks = TRUE]]]
  <2>1. PICK s \in StatusT : /\ s = [NewDomain EXCEPT !.disks = TRUE] /\ s.disks /\ ~s.io /\ ~s.adaptersFailed
                             /\ ~s.bootFailed /\ s.state = "INSTALLED"
    BY Zenon, NewFacts
  <2>2. PICK g \in GoT : /\ g = BegunIo("test", "create", domConfig[d] = "on", s)
                         /\ g.pc = "test" /\ g.op = "create" /\ g.k = 1 /\ g.st = s
    <3>1. "test" \in Pcs /\ "create" \in Ops /\ (domConfig[d] = "on") \in BOOLEAN
      BY DEF Pcs, Ops
    <3>2. PICK on \in BOOLEAN : on = (domConfig[d] = "on")
      BY Zenon, <3>1
    <3>3. PICK b : b = BegunIo("test", "create", on, s)
      BY Zenon
    <3>4. b \in GoT /\ b.pc = "test" /\ b.op = "create" /\ b.st = s /\ b.k = 1
      BY <3>1, <3>3, BeginIoFacts
    <3>5. QED
      BY Zenon, <3>2, <3>3, <3>4
  <2>3. GoOnly(d) /\ go'[d].pc = "test" /\ go'[d].op = "create" /\ go'[d].k = 1 /\ go'[d].st = s
    <3>1. Moves(d, g)
      BY ZenonT(30), <1>5, <2>1, <2>2, MoveFacts, Here DEF BegunIo
    <3>2. g.k \in 0..Len(IoAdapterList[d])
      BY <2>2, MineFacts
    <3>3. QED
      BY Zenon, <2>2, <3>1, <3>2, MoveOnly DEF Moves
  <2>4. NewDomain \in StatusT
    BY Zenon, NewFacts
  <2>5. StatusOnly(d) /\ d \in DOMAIN domStatus'
    BY ZenonT(30), <1>5, <2>4, PublishOnly, PublishFacts
  <2>6. 1 \in DOMAIN IoAdapterList[d]
    BY MineFacts
  <2>7. DomainOK(d)'
    <3>1. PlaceOK(d)'
      BY ZenonT(30), <1>2, <2>1, <2>3, <2>5, <2>6 DEF PlaceOK
    <3>2. PublishedOK(d)'
      BY Zenon, <1>4, <2>3, <2>6 DEF PublishedOK
    <3>3. StatusOK(d)'
      BY Zenon, <2>1, <2>3 DEF StatusOK, Cur
    <3>4. ReservedOK(d)'
      BY SMTT(30), <1>1, <1>4, <2>1, <2>3, <2>6 DEF ReservedOK, Cur
    <3>5. XenOK(d)'
      BY Zenon, <1>1, <1>4 DEF XenOK
    <3>6. DiskOK(d)'
      BY Zenon, <1>1, <1>4, <2>3 DEF DiskOK, Cur
    <3>7. GcOK(d)'
      BY Zenon, <1>1, <1>2 DEF GcOK
    <3>8. QED
      BY ZenonT(30), <3>1, <3>2, <3>3, <3>4, <3>5, <3>6, <3>7 DEF DomainOK
  <2>8. go'[d].pc # "set"
    BY <2>3
  <2>9. QED
    BY ZenonT(30), <1>1, <1>3, <2>3, <2>5, <2>7, StepNoSet
<1>6. CASE Return(d, [NewDomain EXCEPT !.err = TRUE])
  <2>1. PICK s \in StatusT : /\ s = [NewDomain EXCEPT !.err = TRUE] /\ ~s.disks /\ ~s.io /\ ~s.adaptersFailed
                             /\ ~s.bootFailed /\ s.state = "INSTALLED"
    <3>1. [NewDomain EXCEPT !.err = TRUE] # [NewDomain EXCEPT !.disks = TRUE]
      BY DEF NewDomain
    <3>2. QED
      BY Zenon, <3>1, NewFacts
  <2>2. /\ GoOnly(d) /\ go'[d].pc = "select" /\ go'[d].op = "none" /\ StatusOnly(d) /\ d \in DOMAIN domStatus'
        /\ Alike(domStatus'[d], s) /\ domStatus'[d].state = s.state /\ domStatus'[d].pending = FALSE
    BY ZenonT(30), <1>2, <1>6, <2>1, ReturnStep
  <2>3. DomainOK(d)'
    <3>1. PlaceOK(d)'
      BY Zenon, <1>2, <2>2 DEF PlaceOK
    <3>2. PublishedOK(d)'
      BY Zenon, <2>2 DEF PublishedOK, Alike
    <3>3. StatusOK(d)'
      BY ZenonT(30), <1>1, <1>2, <1>4, <2>1, <2>2, Here DEF StatusOK, Cur, Alike
    <3>4. ReservedOK(d)'
      BY ZenonT(30), <1>1, <1>2, <1>4, <2>1, <2>2, Here DEF ReservedOK, Cur, Alike
    <3>5. XenOK(d)'
      BY ZenonT(30), <1>1, <1>2, <1>4, <2>1, <2>2, Here DEF XenOK, PlaceOK, Cur, Alike
    <3>6. DiskOK(d)'
      BY ZenonT(30), <1>1, <1>2, <1>4, <2>1, <2>2, Here DEF DiskOK, Cur, Alike
    <3>7. GcOK(d)'
      BY Zenon, <1>1, Here DEF GcOK
    <3>8. QED
      BY Zenon, <3>1, <3>2, <3>3, <3>4, <3>5, <3>6, <3>7 DEF DomainOK
  <2>4. go'[d].pc # "set"
    BY <2>2
  <2>5. QED
    BY Zenon, <1>1, <1>3, <2>2, <2>3, <2>4, StepNoSet
<1>7. QED
  BY Zenon, <1>5, <1>6 DEF handleCreate

\* handleModify begins, or ends at once.
LEMMA ModifyKept ==
  ASSUME DomInv, NEW d \in Dom, handleModify(d)
  PROVE  DomInv'
<1>1. /\ go[d].pc = "select" /\ agentFatal = Nobody /\ sending = d /\ sending' = Nobody /\ d \in DOMAIN domStatus
      /\ UNCHANGED <<domConfig, usedBy, pciback, usbAccess, xen, disk, image, gcPass, agentFatal, stray>>
  BY Zenon DEF handleModify, At, ioVars, diskVars, endVars
<1>2. /\ gcPass.at # d /\ go[d].op # "retry" /\ agentFatal' # d
      /\ domStatus[d] \in StatusT /\ Cur(d) = domStatus[d]
  BY Zenon, <1>1, Arrival, Here DEF Cur
<1>3. XenOnly(d) /\ DiskOnly(d) /\ ImageOnly(d) /\ IoOnly(d) /\ StrayOnly /\ CtlOnly(d)
  BY Zenon, <1>1, Unchanged
<1>4. PICK s \in StatusT : /\ s = [domStatus[d] EXCEPT !.pending = TRUE] /\ Alike(s, domStatus[d])
                           /\ s.state = domStatus[d].state /\ s.err = domStatus[d].err
  <2>1. /\ [domStatus[d] EXCEPT !.pending = TRUE] \in StatusT /\ Alike([domStatus[d] EXCEPT !.pending = TRUE], domStatus[d])
        /\ [domStatus[d] EXCEPT !.pending = TRUE].state = domStatus[d].state
        /\ [domStatus[d] EXCEPT !.pending = TRUE].err = domStatus[d].err
    BY Zenon, <1>2, FieldFacts
  <2>2. QED
    BY Zenon, <2>1
<1>5. PICK t \in StatusT : /\ t = [s EXCEPT !.err = FALSE] /\ Alike(t, s) /\ t.state = s.state /\ t.err = FALSE
  <2>1. /\ [s EXCEPT !.err = FALSE] \in StatusT /\ Alike([s EXCEPT !.err = FALSE], s)
        /\ [s EXCEPT !.err = FALSE].state = s.state /\ [s EXCEPT !.err = FALSE].err = FALSE
    BY Zenon, FieldFacts
  <2>2. QED
    BY Zenon, <2>1
<1>6. PICK on \in BOOLEAN : on = (domConfig[d] = "on")
  BY Zenon
<1>7. ASSUME NEW w \in {"test", "assign", "halt"}, w = "test" => s.adaptersFailed,
             w # "halt" => ~s.err /\ ~s.activated, publishDomainStatus(d, t),
             go' = [go EXCEPT ![d] = [AtRest EXCEPT !.pc = w, !.op = "modify", !.on = on, !.k = 1, !.st = t]]
      PROVE  DomInv'
  <2>1. PICK g \in GoT : /\ g = BegunIo(w, "modify", on, t)
                         /\ g.pc = w /\ g.op = "modify" /\ g.k = 1 /\ g.st = t
    <3>1. w \in Pcs /\ "modify" \in Ops
      BY <1>7 DEF Pcs, Ops
    <3>2. PICK b : b = BegunIo(w, "modify", on, t)
      BY Zenon
    <3>3. b \in GoT /\ b.pc = w /\ b.op = "modify" /\ b.st = t /\ b.k = 1
      BY <3>1, <3>2, BeginIoFacts
    <3>4. QED
      BY Zenon, <3>2, <3>3
  <2>2. GoOnly(d) /\ go'[d].pc = w /\ go'[d].op = "modify" /\ go'[d].k = 1 /\ go'[d].st = t
    <3>1. Moves(d, g)
      BY ZenonT(30), <1>7, <2>1, MoveFacts, Here DEF BegunIo
    <3>2. g.k \in 0..Len(IoAdapterList[d])
      BY <2>1, MineFacts
    <3>3. QED
      BY ZenonT(30), <2>1, <3>1, <3>2, MoveOnly DEF Moves
  <2>3. StatusOnly(d) /\ d \in DOMAIN domStatus' /\ domStatus'[d] = t
    BY ZenonT(30), <1>7, PublishOnly, PublishFacts
  <2>4. 1 \in DOMAIN IoAdapterList[d]
    BY MineFacts
  <2>5. Alike(t, domStatus[d])
    BY ZenonT(30), <1>4, <1>5 DEF Alike
  <2>6. /\ w = "test" => t.disks /\ ~t.io /\ t.adaptersFailed
        /\ w # "halt" => ~t.activated /\ t.state # "HALTING"
    BY SMTT(30), <1>1, <1>2, <1>4, <1>5, <1>7, <2>5, Here DEF StatusOK, Alike
  <2>7. DomainOK(d)'
    <3>1. PlaceOK(d)'
      BY ZenonT(30), <1>2, <1>7, <2>2, <2>3, <2>4, <2>6 DEF PlaceOK
    <3>2. PublishedOK(d)'
      BY SMTT(30), <1>7, <2>3, <2>6, Here DEF PublishedOK, PlaceOK, Alike
    <3>3. StatusOK(d)'
      BY SMTT(30), <1>1, <1>2, <1>5, <1>7, <2>2, <2>3, <2>4, <2>5, <2>6, Here DEF StatusOK, Cur, Alike
    <3>4. ReservedOK(d)'
      BY SMTT(30), <1>1, <1>7, <2>3, <2>5, <2>6, Here DEF ReservedOK, Cur, Alike
    <3>5. XenOK(d)'
      BY SMTT(30), <1>1, <1>2, <1>5, <1>7, <2>3, <2>5, Here DEF XenOK, Alike
    <3>6. DiskOK(d)'
      BY SMTT(30), <1>1, <1>7, <2>3, <2>5, Here DEF DiskOK, Cur, Alike
    <3>7. GcOK(d)'
      BY <1>1, <1>2 DEF GcOK, Alike
    <3>8. QED
      BY ZenonT(30), <3>1, <3>2, <3>3, <3>4, <3>5, <3>6, <3>7 DEF DomainOK
  <2>8. go'[d].pc # "set"
    BY <1>7, <2>2
  <2>9. QED
    BY ZenonT(30), <1>1, <1>3, <2>2, <2>3, <2>7, <2>8, StepNoSet
<1>8. CASE publishDomainStatus(d, [s EXCEPT !.pending = FALSE]) /\ go' = [go EXCEPT ![d] = AtRest]
  <2>1. PICK u \in StatusT : /\ u = [s EXCEPT !.pending = FALSE] /\ Alike(u, s) /\ u.state = s.state /\ u.err = s.err
                             /\ u.pending = FALSE
    <3>1. /\ [s EXCEPT !.pending = FALSE] \in StatusT /\ Alike([s EXCEPT !.pending = FALSE], s)
          /\ [s EXCEPT !.pending = FALSE].state = s.state /\ [s EXCEPT !.pending = FALSE].err = s.err
          /\ [s EXCEPT !.pending = FALSE].pending = FALSE
      BY Zenon, FieldFacts
    <3>2. QED
      BY Zenon, <3>1
  <2>2. GoOnly(d) /\ go'[d].pc = "select" /\ go'[d].op = "none"
    BY Zenon, <1>8, RestStep
  <2>3. StatusOnly(d) /\ d \in DOMAIN domStatus' /\ domStatus'[d] = u
    BY ZenonT(30), <1>8, <2>1, PublishOnly, PublishFacts
  <2>4. Alike(u, domStatus[d]) /\ u.state = domStatus[d].state /\ u.err = domStatus[d].err
    BY Zenon, <1>4, <2>1 DEF Alike
  <2>5. DomainOK(d)'
    <3>1. PlaceOK(d)'
      BY Zenon, <1>2, <2>2 DEF PlaceOK
    <3>2. PublishedOK(d)'
      BY ZenonT(30), <2>2 DEF PublishedOK
    <3>3. StatusOK(d)'
      BY SMTT(30), <1>1, <2>1, <2>2, <2>3, <2>4, Here DEF StatusOK, Cur, Alike
    <3>4. ReservedOK(d)'
      BY ZenonT(30), <1>1, <2>2, <2>3, <2>4, Here DEF ReservedOK, Cur, Alike
    <3>5. XenOK(d)'
      <4>1. d \notin stray /\ xen[d] # "none" =>
           /\ domStatus[d].disks /\ domStatus[d].activated /\ ~domStatus[d].bootFailed /\ disk[d] = "whole"
           /\ \A a \in Mine(d) : usedBy[a] = d /\ a \in pciback
        BY Zenon, <1>1, Here DEF XenOK, Cur
      <4>2. domStatus'[d] = u /\ u.disks = domStatus[d].disks /\ u.activated = domStatus[d].activated
            /\ u.bootFailed = domStatus[d].bootFailed /\ Cur(d)' = domStatus'[d]
        BY Zenon, <2>2, <2>3, <2>4 DEF Alike, Cur
      <4>3. QED
        BY ZenonT(30), <1>1, <2>2, <2>3, <4>1, <4>2 DEF XenOK
    <3>6. DiskOK(d)'
      BY ZenonT(30), <1>1, <2>2, <2>3, <2>4, Here DEF DiskOK, Cur, Alike
    <3>7. GcOK(d)'
      BY Zenon, <1>1, <1>2 DEF GcOK, PlaceOK
    <3>8. QED
      BY ZenonT(30), <3>1, <3>2, <3>3, <3>4, <3>5, <3>6, <3>7 DEF DomainOK
  <2>6. go'[d].pc # "set"
    BY <2>2
  <2>7. QED
    BY ZenonT(30), <1>1, <1>3, <2>2, <2>3, <2>5, <2>6, StepNoSet
<1>9. CASE (on /\ ~s.activated) \/ (~on /\ (s.err \/ s.activated))
  <2>1. PICK w \in {"test", "assign", "halt"} : /\ w = (IF on /\ ~s.err THEN doActivate(s) ELSE "halt")
                                                /\ w = "test" => s.adaptersFailed
                                                /\ w # "halt" => on /\ ~s.err
    BY DEF doActivate
  <2>2. /\ publishDomainStatus(d, t)
        /\ go' = [go EXCEPT ![d] = [AtRest EXCEPT !.pc = w, !.op = "modify", !.on = on, !.k = 1, !.st = t]]
    BY ZenonT(30), <1>4, <1>5, <1>6, <1>9, <2>1 DEF handleModify
  <2>3. QED
    BY ZenonT(30), <1>7, <1>9, <2>1, <2>2
<1>10. QED
  BY Zenon, <1>4, <1>6, <1>8, <1>9 DEF handleModify

\* The adapter that is tested or reserved is one of the domain's.
LEMMA WantedFacts ==
  ASSUME DomInv, NEW d \in Dom, go[d].pc \in {"test", "set"}
  PROVE  /\ go[d].k \in 1..Len(IoAdapterList[d]) /\ Wanted1(d) \in Adapter /\ Wanted1(d) \in Mine(d)
         /\ go[d].op \in {"create", "modify"} /\ go[d].st \in StatusT /\ d \in DOMAIN domStatus
         /\ go[d].st.disks /\ ~go[d].st.io /\ Cur(d) = go[d].st
<1>1. /\ go[d].k \in DOMAIN IoAdapterList[d] /\ go[d].op \in {"create", "modify"} /\ go[d].st \in StatusT
      /\ d \in DOMAIN domStatus /\ go[d].st.disks /\ ~go[d].st.io /\ Cur(d) = go[d].st
  BY Zenon, Here DEF PlaceOK, Cur
<1>2. /\ DOMAIN IoAdapterList[d] = 1..Len(IoAdapterList[d]) /\ Mine(d) \subseteq Adapter
      /\ \A j \in DOMAIN IoAdapterList[d] : IoAdapterList[d][j] \in Mine(d)
  BY Zenon, MineFacts
<1>3. QED
  BY ZenonT(30), <1>1, <1>2 DEF Wanted1

\* The adapters that are given up.
LEMMA ReleasedFacts ==
  ASSUME DomInv, NEW S, usedBy' = Released(S)
  PROVE  /\ usedBy' \in [Adapter -> Dom \cup {Nobody}]
         /\ \A a \in Adapter : usedBy'[a] = IF a \in S THEN Nobody ELSE usedBy[a]
<1>1. usedBy \in [Adapter -> Dom \cup {Nobody}]
  BY Zenon DEF DomInv, Types, DomTypeOK
<1>2. QED
  BY Zenon, <1>1 DEF Released

\* configAdapters finds the adapter in use, and the caller gives up.
LEMMA RefusedKept ==
  ASSUME DomInv, NEW d \in Dom, configAdaptersTest(d), usedBy[Wanted1(d)] # Nobody
  PROVE  DomInv'
<1>1. /\ go[d].pc = "test" /\ agentFatal = Nobody
      /\ UNCHANGED <<domConfig, sending, pciback, usbAccess, xen, disk, image, gcPass, agentFatal, stray>>
      /\ Return(d, [go[d].st EXCEPT !.err = TRUE, !.adaptersFailed = TRUE]) /\ usedBy' = cleanupAdapters(d)
  BY Zenon DEF configAdaptersTest, At, cfgVars, diskVars, endVars, Wanted1
<1>2. /\ go[d].op \in {"create", "modify"} /\ go[d].st \in StatusT /\ d \in DOMAIN domStatus /\ go[d].st.disks
      /\ ~go[d].st.io /\ go[d].op # "retry" /\ agentFatal' # d
  BY <1>1, WantedFacts, Here
<1>3. PICK s \in StatusT : /\ s = [go[d].st EXCEPT !.err = TRUE, !.adaptersFailed = TRUE]
                           /\ s.disks /\ ~s.io /\ s.err
  <2>1. PICK z \in StatusT : z = go[d].st
    BY Zenon, <1>2
  <2>2. PICK y : y = [z EXCEPT !.err = TRUE, !.adaptersFailed = TRUE]
    BY Zenon
  <2>3. y \in StatusT /\ y.err /\ y.disks = z.disks /\ y.io = z.io
    BY Zenon, <2>2 DEF StatusT
  <2>4. QED
    BY Zenon, <1>2, <2>1, <2>2, <2>3
<1>4. XenOnly(d) /\ DiskOnly(d) /\ ImageOnly(d) /\ StrayOnly /\ CtlOnly(d)
  BY Zenon, <1>1, Unchanged
<1>5. /\ GoOnly(d) /\ go'[d].pc = "select" /\ go'[d].op = "none" /\ StatusOnly(d) /\ d \in DOMAIN domStatus'
      /\ Alike(domStatus'[d], s) /\ domStatus'[d].err = s.err /\ domStatus'[d].pending = FALSE
  BY ZenonT(30), <1>1, <1>2, <1>3, ReturnStep
<1>6. /\ usedBy' \in [Adapter -> Dom \cup {Nobody}]
      /\ \A a \in Adapter : usedBy'[a] = IF usedBy[a] = d THEN Nobody ELSE usedBy[a]
  <2>1. PICK S : S = {a \in Adapter : usedBy[a] = d}
    BY Zenon
  <2>2. usedBy' = Released(S)
    BY Zenon, <1>1, <2>1 DEF cleanupAdapters
  <2>3. QED
    BY SMTT(30), <2>1, <2>2, ReleasedFacts
<1>7. IoOnly(d) /\ (\A a \in Adapter : usedBy'[a] \in {usedBy[a], Nobody}) /\ (\A a \in Adapter : usedBy'[a] # d)
  BY ZenonT(30), <1>1, <1>6, Here DEF IoOnly, DomInv, Types, DomTypeOK
<1>8. DomainOK(d)'
  <2>1. PlaceOK(d)' /\ PublishedOK(d)' /\ StatusOK(d)' /\ Alike(Cur(d)', s)
    BY ZenonT(30), <1>2, <1>3, <1>5, AtSelect
  <2>2. ReservedOK(d)'
    BY ZenonT(30), <1>3, <1>5, <1>7, <2>1 DEF ReservedOK, Alike
  <2>3. XenOK(d)'
    BY Zenon, <1>1, Here DEF XenOK
  <2>4. DiskOK(d)'
    BY ZenonT(30), <1>1, <1>3, <1>5, <2>1, Here DEF DiskOK, Alike
  <2>5. GcOK(d)'
    <3>1. d \notin stray /\ gcPass.at = d => go[d].op = "create"
      BY ZenonT(30), <1>1, <1>2, Here DEF GcOK, PublishedOK, InStatus
    <3>2. go[d].op = "create" => ~go[d].st.bootFailed
      BY <1>1, Here DEF PlaceOK
    <3>3. s.bootFailed = go[d].st.bootFailed
      BY ZenonT(30), <1>2, <1>3 DEF StatusT
    <3>4. QED
      BY ZenonT(30), <1>1, <1>5, <3>1, <3>2, <3>3, Here DEF GcOK, Alike
  <2>6. QED
    BY ZenonT(30), <2>1, <2>2, <2>3, <2>4, <2>5 DEF DomainOK
<1>9. go'[d].pc # "set"
  BY <1>5
<1>10. QED
  BY ZenonT(30), <1>4, <1>5, <1>7, <1>8, <1>9, StepNoSet

\* configAdapters finds the adapter free.  A goroutine that has found it free as well and has not
\* reserved it yet is in a race with this one.
LEMMA FoundKept ==
  ASSUME DomInv, NEW d \in Dom, configAdaptersTest(d), usedBy[Wanted1(d)] = Nobody
  PROVE  DomInv'
<1>1. /\ go[d].pc = "test" /\ agentFatal = Nobody /\ Goto(d, "set")
      /\ stray' = stray \cup (IF Testing(Wanted1(d)) = {} THEN {} ELSE Testing(Wanted1(d)) \cup {d})
      /\ UNCHANGED <<domConfig, sending, domStatus, usedBy, pciback, usbAccess, xen, disk, image, gcPass, agentFatal>>
  BY Zenon DEF configAdaptersTest, At, cfgVars, diskVars, endVars, Wanted1
<1>2. StatusOnly(d) /\ XenOnly(d) /\ DiskOnly(d) /\ ImageOnly(d) /\ IoOnly(d) /\ CtlOnly(d)
  BY Zenon, <1>1, Unchanged
<1>3. /\ GoOnly(d) /\ go'[d].pc = "set" /\ go'[d].op = go[d].op /\ go'[d].k = go[d].k /\ go'[d].st = go[d].st
  BY Zenon, <1>1, GotoStep DEF Pcs
<1>4. /\ StrayOnly /\ \A e \in Dom : go[e].pc = "set" /\ Wanted1(e) = Wanted1(d) => d \in stray' /\ e \in stray'
  <2>1. \A e \in Dom : go[e].pc = "set" /\ Wanted1(e) = Wanted1(d) => e \in Testing(Wanted1(d))
    BY Zenon DEF Testing, Wanted1
  <2>2. Testing(Wanted1(d)) \subseteq Dom
    BY Zenon DEF Testing
  <2>3. QED
    BY ZenonT(30), <1>1, <2>1, <2>2 DEF StrayOnly, DomInv, Types
<1>5. /\ Wanted1(d)' = Wanted1(d) /\ \A e \in Dom \ {d} : go'[e] = go[e] /\ Wanted1(e)' = Wanted1(e)
  BY Zenon, <1>3 DEF Wanted1, GoOnly
<1>6. RaceOK'
  <2> SUFFICES ASSUME NEW e \in Dom, go'[e].pc = "set"
               PROVE  /\ usedBy'[Wanted1(e)'] \in {Nobody} \cup stray'
                      /\ \A f \in Dom \ {e} : go'[f].pc = "set" /\ Wanted1(f)' = Wanted1(e)' => e \in stray'
    BY Zenon DEF RaceOK
  <2>1. CASE e = d
    <3>1. usedBy'[Wanted1(e)'] = Nobody
      BY Zenon, <1>1, <1>5, <2>1
    <3>2. \A f \in Dom \ {e} : go'[f].pc = "set" /\ Wanted1(f)' = Wanted1(e)' => e \in stray'
      BY Zenon, <1>4, <1>5, <2>1
    <3>3. QED
      BY Zenon, <3>1, <3>2
  <2>2. CASE e # d
    <3>1. go[e].pc = "set" /\ Wanted1(e)' = Wanted1(e)
      BY Zenon, <1>5, <2>2
    <3>2. /\ usedBy[Wanted1(e)] \in {Nobody} \cup stray
          /\ \A f \in Dom \ {e} : go[f].pc = "set" /\ Wanted1(f) = Wanted1(e) => e \in stray
      BY ZenonT(30), <3>1 DEF DomInv, RaceOK
    <3>3. usedBy'[Wanted1(e)'] \in {Nobody} \cup stray'
      BY ZenonT(30), <1>1, <1>4, <3>1, <3>2 DEF StrayOnly
    <3>4. ASSUME NEW f \in Dom \ {e}, go'[f].pc = "set", Wanted1(f)' = Wanted1(e)'
          PROVE  e \in stray'
      <4>1. CASE f = d
        BY ZenonT(30), <1>4, <1>5, <3>1, <3>4, <4>1
      <4>2. CASE f # d
        <5>1. e \in stray
          BY ZenonT(30), <1>5, <3>1, <3>2, <3>4, <4>2
        <5>2. QED
          BY Zenon, <1>4, <5>1 DEF StrayOnly
      <4>3. QED
        BY Zenon, <4>1, <4>2
    <3>5. QED
      BY Zenon, <3>3, <3>4
  <2>3. QED
    BY Zenon, <2>1, <2>2
<1>7. d \notin stray' => d \notin stray
  BY Zenon, <1>4 DEF StrayOnly
<1>8. DomainOK(d)'
  <2>1. PlaceOK(d)'
    BY ZenonT(30), <1>1, <1>3, Here DEF PlaceOK
  <2>2. PublishedOK(d)'
    BY ZenonT(30), <1>1, <1>3, Here DEF PublishedOK
  <2>3. StatusOK(d)'
    BY Zenon, <1>1, <1>3, Here DEF StatusOK, Cur
  <2>4. ReservedOK(d)'
    BY ZenonT(30), <1>1, <1>3, Here DEF ReservedOK, Cur
  <2>5. XenOK(d)'
    BY Zenon, <1>1, Here DEF XenOK
  <2>6. DiskOK(d)'
    BY Zenon, <1>1, <1>3, Here DEF DiskOK, Cur
  <2>7. GcOK(d)'
    BY Zenon, <1>1, <1>3, Here DEF GcOK, InStatus, PublishedOK, Cur
  <2>8. QED
    BY ZenonT(30), <2>1, <2>2, <2>3, <2>4, <2>5, <2>6, <2>7 DEF DomainOK
<1>9. QED
  BY ZenonT(30), <1>2, <1>3, <1>4, <1>6, <1>8, StepKept

\* configAdapters reserves an adapter.  It may take it from a domain in the race.
LEMMA SetKept ==
  ASSUME DomInv, NEW d \in Dom, configAdaptersSet(d)
  PROVE  DomInv'
<1>1. /\ go[d].pc = "set" /\ agentFatal = Nobody
      /\ usedBy' = [usedBy EXCEPT ![Wanted1(d)] = d]
      /\ UNCHANGED <<domConfig, sending, domStatus, pciback, usbAccess, xen, disk, image, gcPass, agentFatal, stray>>
  BY Zenon DEF configAdaptersSet, At, cfgVars, diskVars, endVars, Wanted1
<1>2. /\ go[d].k \in 1..Len(IoAdapterList[d]) /\ Wanted1(d) \in Adapter /\ Wanted1(d) \in Mine(d)
      /\ go[d].op \in {"create", "modify"} /\ go[d].st \in StatusT /\ d \in DOMAIN domStatus
      /\ go[d].st.disks /\ ~go[d].st.io /\ Cur(d) = go[d].st
  BY Zenon, <1>1, WantedFacts
<1>3. StatusOnly(d) /\ XenOnly(d) /\ DiskOnly(d) /\ ImageOnly(d) /\ StrayOnly /\ CtlOnly(d)
  BY Zenon, <1>1, Unchanged
<1>4. /\ usedBy' \in [Adapter -> Dom \cup {Nobody}] /\ usedBy'[Wanted1(d)] = d
      /\ \A a \in Adapter : a # Wanted1(d) => usedBy'[a] = usedBy[a]
  BY Zenon, <1>1, <1>2, Here
<1>5. usedBy[Wanted1(d)] \in {Nobody} \cup stray
  BY Zenon, <1>1 DEF DomInv, RaceOK
<1>6. IoOnly(d)
  BY ZenonT(30), <1>1, <1>4, <1>5 DEF IoOnly, DomInv, Types, DomTypeOK
<1>7. ASSUME GoOnly(d), go'[d].pc # "set", DomainOK(d)'
      PROVE  DomInv'
  <2>1. RaceOK'
    <3> SUFFICES ASSUME NEW e \in Dom, go'[e].pc = "set"
                 PROVE  /\ usedBy'[Wanted1(e)'] \in {Nobody} \cup stray'
                        /\ \A f \in Dom \ {e} : go'[f].pc = "set" /\ Wanted1(f)' = Wanted1(e)' => e \in stray'
      BY Zenon DEF RaceOK
    <3>1. e # d
      BY Zenon, <1>7
    <3>2. \A f \in Dom \ {d} : go'[f] = go[f] /\ Wanted1(f)' = Wanted1(f)
      BY Zenon, <1>7 DEF GoOnly, Wanted1
    <3>3. /\ go[e].pc = "set" /\ usedBy[Wanted1(e)] \in {Nobody} \cup stray /\ Wanted1(e) \in Adapter
          /\ \A f \in Dom \ {e} : go[f].pc = "set" /\ Wanted1(f) = Wanted1(e) => e \in stray
          /\ Wanted1(d) = Wanted1(e) => d \in stray
      BY ZenonT(30), <1>1, <3>1, <3>2, WantedFacts DEF DomInv, RaceOK
    <3>4. usedBy'[Wanted1(e)'] \in {Nobody} \cup stray'
      BY <1>1, <1>4, <3>1, <3>2, <3>3
    <3>5. \A f \in Dom \ {e} : go'[f].pc = "set" /\ Wanted1(f)' = Wanted1(e)' => e \in stray'
      BY Zenon, <1>1, <1>7, <3>1, <3>2, <3>3
    <3>6. QED
      BY Zenon, <3>4, <3>5
  <2>2. QED
    BY Zenon, <1>3, <1>6, <1>7, <2>1, StepKept
<1>8. d \notin stray => \A j \in 1..go[d].k : usedBy'[IoAdapterList[d][j]] = d
  <2> SUFFICES ASSUME d \notin stray, NEW j \in 1..go[d].k
               PROVE  usedBy'[IoAdapterList[d][j]] = d
    BY ZenonT(30)
  <2>1. j \in DOMAIN IoAdapterList[d] /\ (j = go[d].k \/ j \in 1..(go[d].k - 1))
    BY SMTT(30), <1>2, MineFacts
  <2>2. IoAdapterList[d][j] \in Adapter
    BY <2>1, MineFacts
  <2>3. CASE j = go[d].k
    BY Zenon, <1>4, <2>3 DEF Wanted1
  <2>4. CASE j \in 1..(go[d].k - 1)
    <3>1. usedBy[IoAdapterList[d][j]] = d
      BY ZenonT(30), <1>1, <2>4, Here DEF ReservedOK
    <3>2. QED
      BY Zenon, <1>4, <2>2, <3>1
  <2>5. QED
    BY Zenon, <2>1, <2>3, <2>4
<1>9. /\ agentFatal' # d /\ (d \notin stray => xen[d] = "none" /\ (d \in Preserve => disk[d] # "partial"))
      /\ d \notin stray /\ gcPass.at = d => ~InStatus(d)
  BY ZenonT(30), <1>1, <1>2, Here DEF XenOK, DiskOK, GcOK
<1>10. CASE go[d].k < Len(IoAdapterList[d]) /\ go' = [go EXCEPT ![d].pc = "test", ![d].k = go[d].k + 1]
  <2>1. PICK g \in GoT : g = go[d]
    BY Zenon, Here
  <2>2. PICK h \in GoT : /\ h = [g EXCEPT !.pc = "test", !.k = g.k + 1]
                         /\ h.pc = "test" /\ h.op = g.op /\ h.k = g.k + 1 /\ h.st = g.st
    <3>1. PICK h : h = [g EXCEPT !.pc = "test", !.k = g.k + 1]
      BY Zenon
    <3>2. g.k + 1 \in Nat /\ "test" \in Pcs
      BY DEF GoT, Pcs
    <3>3. h \in GoT
      BY Zenon, <3>1, <3>2 DEF GoT
    <3>4. h.pc = "test" /\ h.op = g.op /\ h.k = g.k + 1 /\ h.st = g.st
      BY <3>1 DEF GoT
    <3>5. QED
      BY Zenon, <3>1, <3>3, <3>4
  <2>3. GoOnly(d) /\ go'[d].pc = "test" /\ go'[d].op = go[d].op /\ go'[d].k = go[d].k + 1 /\ go'[d].st = go[d].st
    <3>1. Moves(d, h)
      BY ZenonT(30), <1>10, <2>1, <2>2, MoveFacts, Here
    <3>2. h.k \in 0..Len(IoAdapterList[d])
      BY SMTT(30), <1>2, <1>10, <2>1, <2>2, MineFacts
    <3>3. QED
      BY ZenonT(30), <2>1, <2>2, <3>1, <3>2, MoveOnly DEF Moves
  <2>4. go'[d].k \in DOMAIN IoAdapterList[d] /\ 1..(go'[d].k - 1) = 1..go[d].k
    <3>1. PICK k \in Nat : k = go[d].k /\ go'[d].k = k + 1
      BY <1>2, <2>3
    <3>2. Len(IoAdapterList[d]) \in Nat /\ DOMAIN IoAdapterList[d] = 1..Len(IoAdapterList[d]) /\ k < Len(IoAdapterList[d])
      BY ZenonT(30), <1>10, <3>1, MineFacts
    <3>3. (k + 1) - 1 = k /\ k + 1 \in 1..Len(IoAdapterList[d])
      BY <3>2
    <3>4. QED
      BY ZenonT(30), <3>1, <3>2, <3>3
  <2>5. go[d].op = "create" => ~go[d].st.bootFailed
    BY Zenon, <1>1, Here DEF PlaceOK
  <2>6. DomainOK(d)'
    <3>1. PlaceOK(d)'
      BY Zenon, <1>1, <2>3, <2>4, Here DEF PlaceOK
    <3>2. PublishedOK(d)'
      BY Zenon, <1>1, <1>2, <2>3, Here DEF PublishedOK
    <3>3. StatusOK(d)'
      BY Zenon, <1>1, <2>3, Here DEF StatusOK, Cur
    <3>4. ReservedOK(d)'
      BY Zenon, <1>1, <1>2, <1>8, <2>3, <2>4 DEF ReservedOK, Cur
    <3>5. XenOK(d)'
      BY Zenon, <1>1, <1>9, <2>4, <2>5 DEF XenOK
    <3>6. DiskOK(d)'
      BY Zenon, <1>1, <1>2, <1>9, <2>3 DEF DiskOK, Cur
    <3>7. GcOK(d)'
      BY Zenon, <1>1, Here DEF GcOK, InStatus, PlaceOK
    <3>8. QED
      BY ZenonT(30), <3>1, <3>2, <3>3, <3>4, <3>5, <3>6, <3>7 DEF DomainOK
  <2>7. go'[d].pc # "set"
    BY <2>3
  <2>8. QED
    BY Zenon, <1>7, <2>3, <2>6, <2>7
<1>11. CASE /\ ~(go[d].k < Len(IoAdapterList[d]))
            /\ With(d, IF go[d].op = "create" THEN "disks" ELSE "assign",
                    [go[d].st EXCEPT !.adaptersFailed = FALSE, !.io = TRUE])
  <2>1. PICK w \in {"disks", "assign"} : /\ w = (IF go[d].op = "create" THEN "disks" ELSE "assign") /\ w \in Pcs
                                         /\ (w = "disks" <=> go[d].op = "create")
    BY DEF Pcs
  <2>2. PICK s \in StatusT : /\ s = [go[d].st EXCEPT !.adaptersFailed = FALSE, !.io = TRUE]
                             /\ s.disks /\ s.io /\ ~s.adaptersFailed /\ s.state = go[d].st.state
                             /\ s.err = go[d].st.err /\ s.bootFailed = go[d].st.bootFailed
    <3>1. PICK z \in StatusT : z = go[d].st
      BY Zenon, <1>2
    <3>2. PICK y : y = [z EXCEPT !.adaptersFailed = FALSE, !.io = TRUE]
      BY Zenon
    <3>3. y \in StatusT /\ y.disks = z.disks /\ y.io /\ ~y.adaptersFailed /\ y.state = z.state /\ y.err = z.err /\ y.bootFailed = z.bootFailed
      BY Zenon, <3>2 DEF StatusT
    <3>4. QED
      BY Zenon, <1>2, <3>1, <3>2, <3>3
  <2>3. GoOnly(d) /\ go'[d].pc = w /\ go'[d].op = go[d].op /\ go'[d].st = s
    <3>1. With(d, w, s)
      BY Zenon, <1>11, <2>1, <2>2
    <3>2. w \in Pcs /\ s \in StatusT
      BY Zenon, <2>1, <2>2
    <3>3. QED
      BY ZenonT(30), <3>1, <3>2, WithStep
  <2>4. d \notin stray => \A a \in Mine(d) : usedBy'[a] = d
    <3>1. PICK k \in Nat, n \in Nat : k = go[d].k /\ n = Len(IoAdapterList[d]) /\ DOMAIN IoAdapterList[d] = 1..n
      BY SMTT(30), <1>2, MineFacts
    <3>2. k \in 1..n /\ ~(k < n)
      BY ZenonT(30), <1>2, <1>11, <3>1
    <3>3. k = n
      BY <3>1, <3>2
    <3>4. \A j \in DOMAIN IoAdapterList[d] : j \in 1..go[d].k
      BY Zenon, <3>1, <3>3
    <3>5. \A a \in Mine(d) : \E j \in DOMAIN IoAdapterList[d] : a = IoAdapterList[d][j]
      BY Zenon, MineFacts
    <3>6. SUFFICES ASSUME d \notin stray, NEW a \in Mine(d)
                   PROVE  usedBy'[a] = d
      BY Zenon
    <3>7. PICK j \in DOMAIN IoAdapterList[d] : a = IoAdapterList[d][j] /\ j \in 1..go[d].k
      BY Zenon, <3>4, <3>5
    <3>8. QED
      BY ZenonT(30), <1>8, <3>6, <3>7
  <2>5. go[d].op = "create" => ~go[d].st.bootFailed
    BY Zenon, <1>1, Here DEF PlaceOK
  <2>6. DomainOK(d)'
    <3>1. PlaceOK(d)'
      BY ZenonT(30), <1>1, <2>1, <2>2, <2>3, <2>5, Here DEF PlaceOK
    <3>2. PublishedOK(d)'
      BY ZenonT(30), <1>1, <1>2, <2>1, <2>2, <2>3, Here DEF PublishedOK
    <3>3. StatusOK(d)'
      BY SMTT(30), <1>1, <1>2, <1>9, <2>1, <2>2, <2>3, <2>4, <2>5, Here DEF StatusOK, PlaceOK, Cur
    <3>4. ReservedOK(d)'
      <4>1. Cur(d)'.io /\ go'[d].pc \notin {"test", "set", "create", "cp", "copying"}
        BY ZenonT(30), <2>1, <2>2, <2>3 DEF Cur
      <4>2. d \in DOMAIN domStatus /\ domStatus' = domStatus
        BY ZenonT(30), <1>1, <1>9, Here DEF PlaceOK
      <4>3. QED
        BY ZenonT(30), <1>1, <2>4, <4>1, <4>2 DEF ReservedOK
    <3>5. XenOK(d)'
      BY ZenonT(30), <1>1, <1>9 DEF XenOK, Cur
    <3>6. DiskOK(d)'
      BY ZenonT(30), <1>1, <1>2, <1>9, <2>2, <2>3 DEF DiskOK, Cur
    <3>7. GcOK(d)'
      BY Zenon, <1>1, Here DEF GcOK, InStatus, PlaceOK
    <3>8. QED
      BY ZenonT(30), <3>1, <3>2, <3>3, <3>4, <3>5, <3>6, <3>7 DEF DomainOK
  <2>7. go'[d].pc # "set"
    BY Zenon, <2>1, <2>3
  <2>8. QED
    BY ZenonT(30), <1>7, <2>3, <2>6, <2>7
<1>12. QED
  BY Zenon, <1>10, <1>11 DEF configAdaptersSet

\* xl create succeeds.
LEMMA XlCreateKept ==
  ASSUME DomInv, NEW d \in Dom, xlCreate(d)
  PROVE  DomInv'
<1>1. /\ go[d].pc = "create" /\ agentFatal = Nobody /\ disk[d] # "none" /\ Mine(d) \subseteq pciback
      /\ xen' = [xen EXCEPT ![d] = "paused"]
      /\ stray' = IF go[d].op = "retry" /\ (disk[d] # "whole" \/ \E a \in Mine(d) : usedBy[a] # d)
                  THEN stray \cup {d} ELSE stray
      /\ UNCHANGED <<domConfig, sending, usedBy, pciback, usbAccess, disk, image, gcPass, agentFatal>>
  BY Zenon DEF xlCreate, At, cfgVars, ioVars, diskVars, endVars
<1>2. /\ go[d].op \notin {"delete"} /\ go[d].st \in StatusT /\ d \in DOMAIN domStatus /\ go[d].st.disks /\ agentFatal' # d
      /\ Cur(d) = go[d].st /\ domStatus[d].disks = go[d].st.disks
      /\ go[d].op = "retry" => ~go[d].st.pending
  BY Zenon, <1>1, Here DEF PlaceOK, PublishedOK, Cur
<1>3. PICK s \in StatusT : /\ s = [go[d].st EXCEPT !.bootFailed = FALSE, !.id = TRUE, !.activated = TRUE, !.state = "BOOTING"]
                           /\ s.disks = go[d].st.disks /\ s.io = go[d].st.io /\ s.adaptersFailed = go[d].st.adaptersFailed
                           /\ ~s.bootFailed /\ s.activated /\ s.state = "BOOTING" /\ s.pending = go[d].st.pending
  <2>1. PICK z \in StatusT : z = go[d].st
    BY Zenon, <1>2
  <2>2. PICK y : y = [z EXCEPT !.bootFailed = FALSE, !.id = TRUE, !.activated = TRUE, !.state = "BOOTING"]
    BY Zenon
  <2>3. y \in StatusT /\ y.disks = z.disks /\ y.io = z.io /\ y.adaptersFailed = z.adaptersFailed
        /\ ~y.bootFailed /\ y.activated /\ y.state = "BOOTING" /\ y.pending = z.pending
    BY Zenon, <2>2 DEF StatusT
  <2>4. QED
    BY Zenon, <2>1, <2>2, <2>3
<1>4. publishDomainStatus(d, s) /\ With(d, "unpause", s)
  BY Zenon, <1>3 DEF xlCreate
<1>5. StatusOnly(d) /\ d \in DOMAIN domStatus' /\ domStatus'[d] = s
  BY Zenon, <1>4, PublishOnly, PublishFacts
<1>6. "unpause" \in Pcs /\ "paused" \in XenT
  BY SMTT(30) DEF Pcs, XenT
<1>7. GoOnly(d) /\ go'[d].pc = "unpause" /\ go'[d].op = go[d].op /\ go'[d].st = s
  BY ZenonT(30), <1>4, <1>6, WithStep
<1>8. XenOnly(d) /\ DiskOnly(d) /\ ImageOnly(d) /\ IoOnly(d) /\ CtlOnly(d)
  BY Zenon, <1>1, <1>6, Unchanged, SetOnly
<1>9. StrayOnly /\ (d \notin stray' => d \notin stray)
  BY <1>1 DEF StrayOnly, DomInv, Types
<1>10. d \notin stray' => disk[d] = "whole" /\ \A a \in Mine(d) : usedBy[a] = d
  <2>1. CASE go[d].op = "retry"
    BY Zenon, <1>1, <2>1
  <2>2. CASE go[d].op # "retry"
    <3>1. d \notin stray => \A a \in Mine(d) : usedBy[a] = d
      BY ZenonT(30), <1>1, <2>2, Here DEF ReservedOK
    <3>2. d \notin stray => disk[d] # "partial"
      BY ZenonT(30), <1>1, <2>2, Here DEF DiskOK
    <3>3. disk[d] \in DiskT
      BY Zenon DEF DomInv, Types, DomTypeOK, DiskT
    <3>4. QED
      BY ZenonT(30), <1>1, <1>9, <3>1, <3>2, <3>3 DEF DiskT
  <2>3. QED
    BY Zenon, <2>1, <2>2
<1>11. d \notin stray' => gcPass.at # d
  BY ZenonT(30), <1>1, <1>2, Here DEF GcOK, InStatus
<1>12. DomainOK(d)'
  <2>1. PlaceOK(d)'
    BY ZenonT(30), <1>2, <1>3, <1>5, <1>7 DEF PlaceOK
  <2>2. PublishedOK(d)'
    BY ZenonT(30), <1>2, <1>3, <1>5, <1>7 DEF PublishedOK
  <2>3. StatusOK(d)'
    BY ZenonT(30), <1>2, <1>3, <1>7, Here DEF StatusOK, Cur
  <2>4. ReservedOK(d)'
    BY ZenonT(30), <1>1, <1>3, <1>5, <1>7, Here DEF ReservedOK, Cur
  <2>5. XenOK(d)'
    BY ZenonT(30), <1>1, <1>2, <1>3, <1>5, <1>7, <1>10 DEF XenOK, Cur
  <2>6. DiskOK(d)'
    BY SMTT(30), <1>1, <1>2, <1>3, <1>5, <1>7, <1>10 DEF DiskOK, Cur
  <2>7. GcOK(d)'
    BY ZenonT(30), <1>1, <1>11 DEF GcOK
  <2>8. QED
    BY Zenon, <2>1, <2>2, <2>3, <2>4, <2>5, <2>6, <2>7 DEF DomainOK
<1>13. go'[d].pc # "set"
  BY <1>7
<1>14. QED
  BY ZenonT(30), <1>1, <1>5, <1>7, <1>8, <1>9, <1>12, <1>13, StepNoSet

\* xl create fails.
LEMMA XlFailsKept ==
  ASSUME DomInv, NEW d \in Dom, xlCreateFails(d)
  PROVE  DomInv'
<1>1. /\ go[d].pc = "create" /\ agentFatal = Nobody
      /\ UNCHANGED <<xen, stray>> \/ (xen' = [xen EXCEPT ![d] = "paused"] /\ stray' = stray \cup {d})
      /\ UNCHANGED <<domConfig, sending, usedBy, pciback, usbAccess, disk, image, gcPass, agentFatal>>
  BY ZenonT(30) DEF xlCreateFails, At, cfgVars, ioVars, diskVars, endVars
<1>2. /\ go[d].op # "delete" /\ go[d].st \in StatusT /\ d \in DOMAIN domStatus /\ go[d].st.disks /\ agentFatal' # d
      /\ Cur(d) = go[d].st /\ domStatus[d].disks = go[d].st.disks
      /\ go[d].op = "retry" => domStatus[d].io = go[d].st.io /\ ~go[d].st.pending
  BY Zenon, <1>1, Here DEF PlaceOK, PublishedOK, Cur
<1>3. PICK last \in BOOLEAN : last = (go[d].op = "retry" \/ go[d].tried + 1 >= MaxTries)
  BY Zenon
<1>4. PICK s \in StatusT : /\ s = [go[d].st EXCEPT !.bootFailed = last \/ @, !.err = last \/ @]
                           /\ s.disks = go[d].st.disks /\ s.io = go[d].st.io /\ s.adaptersFailed = go[d].st.adaptersFailed
                           /\ s.state = go[d].st.state /\ s.pending = go[d].st.pending
                           /\ (last => s.err) /\ (~last => s.err = go[d].st.err)
  <2>1. PICK z \in StatusT : z = go[d].st
    BY Zenon, <1>2
  <2>2. PICK y : y = [z EXCEPT !.bootFailed = last \/ @, !.err = last \/ @]
    BY Zenon
  <2>3. y \in StatusT /\ y.disks = z.disks /\ y.io = z.io /\ y.adaptersFailed = z.adaptersFailed
        /\ y.state = z.state /\ y.pending = z.pending /\ (last => y.err) /\ (~last => y.err = z.err)
    BY ZenonT(30), <2>2 DEF StatusT
  <2>4. QED
    BY ZenonT(30), <2>1, <2>2, <2>3
<1>5. "paused" \in XenT
  BY DEF XenT
<1>6. XenOnly(d) /\ DiskOnly(d) /\ ImageOnly(d) /\ IoOnly(d) /\ CtlOnly(d)
  BY ZenonT(30), <1>1, <1>5, Unchanged, SetOnly
<1>7. StrayOnly /\ (d \notin stray' => d \notin stray /\ xen' = xen)
  BY <1>1 DEF StrayOnly, DomInv, Types
<1>8. d \notin stray' => gcPass.at # d /\ xen'[d] = "none" /\ (disk[d] = "partial" => d \notin Preserve /\ go[d].op = "retry")
  <2>1. d \notin stray' => gcPass.at # d
    BY ZenonT(30), <1>1, <1>2, Here DEF GcOK, InStatus
  <2>2. d \notin stray' => xen'[d] = "none"
    BY Zenon, <1>1, <1>7, Here DEF XenOK
  <2>3. d \notin stray' => (disk[d] = "partial" => d \notin Preserve /\ go[d].op = "retry")
    BY ZenonT(30), <1>1, Here DEF DiskOK
  <2>4. QED
    BY Zenon, <2>1, <2>2, <2>3
<1>9. /\ s.adaptersFailed => ~s.io
      /\ s.state = "HALTING" => s.err \/ go[d].op = "retry"
  BY SMTT(30), <1>1, <1>2, <1>4, Here DEF StatusOK
<1>10. CASE ~last /\ publishDomainStatus(d, s) /\ go' = [go EXCEPT ![d].tried = @ + 1]
  <2>1. PICK g \in GoT : g = go[d]
    BY Zenon, Here
  <2>2. PICK h \in GoT : /\ h = [g EXCEPT !.tried = @ + 1]
                         /\ h.pc = g.pc /\ h.op = g.op /\ h.k = g.k /\ h.st = g.st
    <3>1. PICK h : h = [g EXCEPT !.tried = @ + 1]
      BY Zenon
    <3>2. h \in GoT /\ h.pc = g.pc /\ h.op = g.op /\ h.k = g.k /\ h.st = g.st
      BY <3>1 DEF GoT
    <3>3. QED
      BY Zenon, <3>1, <3>2
  <2>3. GoOnly(d) /\ go'[d].pc = "create" /\ go'[d].op = go[d].op /\ go'[d].st = go[d].st
    <3>1. go' = [go EXCEPT ![d] = h]
      BY Zenon, <1>10, <2>1, <2>2
    <3>2. Moves(d, h)
      BY Zenon, <2>2, <3>1, MoveFacts, Here
    <3>3. QED
      BY ZenonT(30), <1>1, <2>1, <2>2, <3>2, MoveOnly, Here DEF Moves
  <2>4. StatusOnly(d) /\ d \in DOMAIN domStatus' /\ domStatus'[d] = s
    BY ZenonT(30), <1>10, PublishOnly, PublishFacts
  <2>5. go[d].op # "retry"
    BY Zenon, <1>3, <1>10
  <2>6. DomainOK(d)'
    <3>1. PlaceOK(d)'
      BY ZenonT(30), <1>2, <1>7, <1>8, <2>3, <2>4 DEF PlaceOK
    <3>2. PublishedOK(d)'
      BY ZenonT(30), <1>2, <1>4, <2>3, <2>4 DEF PublishedOK, PlaceOK
    <3>3. StatusOK(d)'
      BY SMTT(30), <1>1, <1>2, <1>4, <1>7, <1>9, <2>3, Here DEF StatusOK, PlaceOK, Cur
    <3>4. ReservedOK(d)'
      BY ZenonT(30), <1>1, <1>2, <2>3, <2>4, Here DEF ReservedOK, Cur
    <3>5. XenOK(d)'
      BY ZenonT(30), <1>1, <2>5, Here DEF XenOK, Cur
    <3>6. DiskOK(d)'
      BY ZenonT(30), <1>1, <1>2, <1>8, <2>3, <2>4 DEF DiskOK, Cur
    <3>7. GcOK(d)'
      BY ZenonT(30), <1>1, <1>8, Here DEF GcOK, InStatus
    <3>8. QED
      BY ZenonT(30), <3>1, <3>2, <3>3, <3>4, <3>5, <3>6, <3>7 DEF DomainOK
  <2>7. go'[d].pc # "set"
    BY <2>3
  <2>8. QED
    BY ZenonT(30), <1>1, <1>6, <1>7, <2>3, <2>4, <2>6, <2>7, StepNoSet
<1>11. ASSUME last, GoOnly(d), go'[d].pc = "select", go'[d].op = "none", StatusOnly(d), d \in DOMAIN domStatus',
              Alike(domStatus'[d], s), domStatus'[d].err = s.err, domStatus'[d].pending = FALSE
       PROVE  DomInv'
  <2>1. DomainOK(d)'
    <3>1. PlaceOK(d)' /\ PublishedOK(d)' /\ StatusOK(d)' /\ Alike(Cur(d)', s)
      BY ZenonT(30), <1>2, <1>4, <1>9, <1>11, AtSelect
    <3>2. ReservedOK(d)'
      BY SMTT(30), <1>1, <1>2, <1>4, <1>7, <1>11, <3>1, Here DEF ReservedOK, Alike
    <3>3. XenOK(d)'
      BY Zenon, <1>8 DEF XenOK
    <3>4. DiskOK(d)'
      BY ZenonT(30), <1>1, <1>2, <1>4, <1>8, <1>11, <3>1 DEF DiskOK, Alike
    <3>5. GcOK(d)'
      BY ZenonT(30), <1>1, <1>8 DEF GcOK
    <3>6. QED
      BY ZenonT(30), <3>1, <3>2, <3>3, <3>4, <3>5 DEF DomainOK
  <2>2. go'[d].pc # "set"
    BY <1>11
  <2>3. QED
    BY ZenonT(30), <1>1, <1>6, <1>7, <1>11, <2>1, <2>2, StepNoSet
<1>12. CASE last /\ go[d].op = "retry" /\ publishDomainStatus(d, s) /\ go' = [go EXCEPT ![d] = AtRest]
  <2>1. GoOnly(d) /\ go'[d].pc = "select" /\ go'[d].op = "none"
    BY Zenon, <1>12, RestStep
  <2>2. StatusOnly(d) /\ d \in DOMAIN domStatus' /\ domStatus'[d] = s
    BY ZenonT(30), <1>12, PublishOnly, PublishFacts
  <2>3. s.pending = FALSE
    BY ZenonT(30), <1>2, <1>4, <1>12 DEF StatusT
  <2>4. QED
    BY ZenonT(30), <1>11, <1>12, <2>1, <2>2, <2>3 DEF Alike
<1>13. CASE last /\ go[d].op # "retry" /\ Return(d, s)
  <2>1. /\ GoOnly(d) /\ go'[d].pc = "select" /\ go'[d].op = "none" /\ StatusOnly(d) /\ d \in DOMAIN domStatus'
        /\ Alike(domStatus'[d], s) /\ domStatus'[d].err = s.err /\ domStatus'[d].pending = FALSE
    BY Zenon, <1>13, ReturnStep
  <2>2. QED
    BY Zenon, <1>11, <1>13, <2>1
<1>14. QED
  BY ZenonT(30), <1>3, <1>4, <1>10, <1>12, <1>13 DEF xlCreateFails

\* xl unpause, or its failure.
LEMMA UnpauseKept ==
  ASSUME DomInv, NEW d \in Dom, xlUnpause(d)
  PROVE  DomInv'
<1>1. /\ go[d].pc = "unpause" /\ agentFatal = Nobody
      /\ UNCHANGED <<domConfig, sending, usedBy, pciback, usbAccess, disk, image, gcPass, agentFatal, stray>>
  BY Zenon DEF xlUnpause, At, cfgVars, ioVars, diskVars, endVars
<1>2. /\ go[d].op # "delete" /\ go[d].st \in StatusT /\ d \in DOMAIN domStatus /\ go[d].st.disks /\ agentFatal' # d
      /\ Cur(d) = go[d].st /\ domStatus[d] = go[d].st
      /\ go[d].op = "retry" => ~go[d].st.pending
  BY Zenon, <1>1, Here DEF PlaceOK, PublishedOK, Cur
<1>3. "running" \in XenT
  BY DEF XenT
<1>4. DiskOnly(d) /\ ImageOnly(d) /\ IoOnly(d) /\ StrayOnly /\ CtlOnly(d)
  BY Zenon, <1>1, Unchanged
<1>5. /\ XenOnly(d) /\ (xen'[d] # "none" => xen[d] # "none")
  BY Zenon, <1>3, Unchanged, SetOnly DEF xlUnpause, Alive
<1>6. PICK s \in StatusT : /\ Return(d, s) /\ Alike(s, go[d].st) /\ (s.state = "HALTING" => s.err)
  <2>1. PICK s \in StatusT : /\ s = [go[d].st EXCEPT !.state = "RUNNING"] /\ Alike(s, go[d].st) /\ s.state = "RUNNING"
    BY Zenon, <1>2, StateFacts
  <2>2. PICK t \in StatusT : /\ t = [go[d].st EXCEPT !.err = TRUE] /\ Alike(t, go[d].st) /\ t.err = TRUE
    BY Zenon, <1>2, FieldFacts
  <2>3. Return(d, s) \/ Return(d, t)
    BY Zenon, <2>1, <2>2 DEF xlUnpause
  <2>4. s.state # "HALTING"
    BY <2>1
  <2>5. QED
    BY Zenon, <2>1, <2>2, <2>3, <2>4
<1>7. /\ GoOnly(d) /\ go'[d].pc = "select" /\ go'[d].op = "none" /\ StatusOnly(d) /\ d \in DOMAIN domStatus'
      /\ Alike(domStatus'[d], go[d].st) /\ (domStatus'[d].state = "HALTING" => domStatus'[d].err)
      /\ domStatus'[d].pending = FALSE
  <2>1. CASE go[d].op = "retry"
    <3>1. go' = [go EXCEPT ![d] = AtRest] /\ domStatus' = domStatus
      BY Zenon, <1>6, <2>1 DEF Return
    <3>2. GoOnly(d) /\ go'[d].pc = "select" /\ go'[d].op = "none"
      BY Zenon, <3>1, RestStep
    <3>3. StatusOnly(d) /\ d \in DOMAIN domStatus' /\ domStatus'[d] = go[d].st
      BY ZenonT(30), <1>2, <3>1, Unchanged
    <3>4. domStatus'[d].pending = FALSE
      BY <1>2, <2>1, <3>3
    <3>5. go[d].st.state = "HALTING" => go[d].st.err
      BY Zenon, <1>1, <1>2, Here DEF StatusOK
    <3>6. Alike(domStatus'[d], go[d].st)
      BY Zenon, <3>3 DEF Alike
    <3>7. QED
      BY SMTT(30), <3>2, <3>3, <3>4, <3>5, <3>6
  <2>2. CASE go[d].op # "retry"
    <3>1. /\ GoOnly(d) /\ go'[d].pc = "select" /\ go'[d].op = "none" /\ StatusOnly(d) /\ d \in DOMAIN domStatus'
          /\ Alike(domStatus'[d], s) /\ domStatus'[d].err = s.err /\ domStatus'[d].state = s.state
          /\ domStatus'[d].pending = FALSE
      BY Zenon, <1>6, <2>2, ReturnStep
    <3>2. QED
      BY Zenon, <1>6, <3>1 DEF Alike
  <2>3. QED
    BY Zenon, <2>1, <2>2
<1>8. DomainOK(d)'
  <2>1. PlaceOK(d)' /\ PublishedOK(d)' /\ StatusOK(d)' /\ Alike(Cur(d)', go[d].st)
    <3>1. go[d].st.adaptersFailed => ~go[d].st.io
      BY ZenonT(30), <1>2, Here DEF StatusOK
    <3>2. QED
      BY Zenon, <1>2, <1>7, <3>1, AtSelect
  <2>2. ReservedOK(d)'
    BY ZenonT(30), <1>1, <1>2, <1>7, <2>1, Here DEF ReservedOK, Alike
  <2>3. XenOK(d)'
    <3>1. d \notin stray /\ xen[d] # "none" =>
         /\ domStatus[d].disks /\ go[d].st.activated /\ ~go[d].st.bootFailed /\ disk[d] = "whole"
         /\ \A a \in Mine(d) : usedBy[a] = d /\ a \in pciback
      BY <1>1, <1>2, Here DEF XenOK
    <3>2. /\ domStatus'[d].disks = go[d].st.disks /\ domStatus'[d].activated = go[d].st.activated
          /\ domStatus'[d].bootFailed = go[d].st.bootFailed /\ Cur(d)' = domStatus'[d]
      BY Zenon, <1>7 DEF Alike, Cur
    <3>3. QED
      BY ZenonT(30), <1>1, <1>2, <1>5, <1>7, <3>1, <3>2 DEF XenOK
  <2>4. DiskOK(d)'
    BY ZenonT(30), <1>1, <1>2, <1>7, <2>1, Here DEF DiskOK, Alike
  <2>5. GcOK(d)'
    BY Zenon, <1>1, <1>2, Here DEF GcOK, InStatus
  <2>6. QED
    BY ZenonT(30), <2>1, <2>2, <2>3, <2>4, <2>5 DEF DomainOK
<1>9. go'[d].pc # "set"
  BY Zenon, <1>7
<1>10. QED
  BY ZenonT(30), <1>1, <1>4, <1>5, <1>7, <1>8, <1>9, StepNoSet

\* verifyStatus leaves the disks, the adapters and the failures alone.
LEMMA VerifiedFacts ==
  ASSUME NEW s \in StatusT, NEW alive \in BOOLEAN, NEW t, t = Verified(s, alive), s.state = "HALTING" => s.err
  PROVE  /\ t \in StatusT /\ t.io = s.io /\ t.disks = s.disks /\ t.adaptersFailed = s.adaptersFailed
         /\ t.bootFailed = s.bootFailed /\ t.pending = s.pending
         /\ alive => t.activated
         /\ t.state = "HALTING" => t.err
<1>1. s.activated \in BOOLEAN
  BY DEF StatusT
<1>2. CASE ~alive /\ s.activated
  <2>1. t = [s EXCEPT !.activated = FALSE, !.id = FALSE, !.state = "HALTED"]
    BY Zenon, <1>2 DEF Verified
  <2>2. QED
    BY ZenonT(30), <1>2, <2>1 DEF StatusT
<1>3. CASE ~alive /\ ~s.activated
  <2>1. t = [s EXCEPT !.id = FALSE]
    BY Zenon, <1>3 DEF Verified
  <2>2. QED
    BY Zenon, <1>3, <2>1 DEF StatusT
<1>4. CASE alive /\ s.activated
  <2>1. t = [s EXCEPT !.id = TRUE]
    BY Zenon, <1>4 DEF Verified
  <2>2. QED
    BY Zenon, <1>4, <2>1 DEF StatusT
<1>5. CASE alive /\ ~s.activated
  <2>1. t = [s EXCEPT !.err = FALSE, !.id = TRUE, !.activated = TRUE, !.state = "RUNNING"]
    BY Zenon, <1>5 DEF Verified
  <2>2. QED
    BY Zenon, <1>5, <2>1 DEF StatusT
<1>6. QED
  BY ZenonT(30), <1>1, <1>2, <1>3, <1>4, <1>5

\* The ticker: verifyStatus, and maybeRetryBoot.
LEMMA TickerKept ==
  ASSUME DomInv, NEW d \in Dom, ticker(d)
  PROVE  DomInv'
<1>1. /\ go[d].pc = "select" /\ agentFatal = Nobody /\ d \in DOMAIN domStatus
      /\ stray' = IF xen[d] = "rebooting" THEN stray \cup {d} ELSE stray
      /\ UNCHANGED <<domConfig, sending, usedBy, pciback, usbAccess, xen, disk, image, gcPass, agentFatal>>
  BY Zenon DEF ticker, At, cfgVars, ioVars, diskVars, endVars
<1>2. /\ domStatus[d] \in StatusT /\ Cur(d) = domStatus[d] /\ agentFatal' # d
      /\ domStatus[d].state = "HALTING" => domStatus[d].err
      /\ go[d].op \notin {"retry", "delete"} /\ domStatus[d].pending = FALSE
  <2>1. domStatus[d] \in StatusT /\ Cur(d) = domStatus[d] /\ agentFatal' # d
    BY Zenon, <1>1, Here DEF Cur
  <2>2. /\ domStatus[d].state = "HALTING" => domStatus[d].err
        /\ domStatus[d].pending = FALSE
    BY ZenonT(30), <1>1, <2>1, Here DEF StatusOK, StatusT
  <2>3. go[d].op \notin {"retry", "delete"}
    BY Zenon, <1>1, Here DEF PlaceOK
  <2>4. QED
    BY Zenon, <2>1, <2>2, <2>3
<1>3. PICK s : s = Verified(domStatus[d], Alive(d))
  BY Zenon
<1>4. Alive(d) \in BOOLEAN
  BY DEF Alive
<1>5. /\ s \in StatusT /\ s.io = domStatus[d].io /\ s.disks = domStatus[d].disks
      /\ s.adaptersFailed = domStatus[d].adaptersFailed
      /\ s.bootFailed = domStatus[d].bootFailed /\ s.pending = domStatus[d].pending
      /\ Alive(d) => s.activated
      /\ s.state = "HALTING" => s.err
  <2>1. PICK v \in StatusT : v = domStatus[d]
    BY Zenon, <1>2
  <2>2. PICK alive \in BOOLEAN : alive = Alive(d)
    BY Zenon, <1>4
  <2>3. s = Verified(v, alive) /\ (v.state = "HALTING" => v.err)
    BY ZenonT(30), <1>2, <1>3, <2>1, <2>2
  <2>4. /\ s \in StatusT /\ s.io = v.io /\ s.disks = v.disks /\ s.adaptersFailed = v.adaptersFailed
        /\ s.bootFailed = v.bootFailed /\ s.pending = v.pending
        /\ alive => s.activated
        /\ s.state = "HALTING" => s.err
    BY <2>3, VerifiedFacts
  <2>5. QED
    BY Zenon, <2>1, <2>2, <2>4
<1>6. publishDomainStatus(d, s)
  BY Zenon, <1>3 DEF ticker
<1>7. StatusOnly(d) /\ d \in DOMAIN domStatus' /\ domStatus'[d] = s
  BY ZenonT(30), <1>5, <1>6, PublishOnly, PublishFacts
<1>8. XenOnly(d) /\ DiskOnly(d) /\ ImageOnly(d) /\ IoOnly(d) /\ CtlOnly(d)
  BY Zenon, <1>1, Unchanged
<1>9. /\ StrayOnly /\ (d \notin stray' => d \notin stray /\ xen[d] # "rebooting")
      /\ d \notin stray' => xen[d] = "none" \/ Alive(d)
  <2>1. xen[d] \in {"none", "paused", "running", "rebooting"}
    BY Zenon DEF DomInv, Types, DomTypeOK
  <2>2. QED
    BY Zenon, <1>1, <2>1 DEF StrayOnly, DomInv, Types, Alive
<1>10. CASE go' = go
  <2>1. GoOnly(d)
    BY ZenonT(30), <1>10, Unchanged
  <2>2. DomainOK(d)'
    <3>1. PlaceOK(d)'
      BY Zenon, <1>1, <1>2, <1>10 DEF PlaceOK
    <3>2. PublishedOK(d)'
      BY Zenon, <1>1, <1>10 DEF PublishedOK
    <3>3. StatusOK(d)'
      BY ZenonT(30), <1>1, <1>5, <1>7, <1>10, Here DEF StatusOK, Cur
    <3>4. ReservedOK(d)'
      BY ZenonT(30), <1>1, <1>2, <1>5, <1>7, <1>9, <1>10, Here DEF ReservedOK, Cur
    <3>5. XenOK(d)'
      BY ZenonT(30), <1>1, <1>2, <1>5, <1>7, <1>9, <1>10, Here DEF XenOK, PlaceOK, Cur
    <3>6. DiskOK(d)'
      BY Zenon, <1>1, <1>5, <1>7, <1>10, Here DEF DiskOK, Cur
    <3>7. GcOK(d)'
      BY ZenonT(30), <1>1, <1>2, <1>5, <1>7, <1>10, Here DEF GcOK, InStatus, PlaceOK, PublishedOK
    <3>8. QED
      BY Zenon, <3>1, <3>2, <3>3, <3>4, <3>5, <3>6, <3>7 DEF DomainOK
  <2>3. QED
    BY ZenonT(30), <1>1, <1>7, <1>8, <1>9, <1>10, <2>1, <2>2, StepNoSet
<1>11. CASE /\ s.bootFailed
            /\ go' = [go EXCEPT ![d] = [AtRest EXCEPT !.pc = "create", !.op = "retry", !.st = [s EXCEPT !.err = FALSE]]]
  <2>1. PICK t \in StatusT : /\ t = [s EXCEPT !.err = FALSE] /\ Alike(t, s) /\ t.pending = s.pending
    <3>1. /\ [s EXCEPT !.err = FALSE] \in StatusT /\ Alike([s EXCEPT !.err = FALSE], s)
          /\ [s EXCEPT !.err = FALSE].pending = s.pending
      BY Zenon, <1>5, FieldFacts
    <3>2. QED
      BY Zenon, <3>1
  <2>2. PICK g \in GoT : /\ g = Begun("create", "retry", t)
                         /\ g.pc = "create" /\ g.op = "retry" /\ g.k = 0 /\ g.st = t
    <3>1. "create" \in Pcs /\ "retry" \in Ops
      BY DEF Pcs, Ops
    <3>2. PICK b : b = Begun("create", "retry", t)
      BY Zenon
    <3>3. b \in GoT /\ b.pc = "create" /\ b.op = "retry" /\ b.st = t /\ b.k = 0
      BY <3>1, <3>2, BeginFacts
    <3>4. QED
      BY ZenonT(30), <3>2, <3>3
  <2>3. GoOnly(d) /\ go'[d].pc = "create" /\ go'[d].op = "retry" /\ go'[d].st = t
    <3>1. Moves(d, g)
      BY ZenonT(30), <1>11, <2>1, <2>2, MoveFacts, Here DEF Begun
    <3>2. g.k \in 0..Len(IoAdapterList[d])
      BY SMTT(30), <2>2, MineFacts
    <3>3. QED
      BY ZenonT(30), <2>2, <3>1, <3>2, MoveOnly DEF Moves
  <2>4. /\ t.disks /\ t.io = domStatus[d].io /\ t.disks = s.disks /\ (t.adaptersFailed => ~t.io)
        /\ t.io = s.io /\ t.pending = FALSE /\ s.pending = FALSE
    <3>1. /\ ~domStatus[d].disks => ~domStatus[d].bootFailed
          /\ domStatus[d].adaptersFailed => ~domStatus[d].io
      BY Zenon, <1>1, <1>2, Here DEF StatusOK
    <3>2. t.disks = s.disks /\ t.io = s.io /\ t.adaptersFailed = s.adaptersFailed
      BY Zenon, <2>1 DEF Alike
    <3>3. QED
      BY ZenonT(30), <1>2, <1>5, <1>11, <2>1, <3>1, <3>2
  <2>5. d \notin stray' => xen[d] = "none" /\ gcPass.at # d
    <3>1. domStatus[d].bootFailed /\ domStatus[d].disks /\ InStatus(d)
      BY Zenon, <1>1, <1>5, <1>11, <2>4 DEF InStatus
    <3>2. d \notin stray' => xen[d] = "none"
      <4>1. d \notin stray /\ xen[d] # "none" => ~domStatus[d].bootFailed
        BY <1>1, <1>2, Here DEF XenOK
      <4>2. d \notin stray' => d \notin stray
        BY Zenon, <1>1
      <4>3. QED
        BY ZenonT(30), <3>1, <4>1, <4>2
    <3>3. d \notin stray' => gcPass.at # d
      BY Zenon, <1>1, <1>2, <3>1, Here DEF GcOK
    <3>4. QED
      BY Zenon, <3>2, <3>3
  <2>6. Cur(d)' = t
    BY ZenonT(30), <2>3 DEF Cur
  <2>7. DomainOK(d)'
    <3>1. PlaceOK(d)'
      BY Zenon, <1>2, <1>7, <2>3, <2>4 DEF PlaceOK
    <3>2. PublishedOK(d)'
      BY Zenon, <1>7, <2>3, <2>4 DEF PublishedOK, PlaceOK
    <3>3. StatusOK(d)'
      BY ZenonT(30), <1>9, <2>3, <2>4 DEF StatusOK, Cur
    <3>4. ReservedOK(d)'
      BY ZenonT(30), <1>1, <1>2, <1>7, <1>9, <2>3, <2>4, <2>6, Here DEF ReservedOK
    <3>5. XenOK(d)'
      BY Zenon, <1>1, <2>5 DEF XenOK
    <3>6. DiskOK(d)'
      BY ZenonT(30), <1>1, <1>7, <2>3, <2>4, Here DEF DiskOK, Cur
    <3>7. GcOK(d)'
      BY ZenonT(30), <1>1, <2>5 DEF GcOK, PlaceOK
    <3>8. QED
      BY Zenon, <3>1, <3>2, <3>3, <3>4, <3>5, <3>6, <3>7 DEF DomainOK
  <2>8. go'[d].pc # "set"
    BY <2>3
  <2>9. QED
    BY ZenonT(30), <1>1, <1>7, <1>8, <1>9, <2>3, <2>7, StepNoSet
<1>12. QED
  BY ZenonT(30), <1>3, <1>10, <1>11 DEF ticker

\* The end of doInactivate.
LEMMA InactivateEndKept ==
  ASSUME DomInv, NEW d \in Dom, doInactivateEnd(d)
  PROVE  DomInv'
<1>1. /\ go[d].pc \in {"halted", "unassign"} /\ agentFatal = Nobody
      /\ UNCHANGED <<domConfig, sending, usbAccess, xen, gcPass, agentFatal>>
  BY SMTT(30) DEF doInactivateEnd, At, cfgVars, endVars
<1>2. /\ go[d].op \in {"modify", "delete"} /\ go[d].op # "retry" /\ (go[d].pc = "unassign" => go[d].op = "delete")
      /\ go[d].st \in StatusT /\ d \in DOMAIN domStatus /\ agentFatal' # d
      /\ Cur(d) = go[d].st /\ domStatus[d].disks = go[d].st.disks
      /\ d \notin stray /\ gcPass.at = d => go[d].op = "delete" \/ ~go[d].st.disks
  BY ZenonT(30), <1>1, Here DEF PlaceOK, PublishedOK, GcOK, InStatus, Cur
<1>3. PICK halted \in BOOLEAN : halted = At(d, "halted") /\ (halted <=> go[d].pc = "halted")
  BY Zenon, <1>1 DEF At
<1>4. PICK S \in SUBSET Adapter : S = pciUnassign(d) /\ S \subseteq Usb /\ \A a \in S : usedBy[a] = d
  <2>1. PICK S : S = pciUnassign(d)
    BY Zenon
  <2>2. S \subseteq Adapter /\ S \subseteq Usb /\ \A a \in S : usedBy[a] = d
    BY Zenon, <2>1, MineFacts DEF pciUnassign
  <2>3. QED
    BY Zenon, <2>1, <2>2
<1>5. PICK back \in SUBSET S : back = IF usbAccess THEN S \cap pciback ELSE {}
  BY Zenon
<1>6. PICK r \in StatusT : /\ r = (IF ~halted THEN go[d].st
                                   ELSE IF go[d].st.id THEN [go[d].st EXCEPT !.err = TRUE]
                                   ELSE [go[d].st EXCEPT !.activated = FALSE, !.state = "HALTED"])
                           /\ r.io = go[d].st.io /\ r.disks = go[d].st.disks
                           /\ r.adaptersFailed = go[d].st.adaptersFailed /\ r.bootFailed = go[d].st.bootFailed
                           /\ (r.state = "HALTING" => r.err)
  <2>1. CASE ~halted
    <3>1. go[d].st.state = "HALTING" => go[d].st.err
      BY ZenonT(30), <1>1, <1>2, <1>3, <2>1, Here DEF StatusOK
    <3>2. QED
      BY Zenon, <1>2, <2>1, <3>1
  <2>2. CASE halted /\ go[d].st.id
    <3>1. PICK z \in StatusT : z = go[d].st
      BY Zenon, <1>2
    <3>2. PICK y : y = [z EXCEPT !.err = TRUE]
      BY Zenon
    <3>3. y \in StatusT /\ y.io = z.io /\ y.disks = z.disks /\ y.adaptersFailed = z.adaptersFailed
          /\ y.bootFailed = z.bootFailed /\ y.err
      BY Zenon, <3>2 DEF StatusT
    <3>4. QED
      BY ZenonT(30), <2>2, <3>1, <3>2, <3>3
  <2>3. CASE halted /\ ~go[d].st.id
    <3>1. PICK z \in StatusT : z = go[d].st
      BY Zenon, <1>2
    <3>2. PICK y : y = [z EXCEPT !.activated = FALSE, !.state = "HALTED"]
      BY Zenon
    <3>3. y \in StatusT /\ y.io = z.io /\ y.disks = z.disks /\ y.adaptersFailed = z.adaptersFailed
          /\ y.bootFailed = z.bootFailed /\ y.state # "HALTING"
      BY Zenon, <3>2 DEF StatusT
    <3>4. QED
      BY ZenonT(30), <2>3, <3>1, <3>2, <3>3
  <2>4. QED
    BY Zenon, <2>1, <2>2, <2>3
<1>7. PICK failed \in BOOLEAN :
        /\ pciback' = pciback \/ pciback' = pciback \ back
        /\ IF go[d].op = "modify" /\ ~go[d].on THEN Return(d, [r EXCEPT !.err = @ \/ (failed /\ halted)])
           ELSE /\ publishDomainStatus(d, r)
                /\ go' = [go EXCEPT ![d].pc = IF go[d].op = "delete" THEN "cleanup"
                                              ELSE doActivate([r EXCEPT !.err = @ \/ (failed /\ halted)]),
                                    ![d].k = 1, ![d].st = [r EXCEPT !.err = @ \/ (failed /\ halted)]]
  <2>1. PICK failed \in BOOLEAN :
          /\ IF failed THEN back # {} /\ Mishap /\ pciback' = (IF At(d, "halted") THEN pciback ELSE pciback \ back)
             ELSE pciback' = pciback \ back /\ mishaps' = mishaps
          /\ IF go[d].op = "modify" /\ ~go[d].on
             THEN Return(d, [r EXCEPT !.err = @ \/ (failed /\ At(d, "halted"))])
             ELSE /\ publishDomainStatus(d, r)
                  /\ go' = [go EXCEPT ![d].pc = IF go[d].op = "delete" THEN "cleanup"
                                                ELSE doActivate([r EXCEPT !.err = @ \/ (failed /\ At(d, "halted"))]),
                                      ![d].k = 1, ![d].st = [r EXCEPT !.err = @ \/ (failed /\ At(d, "halted"))]]
    <3>1. /\ back = IF usbAccess THEN pciUnassign(d) \cap pciback ELSE {}
          /\ r = IF ~At(d, "halted") THEN go[d].st
                 ELSE IF go[d].st.id THEN [go[d].st EXCEPT !.err = TRUE]
                 ELSE [go[d].st EXCEPT !.activated = FALSE, !.state = "HALTED"]
      BY Zenon, <1>3, <1>4, <1>5, <1>6
    <3>2. QED
      BY ZenonT(30), <3>1 DEF doInactivateEnd
  <2>2. pciback' = pciback \/ pciback' = pciback \ back
    BY Zenon, <2>1
  <2>3. QED
    BY Zenon, <1>3, <2>1, <2>2
<1>8. PICK s \in StatusT :
        /\ s = [r EXCEPT !.err = @ \/ (failed /\ halted)]
        /\ s.io = go[d].st.io /\ s.disks = go[d].st.disks
        /\ s.adaptersFailed = go[d].st.adaptersFailed /\ s.bootFailed = go[d].st.bootFailed
        /\ (s.state = "HALTING" => s.err)
  <2>1. PICK y : y = [r EXCEPT !.err = @ \/ (failed /\ halted)]
    BY Zenon
  <2>2. /\ y \in StatusT /\ y.io = r.io /\ y.disks = r.disks /\ y.adaptersFailed = r.adaptersFailed
        /\ y.bootFailed = r.bootFailed /\ y.state = r.state /\ (r.err => y.err)
    BY <2>1 DEF StatusT
  <2>3. QED
    BY ZenonT(30), <1>6, <2>1, <2>2
<1>9. /\ usedBy' = Released(S)
      /\ disk' = IF halted /\ d \notin Preserve THEN [disk EXCEPT ![d] = "none"] ELSE disk
      /\ image' = IF halted /\ d \notin Preserve THEN Without(image, d) ELSE image
      /\ stray' = IF halted /\ xen[d] # "none" THEN stray \cup {d} ELSE stray
  BY Zenon, <1>3, <1>4 DEF doInactivateEnd
<1>10. /\ StrayOnly /\ (d \notin stray' => d \notin stray /\ xen[d] = "none")
  <2>1. d \notin stray /\ xen[d] # "none" => go[d].pc # "unassign"
    BY Zenon, Here DEF XenOK
  <2>2. QED
    BY ZenonT(30), <1>1, <1>3, <1>9, <2>1 DEF StrayOnly, DomInv, Types
<1>11. DiskOnly(d) /\ ImageOnly(d) /\ XenOnly(d) /\ CtlOnly(d)
  <2>1. "none" \in DiskT
    BY DEF DiskT
  <2>2. QED
    BY ZenonT(30), <1>1, <1>9, <2>1, Unchanged, SetOnly
<1>12. /\ usedBy' \in [Adapter -> Dom \cup {Nobody}]
       /\ \A a \in Adapter : usedBy'[a] = IF a \in S THEN Nobody ELSE usedBy[a]
  BY Zenon, <1>9, ReleasedFacts
<1>13. /\ IoOnly(d) /\ \A a \in Adapter : usedBy'[a] \in {usedBy[a], Nobody}
  <2>1. pciback \subseteq Adapter
    BY Zenon DEF DomInv, Types, DomTypeOK
  <2>2. QED
    BY ZenonT(30), <1>4, <1>7, <1>12, <2>1 DEF IoOnly
<1>14. d \in Preserve => disk' = disk /\ image' = image
  BY ZenonT(30), <1>9
<1>15. /\ \A a \in Adapter : usedBy'[a] = d => usedBy[a] = d
       /\ \A a \in Mine(d) \ Usb : usedBy[a] = d => usedBy'[a] = d
  BY ZenonT(30), <1>4, <1>12, MineFacts
<1>16. ~s.disks => ~s.io /\ ~s.adaptersFailed /\ ~s.bootFailed
  BY ZenonT(30), <1>2, <1>8, Here DEF StatusOK
<1>17. s.adaptersFailed => ~s.io
  BY ZenonT(30), <1>2, <1>8, Here DEF StatusOK
<1>18. CASE go[d].op = "modify" /\ Return(d, s)
  <2>1. /\ GoOnly(d) /\ go'[d].pc = "select" /\ go'[d].op = "none" /\ StatusOnly(d) /\ d \in DOMAIN domStatus'
        /\ Alike(domStatus'[d], s) /\ domStatus'[d].err = s.err /\ domStatus'[d].state = s.state
        /\ domStatus'[d].pending = FALSE
    BY Zenon, <1>18, ReturnStep
  <2>2. DomainOK(d)'
    <3>1. PlaceOK(d)' /\ PublishedOK(d)' /\ StatusOK(d)' /\ Alike(Cur(d)', s)
      BY ZenonT(30), <1>2, <1>8, <1>16, <1>17, <2>1, AtSelect
    <3>2. ReservedOK(d)'
      BY SMTT(30), <1>1, <1>2, <1>8, <1>10, <1>15, <2>1, <3>1, Here DEF ReservedOK, Alike
    <3>3. XenOK(d)'
      BY ZenonT(30), <1>1, <1>10 DEF XenOK
    <3>4. DiskOK(d)'
      BY SMTT(30), <1>1, <1>2, <1>8, <1>10, <1>14, <2>1, <3>1, Here DEF DiskOK, Alike
    <3>5. GcOK(d)'
      BY SMTT(30), <1>1, <1>2, <1>8, <1>10, <1>18, <2>1, Here DEF GcOK, InStatus, Alike
    <3>6. QED
      BY ZenonT(30), <3>1, <3>2, <3>3, <3>4, <3>5 DEF DomainOK
  <2>3. go'[d].pc # "set"
    BY ZenonT(30), <2>1
  <2>4. QED
    BY ZenonT(30), <1>10, <1>11, <1>13, <2>1, <2>2, StepNoSet
<1>19. CASE /\ publishDomainStatus(d, r)
            /\ go' = [go EXCEPT ![d].pc = IF go[d].op = "delete" THEN "cleanup" ELSE doActivate(s),
                                ![d].k = 1, ![d].st = s]
  <2>1. StatusOnly(d) /\ d \in DOMAIN domStatus' /\ domStatus'[d] = r
    BY ZenonT(30), <1>6, <1>19, PublishOnly, PublishFacts
  <2>2. PICK w \in {"cleanup", "test", "assign"} :
              /\ w = (IF go[d].op = "delete" THEN "cleanup" ELSE doActivate(s)) /\ w \in Pcs
              /\ (w = "cleanup" <=> go[d].op = "delete") /\ (w = "test" => s.adaptersFailed)
    BY DEF Pcs, doActivate
  <2>3. PICK g \in GoT : g = go[d]
    BY Zenon, Here
  <2>4. PICK h \in GoT : /\ h = [g EXCEPT !.pc = w, !.k = 1, !.st = s]
                         /\ h.pc = w /\ h.op = g.op /\ h.k = 1 /\ h.st = s
    <3>1. PICK h : h = [g EXCEPT !.pc = w, !.k = 1, !.st = s]
      BY Zenon
    <3>2. 1 \in Nat /\ w \in Pcs /\ s \in StatusT \cup {<<>>}
      BY ZenonT(30), <2>2
    <3>3. h \in GoT
      BY Zenon, <3>1, <3>2 DEF GoT
    <3>4. h.pc = w /\ h.op = g.op /\ h.k = 1 /\ h.st = s
      BY <3>1 DEF GoT
    <3>5. QED
      BY ZenonT(30), <3>1, <3>3, <3>4
  <2>5. GoOnly(d) /\ go'[d].pc = w /\ go'[d].op = go[d].op /\ go'[d].k = 1 /\ go'[d].st = s
    <3>1. go' = [go EXCEPT ![d] = h]
      BY ZenonT(30), <1>19, <2>2, <2>3, <2>4
    <3>2. Moves(d, h)
      BY ZenonT(30), <3>1, MoveFacts, Here
    <3>3. h.k \in 0..Len(IoAdapterList[d])
      BY SMTT(30), <2>4, MineFacts
    <3>4. QED
      BY ZenonT(30), <2>3, <2>4, <3>2, <3>3, MoveOnly DEF Moves
  <2>6. 1 \in DOMAIN IoAdapterList[d]
    BY MineFacts
  <2>7. w = "test" => s.disks /\ ~s.io
    BY ZenonT(30), <1>16, <1>17, <2>2
  <2>8. Cur(d)' = s
    BY ZenonT(30), <2>5 DEF Cur
  <2>9. ReservedOK(d)'
    <3>1. /\ s.io = Cur(d).io /\ d \in DOMAIN domStatus'
          /\ go'[d].pc \in {"cleanup", "test", "assign"} /\ go[d].pc \notin {"none", "test", "set"}
      BY SMTT(30), <1>1, <1>2, <1>8, <2>1, <2>5
    <3>2. \A a \in Adapter : usedBy'[a] = d => s.io
      BY ZenonT(30), <1>15, <3>1, Here DEF ReservedOK
    <3>3. d \notin stray' /\ s.io => \A a \in Mine(d) \ Usb : usedBy'[a] = d
      BY ZenonT(30), <1>2, <1>10, <1>15, <3>1, Here DEF ReservedOK
    <3>4. \A j \in 1..(go'[d].k - 1) : FALSE
      BY <2>5
    <3>5. QED
      BY ZenonT(30), <2>8, <3>1, <3>2, <3>3, <3>4 DEF ReservedOK
  <2>10. DiskOK(d)'
    <3>1. /\ s.disks = Cur(d).disks /\ d \in DOMAIN domStatus'
          /\ go'[d].pc \in {"cleanup", "test", "assign"} /\ go[d].pc \notin {"copying", "create"}
      BY ZenonT(30), <1>1, <1>2, <1>8, <2>1, <2>5
    <3>2. d \in Preserve /\ d \notin stray => disk'[d] # "partial"
      BY ZenonT(30), <1>14, <3>1, Here DEF DiskOK
    <3>3. d \notin stray /\ d \in Preserve /\ disk'[d] # "none" /\ ~s.disks => d \in DOMAIN image' /\ ~image'[d]
      BY ZenonT(30), <1>2, <1>14, <3>1, Here DEF DiskOK
    <3>4. QED
      BY ZenonT(30), <1>10, <2>8, <3>1, <3>2, <3>3 DEF DiskOK
  <2>11. DomainOK(d)'
    <3>1. PlaceOK(d)'
      BY ZenonT(30), <1>1, <1>2, <2>1, <2>2, <2>5, <2>6, <2>7 DEF PlaceOK
    <3>2. PublishedOK(d)'
      BY SMTT(30), <1>2, <1>6, <1>8, <2>1, <2>5 DEF PublishedOK
    <3>3. StatusOK(d)'
      BY ZenonT(30), <1>8, <1>16, <1>17, <2>5, <2>8 DEF StatusOK
    <3>4. ReservedOK(d)'
      BY ZenonT(30), <2>9
    <3>5. XenOK(d)'
      BY ZenonT(30), <1>1, <1>10 DEF XenOK
    <3>6. DiskOK(d)'
      BY Zenon, <2>10
    <3>7. GcOK(d)'
      BY ZenonT(30), <1>1, <1>2, <1>6, <1>10, <2>1, <2>5, Here DEF GcOK, InStatus
    <3>8. QED
      BY ZenonT(30), <3>1, <3>2, <3>3, <3>4, <3>5, <3>6, <3>7 DEF DomainOK
  <2>12. go'[d].pc # "set"
    BY Zenon, <2>2, <2>5
  <2>13. QED
    BY ZenonT(30), <1>10, <1>11, <1>13, <2>1, <2>5, <2>11, StepNoSet
<1>20. QED
  BY ZenonT(30), <1>7, <1>8, <1>18, <1>19

\* The end of handleDelete.
LEMMA DeleteDoneKept ==
  ASSUME DomInv, NEW d \in Dom, handleDeleteDone(d)
  PROVE  DomInv'
<1>1. /\ go[d].pc = "cleanup" /\ agentFatal = Nobody
      /\ usedBy' = IF go[d].st.io THEN cleanupAdapters(d) ELSE usedBy
      /\ disk' = IF d \in Preserve /\ go[d].st.disks THEN [disk EXCEPT ![d] = "none"] ELSE disk
      /\ image' = IF d \in Preserve /\ go[d].st.disks THEN Without(image, d) ELSE image
      /\ domStatus' = Without(domStatus, d)
      /\ go' = [go EXCEPT ![d] = [AtRest EXCEPT !.pc = "none"]]
      /\ UNCHANGED <<domConfig, sending, pciback, usbAccess, xen, gcPass, agentFatal, stray>>
  BY Zenon DEF handleDeleteDone, At, cfgVars, endVars
<1>2. /\ go[d].op = "delete" /\ go[d].st \in StatusT /\ d \in DOMAIN domStatus /\ agentFatal' # d /\ Cur(d) = go[d].st
  BY <1>1, Here DEF PlaceOK, Cur
<1>3. XenOnly(d) /\ StrayOnly /\ CtlOnly(d)
  BY Zenon, <1>1, Unchanged
<1>4. "none" \in DiskT
  BY DEF DiskT
<1>5. /\ DiskOnly(d) /\ ImageOnly(d) /\ (d \in Preserve /\ go[d].st.disks => disk'[d] = "none")
      /\ ~go[d].st.disks => disk' = disk /\ image' = image
  BY ZenonT(30), <1>1, <1>4, Unchanged, SetOnly
<1>6. /\ usedBy' \in [Adapter -> Dom \cup {Nobody}]
      /\ \A a \in Adapter : usedBy'[a] = IF usedBy[a] = d THEN Nobody ELSE usedBy[a]
  <2>1. CASE go[d].st.io
    <3>1. PICK S : S = {a \in Adapter : usedBy[a] = d}
      BY Zenon
    <3>2. usedBy' = Released(S)
      BY Zenon, <1>1, <2>1, <3>1 DEF cleanupAdapters
    <3>3. QED
      BY <3>1, <3>2, ReleasedFacts
  <2>2. CASE ~go[d].st.io
    <3>1. \A a \in Adapter : usedBy[a] # d
      BY ZenonT(30), <1>1, <1>2, <2>2, Here DEF ReservedOK
    <3>2. QED
      BY ZenonT(30), <1>1, <2>2, <3>1, Here
  <2>3. QED
    BY Zenon, <2>1, <2>2
<1>7. IoOnly(d) /\ (\A a \in Adapter : usedBy'[a] \in {usedBy[a], Nobody}) /\ (\A a \in Adapter : usedBy'[a] # d)
  BY SMTT(30), <1>1, <1>6, Here DEF IoOnly, DomInv, Types, DomTypeOK
<1>8. StatusOnly(d) /\ d \notin DOMAIN domStatus'
  <2>1. /\ DOMAIN domStatus' = DOMAIN domStatus \ {d}
        /\ \A e \in DOMAIN domStatus \ {d} : domStatus'[e] = domStatus[e]
    BY Zenon, <1>1, WithoutFacts
  <2>2. QED
    BY Zenon, <2>1, Here DEF StatusOnly
<1>9. PICK g \in GoT : /\ g = [AtRest EXCEPT !.pc = "none"] /\ g.pc = "none" /\ g.op = "none" /\ g.k = 0
  BY Zenon, NoneFacts
<1>10. GoOnly(d) /\ go'[d].pc = "none" /\ go'[d].op = "none"
  <2>1. Moves(d, g)
    BY ZenonT(30), <1>1, <1>9, MoveFacts, Here
  <2>2. g.k \in 0..Len(IoAdapterList[d])
    BY SMTT(30), <1>9
  <2>3. QED
    BY ZenonT(30), <1>9, <2>1, <2>2, MoveOnly DEF Moves
<1>11. DomainOK(d)'
  <2>1. PlaceOK(d)'
    BY ZenonT(30), <1>2, <1>8, <1>10 DEF PlaceOK
  <2>2. PublishedOK(d)'
    BY ZenonT(30), <1>10 DEF PublishedOK, PlaceOK
  <2>3. StatusOK(d)'
    BY Zenon, <1>8 DEF StatusOK, PlaceOK, Cur
  <2>4. ReservedOK(d)'
    BY SMTT(30), <1>1, <1>7, <1>8 DEF ReservedOK
  <2>5. XenOK(d)'
    BY ZenonT(30), <1>1, Here DEF XenOK
  <2>6. DiskOK(d)'
    BY SMTT(30), <1>1, <1>2, <1>5, Here DEF DiskOK, PlaceOK
  <2>7. GcOK(d)'
    BY ZenonT(30), <1>1, <1>7, <1>8, Here DEF GcOK, InStatus, PlaceOK
  <2>8. QED
    BY Zenon, <2>1, <2>2, <2>3, <2>4, <2>5, <2>6, <2>7 DEF DomainOK
<1>12. go'[d].pc # "set"
  BY <1>10
<1>13. QED
  BY ZenonT(30), <1>3, <1>5, <1>7, <1>8, <1>10, <1>11, StepNoSet

\* A configuration is handed over.
LEMMA ConfigKept ==
  ASSUME DomInv, NEW d \in Dom, handleDomainModify(d)
  PROVE  DomInv'
<1>1. /\ agentFatal = Nobody /\ gcPass = NoGc /\ sending' = d
      /\ domConfig[d] = "none" => d \notin DOMAIN domStatus
      /\ go' = IF domConfig[d] = "none" THEN [go EXCEPT ![d] = AtRest] ELSE go
      /\ UNCHANGED <<domStatus, usedBy, pciback, usbAccess, xen, disk, image, gcPass, agentFatal, stray>>
  BY Zenon DEF handleDomainModify, MainFree, ioVars, diskVars, endVars
<1>2. XenOnly(d) /\ DiskOnly(d) /\ ImageOnly(d) /\ IoOnly(d) /\ StrayOnly /\ StatusOnly(d)
  BY Zenon, <1>1, Unchanged
<1>3. domConfig' \in [Dom -> {"none", "off", "on"}]
  <2>1. PICK c \in {"off", "on"} : domConfig' = [domConfig EXCEPT ![d] = c]
    BY Zenon DEF handleDomainModify
  <2>2. domConfig \in [Dom -> {"none", "off", "on"}] /\ c \in {"none", "off", "on"}
    BY Zenon DEF DomInv, Types, DomTypeOK
  <2>3. QED
    BY Zenon, <2>1, <2>2
<1>4. /\ usbAccess \in BOOLEAN /\ gcPass = [snap |-> gcPass.snap, at |-> gcPass.at] /\ DOMAIN gcPass.snap \subseteq Dom
  BY Zenon DEF DomInv, Types
<1>5. CtlOnly(d)
  BY Zenon, <1>1, <1>3, <1>4 DEF CtlOnly
<1>6. gcPass.at # d /\ agentFatal' # d
  <2>1. NoGc.at = Nobody
    BY Zenon DEF NoGc
  <2>2. QED
    BY Zenon, <1>1, <2>1, Here
<1>7. CASE go' = go
  <2>1. GoOnly(d)
    BY Zenon, <1>7, Unchanged
  <2>2. DomainOK(d)'
    <3>1. PlaceOK(d)'
      BY ZenonT(30), <1>1, <1>7, Here DEF PlaceOK
    <3>2. PublishedOK(d)'
      BY Zenon, <1>1, <1>7, Here DEF PublishedOK
    <3>3. StatusOK(d)'
      BY ZenonT(30), <1>1, Here DEF StatusOK, Cur
    <3>4. ReservedOK(d)'
      BY ZenonT(30), <1>1, <1>6, <1>7, Here DEF ReservedOK, Cur
    <3>5. XenOK(d)'
      BY Zenon, <1>1, Here DEF XenOK, PlaceOK, Cur
    <3>6. DiskOK(d)'
      BY ZenonT(30), <1>1, <1>7, Here DEF DiskOK, PlaceOK, Cur
    <3>7. GcOK(d)'
      BY Zenon, <1>1, <1>6 DEF GcOK
    <3>8. QED
      BY Zenon, <3>1, <3>2, <3>3, <3>4, <3>5, <3>6, <3>7 DEF DomainOK
  <2>3. QED
    BY ZenonT(30), <1>1, <1>2, <1>5, <1>7, <2>1, <2>2, StepNoSet
<1>8. CASE go' = [go EXCEPT ![d] = AtRest] /\ d \notin DOMAIN domStatus
  <2>1. GoOnly(d) /\ go'[d].pc = "select" /\ go'[d].op = "none"
    BY ZenonT(30), <1>8, RestStep
  <2>2. DomainOK(d)'
    <3>1. PlaceOK(d)'
      BY Zenon, <1>6, <2>1 DEF PlaceOK
    <3>2. PublishedOK(d)'
      BY Zenon, <2>1 DEF PublishedOK
    <3>3. StatusOK(d)'
      BY Zenon, <1>1, <1>8 DEF StatusOK
    <3>4. ReservedOK(d)'
      BY Zenon, <1>1, <2>1, Here DEF ReservedOK, Cur
    <3>5. XenOK(d)'
      BY Zenon, <1>1, <1>8, Here DEF XenOK
    <3>6. DiskOK(d)'
      BY ZenonT(30), <1>1, <1>8, <2>1, Here DEF DiskOK, PlaceOK
    <3>7. GcOK(d)'
      BY Zenon, <1>1, <1>6 DEF GcOK
    <3>8. QED
      BY Zenon, <3>1, <3>2, <3>3, <3>4, <3>5, <3>6, <3>7 DEF DomainOK
  <2>3. go'[d].pc # "set"
    BY <2>1
  <2>4. QED
    BY Zenon, <1>1, <1>2, <1>5, <2>1, <2>2, StepNoSet
<1>9. QED
  BY Zenon, <1>1, <1>7, <1>8

\* A configuration is removed.
LEMMA UnconfigKept ==
  ASSUME DomInv, NEW d \in Dom, handleDomainDelete(d)
  PROVE  DomInv'
<1>1. /\ domConfig' = [domConfig EXCEPT ![d] = "none"]
      /\ UNCHANGED <<sending, go, domStatus, usedBy, pciback, usbAccess, xen, disk, image, gcPass, agentFatal, stray>>
  BY Zenon DEF handleDomainDelete, ioVars, diskVars, endVars
<1>2. GoOnly(d) /\ XenOnly(d) /\ DiskOnly(d) /\ ImageOnly(d) /\ IoOnly(d) /\ StrayOnly /\ StatusOnly(d)
  BY Zenon, <1>1, Unchanged
<1>3. domConfig' \in [Dom -> {"none", "off", "on"}]
  <2>1. domConfig \in [Dom -> {"none", "off", "on"}]
    BY Zenon DEF DomInv, Types, DomTypeOK
  <2>2. QED
    BY Zenon, <1>1, <2>1
<1>4. /\ usbAccess \in BOOLEAN /\ gcPass = [snap |-> gcPass.snap, at |-> gcPass.at] /\ DOMAIN gcPass.snap \subseteq Dom
      /\ sending # Nobody => gcPass = NoGc
  BY Zenon DEF DomInv, Types
<1>5. CtlOnly(d)
  BY ZenonT(30), <1>1, <1>3, <1>4 DEF CtlOnly
<1>6. DomainOK(d)'
  <2>1. PlaceOK(d)'
    BY Zenon, <1>1, Here DEF PlaceOK
  <2>2. PublishedOK(d)'
    BY Zenon, <1>1, Here DEF PublishedOK
  <2>3. StatusOK(d)'
    BY ZenonT(30), <1>1, Here DEF StatusOK, Cur
  <2>4. ReservedOK(d)'
    BY ZenonT(30), <1>1, Here DEF ReservedOK, Cur
  <2>5. XenOK(d)'
    BY Zenon, <1>1, Here DEF XenOK, PlaceOK, Cur
  <2>6. DiskOK(d)'
    BY Zenon, <1>1, Here DEF DiskOK, Cur
  <2>7. GcOK(d)'
    BY Zenon, <1>1, Here DEF GcOK, InStatus
  <2>8. QED
    BY Zenon, <2>1, <2>2, <2>3, <2>4, <2>5, <2>6, <2>7 DEF DomainOK
<1>7. QED
  BY Zenon, <1>1, <1>2, <1>5, <1>6, StepNoSet

\* gcObjects looks at a disk.
LEMMA GcCheckKept ==
  ASSUME DomInv, NEW d \in Dom, gcCheck(d)
  PROVE  DomInv'
<1>1. /\ gcPass.at = Nobody /\ d \in DOMAIN gcPass.snap
      /\ UNCHANGED <<domConfig, sending, go, domStatus, usedBy, pciback, usbAccess, xen, disk, agentFatal, stray>>
  BY Zenon DEF gcCheck, cfgVars, ioVars, endVars
<1>2. /\ GoOnly(d) /\ XenOnly(d) /\ DiskOnly(d) /\ IoOnly(d) /\ StrayOnly /\ StatusOnly(d)
      /\ image' = image => ImageOnly(d)
  BY Zenon, <1>1, Unchanged
<1>3. /\ domConfig \in [Dom -> {"none", "off", "on"}] /\ usbAccess \in BOOLEAN
      /\ gcPass = [snap |-> gcPass.snap, at |-> gcPass.at] /\ DOMAIN gcPass.snap \subseteq Dom
      /\ sending # Nobody => gcPass = NoGc
      /\ DOMAIN image \subseteq Dom
  BY Zenon DEF DomInv, Types, DomTypeOK
<1>4. sending = Nobody
  BY <1>1, <1>3 DEF NoGc
<1>5. PICK f : f = gcPass.snap
  BY Zenon
<1>6. DOMAIN Without(f, d) \subseteq Dom
  <2>1. DOMAIN Without(f, d) = DOMAIN f \ {d}
    BY Zenon, WithoutFacts
  <2>2. QED
    BY <1>3, <1>5, <2>1
<1>7. ASSUME gcPass' = [gcPass EXCEPT !.snap = Without(@, d)]
      PROVE  CtlOnly(d) /\ gcPass'.at = Nobody
  <2>1. gcPass' = [snap |-> Without(f, d), at |-> Nobody]
    BY ZenonT(30), <1>1, <1>3, <1>5, <1>7
  <2>2. QED
    BY ZenonT(30), <1>1, <1>3, <1>4, <1>6, <2>1 DEF CtlOnly
<1>8. CASE InStatus(d) /\ gcPass' = [gcPass EXCEPT !.snap = Without(@, d)] /\ image' = Put(image, d, gcPass.snap[d])
  <2>1. ImageOnly(d)
    <3>1. PICK x, m : x = gcPass.snap[d] /\ m = image
      BY Zenon
    <3>2. /\ DOMAIN Put(m, d, x) = DOMAIN m \cup {d} /\ \A e \in DOMAIN m \ {d} : Put(m, d, x)[e] = m[e]
      BY Zenon DEF Put
    <3>3. image' = Put(m, d, x)
      BY Zenon, <1>8, <3>1
    <3>4. /\ DOMAIN image' = DOMAIN image \cup {d} /\ \A e \in DOMAIN image \ {d} : image'[e] = image[e]
      BY Zenon, <3>1, <3>2, <3>3
    <3>5. QED
      BY <1>3, <3>4 DEF ImageOnly
  <2>2. d \in DOMAIN domStatus /\ Cur(d).disks
    BY Zenon, <1>8, Here DEF InStatus, Cur, PublishedOK, PlaceOK
  <2>3. gcPass'.at # d
    BY ZenonT(30), <1>7, <1>8, Here
  <2>4. DomainOK(d)'
    <3>1. PlaceOK(d)'
      BY Zenon, <1>1, Here DEF PlaceOK
    <3>2. PublishedOK(d)'
      BY Zenon, <1>1, Here DEF PublishedOK
    <3>3. StatusOK(d)'
      BY ZenonT(30), <1>1, Here DEF StatusOK, Cur
    <3>4. ReservedOK(d)'
      BY ZenonT(30), <1>1, <2>2, <2>3, Here DEF ReservedOK, Cur
    <3>5. XenOK(d)'
      BY Zenon, <1>1, Here DEF XenOK, PlaceOK, Cur
    <3>6. DiskOK(d)'
      BY Zenon, <1>1, <2>2, Here DEF DiskOK, Cur
    <3>7. GcOK(d)'
      BY Zenon, <2>3 DEF GcOK
    <3>8. QED
      BY Zenon, <3>1, <3>2, <3>3, <3>4, <3>5, <3>6, <3>7 DEF DomainOK
  <2>5. QED
    BY ZenonT(30), <1>1, <1>2, <1>7, <1>8, <2>1, <2>4, StepNoSet
<1>9. CASE image' = image /\ gcPass' = [gcPass EXCEPT !.snap = Without(@, d)]
  <2>1. gcPass'.at # d
    BY ZenonT(30), <1>7, <1>9, Here
  <2>2. DomainOK(d)'
    <3>1. PlaceOK(d)'
      BY ZenonT(30), <1>1, <1>9, <2>1, Here DEF PlaceOK
    <3>2. PublishedOK(d)'
      BY Zenon, <1>1, Here DEF PublishedOK
    <3>3. StatusOK(d)'
      BY Zenon, <1>1, Here DEF StatusOK, Cur
    <3>4. ReservedOK(d)'
      BY ZenonT(30), <1>1, <1>9, <2>1, Here DEF ReservedOK, Cur
    <3>5. XenOK(d)'
      BY ZenonT(30), <1>1, <1>9, <2>1, Here DEF XenOK, PlaceOK, Cur
    <3>6. DiskOK(d)'
      BY ZenonT(30), <1>1, <1>9, <2>1, Here DEF DiskOK, Cur
    <3>7. GcOK(d)'
      BY ZenonT(30), <1>1, <1>9, <2>1, Here DEF GcOK, InStatus, PlaceOK, PublishedOK, Cur
    <3>8. QED
      BY Zenon, <3>1, <3>2, <3>3, <3>4, <3>5, <3>6, <3>7 DEF DomainOK
  <2>3. QED
    BY ZenonT(30), <1>1, <1>2, <1>7, <1>9, <2>2, StepNoSet
<1>10. CASE image' = image /\ ~InStatus(d) /\ gcPass' = [gcPass EXCEPT !.at = d]
  <2>1. gcPass' = [snap |-> f, at |-> d]
    BY ZenonT(30), <1>3, <1>5, <1>10
  <2>2. CtlOnly(d)
    BY ZenonT(30), <1>1, <1>3, <1>4, <1>5, <2>1 DEF CtlOnly
  <2>3. sending # d /\ (d \notin stray => xen[d] = "none")
    BY ZenonT(30), <1>4, <1>10, Here DEF XenOK, InStatus
  <2>4. DomainOK(d)'
    <3>1. PlaceOK(d)'
      BY Zenon, <1>1, Here DEF PlaceOK
    <3>2. PublishedOK(d)'
      BY Zenon, <1>1, Here DEF PublishedOK
    <3>3. StatusOK(d)'
      BY Zenon, <1>1, Here DEF StatusOK, Cur
    <3>4. ReservedOK(d)'
      BY Zenon, <1>1, Here DEF ReservedOK, Cur
    <3>5. XenOK(d)'
      BY ZenonT(30), <1>1, <1>10, <2>3, Here DEF XenOK, Cur
    <3>6. DiskOK(d)'
      BY ZenonT(30), <1>1, <1>10, <2>3, Here DEF DiskOK, Cur
    <3>7. GcOK(d)'
      BY ZenonT(30), <1>1, <1>10, <2>3, Here DEF GcOK, InStatus, PublishedOK, Cur
    <3>8. QED
      BY Zenon, <3>1, <3>2, <3>3, <3>4, <3>5, <3>6, <3>7 DEF DomainOK
  <2>5. QED
    BY ZenonT(30), <1>1, <1>2, <1>10, <2>2, <2>4, StepNoSet
<1>11. QED
  BY Zenon, <1>8, <1>9, <1>10 DEF gcCheck

\* gcObjects removes a disk.
LEMMA GcRemoveKept ==
  ASSUME DomInv, gcRemove
  PROVE  DomInv'
<1>1. PICK d \in Dom : d = gcPass.at
  BY Zenon DEF gcRemove, DomInv, Types, DomTypeOK
<1>2. /\ disk' = [disk EXCEPT ![d] = "none"] /\ image' = Without(image, d)
      /\ gcPass' = [snap |-> Without(gcPass.snap, d), at |-> Nobody]
      /\ UNCHANGED <<domConfig, sending, go, domStatus, usedBy, pciback, usbAccess, xen, agentFatal, stray>>
  BY Zenon, <1>1 DEF gcRemove, cfgVars, ioVars, endVars
<1>3. "none" \in DiskT
  BY DEF DiskT
<1>4. /\ GoOnly(d) /\ XenOnly(d) /\ DiskOnly(d) /\ disk'[d] = "none" /\ ImageOnly(d) /\ IoOnly(d) /\ StrayOnly /\ StatusOnly(d)
  BY ZenonT(30), <1>2, <1>3, Unchanged, SetOnly
<1>5. /\ domConfig \in [Dom -> {"none", "off", "on"}] /\ usbAccess \in BOOLEAN /\ DOMAIN gcPass.snap \subseteq Dom
      /\ sending # Nobody => gcPass = NoGc
  BY ZenonT(30) DEF DomInv, Types, DomTypeOK
<1>6. sending = Nobody /\ gcPass'.at # d
  BY SMTT(30), <1>1, <1>2, <1>5, Here DEF NoGc
<1>7. PICK f : f = gcPass.snap
  BY Zenon
<1>8. DOMAIN Without(f, d) \subseteq Dom
  <2>1. DOMAIN Without(f, d) = DOMAIN f \ {d}
    BY ZenonT(30), WithoutFacts
  <2>2. QED
    BY ZenonT(30), <1>5, <1>7, <2>1
<1>9. CtlOnly(d)
  <2>1. gcPass' = [snap |-> Without(f, d), at |-> Nobody]
    BY Zenon, <1>2, <1>7
  <2>2. QED
    BY SMTT(30), <1>2, <1>5, <1>6, <1>8, <2>1 DEF CtlOnly
<1>10. d \notin stray => xen[d] = "none"
  BY Zenon, <1>1, Here DEF GcOK
<1>11. DomainOK(d)'
  <2>1. PlaceOK(d)'
    BY Zenon, <1>2, Here DEF PlaceOK
  <2>2. PublishedOK(d)'
    BY Zenon, <1>2, Here DEF PublishedOK
  <2>3. StatusOK(d)'
    BY ZenonT(30), <1>2, Here DEF StatusOK, Cur
  <2>4. ReservedOK(d)'
    BY ZenonT(30), <1>2, <1>4, <1>6, <1>10, Here DEF ReservedOK, Cur
  <2>5. XenOK(d)'
    BY Zenon, <1>2, <1>10 DEF XenOK
  <2>6. DiskOK(d)'
    BY Zenon, <1>4 DEF DiskOK
  <2>7. GcOK(d)'
    BY Zenon, <1>6 DEF GcOK
  <2>8. QED
    BY ZenonT(30), <2>1, <2>2, <2>3, <2>4, <2>5, <2>6, <2>7 DEF DomainOK
<1>12. QED
  BY ZenonT(30), <1>2, <1>4, <1>9, <1>11, StepNoSet

\* gcObjects begins.
LEMMA GcStartKept ==
  ASSUME DomInv, gcStart
  PROVE  DomInv'
<1>1. /\ sending = Nobody /\ gcPass' = [snap |-> image, at |-> Nobody]
      /\ UNCHANGED <<domConfig, sending, go, domStatus, usedBy, pciback, usbAccess, xen, disk, image, agentFatal, stray>>
  BY Zenon DEF gcStart, MainFree, cfgVars, ioVars, endVars
<1>2. /\ GoOnly(Nobody) /\ XenOnly(Nobody) /\ DiskOnly(Nobody) /\ ImageOnly(Nobody) /\ IoOnly(Nobody) /\ StrayOnly
      /\ StatusOnly(Nobody)
  BY Zenon, <1>1, Unchanged
<1>3. /\ domConfig \in [Dom -> {"none", "off", "on"}] /\ usbAccess \in BOOLEAN /\ DOMAIN image \subseteq Dom
  BY Zenon DEF DomInv, Types, DomTypeOK
<1>4. CtlOnly(Nobody)
  BY <1>1, <1>3 DEF CtlOnly
<1>5. Nobody \notin Dom
  BY Zenon, DomAssumption
<1>6. QED
  BY ZenonT(30), <1>1, <1>2, <1>4, <1>5, StepNoSet

\* updateUsbAccess
LEMMA UsbKept ==
  ASSUME DomInv, updateUsbAccess
  PROVE  DomInv'
<1>1. /\ usbAccess' = ~usbAccess
      /\ pciback' = IF usbAccess' THEN pciback \ {a \in Usb : usedBy[a] = Nobody} ELSE pciback \cup Usb
      /\ UNCHANGED <<domConfig, sending, go, domStatus, usedBy, xen, disk, image, gcPass, agentFatal, stray>>
  BY Zenon DEF updateUsbAccess, diskVars, endVars
<1>2. /\ GoOnly(Nobody) /\ XenOnly(Nobody) /\ DiskOnly(Nobody) /\ ImageOnly(Nobody) /\ StrayOnly
      /\ StatusOnly(Nobody)
  BY Zenon, <1>1, Unchanged
<1>3. /\ domConfig \in [Dom -> {"none", "off", "on"}] /\ usbAccess \in BOOLEAN
      /\ gcPass = [snap |-> gcPass.snap, at |-> gcPass.at] /\ DOMAIN gcPass.snap \subseteq Dom
      /\ sending # Nobody => gcPass = NoGc
      /\ usedBy \in [Adapter -> Dom \cup {Nobody}] /\ pciback \subseteq Adapter
  BY Zenon DEF DomInv, Types, DomTypeOK
<1>4. CtlOnly(Nobody)
  BY Zenon, <1>1, <1>3 DEF CtlOnly
<1>5. Nobody \notin Dom /\ Usb \subseteq Adapter
  BY Zenon, DomAssumption
<1>6. IoOnly(Nobody)
  BY ZenonT(30), <1>1, <1>3, <1>5 DEF IoOnly
<1>7. QED
  BY ZenonT(30), <1>1, <1>2, <1>4, <1>5, <1>6, StepNoSet

-----------------------------------------------------------------------------
(* The first state, and the state after a reboot.                           *)

\* Nothing runs, and a preserved disk that is there is whole and may be removed.
Quiescent ==
  /\ domConfig \in [Dom -> {"none", "off", "on"}] /\ sending = Nobody
  /\ go = [d \in Dom |-> [AtRest EXCEPT !.pc = "none"]] /\ DOMAIN domStatus = {}
  /\ usedBy = [a \in Adapter |-> Nobody] /\ pciback \subseteq Adapter /\ usbAccess \in BOOLEAN
  /\ xen = [d \in Dom |-> "none"] /\ disk \in [Dom -> DiskT] /\ DOMAIN image \subseteq Dom
  /\ gcPass = NoGc /\ agentFatal = Nobody /\ stray \subseteq Dom
  /\ \A d \in Preserve \ stray :
       disk[d] # "partial" /\ (disk[d] # "none" => d \in DOMAIN image /\ ~image[d])

\* The invariant holds where nothing runs.
LEMMA QuiescentOK == Quiescent => DomInv
<1> SUFFICES ASSUME Quiescent
             PROVE  DomInv
  BY Zenon
<1>1. PICK g \in GoT : g = [AtRest EXCEPT !.pc = "none"] /\ g.pc = "none" /\ g.op = "none" /\ g.k = 0
  BY Zenon, NoneFacts
<1>2. \A d \in Dom : go[d] = g /\ xen[d] = "none" /\ d # Nobody /\ g.k \in 0..Len(IoAdapterList[d])
  <2>1. \A d \in Dom : go[d] = g /\ xen[d] = "none" /\ d # Nobody
    BY Zenon, <1>1, DomAssumption DEF Quiescent
  <2>2. \A d \in Dom : g.k \in 0..Len(IoAdapterList[d])
    BY SMTT(30), <1>1, MineFacts
  <2>3. QED
    BY Zenon, <2>1, <2>2
<1>3. NoGc = [snap |-> NoGc.snap, at |-> NoGc.at] /\ DOMAIN NoGc.snap = {} /\ NoGc.at = Nobody /\ "none" \in XenT
  BY DEF NoGc, XenT
<1>4. go \in [Dom -> GoT] /\ xen \in [Dom -> XenT] /\ usedBy \in [Adapter -> Dom \cup {Nobody}]
  BY Zenon, <1>1, <1>3 DEF Quiescent
<1>5. DomTypeOK
  <2>1. {sending, agentFatal, gcPass.at} \subseteq Dom \cup {Nobody}
    BY Zenon, <1>3 DEF Quiescent
  <2>2. \A d \in Dom : go[d].k \in 0..Len(IoAdapterList[d])
    BY Zenon, <1>2
  <2>3. DOMAIN domStatus \subseteq Dom
    BY Zenon DEF Quiescent
  <2>4. QED
    BY ZenonT(30), <1>4, <2>1, <2>2, <2>3 DEF DomTypeOK, Quiescent, XenT, DiskT
<1>6. Types
  <2>1. DOMAIN gcPass.snap \subseteq Dom /\ gcPass = [snap |-> gcPass.snap, at |-> gcPass.at]
    BY Zenon, <1>3 DEF Quiescent
  <2>2. QED
    BY Zenon, <1>4, <1>5, <2>1 DEF Types, Quiescent
<1>7. RaceOK
  BY Zenon, <1>1, <1>2 DEF RaceOK
<1>8. ASSUME NEW d \in Dom
      PROVE  DomainOK(d)
  <2>1. /\ go[d].pc = "none" /\ go[d].op = "none" /\ d \notin DOMAIN domStatus /\ agentFatal # d /\ xen[d] = "none"
        /\ gcPass.at # d /\ \A a \in Adapter : usedBy[a] # d
    BY ZenonT(30), <1>1, <1>2, <1>3 DEF Quiescent
  <2>2. PlaceOK(d)
    BY <2>1 DEF PlaceOK
  <2>3. PublishedOK(d) /\ StatusOK(d)
    BY ZenonT(30), <2>1 DEF PublishedOK, StatusOK
  <2>4. ReservedOK(d)
    BY <2>1 DEF ReservedOK
  <2>5. XenOK(d) /\ GcOK(d)
    BY Zenon, <2>1 DEF XenOK, GcOK
  <2>6. DiskOK(d)
    BY <2>1 DEF DiskOK, Quiescent
  <2>7. QED
    BY ZenonT(30), <2>2, <2>3, <2>4, <2>5, <2>6 DEF DomainOK
<1>9. QED
  BY ZenonT(30), <1>6, <1>7, <1>8 DEF DomInv

\* The invariant holds at the start.
LEMMA InitOK == DomInit => DomInv
<1>1. ASSUME DomInit
      PROVE  Quiescent
  <2>1. /\ domConfig \in [Dom -> {"none", "off", "on"}] /\ disk \in [Dom -> DiskT] /\ pciback \subseteq Adapter
        /\ \A d \in Dom : disk[d] = "none"
    BY <1>1 DEF DomInit, DiskT
  <2>2. DOMAIN domStatus = {} /\ DOMAIN image = {} /\ Preserve \subseteq Dom
    BY <1>1, DomAssumption DEF DomInit
  <2>3. QED
    BY ZenonT(30), <1>1, <2>1, <2>2 DEF DomInit, Quiescent
<1>2. QED
  BY Zenon, <1>1, QuiescentOK

\* A reboot.
LEMMA RebootQuiescent ==
  ASSUME DomInv, reboot
  PROVE  Quiescent'
<1>1. /\ domConfig' = [d \in Dom |-> "none"] /\ sending' = Nobody
      /\ go' = [d \in Dom |-> [AtRest EXCEPT !.pc = "none"]] /\ domStatus' = <<>>
      /\ usedBy' = [a \in Adapter |-> Nobody] /\ (pciback' = Adapter \ Usb \/ pciback' = Adapter)
      /\ xen' = [d \in Dom |-> "none"] /\ image' = populateInitialImageStatus
      /\ gcPass' = NoGc /\ agentFatal' = Nobody
      /\ stray' = {d \in Preserve : disk[d] = "partial"} /\ usbAccess' = usbAccess /\ disk' = disk
  BY Zenon DEF reboot
<1>2. usbAccess \in BOOLEAN /\ disk \in [Dom -> DiskT] /\ Preserve \subseteq Dom
  BY Zenon, DomAssumption DEF DomInv, Types, DomTypeOK, DiskT
<1>3. domConfig' \in [Dom -> {"none", "off", "on"}] /\ DOMAIN domStatus' = {} /\ pciback' \subseteq Adapter
  BY <1>1
<1>4. stray' \subseteq Dom
  BY <1>1, <1>2
<1>5. DOMAIN image' \subseteq Dom /\ \A d \in Dom : disk[d] # "none" => d \in DOMAIN image' /\ image'[d] = FALSE
  BY Zenon, <1>1 DEF populateInitialImageStatus
<1>6. \A d \in Preserve \ stray' :
        disk'[d] # "partial" /\ (disk'[d] # "none" => d \in DOMAIN image' /\ ~image'[d])
  BY ZenonT(30), <1>1, <1>2, <1>5
<1>7. QED
  BY Zenon, <1>1, <1>2, <1>3, <1>5 DEF Quiescent

-----------------------------------------------------------------------------
(* Every step, and the theorems.                                            *)

\* A step of a goroutine keeps the invariant.
LEMMA HandlerKept ==
  ASSUME DomInv, NEW d \in Dom, runHandler(d)
  PROVE  DomInv'
<1>1. CASE configAdaptersTest(d)
  BY Zenon, <1>1, RefusedKept, FoundKept
<1>2. CASE handleCreate(d) \/ handleModify(d) \/ configAdaptersSet(d) \/ handleCreateDisks(d) \/ handleCreateDone(d)
  BY ZenonT(30), <1>2, CreateKept, ModifyKept, SetKept, DisksKept, DoneKept
<1>3. CASE cpStart(d) \/ cpEnd(d) \/ doAssignIoAdaptersToDomain(d) \/ xlCreate(d) \/ xlCreateFails(d)
  BY ZenonT(30), <1>3, CpStartKept, CpEndKept, AssignKept, XlCreateKept, XlFailsKept
<1>4. CASE xlUnpause(d) \/ ticker(d) \/ handleDelete(d) \/ doInactivate(d)
  BY Zenon, <1>4, UnpauseKept, TickerKept, DeleteKept, InactivateKept
<1>5. CASE waitForDomainGone(d) \/ doInactivateEnd(d) \/ handleDeleteDone(d)
  BY Zenon, <1>5, GoneKept, InactivateEndKept, DeleteDoneKept
<1>6. QED
  BY Zenon, <1>1, <1>2, <1>3, <1>4, <1>5 DEF runHandler

\* A step that changes nothing keeps the invariant.
LEMMA StutterKept ==
  ASSUME DomInv, UNCHANGED domVars
  PROVE  DomInv'
<1>1. UNCHANGED <<domConfig, sending, go, domStatus, usedBy, pciback, usbAccess, xen, disk, image, gcPass, agentFatal, stray>>
  BY Zenon DEF domVars, cfgVars, ioVars, diskVars, endVars
<1>2. /\ GoOnly(Nobody) /\ XenOnly(Nobody) /\ DiskOnly(Nobody) /\ ImageOnly(Nobody) /\ StrayOnly
      /\ StatusOnly(Nobody) /\ IoOnly(Nobody) /\ CtlOnly(Nobody)
  BY Zenon, <1>1, Unchanged
<1>3. Nobody \notin Dom
  BY Zenon, DomAssumption
<1>4. QED
  BY Zenon, <1>1, <1>2, <1>3, StepNoSet

\* The invariant always holds.
THEOREM DomInvariant == DomSpec => []DomInv
<1>1. ASSUME DomInv, DomNext, ~reboot
      PROVE  DomInv'
  <2>1. CASE \E d \in Dom : \/ runHandler(d) \/ handleDomainModify(d) \/ handleDomainDelete(d)
                            \/ gcCheck(d) \/ crash(d) \/ comeBack(d)
    BY ZenonT(30), <1>1, <2>1, HandlerKept, ConfigKept, UnconfigKept, GcCheckKept, CrashKept
  <2>2. CASE updateUsbAccess \/ gcStart \/ gcRemove
    BY Zenon, <1>1, <2>2, UsbKept, GcStartKept, GcRemoveKept
  <2>3. QED
    BY Zenon, <1>1, <2>1, <2>2 DEF DomNext
<1>2. DomInv /\ reboot => Quiescent'
  BY Zenon, RebootQuiescent
<1>3. DomInv /\ UNCHANGED domVars => DomInv'
  BY Zenon, StutterKept
<1>4. DomInv /\ DomNext /\ ~reboot => DomInv'
  BY Zenon, <1>1
<1>5. QED
  BY InitOK, QuiescentOK, <1>2, <1>3, <1>4, PTL DEF DomSpec

\* The disk of a domain in Xen is whole: cp, gcObjects and doInactivate of domainmgr do not
\* meet a domain that runs from it.
THEOREM DisksWhole == DomSpec => []DiskWhole
<1>1. DomInv => DiskWhole
  BY Zenon DEF DomInv, DomainOK, XenOK, DiskWhole, Regular, Alive
<1>2. QED
  BY <1>1, DomInvariant, PTL

\* The adapters of a domain in Xen are reserved for it and with pciback.
THEOREM AdaptersAlwaysHeld == DomSpec => []AdaptersHeld
<1>1. DomInv => AdaptersHeld
  BY Zenon DEF DomInv, DomainOK, XenOK, AdaptersHeld, Regular, Alive
<1>2. QED
  BY <1>1, DomInvariant, PTL

\* No adapter stays reserved for a domain without a status.
THEOREM AdaptersAlwaysFreed == DomSpec => []AdaptersFreed
<1>1. DomInv => AdaptersFreed
  <2> SUFFICES ASSUME DomInv, NEW a \in Adapter, usedBy[a] # Nobody
               PROVE  usedBy[a] \in DOMAIN domStatus
    BY Zenon DEF AdaptersFreed
  <2>1. usedBy[a] \in Dom
    BY DEF DomInv, Types, DomTypeOK
  <2>2. QED
    BY Zenon, <2>1 DEF DomInv, DomainOK, ReservedOK
<1>2. QED
  BY <1>1, DomInvariant, PTL

\* domainmgr ends with log.Fatal only for an adapter of type IoUSB, or for a domain whose
\* handleCreate failed before it reserved the adapters (doAssignIoAdaptersToDomain).
THEOREM FatalOnlyForUsb == DomSpec => []StolenOnlyUsb
<1>1. DomInv => StolenOnlyUsb
  <2> SUFFICES ASSUME DomInv, agentFatal \in Regular, go[agentFatal].st.io
               PROVE  \A a \in Mine(agentFatal) \ Usb : usedBy[a] = agentFatal
    BY Zenon DEF StolenOnlyUsb
  <2>1. PICK d \in Dom : d = agentFatal /\ d \notin stray
    BY Zenon DEF Regular
  <2>2. go[d].pc = "assign" /\ d \in DOMAIN domStatus
    BY Zenon, <2>1, Here DEF PlaceOK
  <2>3. Cur(d).io
    BY <2>1, <2>2 DEF Cur
  <2>4. \A a \in Mine(d) \ Usb : usedBy[a] = d
    BY Zenon, <2>1, <2>2, <2>3, Here DEF ReservedOK
  <2>5. QED
    BY Zenon, <2>1, <2>4
<1>2. QED
  BY <1>1, DomInvariant, PTL

\* A domain without a goroutine is not in Xen, and its preserved disk may be removed.
THEOREM NothingStays == DomSpec => []NothingLeft
<1>1. DomInv => NothingLeft
  <2> SUFFICES ASSUME DomInv, NEW d \in Regular, go[d].pc = "none"
               PROVE  /\ xen[d] = "none"
                      /\ d \in Preserve /\ disk[d] # "none" => d \in DOMAIN image /\ ~image[d]
    BY Zenon DEF NothingLeft
  <2>1. d \in Dom /\ d \notin stray
    BY Zenon DEF Regular
  <2>2. d \notin DOMAIN domStatus
    BY Zenon, <2>1, Here DEF PlaceOK
  <2>3. xen[d] = "none"
    BY Zenon, <2>1, <2>2, Here DEF XenOK
  <2>4. d \in Preserve /\ disk[d] # "none" => d \in DOMAIN image /\ ~image[d]
    BY Zenon, <2>1, <2>2, Here DEF DiskOK
  <2>5. QED
    BY Zenon, <2>3, <2>4
<1>2. QED
  BY <1>1, DomInvariant, PTL

\* A goroutine that waits has published the end of what it did.
THEOREM SettledWhenWaiting == DomSpec => []SettledAtSelect
<1>1. DomInv => SettledAtSelect
  <2> SUFFICES ASSUME DomInv, NEW d \in DOMAIN domStatus, go[d].pc = "select"
               PROVE  ~domStatus[d].pending /\ (domStatus[d].state = "HALTING" => domStatus[d].err)
    BY Zenon DEF SettledAtSelect
  <2>1. d \in Dom /\ Cur(d) = domStatus[d]
    BY Zenon DEF DomInv, Types, DomTypeOK, Cur
  <2>2. QED
    BY Zenon, <2>1, Here DEF StatusOK
<1>2. QED
  BY <1>1, DomInvariant, PTL

\* The values of the variables; configAdapters stays within the list of adapters.
THEOREM DomTypes == DomSpec => []DomTypeOK
<1>1. DomInv => DomTypeOK
  BY Zenon DEF DomInv, Types
<1>2. QED
  BY <1>1, DomInvariant, PTL
=============================================================================
