---------------------------- MODULE BaseOsProofs ----------------------------
(***************************************************************************)
(* Proofs about the updates of the base OS (BaseOs), for any versions, any *)
(* wishes of the controller and any number of changes and power failures.  *)
(***************************************************************************)
EXTENDS BaseOs, TLAPS

PartT == [state : {"active", "inprogress", "unused", "updating"}, version : Version \cup {Torn}]

StatusT ==
  [label : Part \cup {NoPart}, st : {"INITIAL", "DOWNLOAD_STARTED", "DOWNLOADED", "DELIVERED", "INSTALLED"},
   activated : BOOLEAN, tooEarly : BOOLEAN, testComplete : BOOLEAN, reboot : BOOLEAN]

MgrT ==
  [pc : {"idle", "dd", "writing", "installed", "marked", "retry"}, os : Version \cup {NoPart},
   st : StatusT \cup {<<>>}, old : StatusT \cup {<<>>}, base : Version \cup {NoPart}, todo : SUBSET Version]

Installing == mgr.pc \in {"dd", "writing", "installed"}

-----------------------------------------------------------------------------
(* The inductive invariant.                                                *)

Types ==
  /\ gpt \in [Part -> PartT] /\ zbootStatus \in [Part -> PartT]
  /\ curPart \in Part /\ bricked \in BOOLEAN
  /\ DOMAIN mgrConfig \subseteq Version /\ osStatus \in [DOMAIN mgrConfig -> StatusT]
  /\ cloudOs.of \subseteq Version /\ DOMAIN osConfig \subseteq Version
  /\ answer # NoAnswer => answer.os \in Version
  /\ mgr \in MgrT /\ (mgr.pc = "idle" => mgr.base = NoPart /\ mgr.todo = {})

\* The partitions of a device that runs: the one that runs is whole, the other holds another
\* version, and is tried only when the one that runs has passed its test.
PartsOK ==
  ~bricked =>
    /\ gpt[curPart].state \in {"active", "inprogress"} /\ gpt[curPart].version # Torn
    /\ gpt[OtherPart].version # gpt[curPart].version
    /\ gpt[OtherPart].state = "updating" => gpt[curPart].state = "active"
    /\ gpt[OtherPart].state = "updating" /\ mgr.pc \notin {"dd", "writing"} => gpt[OtherPart].version # Torn

\* What the status s of version v says of a partition holds of it.
StatusOK(v, s) ==
  /\ s.label = curPart => v = gpt[curPart].version
  /\ s.activated => s.label = curPart
  /\ s.st = "INSTALLED" => s.label # NoPart
  /\ s.st = "INSTALLED" /\ s.label = OtherPart /\ mgr.pc # "writing" => gpt[OtherPart].version # Torn
  /\ s.testComplete => v = mgr.base

StatusesOK == ~bricked => \A v \in DOMAIN osStatus : StatusOK(v, osStatus[v])

\* baseosmgr in the middle of an installation ...
InstallOK ==
  ~bricked /\ Installing =>
    /\ mgr.os \in DOMAIN osStatus /\ mgr.os # gpt[curPart].version
    /\ mgr.st \in StatusT /\ mgr.st.label = OtherPart /\ ~mgr.st.activated /\ ~mgr.st.testComplete
    /\ gpt[OtherPart].state = "updating"
    /\ mgr.pc = "installed" => /\ gpt[OtherPart].version # Torn
                               /\ "stale" \notin osHistory => gpt[OtherPart].version = mgr.os

\* ... and of the end of a test.
TestOK ==
  ~bricked =>
    /\ mgr.pc \in {"marked", "retry"} => mgr.base # NoPart
    /\ mgr.base # NoPart =>
         /\ mgr.base \in DOMAIN osStatus /\ mgr.base = gpt[curPart].version
         /\ mgr.old \in StatusT /\ mgr.old.label = curPart /\ ~mgr.old.testComplete
    /\ mgr.pc = "marked" => gpt[curPart].state = "active"
    /\ mgr.todo \subseteq DOMAIN osStatus

\* What is published of the partitions
PublishedOK ==
  ~bricked =>
    /\ mgr.pc \in {"idle", "retry", "dd", "installed"} => zbootStatus = gpt
    /\ mgr.pc = "writing" => zbootStatus[curPart] = gpt[curPart]

\* The reboot into the other partition has been asked for by the version in it.
AskedOK ==
  ~bricked /\ ~Installing /\ gpt[OtherPart].state = "updating" /\ "stale" \notin osHistory =>
    \E v \in DOMAIN osStatus :
      gpt[OtherPart].version = v /\ osStatus[v].label = OtherPart /\ osStatus[v].reboot

BosInv ==
  /\ Types /\ PartsOK /\ StatusesOK /\ InstallOK /\ TestOK /\ PublishedOK /\ AskedOK
  /\ AlwaysBoots /\ FallbackKept /\ OneActive

-----------------------------------------------------------------------------
(* What the handlers compute.                                              *)

\* The two partitions are different ones.
LEMMA Partitions ==
  ASSUME curPart \in Part
  PROVE  OtherPart \in Part /\ OtherPart # curPart /\ Part = {curPart, OtherPart} /\ NoPart \notin Part
BY Zenon DEF OtherPart, Other, Part, NoPart

\* What doBaseOsStatusUpdate makes of a status: a version is placed in the other partition once,
\* and installed only while the version that runs has passed its test.
LEMMA UpdatedFacts ==
  ASSUME curPart \in Part,
         NEW v, NEW c, NEW s0 \in StatusT, NEW zb \in [Part -> PartT], NEW verified,
         NEW u, u = Updated(v, c, s0, zb, zb, verified)
  PROVE  /\ u.s \in StatusT /\ u.s.testComplete = s0.testComplete /\ u.s.reboot = s0.reboot
         /\ v = zb[curPart].version => u.s.label = curPart /\ ~u.go
         /\ v # zb[curPart].version =>
              /\ u.s.label = s0.label \/ (s0.label = NoPart /\ u.s.label = OtherPart)
              /\ u.s.st = "INSTALLED" => s0.st = "INSTALLED"
         /\ u.s.activated => u.s.label = curPart
         /\ u.go => /\ u.s.label = OtherPart /\ ~u.s.activated
                    /\ zb[curPart].state # "inprogress" /\ zb[OtherPart].state # "active"
<1> DEFINE placed  == ActivationStatus(s0, zb)
           found   == IF placed.label = NoPart /\ v = zb[OtherPart].version
                      THEN [SetPartitionInfo(placed, OtherPart) EXCEPT !.st = "DOWNLOADED", !.activated = FALSE]
                      ELSE placed
           given   == IF c.activate /\ found.label = NoPart THEN SetPartitionInfo(found, OtherPart) ELSE found
           fetched == Fetched(v, given, verified)
<1>0. OtherPart \in Part /\ OtherPart # curPart /\ NoPart \notin Part
  BY Zenon, Partitions
<1>1. /\ placed \in StatusT
      /\ placed.label = s0.label /\ placed.st = s0.st
      /\ placed.testComplete = s0.testComplete /\ placed.reboot = s0.reboot
      /\ placed.activated => placed.label = curPart
  BY Zenon DEF ActivationStatus, StatusT
<1> HIDE DEF placed
<1>2. /\ found \in StatusT
      /\ found.label = s0.label \/ (s0.label = NoPart /\ found.label = OtherPart)
      /\ found.st = "INSTALLED" => s0.st = "INSTALLED"
      /\ found.testComplete = s0.testComplete /\ found.reboot = s0.reboot
      /\ found.activated => found.label = curPart
  BY <1>0, <1>1 DEF SetPartitionInfo, StatusT
<1> HIDE DEF found
<1>3. /\ given \in StatusT
      /\ given.label = s0.label \/ (s0.label = NoPart /\ given.label = OtherPart)
      /\ given.st = found.st
      /\ given.testComplete = s0.testComplete /\ given.reboot = s0.reboot
      /\ given.activated => given.label = curPart
  BY Zenon, <1>0, <1>2 DEF SetPartitionInfo, StatusT
<1> HIDE DEF given
<1>4. /\ fetched \in StatusT
      /\ fetched.label = given.label /\ fetched.activated = given.activated
      /\ fetched.st = "INSTALLED" => given.st = "INSTALLED"
      /\ fetched.testComplete = s0.testComplete /\ fetched.reboot = s0.reboot
  BY Zenon, <1>3 DEF Fetched, StatusT
<1> HIDE DEF fetched
<1>5. CASE v = zb[curPart].version
  <2> DEFINE r == [SetPartitionInfo(placed, curPart) EXCEPT !.st = "INSTALLED", !.activated = TRUE]
  <2>1. u = [s |-> r, go |-> FALSE]
    BY Zenon, <1>5 DEF Updated, placed
  <2>2. r \in StatusT /\ r.label = curPart /\ r.testComplete = s0.testComplete /\ r.reboot = s0.reboot
    BY Zenon, <1>1 DEF SetPartitionInfo, StatusT
  <2> HIDE DEF r
  <2>3. u.s = r /\ u.go = FALSE
    BY <2>1
  <2> QED
    BY Zenon, <1>5, <2>2, <2>3
<1>6. CASE v # zb[curPart].version /\ FailedBefore(v, zb)
  <2>1. u = [s |-> found, go |-> FALSE]
    BY Zenon, <1>6 DEF Updated, placed, found
  <2> QED
    BY <1>2, <1>6, <2>1
<1>7. CASE v # zb[curPart].version /\ ~FailedBefore(v, zb) /\ TooEarly(zb)
  <2> DEFINE r == [found EXCEPT !.tooEarly = TRUE]
  <2>1. u = [s |-> r, go |-> FALSE]
    BY Zenon, <1>7 DEF Updated, placed, found
  <2>2. /\ r \in StatusT /\ r.label = found.label /\ r.st = found.st /\ r.activated = found.activated
        /\ r.testComplete = found.testComplete /\ r.reboot = found.reboot
    BY Zenon, <1>2 DEF StatusT
  <2> HIDE DEF r
  <2>3. u.s = r /\ u.go = FALSE
    BY <2>1
  <2> QED
    BY Zenon, <1>2, <1>7, <2>2, <2>3
<1>8. CASE v # zb[curPart].version /\ ~FailedBefore(v, zb) /\ ~TooEarly(zb)
  <2> DEFINE go == /\ fetched.st \in {"DELIVERED", "INSTALLED"}
                   /\ c.activate /\ ~fetched.activated /\ fetched.label = OtherPart
  <2>1. u = [s |-> fetched, go |-> go]
    BY <1>8, Zenon DEF Updated, placed, found, given, fetched
  <2>2. u.s = fetched /\ (u.go => fetched.label = OtherPart /\ ~fetched.activated)
    BY <2>1
  <2> QED
    BY Zenon, <1>2, <1>3, <1>4, <1>8, <2>2 DEF TooEarly
<1> QED
  BY Zenon, <1>5, <1>6, <1>7, <1>8

-----------------------------------------------------------------------------
(* The steps.                                                              *)

\* baseOsHandleStatusUpdate preserves the invariant, in whatever handler it is called.
LEMMA StatusUpdateStep ==
  ASSUME BosInv, ~bricked, mgr.pc \in {"idle", "retry"},
         NEW v \in Version, NEW s0 \in StatusT, StatusOK(v, s0),
         v \in DOMAIN osStatus => s0.label = osStatus[v].label /\ s0.reboot = osStatus[v].reboot,
         NEW m \in MgrT, NEW verified,
         m.base # NoPart => m.old = mgr.old, m.base = mgr.base, m.todo \subseteq mgr.todo,
         DOMAIN mgrConfig' = DOMAIN mgrConfig \cup {v},
         StatusUpdate(v, s0, zbootStatus, gpt, verified, m),
         UNCHANGED <<curPart, bricked, cloudOs, osConfig, answer>>
  PROVE  BosInv'
<1> DEFINE u == Updated(v, mgrConfig'[v], s0, gpt, gpt, verified)
<1>1. /\ gpt \in [Part -> PartT] /\ curPart \in Part /\ zbootStatus = gpt
      /\ OtherPart \in Part /\ OtherPart # curPart /\ Part = {curPart, OtherPart} /\ NoPart \notin Part
      /\ OtherPart' = OtherPart
      /\ DOMAIN osStatus = DOMAIN mgrConfig /\ DOMAIN osStatus \subseteq Version /\ NoPart \notin Version
  BY Zenon, Partitions, BaseOsAssumption DEF BosInv, Types, PublishedOK, OtherPart
<1>2. /\ u.s \in StatusT /\ u.s.testComplete = s0.testComplete /\ u.s.reboot = s0.reboot
      /\ v = gpt[curPart].version => u.s.label = curPart /\ ~u.go
      /\ v # gpt[curPart].version =>
           /\ u.s.label = s0.label \/ (s0.label = NoPart /\ u.s.label = OtherPart)
           /\ u.s.st = "INSTALLED" => s0.st = "INSTALLED"
      /\ u.s.activated => u.s.label = curPart
      /\ u.go => /\ u.s.label = OtherPart /\ ~u.s.activated
                 /\ gpt[curPart].state # "inprogress" /\ gpt[OtherPart].state # "active"
  BY <1>1, UpdatedFacts
<1>3. /\ osStatus' = [w \in DOMAIN osStatus \cup {v} |-> IF w = v THEN u.s ELSE osStatus[w]]
      /\ IF u.go
         THEN /\ gpt' = [gpt EXCEPT ![OtherPart].state = "updating"]
              /\ zbootStatus' = [gpt EXCEPT ![OtherPart] = gpt'[OtherPart]]
              /\ mgr' = [m EXCEPT !.pc = IF u.s.st = "INSTALLED" THEN "installed" ELSE "dd",
                                  !.os = v, !.st = u.s]
              /\ osHistory' = IF u.s.st = "INSTALLED" /\ gpt[OtherPart].version # v
                              THEN osHistory \cup {"stale"} ELSE osHistory
         ELSE /\ gpt' = gpt /\ zbootStatus' = gpt /\ osHistory' = osHistory
              /\ mgr' = IF m.base = NoPart THEN Resting ELSE [m EXCEPT !.pc = "retry", !.os = NoPart, !.st = <<>>]
  <2>1. Updated(v, mgrConfig'[v], s0, zbootStatus, gpt, verified) = u
    BY Zenon, <1>1
  <2> HIDE DEF u
  <2>2. osStatus' = publishBaseOsStatus(v, u.s)
    BY Zenon, <2>1 DEF StatusUpdate
  <2>3. u.go => /\ gpt' = [gpt EXCEPT ![OtherPart].state = "updating"]
                /\ zbootStatus' = [zbootStatus EXCEPT ![OtherPart] = gpt'[OtherPart]]
                /\ mgr' = [m EXCEPT !.pc = IF u.s.st = "INSTALLED" THEN "installed" ELSE "dd",
                                    !.os = v, !.st = u.s]
                /\ osHistory' = IF u.s.st = "INSTALLED" /\ gpt[OtherPart].version # v
                                THEN osHistory \cup {"stale"} ELSE osHistory
    BY <2>1, Zenon DEF StatusUpdate
  <2>4. ~u.go => /\ gpt' = gpt /\ zbootStatus' = zbootStatus /\ osHistory' = osHistory
                 /\ mgr' = IF m.base = NoPart THEN Resting ELSE [m EXCEPT !.pc = "retry", !.os = NoPart, !.st = <<>>]
    BY <2>1, Zenon DEF StatusUpdate
  <2>5. osStatus' = [w \in DOMAIN osStatus \cup {v} |-> IF w = v THEN u.s ELSE osStatus[w]]
    BY Zenon, <2>2 DEF publishBaseOsStatus, Put
  <2> QED
    BY <1>1, <2>3, <2>4, <2>5, Zenon
<1> HIDE DEF u
<1>4. /\ osStatus' \in [DOMAIN mgrConfig' -> StatusT]
      /\ DOMAIN osStatus' = DOMAIN osStatus \cup {v} /\ DOMAIN mgrConfig' \subseteq Version
  BY Zenon, <1>1, <1>2, <1>3 DEF BosInv, Types
<1>5. /\ mgr.pc = "retry" => mgr.base # NoPart
      /\ mgr.pc = "idle" => mgr.base = NoPart /\ mgr.todo = {}
  BY Zenon DEF BosInv, Types, TestOK
<1>6. CASE u.go
  <2>1. /\ gpt' \in [Part -> PartT] /\ gpt'[curPart] = gpt[curPart] /\ zbootStatus' = gpt'
        /\ gpt'[OtherPart].state = "updating" /\ gpt'[OtherPart].version = gpt[OtherPart].version
    <3>1. gpt' = [gpt EXCEPT ![OtherPart].state = "updating"] /\ zbootStatus' = [gpt EXCEPT ![OtherPart] = gpt'[OtherPart]]
      BY Zenon, <1>3, <1>6
    <3>2. /\ gpt' \in [Part -> PartT] /\ gpt'[curPart] = gpt[curPart]
          /\ gpt'[OtherPart].state = "updating" /\ gpt'[OtherPart].version = gpt[OtherPart].version
      BY Zenon, <1>1, <3>1 DEF PartT
    <3> QED
      BY Zenon, <1>1, <3>1, <3>2
  <2>2. /\ mgr' \in MgrT /\ mgr'.pc = (IF u.s.st = "INSTALLED" THEN "installed" ELSE "dd")
        /\ mgr'.os = v /\ mgr'.st = u.s
        /\ mgr'.base = mgr.base /\ mgr'.todo \subseteq mgr.todo
        /\ mgr'.base # NoPart => mgr'.old = mgr.old
    <3>1. mgr' = [m EXCEPT !.pc = IF u.s.st = "INSTALLED" THEN "installed" ELSE "dd", !.os = v, !.st = u.s]
      BY Zenon, <1>3, <1>6
    <3> QED
      BY Zenon, <1>2, <3>1 DEF MgrT
  <2>3. v # gpt[curPart].version /\ ~u.s.testComplete
    BY Zenon, <1>1, <1>2, <1>6 DEF BosInv, TestOK, StatusOK
  <2>4. Types'
    BY Zenon, <1>1, <1>4, <2>1, <2>2 DEF BosInv, Types
  <2>5. PartsOK'
    BY <1>1, <1>2, <1>6, <2>1, <2>2 DEF BosInv, PartsOK, StatusOK
  <2>6. StatusesOK'
    BY <1>1, <1>2, <1>3, <1>6, <2>1, <2>2, <2>3 DEF BosInv, StatusesOK, StatusOK
  <2>7. InstallOK'
    BY <1>1, <1>2, <1>3, <1>4, <1>6, <2>1, <2>2, <2>3 DEF BosInv, InstallOK, Installing, StatusOK
  <2>8. TestOK'
    BY Zenon, <1>1, <1>4, <2>1, <2>2 DEF BosInv, TestOK
  <2>9. PublishedOK' /\ AskedOK'
    BY Zenon, <2>1, <2>2 DEF PublishedOK, AskedOK, Installing
  <2>10. AlwaysBoots' /\ FallbackKept' /\ OneActive'
    BY Zenon, <1>1, <1>2, <1>3, <1>6, <2>1, <2>2 DEF BosInv, AlwaysBoots, FallbackKept, OneActive
  <2> QED
    BY Zenon, <2>4, <2>5, <2>6, <2>7, <2>8, <2>9, <2>10 DEF BosInv
<1>7. CASE ~u.go
  <2>1. gpt' = gpt /\ zbootStatus' = gpt /\ osHistory' = osHistory
    BY Zenon, <1>3, <1>7
  <2>2. /\ mgr' \in MgrT /\ mgr'.pc = mgr.pc /\ mgr'.base = mgr.base /\ mgr'.todo \subseteq mgr.todo
        /\ mgr'.base # NoPart => mgr'.old = mgr.old
    <3>1. mgr' = IF m.base = NoPart THEN Resting ELSE [m EXCEPT !.pc = "retry", !.os = NoPart, !.st = <<>>]
      BY Zenon, <1>3, <1>7
    <3>2. CASE m.base = NoPart
      BY Zenon, <1>5, <3>1, <3>2 DEF Resting, MgrT
    <3>3. CASE m.base # NoPart
      BY Zenon, <1>5, <3>1, <3>3 DEF MgrT
    <3> QED
      BY Zenon, <3>2, <3>3
  <2>4. Types'
    BY Zenon, <1>1, <1>4, <2>1, <2>2 DEF BosInv, Types
  <2>5. PartsOK'
    BY Zenon, <1>1, <2>1, <2>2 DEF BosInv, PartsOK
  <2>6. StatusesOK'
    BY <1>1, <1>2, <1>3, <2>1, <2>2 DEF BosInv, StatusesOK, StatusOK
  <2>7. InstallOK' /\ PublishedOK'
    BY Zenon, <2>1, <2>2 DEF InstallOK, PublishedOK, Installing
  <2>8. TestOK'
    BY Zenon, <1>1, <1>4, <2>1, <2>2 DEF BosInv, TestOK
  <2>9. AskedOK'
    <3> SUFFICES ASSUME gpt[OtherPart].state = "updating", "stale" \notin osHistory
                 PROVE  \E w \in DOMAIN osStatus' : /\ gpt[OtherPart].version = w
                                                   /\ osStatus'[w].label = OtherPart /\ osStatus'[w].reboot
      BY Zenon, <1>1, <2>1 DEF AskedOK
    <3>1. PICK w \in DOMAIN osStatus : /\ gpt[OtherPart].version = w
                                       /\ osStatus[w].label = OtherPart /\ osStatus[w].reboot
      BY Zenon DEF BosInv, AskedOK, Installing
    <3>2. w # gpt[curPart].version
      BY Zenon, <3>1 DEF BosInv, PartsOK
    <3>3. osStatus'[w].label = OtherPart /\ osStatus'[w].reboot
      BY <1>1, <1>2, <1>3, <3>1, <3>2
    <3> QED
      BY Zenon, <1>4, <3>1, <3>3
  <2>10. AlwaysBoots' /\ FallbackKept' /\ OneActive'
    BY Zenon, <1>1, <2>1, <2>2 DEF BosInv, AlwaysBoots, FallbackKept, OneActive
  <2> QED
    BY Zenon, <2>4, <2>5, <2>6, <2>7, <2>8, <2>9, <2>10 DEF BosInv
<1> QED
  BY Zenon, <1>6, <1>7

\* A step of zedagent or of the controller leaves the partitions and baseosmgr alone.
LEMMA AgentStep ==
  ASSUME BosInv, UNCHANGED <<partVars, mgrVars, osHistory>>,
         cloudOs'.of \subseteq Version, DOMAIN osConfig' \subseteq Version,
         answer' # NoAnswer => answer'.os \in Version
  PROVE  BosInv'
<1> USE DEF partVars, mgrVars, OtherPart
<1>1. Types'
  BY Zenon DEF BosInv, Types
<1>2. PartsOK' /\ TestOK' /\ PublishedOK' /\ InstallOK'
  BY Zenon DEF BosInv, PartsOK, TestOK, PublishedOK, InstallOK, Installing
<1>3. StatusesOK'
  BY Zenon DEF BosInv, StatusesOK, StatusOK
<1>4. AskedOK'
  BY Zenon DEF BosInv, AskedOK, Installing
<1>5. AlwaysBoots' /\ FallbackKept' /\ OneActive'
  BY Zenon DEF BosInv, AlwaysBoots, FallbackKept, OneActive
<1> QED
  BY Zenon, <1>1, <1>2, <1>3, <1>4, <1>5 DEF BosInv

\* The facts about the partitions that every step starts from.
LEMMA Start ==
  ASSUME BosInv
  PROVE  /\ gpt \in [Part -> PartT] /\ zbootStatus \in [Part -> PartT] /\ curPart \in Part
         /\ OtherPart \in Part /\ OtherPart # curPart /\ Part = {curPart, OtherPart} /\ NoPart \notin Part
         /\ NoPart \notin Version /\ Torn \notin Version
         /\ mgr \in MgrT /\ osStatus \in [DOMAIN mgrConfig -> StatusT] /\ DOMAIN mgrConfig \subseteq Version
BY Zenon, Partitions, BaseOsAssumption DEF BosInv, Types

\* handleBaseOsConfigModify: a new or changed configuration of version v.
LEMMA ConfigModifyStep ==
  ASSUME BosInv, NEW v \in Version, handleBaseOsConfigModify(v)
  PROVE  BosInv'
<1>1. PICK s : s = IF v \in DOMAIN osStatus THEN osStatus[v] ELSE NewOsStatus
  BY Zenon
<1>2. /\ ~bricked /\ mgr.pc = "idle" /\ mgr.base = NoPart /\ mgr.todo = {}
      /\ DOMAIN mgrConfig' = DOMAIN mgrConfig \cup {v}
      /\ UNCHANGED <<curPart, bricked, cloudOs, osConfig, answer>>
  BY Zenon DEF handleBaseOsConfigModify, MgrIdle, GivenConfig, Put, BosInv, Types, cloudVars, agentVars
<1>3. s \in StatusT /\ StatusOK(v, s)
  <2>1. CASE v \in DOMAIN osStatus
    BY Zenon, <1>1, <1>2, <2>1, Start DEF BosInv, StatusesOK
  <2>2. CASE v \notin DOMAIN osStatus
    BY Zenon, <1>1, <2>2, Start DEF NewOsStatus, StatusT, StatusOK
  <2> QED
    BY Zenon, <2>1, <2>2
<1>4. CASE StatusUpdate(v, s, zbootStatus, gpt, verifiedOs, Resting)
  <2>1. Resting \in MgrT /\ Resting.base = NoPart /\ Resting.todo = {}
    BY Zenon DEF Resting, MgrT
  <2> QED
    BY Zenon, <1>1, <1>2, <1>3, <1>4, <2>1, StatusUpdateStep
<1>5. CASE osStatus' = publishBaseOsStatus(v, s) /\ UNCHANGED <<gpt, zbootStatus, mgr, osHistory>>
  <2>1. osStatus' = [w \in DOMAIN osStatus \cup {v} |-> IF w = v THEN s ELSE osStatus[w]]
    BY Zenon, <1>5 DEF publishBaseOsStatus, Put
  <2>2. OtherPart' = OtherPart /\ DOMAIN osStatus' = DOMAIN osStatus \cup {v}
    BY Zenon, <1>2, <2>1 DEF OtherPart
  <2>3. Types'
    BY <1>2, <1>3, <1>5, <2>1, Start DEF BosInv, Types
  <2>4. PartsOK' /\ PublishedOK' /\ InstallOK' /\ TestOK'
    BY Zenon, <1>2, <1>5, <2>2 DEF BosInv, PartsOK, PublishedOK, InstallOK, Installing, TestOK
  <2>5. StatusesOK'
    BY <1>2, <1>3, <1>5, <2>1, <2>2 DEF BosInv, StatusesOK, StatusOK
  <2>6. AskedOK'
    BY <1>1, <1>2, <1>5, <2>1, <2>2 DEF BosInv, AskedOK, Installing
  <2>7. AlwaysBoots' /\ FallbackKept' /\ OneActive'
    BY Zenon, <1>2, <1>5, <2>2 DEF BosInv, AlwaysBoots, FallbackKept, OneActive
  <2> QED
    BY Zenon, <2>3, <2>4, <2>5, <2>6, <2>7 DEF BosInv
<1> QED
  BY <1>1, <1>4, <1>5, Zenon DEF handleBaseOsConfigModify

\* An answer of the downloader or the verifier.
LEMMA VerifierStep ==
  ASSUME BosInv, NEW v \in Version, handleVerifierStatusModify(v)
  PROVE  BosInv'
<1>1. /\ ~bricked /\ mgr.pc = "idle" /\ mgr.base = NoPart /\ mgr.todo = {}
      /\ v \in DOMAIN osStatus /\ DOMAIN mgrConfig' = DOMAIN mgrConfig \cup {v}
      /\ UNCHANGED <<curPart, bricked, cloudOs, osConfig, answer>>
      /\ StatusUpdate(v, osStatus[v], zbootStatus, gpt, verifiedOs', Resting)
  BY Zenon DEF handleVerifierStatusModify, MgrIdle, BosInv, Types, cloudVars, agentVars
<1>2. osStatus[v] \in StatusT /\ StatusOK(v, osStatus[v])
  BY Zenon, <1>1, Start DEF BosInv, StatusesOK
<1>3. Resting \in MgrT /\ Resting.base = NoPart /\ Resting.todo = {}
  BY DEF Resting, MgrT
<1> QED
  BY Zenon, <1>1, <1>2, <1>3, StatusUpdateStep

\* baseOsHandleStatusUpdate for the next status after a partition became free.
LEMMA RetryStep ==
  ASSUME BosInv, NEW w \in Version, maybeRetryInstall(w)
  PROVE  BosInv'
<1> DEFINE s == [osStatus[w] EXCEPT !.tooEarly = FALSE]
           m == [mgr EXCEPT !.todo = mgr.todo \ {w}]
<1>1. /\ ~bricked /\ mgr.pc = "retry" /\ w \in mgr.todo /\ mgrConfig' = mgrConfig
      /\ UNCHANGED <<curPart, bricked, cloudOs, osConfig, answer>>
      /\ StatusUpdate(w, s, zbootStatus, gpt, verifiedOs, m)
  BY Zenon DEF maybeRetryInstall, cloudVars, agentVars
<1>2. w \in DOMAIN osStatus /\ DOMAIN mgrConfig' = DOMAIN mgrConfig \cup {w}
  BY Zenon, <1>1, Start DEF BosInv, TestOK
<1>3. /\ s \in StatusT /\ s.label = osStatus[w].label /\ s.reboot = osStatus[w].reboot
      /\ s.st = osStatus[w].st /\ s.activated = osStatus[w].activated /\ s.testComplete = osStatus[w].testComplete
  BY <1>2, Start DEF StatusT
<1>4. StatusOK(w, s)
  BY Zenon, <1>1, <1>2, <1>3 DEF BosInv, StatusesOK, StatusOK
<1>5. m \in MgrT /\ m.old = mgr.old /\ m.base = mgr.base /\ m.todo \subseteq mgr.todo
  BY Zenon, Start DEF MgrT
<1> HIDE DEF s, m
<1> QED
  BY Zenon, <1>1, <1>2, <1>3, <1>4, <1>5, StatusUpdateStep

\* The controller says that the test is complete: the first of two writes to the partition table.
LEMMA TestCompleteStep ==
  ASSUME BosInv, NEW v \in Version, handleBaseOsTestComplete(v)
  PROVE  BosInv'
<1>1. /\ ~bricked /\ mgr.pc = "idle" /\ v \in DOMAIN osStatus /\ osStatus[v].activated
      /\ DOMAIN mgrConfig' = DOMAIN mgrConfig \cup {v} /\ osStatus' = osStatus
      /\ UNCHANGED <<curPart, bricked, zbootStatus, cloudOs, osConfig, answer, osHistory>>
      /\ OtherPart' = OtherPart
  BY Zenon DEF handleBaseOsTestComplete, MgrIdle, GivenConfig, Put, cloudVars, agentVars, OtherPart
<1>2. PICK p \in {"marked", "retry"} :
         /\ mgr' = [[Resting EXCEPT !.base = v, !.old = osStatus[v]] EXCEPT !.pc = p]
         /\ p = "marked" => /\ zbootStatus[curPart].state = "inprogress"
                            /\ gpt' = [gpt EXCEPT ![curPart].state = "active"]
         /\ p = "retry" => gpt' = gpt
  BY Zenon DEF handleBaseOsTestComplete
<1>3. /\ mgr' \in MgrT /\ mgr'.pc = p /\ mgr'.base = v /\ mgr'.old = osStatus[v] /\ mgr'.todo = {}
  BY Zenon, <1>1, <1>2, Start DEF Resting, MgrT
<1>4. /\ gpt' \in [Part -> PartT] /\ gpt'[OtherPart] = gpt[OtherPart]
      /\ gpt'[curPart].version = gpt[curPart].version
      /\ gpt'[curPart].state = IF p = "marked" THEN "active" ELSE gpt[curPart].state
      /\ zbootStatus = gpt
  <2>1. zbootStatus = gpt
    BY Zenon, <1>1 DEF BosInv, PublishedOK
  <2> QED
    BY <1>2, <2>1, Start DEF PartT
<1>5. /\ v = gpt[curPart].version /\ osStatus[v].label = curPart
      /\ \A w \in DOMAIN osStatus : ~osStatus[w].testComplete
      /\ DOMAIN mgrConfig' = DOMAIN mgrConfig
  <2>1. mgr.base = NoPart /\ \A w \in DOMAIN osStatus : w # NoPart
    BY Zenon, <1>1, Start DEF BosInv, Types
  <2>2. \A w \in DOMAIN osStatus : StatusOK(w, osStatus[w])
    BY Zenon, <1>1 DEF BosInv, StatusesOK
  <2>3. DOMAIN mgrConfig' = DOMAIN mgrConfig
    BY Zenon, <1>1, Start
  <2> QED
    BY Zenon, <1>1, <2>1, <2>2, <2>3 DEF StatusOK
<1>6. p = "marked" => gpt[OtherPart].state # "updating"
  BY Zenon, <1>1, <1>2, <1>4 DEF BosInv, PartsOK
<1>7. Types'
  BY Zenon, <1>1, <1>3, <1>4, <1>5, Start DEF BosInv, Types
<1>8. PartsOK'
  BY Zenon, <1>1, <1>3, <1>4 DEF BosInv, PartsOK
<1>9. StatusesOK'
  BY Zenon, <1>1, <1>3, <1>4, <1>5 DEF BosInv, StatusesOK, StatusOK
<1>10. InstallOK'
  BY Zenon, <1>3 DEF InstallOK, Installing
<1>11. TestOK'
  BY <1>1, <1>3, <1>4, <1>5, Start DEF BosInv, TestOK
<1>12. PublishedOK'
  BY Zenon, <1>1, <1>2, <1>3, <1>4 DEF PublishedOK
<1>13. AskedOK'
  BY Zenon, <1>1, <1>3, <1>4, <1>6 DEF BosInv, AskedOK, Installing
<1>14. AlwaysBoots' /\ FallbackKept' /\ OneActive'
  BY Zenon, <1>1, <1>2, <1>3, <1>4, Start DEF BosInv, AlwaysBoots, FallbackKept, OneActive
<1> QED
  BY Zenon, <1>7, <1>8, <1>9, <1>10, <1>11, <1>12, <1>13, <1>14 DEF BosInv

\* MarkCurrentPartitionStateActive, the second write: the other partition becomes unused.
LEMMA MarkOtherUnusedStep ==
  ASSUME BosInv, MarkOtherUnused
  PROVE  BosInv'
<1>1. /\ ~bricked /\ mgr.pc = "marked" /\ mgr.base \in DOMAIN osStatus /\ mgr.base = gpt[curPart].version
      /\ mgr.old \in StatusT /\ mgr.old.label = curPart /\ ~mgr.old.testComplete
      /\ gpt[curPart].state = "active" /\ mgr.todo \subseteq DOMAIN osStatus
      /\ UNCHANGED <<curPart, bricked, mgrConfig, cloudOs, osConfig, answer, osHistory>>
      /\ OtherPart' = OtherPart /\ gpt' = OtherUnused(gpt) /\ zbootStatus' = gpt'
  BY Zenon DEF MarkOtherUnused, BosInv, TestOK, cloudVars, agentVars, OtherPart
<1> DEFINE s == [mgr.old EXCEPT !.testComplete = TRUE]
<1>2. osStatus' = [w \in DOMAIN osStatus \cup {mgr.base} |-> IF w = mgr.base THEN s ELSE osStatus[w]]
  BY Zenon DEF MarkOtherUnused, publishBaseOsStatus, Put
<1>3. /\ s \in StatusT /\ s.label = curPart
  BY Zenon, <1>1 DEF StatusT
<1> HIDE DEF s
<1>4. DOMAIN osStatus' = DOMAIN osStatus /\ osStatus' \in [DOMAIN mgrConfig -> StatusT]
  BY <1>1, <1>2, <1>3, Start
<1>5. /\ mgr' \in MgrT /\ mgr'.pc = "retry" /\ mgr'.base = mgr.base /\ mgr'.old = mgr.old
      /\ mgr'.todo \subseteq DOMAIN osStatus
  <2>1. PICK T : T \subseteq DOMAIN osStatus' /\ mgr' = [mgr EXCEPT !.pc = "retry", !.todo = T]
    BY Zenon DEF MarkOtherUnused
  <2> QED
    BY Zenon, <1>4, <2>1, Start DEF MgrT
<1>6. /\ gpt' \in [Part -> PartT] /\ gpt'[curPart] = gpt[curPart]
      /\ gpt'[OtherPart].version = gpt[OtherPart].version
      /\ gpt'[OtherPart].state \in {"unused", "updating"}
      /\ gpt'[OtherPart].state = "updating" => gpt[OtherPart].state = "updating"
  BY <1>1, Start DEF OtherUnused, PartT
<1>7. Types'
  BY Zenon, <1>1, <1>4, <1>5, <1>6, Start DEF BosInv, Types
<1>8. PartsOK'
  BY Zenon, <1>1, <1>5, <1>6 DEF BosInv, PartsOK
<1>9. StatusesOK'
  BY <1>1, <1>2, <1>3, <1>4, <1>5, <1>6, Start DEF BosInv, StatusesOK, StatusOK
<1>10. InstallOK' /\ PublishedOK'
  BY Zenon, <1>1, <1>5 DEF InstallOK, Installing, PublishedOK
<1>11. TestOK'
  BY Zenon, <1>1, <1>4, <1>5, <1>6, Start DEF TestOK
<1>12. AskedOK'
  BY Zenon, <1>1, <1>2, <1>4, <1>5, <1>6, Start DEF BosInv, AskedOK, Installing, PartsOK
<1>13. AlwaysBoots' /\ FallbackKept' /\ OneActive'
  BY Zenon, <1>1, <1>6, Start DEF BosInv, AlwaysBoots, FallbackKept, OneActive
<1> QED
  BY Zenon, <1>7, <1>8, <1>9, <1>10, <1>11, <1>12, <1>13 DEF BosInv

\* handleBaseOsModify ends and publishes the status that it took when it began.
LEMMA ModifyEndStep ==
  ASSUME BosInv, handleBaseOsModifyEnd
  PROVE  BosInv'
<1>1. /\ ~bricked /\ mgr.pc = "retry" /\ mgr.base \in DOMAIN osStatus /\ mgr.base = gpt[curPart].version
      /\ mgr.old \in StatusT /\ mgr.old.label = curPart /\ ~mgr.old.testComplete
      /\ UNCHANGED <<gpt, curPart, bricked, zbootStatus, mgrConfig, cloudOs, osConfig, answer, osHistory>>
      /\ OtherPart' = OtherPart /\ zbootStatus = gpt /\ mgr' = Resting
  BY Zenon DEF handleBaseOsModifyEnd, BosInv, TestOK, PublishedOK, partVars, cloudVars, agentVars, OtherPart
<1> DEFINE u == Updated(mgr.base, mgrConfig[mgr.base], mgr.old, zbootStatus, gpt, verifiedOs)
<1>2. /\ u.s \in StatusT /\ u.s.label = curPart /\ ~u.s.testComplete
  BY <1>1, UpdatedFacts, Start
<1>3. PICK s : s \in {u.s, mgr.old} /\ osStatus' = publishBaseOsStatus(mgr.base, s)
  BY Zenon DEF handleBaseOsModifyEnd
<1> HIDE DEF u
<1>4. s \in StatusT /\ s.label = curPart /\ ~s.testComplete
  BY Zenon, <1>1, <1>2, <1>3
<1>5. osStatus' = [w \in DOMAIN osStatus \cup {mgr.base} |-> IF w = mgr.base THEN s ELSE osStatus[w]]
  BY Zenon, <1>3 DEF publishBaseOsStatus, Put
<1>6. DOMAIN osStatus' = DOMAIN osStatus /\ osStatus' \in [DOMAIN mgrConfig -> StatusT]
  BY Zenon, <1>1, <1>4, <1>5, Start
<1>7. mgr' \in MgrT /\ mgr'.pc = "idle" /\ mgr'.base = NoPart /\ mgr'.todo = {}
  BY Zenon, <1>1 DEF Resting, MgrT
<1>8. Types'
  BY Zenon, <1>1, <1>6, <1>7, Start DEF BosInv, Types
<1>9. PartsOK'
  BY Zenon, <1>1, <1>7 DEF BosInv, PartsOK
<1>10. StatusesOK'
  BY Zenon, <1>1, <1>4, <1>5, <1>6, <1>7, Start DEF BosInv, StatusesOK, StatusOK
<1>11. InstallOK' /\ PublishedOK' /\ TestOK'
  BY Zenon, <1>1, <1>7 DEF InstallOK, Installing, PublishedOK, TestOK
<1>12. AskedOK'
  BY Zenon, <1>1, <1>5, <1>6, <1>7, Start DEF BosInv, AskedOK, Installing, PartsOK
<1>13. AlwaysBoots' /\ FallbackKept' /\ OneActive'
  BY Zenon, <1>1 DEF BosInv, AlwaysBoots, FallbackKept, OneActive
<1> QED
  BY Zenon, <1>8, <1>9, <1>10, <1>11, <1>12, <1>13 DEF BosInv

\* handleBaseOsConfigDelete: a version is given up, and its partition with it.
LEMMA ConfigDeleteStep ==
  ASSUME BosInv, NEW v \in Version, handleBaseOsConfigDelete(v)
  PROVE  BosInv'
<1>1. /\ ~bricked /\ mgr.pc = "idle" /\ v \in DOMAIN osStatus
      /\ UNCHANGED <<curPart, bricked, mgr, cloudOs, osConfig, answer>>
      /\ OtherPart' = OtherPart /\ zbootStatus = gpt
      /\ mgr.base = NoPart /\ mgr.todo = {}
  BY Zenon, Start DEF handleBaseOsConfigDelete, MgrIdle, BosInv, Types, PublishedOK, cloudVars, agentVars, OtherPart
<1>2. /\ DOMAIN mgrConfig' = DOMAIN mgrConfig \ {v}
      /\ osStatus' = [w \in DOMAIN osStatus \ {v} |-> osStatus[w]]
  BY Zenon DEF handleBaseOsConfigDelete, Without
<1>3. CASE Leaves(v, osStatus[v].label)
  <2>1. osStatus[v].label = OtherPart /\ gpt[OtherPart].version = v
    BY Zenon, <1>1, <1>3, Start DEF Leaves, StatusT
  <2>2. /\ gpt' = [gpt EXCEPT ![OtherPart].state = "unused"]
        /\ zbootStatus' = [zbootStatus EXCEPT ![OtherPart] = gpt'[OtherPart]]
        /\ osHistory' = IF gpt[OtherPart].state = "active" /\ gpt[curPart].state = "inprogress"
                        THEN osHistory \cup {"removed"} ELSE osHistory
    BY Zenon, <1>3, <2>1 DEF handleBaseOsConfigDelete, publishZbootPartitionStatus
  <2>3. /\ gpt' \in [Part -> PartT] /\ gpt'[curPart] = gpt[curPart]
        /\ gpt'[OtherPart].state = "unused" /\ gpt'[OtherPart].version = gpt[OtherPart].version
    BY <2>2, Start DEF PartT
  <2>4. zbootStatus' = gpt'
    BY Zenon, <1>1, <2>2, <2>3, Start
  <2>5. Types'
    BY Zenon, <1>1, <1>2, <2>3, <2>4, Start DEF BosInv, Types
  <2>6. PartsOK' /\ InstallOK' /\ TestOK' /\ PublishedOK'
    BY Zenon, <1>1, <2>3, <2>4 DEF BosInv, PartsOK, InstallOK, Installing, TestOK, PublishedOK
  <2>7. StatusesOK'
    BY Zenon, <1>1, <1>2, <2>3 DEF BosInv, StatusesOK, StatusOK
  <2>8. AskedOK'
    BY Zenon, <1>1, <2>3 DEF AskedOK
  <2>9. AlwaysBoots' /\ FallbackKept' /\ OneActive'
    BY Zenon, <1>1, <2>2, <2>3, Start DEF BosInv, AlwaysBoots, FallbackKept, OneActive
  <2> QED
    BY Zenon, <2>5, <2>6, <2>7, <2>8, <2>9 DEF BosInv
<1>4. CASE ~Leaves(v, osStatus[v].label)
  <2>1. UNCHANGED <<gpt, zbootStatus, osHistory>>
    BY Zenon, <1>4 DEF handleBaseOsConfigDelete
  <2>2. ~(osStatus[v].label = OtherPart /\ gpt[OtherPart].version = v)
    BY Zenon, <1>1, <1>4, Start DEF Leaves
  <2>3. Types'
    BY Zenon, <1>1, <1>2, <2>1, Start DEF BosInv, Types
  <2>4. PartsOK' /\ InstallOK' /\ TestOK' /\ PublishedOK'
    BY Zenon, <1>1, <2>1 DEF BosInv, PartsOK, InstallOK, Installing, TestOK, PublishedOK
  <2>5. StatusesOK'
    BY Zenon, <1>1, <1>2, <2>1 DEF BosInv, StatusesOK, StatusOK
  <2>6. AskedOK'
    BY Zenon, <1>1, <1>2, <2>1, <2>2 DEF BosInv, AskedOK, Installing
  <2>7. AlwaysBoots' /\ FallbackKept' /\ OneActive'
    BY Zenon, <1>1, <2>1 DEF BosInv, AlwaysBoots, FallbackKept, OneActive
  <2> QED
    BY <2>3, <2>4, <2>5, <2>6, <2>7 DEF BosInv
<1> QED
  BY Zenon, <1>3, <1>4

\* zboot.WriteToPartition begins: the other partition is torn until dd is through.
LEMMA WriteStep ==
  ASSUME BosInv, WriteToPartition
  PROVE  BosInv'
<1>1. /\ ~bricked /\ mgr.pc = "dd" /\ mgr.os \in DOMAIN osStatus /\ mgr.os # gpt[curPart].version
      /\ mgr.st \in StatusT /\ mgr.st.label = OtherPart /\ ~mgr.st.activated /\ ~mgr.st.testComplete
      /\ gpt[OtherPart].state = "updating" /\ zbootStatus = gpt
      /\ UNCHANGED <<curPart, bricked, zbootStatus, mgrConfig, osStatus, cloudOs, osConfig, answer, osHistory>>
      /\ OtherPart' = OtherPart
  BY Zenon DEF WriteToPartition, BosInv, InstallOK, Installing, PublishedOK, cloudVars, agentVars, OtherPart
<1>2. /\ mgr' \in MgrT /\ mgr'.pc = "writing" /\ mgr'.os = mgr.os /\ mgr'.st = mgr.st
      /\ mgr'.base = mgr.base /\ mgr'.old = mgr.old /\ mgr'.todo = mgr.todo
  BY Zenon, Start DEF WriteToPartition, MgrT
<1>3. /\ gpt' \in [Part -> PartT] /\ gpt'[curPart] = gpt[curPart]
      /\ gpt'[OtherPart].state = "updating" /\ gpt'[OtherPart].version = Torn
  BY <1>1, Start DEF WriteToPartition, PartT
<1>4. Types'
  BY Zenon, <1>1, <1>2, <1>3, Start DEF BosInv, Types
<1>5. PartsOK' /\ TestOK' /\ PublishedOK'
  BY Zenon, <1>1, <1>2, <1>3 DEF BosInv, PartsOK, TestOK, PublishedOK
<1>6. StatusesOK'
  BY Zenon, <1>1, <1>2, <1>3 DEF BosInv, StatusesOK, StatusOK
<1>7. InstallOK' /\ AskedOK'
  BY Zenon, <1>1, <1>2, <1>3 DEF InstallOK, AskedOK, Installing
<1>8. AlwaysBoots' /\ FallbackKept' /\ OneActive'
  BY Zenon, <1>1, <1>2, <1>3, Start DEF BosInv, AlwaysBoots, FallbackKept, OneActive
<1> QED
  BY Zenon, <1>4, <1>5, <1>6, <1>7, <1>8 DEF BosInv

\* doBaseOsActivate after dd: the status says INSTALLED and asks for the reboot.
LEMMA ActivateEndStep ==
  ASSUME BosInv, doBaseOsActivateEnd
  PROVE  BosInv'
<1>1. /\ ~bricked /\ mgr.pc \in {"writing", "installed"} /\ mgr.os \in DOMAIN osStatus
      /\ mgr.os # gpt[curPart].version /\ mgr.os \in Version
      /\ mgr.st \in StatusT /\ mgr.st.label = OtherPart /\ ~mgr.st.activated /\ ~mgr.st.testComplete
      /\ gpt[OtherPart].state = "updating"
      /\ mgr.pc = "installed" => /\ gpt[OtherPart].version # Torn
                                 /\ "stale" \notin osHistory => gpt[OtherPart].version = mgr.os
      /\ UNCHANGED <<curPart, bricked, mgrConfig, cloudOs, osConfig, answer, osHistory>>
      /\ OtherPart' = OtherPart
  BY Zenon, Start DEF doBaseOsActivateEnd, BosInv, InstallOK, Installing, cloudVars, agentVars, OtherPart
<1>2. /\ gpt' = IF mgr.pc = "writing" THEN [gpt EXCEPT ![OtherPart].version = mgr.os] ELSE gpt
      /\ zbootStatus' = [zbootStatus EXCEPT ![OtherPart] = gpt'[OtherPart]]
  BY Zenon, <1>1 DEF doBaseOsActivateEnd, publishZbootPartitionStatus
<1>3. /\ gpt' \in [Part -> PartT] /\ gpt'[curPart] = gpt[curPart]
      /\ gpt'[OtherPart].state = "updating" /\ gpt'[OtherPart].version # Torn
      /\ gpt'[OtherPart].version # gpt[curPart].version
      /\ "stale" \notin osHistory => gpt'[OtherPart].version = mgr.os
  <2>1. CASE mgr.pc = "writing"
    BY <1>1, <1>2, <2>1, Start DEF PartT
  <2>2. CASE mgr.pc = "installed"
    BY Zenon, <1>1, <1>2, <2>2, Start DEF BosInv, PartsOK
  <2> QED
    BY Zenon, <1>1, <2>1, <2>2
<1>4. zbootStatus' = gpt'
  <2>1. zbootStatus[curPart] = gpt[curPart]
    BY Zenon, <1>1 DEF BosInv, PublishedOK
  <2> QED
    BY Zenon, <1>2, <1>3, <2>1, Start
<1> DEFINE s == [mgr.st EXCEPT !.st = "INSTALLED", !.reboot = TRUE]
<1>5. osStatus' = [w \in DOMAIN osStatus \cup {mgr.os} |-> IF w = mgr.os THEN s ELSE osStatus[w]]
  BY Zenon DEF doBaseOsActivateEnd, publishBaseOsStatus, Put
<1>6. s \in StatusT /\ s.label = OtherPart /\ ~s.activated /\ ~s.testComplete /\ s.reboot
  BY Zenon, <1>1 DEF StatusT
<1> HIDE DEF s
<1>7. DOMAIN osStatus' = DOMAIN osStatus /\ osStatus' \in [DOMAIN mgrConfig -> StatusT]
  BY Zenon, <1>1, <1>5, <1>6, Start
<1>8. /\ mgr' \in MgrT /\ mgr'.base = mgr.base /\ mgr'.pc = IF mgr.base = NoPart THEN "idle" ELSE "retry"
      /\ mgr'.base # NoPart => mgr'.old = mgr.old
      /\ mgr'.todo = IF mgr.base = NoPart THEN {} ELSE mgr.todo
  BY Zenon, Start DEF doBaseOsActivateEnd, Resting, MgrT
<1>9. Types'
  BY Zenon, <1>1, <1>3, <1>4, <1>7, <1>8, Start DEF BosInv, Types
<1>10. PartsOK'
  BY Zenon, <1>1, <1>3, <1>8 DEF BosInv, PartsOK
<1>11. StatusesOK'
  BY <1>1, <1>3, <1>5, <1>6, <1>7, <1>8, Start DEF BosInv, StatusesOK, StatusOK
<1>12. InstallOK' /\ PublishedOK'
  BY Zenon, <1>1, <1>4, <1>8 DEF InstallOK, Installing, PublishedOK
<1>13. TestOK'
  BY Zenon, <1>1, <1>3, <1>7, <1>8 DEF BosInv, TestOK
<1>14. AskedOK'
  BY Zenon, <1>1, <1>3, <1>5, <1>6, <1>7 DEF AskedOK
<1>15. AlwaysBoots' /\ FallbackKept' /\ OneActive'
  BY Zenon, <1>1, <1>3, <1>8, Start DEF BosInv, AlwaysBoots, FallbackKept, OneActive
<1> QED
  BY <1>9, <1>10, <1>11, <1>12, <1>13, <1>14, <1>15 DEF BosInv

\* A reboot finds a whole partition to boot, unless the fallback has been removed.
LEMMA StartUpStep ==
  ASSUME BosInv, ~bricked, StartUp
  PROVE  BosInv'
<1>1. /\ gpt' \in [Part -> PartT]
      /\ \A p \in Part : /\ gpt'[p].version = gpt[p].version
                         /\ gpt'[p].state = IF gpt[p].state = "updating" THEN "inprogress" ELSE gpt[p].state
  <2> DEFINE t(p) == IF gpt[p].state = "updating" THEN [gpt[p] EXCEPT !.state = "inprogress"] ELSE gpt[p]
  <2>1. gpt' = [p \in Part |-> t(p)]
    BY Zenon DEF StartUp, Tried
  <2>2. \A p \in Part : /\ t(p) \in PartT /\ t(p).version = gpt[p].version
                       /\ t(p).state = IF gpt[p].state = "updating" THEN "inprogress" ELSE gpt[p].state
    BY Start DEF PartT
  <2> HIDE DEF t
  <2> QED
    BY Zenon, <2>1, <2>2
<1>2. /\ zbootStatus' = gpt' /\ mgrConfig' = <<>> /\ osStatus' = <<>> /\ osConfig' = <<>>
      /\ answer' = NoAnswer /\ mgr' = Resting /\ cloudOs' = cloudOs
      /\ osHistory' = IF mgr.pc = "marked" THEN osHistory \cup {"cut"} ELSE osHistory
  BY Zenon DEF StartUp, cloudVars
<1>3. mgr' \in MgrT /\ mgr'.pc = "idle" /\ mgr'.base = NoPart /\ mgr'.todo = {}
  BY Zenon, <1>2 DEF Resting, MgrT
<1>4. DOMAIN osStatus' = {} /\ osStatus' \in [DOMAIN mgrConfig' -> StatusT] /\ DOMAIN osConfig' = {} /\ DOMAIN mgrConfig' = {}
  BY <1>2
<1>5. /\ gpt[curPart].state \in {"active", "inprogress"} /\ gpt[curPart].version # Torn
      /\ gpt[OtherPart].version # gpt[curPart].version
      /\ gpt[OtherPart].state = "updating" => gpt[curPart].state = "active"
  BY Zenon DEF BosInv, PartsOK
<1>6. \/ /\ bricked' = FALSE /\ curPart' \in Part /\ Boots(gpt, curPart')
      \/ /\ bricked' = TRUE /\ curPart' = curPart /\ \A p \in Part : ~Boots(gpt, p)
  BY Zenon DEF StartUp
<1>7. curPart' \in Part /\ bricked' \in BOOLEAN
  BY Zenon, <1>6, Start
<1>8. OtherPart' \in Part /\ OtherPart' # curPart' /\ {curPart', OtherPart'} = {curPart, OtherPart}
  BY Zenon, <1>7, Start DEF OtherPart, Other, Part
<1>9. bricked' => "removed" \in osHistory
  <2> SUFFICES ASSUME bricked', "removed" \notin osHistory PROVE FALSE
    BY Zenon
  <2>1. \A p \in Part : ~Boots(gpt, p)
    BY Zenon, <1>6
  <2>2. PICK p \in Part : gpt[p].state = "active" /\ gpt[p].version # Torn
    BY Zenon, <1>5, Start DEF BosInv, FallbackKept
  <2> QED
    BY Zenon, <2>1, <2>2 DEF Boots
<1>10. ~bricked' => \/ gpt'[curPart'].state = "active" /\ gpt'[curPart'].version # Torn
                    \/ /\ curPart' = OtherPart /\ OtherPart' = curPart
                       /\ gpt'[curPart'].state = "inprogress" /\ gpt'[curPart'].version # Torn
                       /\ gpt'[OtherPart'].state = "active" /\ gpt'[OtherPart'].version # Torn
  <2> SUFFICES ASSUME ~bricked'
               PROVE  \/ gpt'[curPart'].state = "active" /\ gpt'[curPart'].version # Torn
                      \/ /\ curPart' = OtherPart /\ OtherPart' = curPart
                         /\ gpt'[curPart'].state = "inprogress" /\ gpt'[curPart'].version # Torn
                         /\ gpt'[OtherPart'].state = "active" /\ gpt'[OtherPart'].version # Torn
    BY Zenon
  <2>1. gpt[curPart'].version # Torn /\ gpt[curPart'].state \in {"updating", "active"}
    BY Zenon, <1>6 DEF Boots
  <2>2. CASE gpt[curPart'].state = "active"
    BY Zenon, <1>1, <1>7, <2>1, <2>2
  <2>3. CASE gpt[curPart'].state = "updating"
    <3>1. curPart' = OtherPart /\ OtherPart' = curPart
      BY Zenon, <1>5, <1>7, <1>8, <2>3, Start
    <3> QED
      BY Zenon, <1>1, <1>5, <2>1, <2>3, <3>1, Start
  <2> QED
    BY Zenon, <2>1, <2>2, <2>3
<1>11. Types'
  BY Zenon, <1>1, <1>2, <1>3, <1>4, <1>7 DEF BosInv, Types
<1>12. PartsOK'
  BY Zenon, <1>1, <1>3, <1>5, <1>7, <1>8, <1>10, Start DEF PartsOK
<1>13. StatusesOK' /\ InstallOK' /\ TestOK' /\ PublishedOK'
  BY Zenon, <1>2, <1>3, <1>4 DEF StatusesOK, InstallOK, Installing, TestOK, PublishedOK
<1>14. AskedOK'
  BY Zenon, <1>1, <1>8 DEF AskedOK
<1>15. AlwaysBoots'
  BY Zenon, <1>2, <1>9 DEF AlwaysBoots
<1>16. FallbackKept'
  BY Zenon, <1>10 DEF FallbackKept
<1>17. OneActive'
  BY Zenon, <1>1, <1>2 DEF BosInv, OneActive
<1> QED
  BY Zenon, <1>11, <1>12, <1>13, <1>14, <1>15, <1>16, <1>17 DEF BosInv
-----------------------------------------------------------------------------
(* The theorems.                                                           *)

\* A device that boots for the first time.
LEMMA BosInvInit == BosInit => BosInv
<1> SUFFICES ASSUME BosInit PROVE BosInv
  BY Zenon
<1> USE BaseOsAssumption DEF BosInit
<1>1. Types
  <2>1. gpt \in [Part -> PartT] /\ zbootStatus \in [Part -> PartT] /\ curPart \in Part
    BY Zenon DEF Part, PartT
  <2>2. osStatus \in [DOMAIN mgrConfig -> StatusT] /\ DOMAIN mgrConfig = {} /\ DOMAIN osConfig = {}
    OBVIOUS
  <2>3. mgr \in MgrT /\ mgr.base = NoPart /\ mgr.todo = {}
    BY Zenon DEF MgrT, Resting
  <2>4. cloudOs.of \subseteq Version
    BY Zenon
  <2> QED
    BY Zenon, <2>1, <2>2, <2>3, <2>4 DEF Types
<1>2. PartsOK /\ AlwaysBoots /\ FallbackKept /\ OneActive
  BY Zenon DEF PartsOK, AlwaysBoots, FallbackKept, OneActive, OtherPart, Other, Part
<1>3. StatusesOK /\ InstallOK /\ TestOK /\ PublishedOK /\ AskedOK
  BY DEF StatusesOK, InstallOK, TestOK, PublishedOK, AskedOK, Installing, Resting, OtherPart, Other, Part
<1> QED
  BY Zenon, <1>1, <1>2, <1>3 DEF BosInv

\* Every step of the controller, of zedagent, of baseosmgr and of a power failure.
LEMMA BosInvNext == BosInv /\ [BosNext]_osVars => BosInv'
<1> SUFFICES ASSUME BosInv, [BosNext]_osVars PROVE BosInv'
  BY Zenon
<1> USE DEF partVars, cloudVars, agentVars, mgrVars
<1>1. ASSUME NEW v \in Version, handleBaseOsConfigModify(v) PROVE BosInv'
  BY Zenon, <1>1, ConfigModifyStep
<1>2. ASSUME NEW v \in Version, handleBaseOsTestComplete(v) PROVE BosInv'
  BY Zenon, <1>2, TestCompleteStep
<1>3. ASSUME NEW v \in Version, maybeRetryInstall(v) PROVE BosInv'
  BY <1>3, RetryStep
<1>4. ASSUME NEW v \in Version, handleBaseOsConfigDelete(v) PROVE BosInv'
  BY <1>4, ConfigDeleteStep
<1>5. ASSUME NEW v \in Version, handleVerifierStatusModify(v) PROVE BosInv'
  BY <1>5, VerifierStep
<1>6. ASSUME NEW v \in Version, handleBaseOsStatusModify(v) PROVE BosInv'
  BY Zenon, <1>6, AgentStep DEF handleBaseOsStatusModify, BosInv, Types
<1>7. ASSUME NEW v \in Version, handleBaseOsStatusDelete(v) PROVE BosInv'
  BY Zenon, <1>7, AgentStep DEF handleBaseOsStatusDelete, BosInv, Types
<1>8. CASE MarkOtherUnused
  BY Zenon, <1>8, MarkOtherUnusedStep
<1>9. CASE handleBaseOsModifyEnd
  BY Zenon, <1>9, ModifyEndStep
<1>10. CASE WriteToPartition
  BY <1>10, WriteStep
<1>11. CASE doBaseOsActivateEnd
  BY <1>11, ActivateEndStep
<1>12. CASE zedcloud
  BY Zenon, <1>12, AgentStep, BaseOsAssumption DEF zedcloud, BosInv, Types
<1>13. CASE parseBaseOsConfig
  BY Zenon, <1>13, AgentStep DEF parseBaseOsConfig, BosInv, Types
<1>14. CASE configTimerTask
  BY Zenon, <1>14, AgentStep DEF configTimerTask, BosInv, Types
<1>15. CASE initiateBaseOsZedCloudTestComplete
  BY Zenon, <1>15, AgentStep DEF initiateBaseOsZedCloudTestComplete, BosInv, Types
<1>16. CASE doBaseOsZedCloudTestComplete
  BY Zenon, <1>16, AgentStep DEF doBaseOsZedCloudTestComplete, Put, BosInv, Types
<1>17. CASE fallbackIfCloudGone
  BY Zenon, <1>17, AgentStep DEF fallbackIfCloudGone, BosInv, Types
<1>18. CASE handleExecReboot
  BY Zenon, <1>18, StartUpStep DEF handleExecReboot
<1>19. CASE powerFails
  BY Zenon, <1>19, StartUpStep DEF powerFails
<1>20. CASE UNCHANGED osVars
  BY Zenon, <1>20, AgentStep DEF osVars, BosInv, Types
<1> QED
  BY Zenon, <1>1, <1>2, <1>3, <1>4, <1>5, <1>6, <1>7, <1>8, <1>9, <1>10, <1>11, <1>12, <1>13, <1>14, <1>15,
     <1>16, <1>17, <1>18, <1>19, <1>20 DEF BosNext

\* The inductive invariant of the updates, for any order of changes, answers and power failures.
THEOREM BosInvariant == BosSpec => []BosInv
BY BosInvInit, BosInvNext, PTL DEF BosSpec

\* BosTypeOK: the partitions, configurations and statuses (BaseOsStatus, ZbootStatus) keep their types.
THEOREM BaseOsTypeCorrect == BosSpec => []BosTypeOK
<1>1. BosInv => BosTypeOK
  BY Zenon, Start DEF BosInv, Types, BosTypeOK, StatusT, PartT
<1> QED
  BY <1>1, BosInvariant, PTL

\* AlwaysBoots (boot loader, zboot.go): however updates, tests, removals and power failures
\* follow each other, the device has a whole partition to boot, as long as the controller has not
\* removed the fallback of a version under test.
THEOREM DeviceAlwaysBoots == BosSpec => []AlwaysBoots
<1>1. BosInv => AlwaysBoots
  BY Zenon DEF BosInv
<1> QED
  BY <1>1, BosInvariant, PTL

\* FallbackKept (doBaseOsStatusUpdate, "don't overwrite fallback"): during a test the other
\* partition is active and whole.
THEOREM FallbackAlwaysKept == BosSpec => []FallbackKept
<1>1. BosInv => FallbackKept
  BY Zenon DEF BosInv
<1> QED
  BY <1>1, BosInvariant, PTL

\* OneActive (MarkCurrentPartitionStateActive): both partitions are active only between its two
\* writes, and after a power failure there.
THEOREM AtMostOneActive == BosSpec => []OneActive
<1>1. BosInv => OneActive
  BY Zenon DEF BosInv
<1> QED
  BY <1>1, BosInvariant, PTL

\* UpdatingWhole (doBaseOsActivate, doBaseOsUninstall): what the next boot tries is whole, and is
\* the version whose status asked for the reboot, unless an INSTALLED status was out of date.
THEOREM UpdatingAlwaysWhole == BosSpec => []UpdatingWhole
<1>1. BosInv => UpdatingWhole
  BY Zenon DEF BosInv, PartsOK, AskedOK, Installing, UpdatingWhole, MgrIdle
<1> QED
  BY <1>1, BosInvariant, PTL

\* ZbootStatusExact (getZbootStatus): between two handlers baseosmgr decides from published states
\* that are those in the partition table.
THEOREM PublishedStatesExact == BosSpec => []ZbootStatusExact
<1>1. BosInv => ZbootStatusExact
  BY Zenon DEF BosInv, PublishedOK, ZbootStatusExact, MgrIdle
<1> QED
  BY <1>1, BosInvariant, PTL

\* ActivatedRuns (baseOsGetActivationStatus): only the version that runs is reported as activated.
THEOREM OnlyRunningActivated == BosSpec => []ActivatedRuns
<1>1. BosInv => ActivatedRuns
  BY Zenon DEF BosInv, StatusesOK, StatusOK, ActivatedRuns
<1> QED
  BY <1>1, BosInvariant, PTL

\* TestCompleteOverwritten (handleBaseOsModify): no status with TestComplete is left when the
\* handler that published it ends.
THEOREM TestCompleteAlwaysOverwritten == BosSpec => []TestCompleteOverwritten
<1>1. BosInv => TestCompleteOverwritten
  BY Zenon, Start DEF BosInv, Types, StatusesOK, StatusOK, TestCompleteOverwritten, MgrIdle
<1> QED
  BY <1>1, BosInvariant, PTL

\* RunningNotWritten (WriteToPartition): no step writes the partition that runs.
THEOREM RunningNeverWritten == BosSpec => RunningNotWritten
<1>1. BosInv /\ [BosNext]_osVars => [gpt'[curPart].version = gpt[curPart].version]_osVars
  <2> SUFFICES ASSUME BosInv, BosNext PROVE gpt'[curPart].version = gpt[curPart].version
    BY Zenon
  <2> USE DEF PartT
  <2>1. ASSUME NEW v \in Version, handleBaseOsConfigModify(v) PROVE gpt'[curPart].version = gpt[curPart].version
    BY Zenon, <2>1, Start DEF handleBaseOsConfigModify, StatusUpdate
  <2>2. ASSUME NEW v \in Version, handleBaseOsTestComplete(v) PROVE gpt'[curPart].version = gpt[curPart].version
    BY <2>2, Start DEF handleBaseOsTestComplete
  <2>3. ASSUME NEW v \in Version, maybeRetryInstall(v) PROVE gpt'[curPart].version = gpt[curPart].version
    BY Zenon, <2>3, Start DEF maybeRetryInstall, StatusUpdate
  <2>4. ASSUME NEW v \in Version, handleBaseOsConfigDelete(v) PROVE gpt'[curPart].version = gpt[curPart].version
    BY <2>4, Start DEF handleBaseOsConfigDelete
  <2>5. ASSUME NEW v \in Version, handleVerifierStatusModify(v) PROVE gpt'[curPart].version = gpt[curPart].version
    BY Zenon, <2>5, Start DEF handleVerifierStatusModify, StatusUpdate
  <2>6. CASE MarkOtherUnused
    BY Zenon, <2>6, Start DEF MarkOtherUnused, OtherUnused
  <2>7. CASE WriteToPartition
    BY Zenon, <2>7, Start DEF WriteToPartition, BosInv, InstallOK, Installing
  <2>8. CASE doBaseOsActivateEnd
    BY Zenon, <2>8, Start DEF doBaseOsActivateEnd, BosInv, InstallOK, Installing
  <2>9. CASE handleExecReboot \/ powerFails
    BY <2>9, Start DEF handleExecReboot, powerFails, StartUp, Tried
  <2>10. CASE UNCHANGED gpt
    BY Zenon, <2>10
  <2>11. \/ \E v \in Version : \/ handleBaseOsConfigModify(v) \/ handleBaseOsTestComplete(v) \/ maybeRetryInstall(v)
                              \/ handleBaseOsConfigDelete(v) \/ handleVerifierStatusModify(v)
         \/ MarkOtherUnused \/ WriteToPartition \/ doBaseOsActivateEnd \/ handleExecReboot \/ powerFails
         \/ UNCHANGED gpt
    BY Zenon DEF BosNext, handleBaseOsStatusModify, handleBaseOsStatusDelete, handleBaseOsModifyEnd, zedcloud,
           parseBaseOsConfig, configTimerTask, initiateBaseOsZedCloudTestComplete,
           doBaseOsZedCloudTestComplete, fallbackIfCloudGone, partVars
  <2> QED
    BY Zenon, <2>1, <2>2, <2>3, <2>4, <2>5, <2>6, <2>7, <2>8, <2>9, <2>10, <2>11
<1> QED
  BY <1>1, BosInvariant, PTL DEF BosSpec, RunningNotWritten
=============================================================================
