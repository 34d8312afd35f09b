------------------------------- MODULE BaseOs -------------------------------
(***************************************************************************)
(* Updates of the base OS: baseosmgr (cmd/baseosmgr) installs a version in *)
(* the partition that does not run, zedagent (cmd/zedagent) reboots into it *)
(* and reports that it has been tested, and zboot keeps a state for each of *)
(* the two partitions, from which the boot loader chooses.                  *)
(*                                                                          *)
(* baseosmgr is one goroutine.  Its handlers are cut where they write a     *)
(* partition or its state, since the device may stop in between.            *)
(* zedagent and baseosmgr see each other's objects when they are delivered. *)
(* A configuration has one image and is identified by its version; data     *)
(* stores, certificates and download errors are left out, so are reboot     *)
(* commands from the controller, and of a status what is only reported: its *)
(* errors and the state of its partition.                                   *)
(***************************************************************************)
EXTENDS Naturals, FiniteSets, KeyMap

CONSTANTS
  Version,        \* the versions of the base OS
  FirstVersion,   \* the one the device is made with
  Wanted,         \* what the controller may want: the versions, and the one to activate
  MaxBaseOsCount, \* so many configurations are accepted
  MaxOsChanges,   \* bound: changes of the controller's configuration
  MaxOutages      \* bound: power failures, crashes of the new version, cloud outages

Part    == {"IMGA", "IMGB"}
NoPart  == "none"
Torn    == "torn"

ASSUME BaseOsAssumption ==
  /\ FirstVersion \in Version /\ {NoPart, Torn} \cap Version = {}
  /\ \A w \in Wanted : w.of \subseteq Version /\ w.on \in w.of
  /\ {MaxBaseOsCount, MaxOsChanges, MaxOutages} \subseteq Nat

VARIABLES
  gpt,          \* the partitions: their state and the version in them
  curPart,      \* GetCurrentPartition
  zbootStatus,  \* the published ZbootStatus of the partitions
  cloudOs,      \* what the controller wants
  parsedOs,     \* what zedagent has parsed of it
  osConfig,     \* zedagent's BaseOsConfig of each version
  mgrConfig,    \* those baseosmgr has been given
  osStatus,     \* baseosmgr's BaseOsStatus of each version
  seenStatus,   \* what zedagent has been given of them
  verifiedOs,   \* the versions whose image is verified
  mgr,          \* baseosmgr: where it is, and its local variables
  updateInprogress, testDue,  \* zedagent: the partition is under test; the test may be completed
  answer,       \* zedagent: the configuration that is about to be published without TestComplete
  rebootSet,    \* zedagent's reboot timer is running
  bricked,      \* the boot loader finds nothing to boot
  osHistory,    \* history: the fallback was removed, a change of states was cut by a power failure,
                \* a status that was out of date had a partition booted
  osChanges, outages

partVars  == <<gpt, curPart, bricked>>
cloudVars == <<cloudOs, osChanges>>
agentVars == <<parsedOs, osConfig, updateInprogress, testDue, answer, rebootSet>>
mgrVars   == <<zbootStatus, mgrConfig, osStatus, mgr>>
osVars    == <<partVars, cloudVars, agentVars, mgrVars, seenStatus, verifiedOs, osHistory, outages>>

Other(p) == IF p = "IMGA" THEN "IMGB" ELSE "IMGA"
OtherPart == Other(curPart)
Nothing == [of |-> {}, on |-> NoPart]
NoAnswer == [os |-> NoPart, config |-> <<>>]
Resting == [pc |-> "idle", os |-> NoPart, st |-> <<>>, old |-> <<>>, base |-> NoPart, todo |-> {}]

NewOsStatus ==
  [label |-> NoPart, st |-> "INITIAL", activated |-> FALSE, tooEarly |-> FALSE, testComplete |-> FALSE,
   reboot |-> FALSE]

BosInit ==
  /\ gpt = [p \in Part |-> IF p = "IMGA" THEN [state |-> "active", version |-> FirstVersion]
                           ELSE [state |-> "unused", version |-> Torn]]
  /\ curPart = "IMGA" /\ bricked = FALSE /\ osHistory = {}
  /\ zbootStatus = gpt
  /\ cloudOs = [of |-> {FirstVersion}, on |-> FirstVersion] /\ parsedOs = Nothing
  /\ osConfig = <<>> /\ mgrConfig = <<>> /\ osStatus = <<>> /\ seenStatus = <<>>
  /\ verifiedOs = {} /\ mgr = Resting
  /\ updateInprogress = FALSE /\ testDue = FALSE /\ answer = NoAnswer /\ rebootSet = FALSE
  /\ osChanges = 0 /\ outages = 0

-----------------------------------------------------------------------------
(* baseosmgr: what its handlers compute.                                    *)

\* baseOsSetPartitionInfoInStatus
SetPartitionInfo(s, p) == [s EXCEPT !.label = p]

\* baseOsGetActivationStatus
ActivationStatus(s, zb) ==
  [s EXCEPT !.activated = (s.label = curPart) /\ (zb[curPart].state = "active")]

\* "Does the other partition contain a failed update with the same version?"
FailedBefore(v, zb) == zb[OtherPart].state = "inprogress" /\ zb[OtherPart].version = v

\* Mutant: a version under test is not noticed.
TooEarlyUpdating(zb) == zb[curPart].state = "updating"

\* "Must still be testing the current version; don't overwrite fallback"
TooEarly(zb) == zb[curPart].state = "inprogress" \/ zb[OtherPart].state = "active"

\* checkBaseOsStorageDownloadStatus and checkBaseOsVerificationStatus
Fetched(v, s, verified) ==
  IF s.st = "INSTALLED" THEN s
  ELSE [s EXCEPT !.st = IF v \in verified THEN "DELIVERED" ELSE "DOWNLOAD_STARTED"]

\* doBaseOsStatusUpdate up to doBaseOsActivate: the status, and whether it is to be activated.
\* zb, parts and verified are the states it reads.
Updated(v, c, s0, zb, parts, verified) ==
  LET placed  == ActivationStatus(s0, zb)
      found   == IF placed.label = NoPart /\ v = parts[OtherPart].version
                 THEN [SetPartitionInfo(placed, OtherPart) EXCEPT !.st = "DOWNLOADED", !.activated = FALSE]
                 ELSE placed
      fetched == Fetched(v, IF c.activate /\ found.label = NoPart THEN SetPartitionInfo(found, OtherPart)
                            ELSE found, verified)
  IN  CASE v = parts[curPart].version ->
             [s |-> [SetPartitionInfo(placed, curPart) EXCEPT !.st = "INSTALLED", !.activated = TRUE],
              go |-> FALSE]
        [] v # parts[curPart].version /\ FailedBefore(v, zb) ->
             [s |-> found, go |-> FALSE]
        [] v # parts[curPart].version /\ ~FailedBefore(v, zb) /\ TooEarly(zb) ->
             [s |-> [found EXCEPT !.tooEarly = TRUE], go |-> FALSE]
        [] OTHER ->
             [s |-> fetched, go |-> /\ fetched.st \in {"DELIVERED", "INSTALLED"}
                                    /\ c.activate /\ ~fetched.activated /\ fetched.label = OtherPart]

publishBaseOsStatus(v, s) == Put(osStatus, v, s)

\* baseOsHandleStatusUpdate for v, in the handler that goes on with m.  If v is to be activated
\* doBaseOsActivate marks the other partition "updating"; the image comes next.
StatusUpdate(v, s0, zb, parts, verified, m) ==
  LET u == Updated(v, mgrConfig'[v], s0, zb, parts, verified)
      marked == [parts EXCEPT ![OtherPart].state = "updating"]
  IN  IF u.go
      THEN /\ gpt' = marked
           /\ zbootStatus' = [zb EXCEPT ![OtherPart] = marked[OtherPart]]
           /\ osStatus' = publishBaseOsStatus(v, u.s)
           /\ mgr' = [m EXCEPT !.pc = IF u.s.st = "INSTALLED" THEN "installed" ELSE "dd", !.os = v, !.st = u.s]
           /\ osHistory' = IF u.s.st = "INSTALLED" /\ parts[OtherPart].version # v
                           THEN osHistory \cup {"stale"} ELSE osHistory
      ELSE /\ gpt' = parts /\ zbootStatus' = zb /\ osHistory' = osHistory
           /\ osStatus' = publishBaseOsStatus(v, u.s)
           /\ mgr' = IF m.base = NoPart THEN Resting ELSE [m EXCEPT !.pc = "retry", !.os = NoPart, !.st = <<>>]

MgrIdle == ~bricked /\ mgr.pc = "idle"

-----------------------------------------------------------------------------
(* baseosmgr: its handlers.  zedagent removes configurations before it adds *)
(* others, and they are delivered in that order.                            *)

GivenConfig(v) ==
  /\ DOMAIN mgrConfig \subseteq DOMAIN osConfig
  /\ v \in DOMAIN osConfig
  /\ v \in DOMAIN mgrConfig => mgrConfig[v] # osConfig[v]
  /\ mgrConfig' = Put(mgrConfig, v, osConfig[v])

\* handleBaseOsConfigModify for a version without a status, or that leaves TestComplete alone.
\* With too many configurations nothing is done but to report an error.
handleBaseOsConfigModify(v) ==
  /\ MgrIdle /\ GivenConfig(v)
  /\ LET s == IF v \in DOMAIN osStatus THEN osStatus[v] ELSE NewOsStatus
     IN  /\ ~(s.activated /\ osConfig[v].testComplete # s.testComplete)
         /\ IF Cardinality(DOMAIN mgrConfig') > MaxBaseOsCount
            THEN /\ osStatus' = publishBaseOsStatus(v, s)
                 /\ UNCHANGED <<gpt, zbootStatus, mgr, osHistory>>
            ELSE StatusUpdate(v, s, zbootStatus, gpt, verifiedOs, Resting)
  /\ UNCHANGED <<curPart, bricked, cloudVars, agentVars, seenStatus, verifiedOs, outages>>

\* handleBaseOsModify when TestComplete has changed.  handleBaseOsTestComplete works on its own
\* copy of the status, and handleBaseOsModify goes on with the older one (base, old).  The
\* partition under test is marked "active" first.  The other half of the handshake, a status with
\* TestComplete whose configuration is without it, never occurs (TestCompleteOverwritten).
handleBaseOsTestComplete(v) ==
  /\ MgrIdle /\ GivenConfig(v)
  /\ v \in DOMAIN osStatus
  /\ LET s == osStatus[v]
         after == [Resting EXCEPT !.base = v, !.old = s]
     IN  /\ s.activated /\ osConfig[v].testComplete # s.testComplete
         /\ \/ /\ osConfig[v].testComplete
               /\ zbootStatus[curPart].state = "inprogress"
               /\ s.label = curPart /\ v = zbootStatus[curPart].version
               /\ gpt' = [gpt EXCEPT ![curPart].state = "active"]
               /\ mgr' = [after EXCEPT !.pc = "marked"]
               /\ osStatus' = osStatus
            \/ /\ osConfig[v].testComplete
               /\ zbootStatus[curPart].state # "inprogress" \/ s.label # curPart \/ v # zbootStatus[curPart].version
               /\ mgr' = [after EXCEPT !.pc = "retry"]
               /\ UNCHANGED <<gpt, osStatus>>
  /\ UNCHANGED <<curPart, bricked, zbootStatus, cloudVars, agentVars, seenStatus, verifiedOs, osHistory, outages>>

\* Mutant: the fallback is not released, only a failed update is.
OtherUnusedFailed(parts) ==
  IF parts[OtherPart].state = "inprogress" THEN [parts EXCEPT ![OtherPart].state = "unused"] ELSE parts

\* The end of MarkCurrentPartitionStateActive
OtherUnused(parts) ==
  IF parts[OtherPart].state \in {"active", "inprogress"} THEN [parts EXCEPT ![OtherPart].state = "unused"] ELSE parts

\* The rest of MarkCurrentPartitionStateActive and of doPartitionStateTransition: the other
\* partition is marked "unused" if it was the fallback, or a failed update.
MarkOtherUnused ==
  /\ ~bricked /\ mgr.pc = "marked"
  /\ LET v == mgr.base
         good == gpt[OtherPart].state \in {"active", "inprogress"}
     IN  /\ gpt' = OtherUnused(gpt)
         /\ zbootStatus' = gpt'
         /\ osStatus' = publishBaseOsStatus(v, [mgr.old EXCEPT !.testComplete = TRUE])
         /\ mgr' = [mgr EXCEPT !.pc = "retry",
                               !.todo = IF good THEN {w \in DOMAIN osStatus' : osStatus'[w].tooEarly} ELSE {}]
  /\ UNCHANGED <<curPart, bricked, mgrConfig, cloudVars, agentVars, seenStatus, verifiedOs, osHistory, outages>>

\* One turn of the loop of maybeRetryInstall
maybeRetryInstall(w) ==
  /\ ~bricked /\ mgr.pc = "retry" /\ w \in mgr.todo
  /\ mgrConfig' = mgrConfig
  /\ StatusUpdate(w, [osStatus[w] EXCEPT !.tooEarly = FALSE], zbootStatus, gpt, verifiedOs,
                  [mgr EXCEPT !.todo = @ \ {w}])
  /\ UNCHANGED <<curPart, bricked, cloudVars, agentVars, seenStatus, verifiedOs, outages>>

\* The rest of handleBaseOsModify, with the older status.  The version is running
\* (ActivatedRuns), so nothing is installed.
handleBaseOsModifyEnd ==
  /\ ~bricked /\ mgr.pc = "retry" /\ mgr.todo = {}
  /\ osStatus' = publishBaseOsStatus(mgr.base,
                   IF Cardinality(DOMAIN mgrConfig) > MaxBaseOsCount THEN mgr.old
                   ELSE Updated(mgr.base, mgrConfig[mgr.base], mgr.old, zbootStatus, gpt, verifiedOs).s)
  /\ mgr' = Resting
  /\ UNCHANGED <<partVars, mgrConfig, zbootStatus, cloudVars, agentVars, seenStatus, verifiedOs, osHistory, outages>>

\* Mutant: a version that is running leaves its partition unused too.
LeavesAny(v, p) == p # NoPart /\ zbootStatus[p].version = v

\* Mutant: a partition that is to be booted is left as it is.
LeavesTested(v, p) == p # NoPart /\ p # curPart /\ zbootStatus[p].version = v /\ gpt[p].state # "updating"

\* doBaseOsUninstall: "If this image is on the !active partition we mark that as unused."
Leaves(v, p) == p # NoPart /\ p # curPart /\ zbootStatus[p].version = v

publishZbootPartitionStatus(p, parts) == [zbootStatus EXCEPT ![p] = parts[p]]

\* handleBaseOsConfigDelete
handleBaseOsConfigDelete(v) ==
  /\ MgrIdle
  /\ v \in DOMAIN mgrConfig \ DOMAIN osConfig
  /\ mgrConfig' = Without(mgrConfig, v)
  /\ osStatus' = Without(osStatus, v)
  /\ LET p == osStatus[v].label
     IN  IF Leaves(v, p)
         THEN /\ gpt' = [gpt EXCEPT ![p].state = "unused"]
              /\ zbootStatus' = publishZbootPartitionStatus(p, gpt')
              /\ osHistory' = IF gpt[p].state = "active" /\ gpt[curPart].state = "inprogress"
                              THEN osHistory \cup {"removed"} ELSE osHistory
         ELSE UNCHANGED <<gpt, zbootStatus, osHistory>>
  /\ UNCHANGED <<curPart, bricked, cloudVars, agentVars, mgr, seenStatus, verifiedOs, outages>>

\* handleDownloadStatusModify and handleVerifierStatusModify (baseOsHandleStatusUpdateSafename):
\* the image that was asked for is verified now, or its status has changed otherwise.
handleVerifierStatusModify(v) ==
  /\ MgrIdle
  /\ v \in DOMAIN mgrConfig /\ v \in DOMAIN osStatus
  /\ v \in verifiedOs \/ osStatus[v].st = "DOWNLOAD_STARTED"
  /\ verifiedOs' = verifiedOs \cup {v}
  /\ mgrConfig' = mgrConfig
  /\ StatusUpdate(v, osStatus[v], zbootStatus, gpt, verifiedOs', Resting)
  /\ UNCHANGED <<curPart, bricked, cloudVars, agentVars, seenStatus, outages>>

\* WriteToPartition: dd begins ...
WriteToPartition ==
  /\ ~bricked /\ mgr.pc = "dd"
  /\ gpt' = [gpt EXCEPT ![mgr.st.label].version = Torn]
  /\ mgr' = [mgr EXCEPT !.pc = "writing"]
  /\ UNCHANGED <<curPart, bricked, zbootStatus, mgrConfig, osStatus, cloudVars, agentVars, seenStatus,
                 verifiedOs, osHistory, outages>>

\* ... and ends, and so does doBaseOsActivate: zedagent is asked to reboot.
doBaseOsActivateEnd ==
  /\ ~bricked /\ mgr.pc \in {"writing", "installed"}
  /\ LET p == mgr.st.label
     IN  /\ gpt' = IF mgr.pc = "writing" THEN [gpt EXCEPT ![p].version = mgr.os] ELSE gpt
         /\ zbootStatus' = publishZbootPartitionStatus(p, gpt')
         /\ osStatus' = publishBaseOsStatus(mgr.os, [mgr.st EXCEPT !.st = "INSTALLED", !.reboot = TRUE])
         /\ mgr' = IF mgr.base = NoPart THEN Resting ELSE [mgr EXCEPT !.pc = "retry", !.os = NoPart, !.st = <<>>]
  /\ UNCHANGED <<curPart, bricked, mgrConfig, cloudVars, agentVars, seenStatus, verifiedOs, osHistory, outages>>

-----------------------------------------------------------------------------
(* zedagent                                                                 *)

\* The controller wants other versions, or activates another one.
zedcloud ==
  /\ ~bricked
  /\ osChanges < MaxOsChanges /\ osChanges' = osChanges + 1
  /\ cloudOs' \in Wanted \ {cloudOs}
  /\ UNCHANGED <<partVars, agentVars, mgrVars, seenStatus, verifiedOs, osHistory, outages>>

\* parseBaseOsConfig: the configurations are new objects, without TestComplete.
parseBaseOsConfig ==
  /\ ~bricked
  /\ parsedOs # cloudOs /\ parsedOs' = cloudOs
  /\ osConfig' = [v \in cloudOs.of |-> [activate |-> v = cloudOs.on, testComplete |-> FALSE]]
  /\ UNCHANGED <<partVars, cloudVars, updateInprogress, testDue, answer, rebootSet, mgrVars, seenStatus, verifiedOs,
                 osHistory, outages>>

\* configTimerTask: before it asks for the configuration zedagent looks whether the test goes on.
configTimerTask ==
  /\ ~bricked /\ updateInprogress /\ ~testDue
  /\ updateInprogress' = (zbootStatus[curPart].state = "inprogress")
  /\ testDue' = updateInprogress'
  /\ UNCHANGED <<partVars, cloudVars, parsedOs, osConfig, answer, rebootSet, mgrVars, seenStatus, verifiedOs, osHistory, outages>>

\* Mutant: the test of the version in the other partition is completed.
initiateBaseOsZedCloudTestCompleteOther ==
  /\ ~bricked /\ testDue
  /\ testDue' = FALSE
  /\ osConfig' = [v \in DOMAIN osConfig |->
                    IF v \in DOMAIN seenStatus /\ seenStatus[v].label = OtherPart
                    THEN [osConfig[v] EXCEPT !.testComplete = TRUE] ELSE osConfig[v]]
  /\ UNCHANGED <<partVars, cloudVars, parsedOs, updateInprogress, answer, rebootSet, mgrVars, seenStatus, verifiedOs,
                 osHistory, outages>>

\* initiateBaseOsZedCloudTestComplete: the controller has answered, and the version has run for
\* long enough.
initiateBaseOsZedCloudTestComplete ==
  /\ ~bricked /\ testDue
  /\ testDue' = FALSE
  /\ osConfig' = [v \in DOMAIN osConfig |->
                    IF v \in DOMAIN seenStatus /\ seenStatus[v].label = curPart
                    THEN [osConfig[v] EXCEPT !.testComplete = TRUE] ELSE osConfig[v]]
  /\ UNCHANGED <<partVars, cloudVars, parsedOs, updateInprogress, answer, rebootSet, mgrVars, seenStatus, verifiedOs,
                 osHistory, outages>>

\* getLatestConfig: the controller has been unreachable for too long during the test.
fallbackIfCloudGone ==
  /\ ~bricked /\ testDue
  /\ outages < MaxOutages /\ outages' = outages + 1
  /\ testDue' = FALSE /\ rebootSet' = TRUE
  /\ UNCHANGED <<partVars, cloudVars, parsedOs, osConfig, updateInprogress, answer, mgrVars, seenStatus, verifiedOs, osHistory>>

\* What zedagent looks at in a status
News(s) == [label |-> s.label, testComplete |-> s.testComplete, reboot |-> s.reboot]

\* handleBaseOsStatusModify: the reboot starts if it is asked for.  If the test is complete the
\* configuration is looked up (doBaseOsZedCloudTestComplete) ...
handleBaseOsStatusModify(v) ==
  /\ ~bricked /\ answer = NoAnswer
  /\ v \in DOMAIN osStatus
  /\ v \in DOMAIN seenStatus => seenStatus[v] # News(osStatus[v])
  /\ seenStatus' = Put(seenStatus, v, News(osStatus[v]))
  /\ answer' = IF osStatus[v].testComplete /\ v \in DOMAIN osConfig
               THEN [os |-> v, config |-> osConfig[v]] ELSE NoAnswer
  /\ rebootSet' = (rebootSet \/ osStatus[v].reboot)
  /\ UNCHANGED <<partVars, cloudVars, parsedOs, osConfig, updateInprogress, testDue, mgrVars, verifiedOs,
                 osHistory, outages>>

\* ... and published without TestComplete, whatever the goroutine that asks for configurations has
\* published in the meantime.
doBaseOsZedCloudTestComplete ==
  /\ ~bricked /\ answer # NoAnswer
  /\ osConfig' = Put(osConfig, answer.os, [answer.config EXCEPT !.testComplete = FALSE])
  /\ answer' = NoAnswer
  /\ UNCHANGED <<partVars, cloudVars, parsedOs, updateInprogress, testDue, rebootSet, mgrVars, seenStatus,
                 verifiedOs, osHistory, outages>>

handleBaseOsStatusDelete(v) ==
  /\ ~bricked /\ answer = NoAnswer
  /\ v \in DOMAIN seenStatus \ DOMAIN osStatus
  /\ seenStatus' = Without(seenStatus, v)
  /\ UNCHANGED <<partVars, cloudVars, agentVars, mgrVars, verifiedOs, osHistory, outages>>

-----------------------------------------------------------------------------
(* The boot loader (external): it tries a partition that is "updating"      *)
(* once, as "inprogress", and takes an "active" one otherwise.              *)

Tried(parts) == [p \in Part |-> IF parts[p].state = "updating" THEN [parts[p] EXCEPT !.state = "inprogress"]
                                ELSE parts[p]]

Boots(parts, p) ==
  LET new == {q \in Part : parts[q].state = "updating" /\ parts[q].version # Torn}
      old == {q \in Part : parts[q].state = "active" /\ parts[q].version # Torn}
  IN  p \in (IF new # {} THEN new ELSE old)

StartUp ==
  /\ gpt' = Tried(gpt)
  /\ \/ \E p \in Part : Boots(gpt, p) /\ curPart' = p /\ bricked' = FALSE
     \/ (\A p \in Part : ~Boots(gpt, p)) /\ curPart' = curPart /\ bricked' = TRUE
  /\ zbootStatus' = gpt'
  /\ parsedOs' = Nothing /\ osConfig' = <<>> /\ mgrConfig' = <<>> /\ osStatus' = <<>> /\ seenStatus' = <<>>
  /\ mgr' = Resting
  /\ updateInprogress' = (gpt'[curPart'].state = "inprogress") /\ testDue' = FALSE
  /\ answer' = NoAnswer /\ rebootSet' = FALSE
  /\ osHistory' = IF mgr.pc = "marked" THEN osHistory \cup {"cut"} ELSE osHistory
  /\ UNCHANGED <<cloudVars, verifiedOs>>

\* The reboot zedagent has started.
handleExecReboot == ~bricked /\ rebootSet /\ StartUp /\ UNCHANGED outages

\* The power fails, or the running version crashes and the watchdog restarts the device.
powerFails == ~bricked /\ outages < MaxOutages /\ outages' = outages + 1 /\ StartUp

BosNext ==
  \/ \E v \in Version :
       \/ handleBaseOsConfigModify(v) \/ handleBaseOsTestComplete(v) \/ maybeRetryInstall(v)
       \/ handleBaseOsConfigDelete(v) \/ handleVerifierStatusModify(v)
       \/ handleBaseOsStatusModify(v) \/ handleBaseOsStatusDelete(v)
  \/ MarkOtherUnused \/ handleBaseOsModifyEnd \/ WriteToPartition \/ doBaseOsActivateEnd
  \/ zedcloud \/ parseBaseOsConfig \/ configTimerTask \/ initiateBaseOsZedCloudTestComplete
  \/ doBaseOsZedCloudTestComplete \/ fallbackIfCloudGone \/ handleExecReboot \/ powerFails

BosSpec == BosInit /\ [][BosNext]_osVars

\* The steps of the two programs that nothing outside them holds up
mgrStep ==
  \/ \E v \in Version : \/ handleBaseOsConfigModify(v) \/ handleBaseOsTestComplete(v)
                        \/ maybeRetryInstall(v) \/ handleBaseOsConfigDelete(v)
  \/ MarkOtherUnused \/ handleBaseOsModifyEnd \/ WriteToPartition \/ doBaseOsActivateEnd

statusStep ==
  \/ \E v \in Version : handleBaseOsStatusModify(v) \/ handleBaseOsStatusDelete(v)
  \/ doBaseOsZedCloudTestComplete

BosFairness ==
  /\ WF_osVars(mgrStep) /\ WF_osVars(statusStep)
  /\ WF_osVars(parseBaseOsConfig) /\ WF_osVars(configTimerTask)
  /\ WF_osVars(initiateBaseOsZedCloudTestComplete) /\ WF_osVars(handleExecReboot)

-----------------------------------------------------------------------------
\* The values of the variables.
BosTypeOK ==
  /\ gpt \in [Part -> [state : {"active", "inprogress", "unused", "updating"}, version : Version \cup {Torn}]]
  /\ curPart \in Part
  /\ \A v \in DOMAIN osStatus : osStatus[v].label \in Part \cup {NoPart}
  /\ DOMAIN osConfig \subseteq Version /\ DOMAIN mgrConfig \subseteq Version /\ DOMAIN osStatus \subseteq Version

\* "Prefer to get the published value": between two handlers the published states of the
\* partitions, from which baseosmgr and zedagent decide, are those in the partition table.
ZbootStatusExact == MgrIdle => zbootStatus = gpt

\* "using dual partitions for fallback": the device always has something to boot.
AlwaysBoots == bricked => "removed" \in osHistory

\* "don't overwrite fallback": while a version is tested the other partition holds a whole,
\* active version.
FallbackKept ==
  ~bricked /\ "removed" \notin osHistory /\ gpt[curPart].state = "inprogress" =>
    gpt[OtherPart].state = "active" /\ gpt[OtherPart].version # Torn

\* Outside MarkCurrentPartitionStateActive one partition is active at most.
OneActive ==
  ~bricked /\ "cut" \notin osHistory /\ mgr.pc # "marked" => \E p \in Part : gpt[p].state # "active"

\* A partition that is to be booted holds a completely written version whenever baseosmgr is
\* between two handlers, and the status of that version asks for the reboot.  The exception is a
\* status that says INSTALLED of a partition written over since: installDownloadedObject skips
\* the dd, checkInstalledVersion lets it pass ("XXX restore"), and what is booted is the other
\* version, perhaps one that has been removed.
UpdatingWhole ==
  MgrIdle /\ gpt[OtherPart].state = "updating" =>
    /\ gpt[OtherPart].version # Torn
    /\ "stale" \notin osHistory =>
         \E v \in DOMAIN osStatus :
           gpt[OtherPart].version = v /\ osStatus[v].label = OtherPart /\ osStatus[v].reboot

\* Only the version that runs is reported as activated.
ActivatedRuns ==
  ~bricked => \A v \in DOMAIN osStatus : osStatus[v].activated => gpt[curPart].version = v

\* The status with TestComplete lasts only until the handler that published it ends: it publishes
\* the status it had looked up before.  zedagent sees it, and answers, only if it is quick enough.
TestCompleteOverwritten == MgrIdle => \A v \in DOMAIN osStatus : ~osStatus[v].testComplete

\* The partition that runs is never written.
RunningNotWritten == [][gpt'[curPart].version = gpt[curPart].version]_osVars

\* A test ends: the version under test becomes active, or the device runs another one, or the
\* controller has withdrawn it.  The controller must not send more configurations than
\* validateBaseOsConfig accepts: the one that comes last is then ignored for good, and it may be
\* the version under test.
TestEnds ==
  (\A w \in Wanted : Cardinality(w.of) <= MaxBaseOsCount) =>
    []<>(bricked \/ gpt[curPart].state # "inprogress" \/ gpt[curPart].version \notin cloudOs.of)
=============================================================================
