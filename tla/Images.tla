------------------------------- MODULE Images -------------------------------
(***************************************************************************)
(* How an application gets its image: zedmanager (updatestatus.go,          *)
(* handleverifier.go, handledownloader.go) asks the downloader for the file *)
(* and the verifier (cmd/verifier) for the verified one, counting the users *)
(* of an image in the RefCount of the two configurations.                   *)
(*                                                                          *)
(* An agent knows of another's publications by the copy its subscription    *)
(* has delivered.  Handlers of zedmanager and of the verifier's main        *)
(* goroutine are atomic; the verifier's goroutine of an image waits at its  *)
(* select and while it computes the sha.  An application has one image and  *)
(* no certificates, is created and deleted but not modified, and its domain *)
(* does not delay its removal.  The downloader is its answer to a RefCount  *)
(* without failing transfers (Downloader has them).  The images of two      *)
(* applications are one safename or have different shas: two names of one   *)
(* content fight over the directories of their sha.                         *)
(***************************************************************************)
EXTENDS Naturals, Sequences, FiniteSets, SequencesExt, FiniteSetsExt, KeyMap

CONSTANTS App, ImageOf,  \* applications and the safename of their image
          Image, ShaOf,  \* safenames and the sha they claim
          BootName,      \* the safename a verified file is given after a reboot if the
                         \* name of the image has a slash
          Wrap,          \* modulus of RefCount
          MaxChanges,    \* bound: applications configured or removed
          MaxBad,        \* bound: files whose sha is not the one claimed
          MaxBoots       \* bound: reboots

ASSUME ImagesAssumption ==
    /\ ImageOf \in [App -> Image]
    /\ \A a, b \in App : ShaOf[ImageOf[a]] = ShaOf[ImageOf[b]] => ImageOf[a] = ImageOf[b]
    /\ BootName \in [Image -> Image]
    /\ \A i \in Image : ShaOf[BootName[i]] = ShaOf[i] /\ BootName[BootName[i]] = BootName[i]
    /\ Wrap \in Nat /\ Cardinality(App) < Wrap
    /\ MaxChanges \in Nat /\ MaxBad \in Nat /\ MaxBoots \in Nat

VARIABLES path,               \* the safenames of images with a slash in their name
          config,             \* the applications that are configured
          app,                \* AppInstanceStatus: application -> record
          dlConfig, vConfig,  \* zedmanager's configurations: safename -> RefCount
          zdl, zv,            \* zedmanager's copies of dl and of vStatus
          dl,                 \* DownloaderStatus: safename -> [ref, state]
          vSeen, vStatus,     \* the verifier's copy of vConfig, VerifyImageStatus
          handlers,           \* per safename the verifier's goroutines, the one of handlerMap last
          gc,                 \* gcVerifiedObjects' copy of a status
          pending, verifying, verified,  \* the files in the three directories
          reverify,           \* safenames found at boot, their sha not yet computed
          boot,               \* safenames found at boot, not yet known to zedmanager
          touched,            \* safenames whose LastUse zedmanager has not seen
          changes, bad, boots,
          raced               \* history: safenames that met TooSoon, Unwatched, Undecided or Twice below,
                              \* an outdated copy of gcVerifiedObjects, or the expiry of
                              \* a download the verifier was asked for

zmVars == <<app, dlConfig, vConfig, zdl, zv, boot, touched>>
verifierVars == <<vSeen, vStatus, handlers, gc, verifying, verified, reverify, bad>>
vars == <<path, zmVars, verifierVars, config, dl, pending, changes, boots, raced>>

None == "none"

Sha == {ShaOf[i] : i \in Image}

Idle == [open |-> TRUE, pc |-> "select", ref |-> 0]

VerifyStatus == [ref : 0..(Wrap - 1), state : {"DOWNLOADED", "DELIVERED"},
                 pending : BOOLEAN, err : BOOLEAN, expired : BOOLEAN]

NewStatus(ref) ==
    [ref |-> ref, state |-> "DOWNLOADED", pending |-> FALSE, err |-> FALSE, expired |-> FALSE]

-----------------------------------------------------------------------------
(* zedmanager: an application's status and the two configurations, as a     *)
(* record z that the handlers pass on.                                      *)

Zm == [app |-> app, dl |-> dlConfig, v |-> vConfig]

\* MaybeAddVerifyImageConfig and AddOrRefcountDownloaderConfig
AddRef(f, i) == Put(f, i, IF i \in DOMAIN f THEN (f[i] + 1) % Wrap ELSE 1)

\* What the second loop of doInstall makes of the verifier's status.
Reached(vs) ==
    CASE vs.pending -> "waiting"
      [] ~vs.pending /\ vs.err -> "error"
      [] ~vs.pending /\ ~vs.err -> IF vs.state = "DELIVERED" THEN "delivered" ELSE "waiting"

SameSha(S, i) == {j \in S : ShaOf[j] = ShaOf[i]}

\* The first member of S in the order in which Go iterates over a map, or None.
First(S, order) == IF S = {} THEN None ELSE SelectSeq(order, LAMBDA j : j \in S)[1]

\* lookupVerifyImageStatusAny: by safename, else the first that has the sha
Found(known, i, order) == IF i \in DOMAIN known THEN i ELSE First(SameSha(DOMAIN known, i), order)

\* Mutant: HasVerifierRef is not looked at when the status is there.
doInstallCounts(z, a, known, got, order) ==
    LET i == ImageOf[a]
        s == z.app[a]
        n == Found(known, i, order)
    IN  IF n # None
        THEN [z EXCEPT !.v = AddRef(@, n),
                       !.app[a] = [s EXCEPT !.ver = TRUE, !.state = Reached(known[n])]]
        ELSE [app |-> [z.app EXCEPT ![a] = [ver |-> s.ver \/ i \in got, dl |-> TRUE, state |-> "waiting"]],
              dl  |-> IF s.dl THEN z.dl ELSE AddRef(z.dl, i),
              v   |-> IF s.ver \/ i \notin got THEN z.v ELSE AddRef(z.v, i)]

\* doInstall: an image that the verifier has, or is at, is taken; otherwise the
\* downloader is asked and then, once it has the file, the verifier.
\* known: the verifier's statuses; got: the safenames that are downloaded.
doInstall(z, a, known, got, order) ==
    LET i == ImageOf[a]
        s == z.app[a]
        n == Found(known, i, order)
    IN  IF n # None
        THEN [z EXCEPT !.v = IF s.ver THEN @ ELSE AddRef(@, n),
                       !.app[a] = [s EXCEPT !.ver = TRUE, !.state = Reached(known[n])]]
        ELSE [app |-> [z.app EXCEPT ![a] = [ver |-> s.ver \/ i \in got, dl |-> TRUE, state |-> "waiting"]],
              dl  |-> IF s.dl THEN z.dl ELSE AddRef(z.dl, i),
              v   |-> IF s.ver \/ i \notin got THEN z.v ELSE AddRef(z.v, i)]

\* Mutant: the loop ends with the first application that has the safename.
updateFirst(z, i, known, got, order) ==
    LET users == {a \in DOMAIN z.app : ImageOf[a] = i}
    IN  IF users = {} THEN z ELSE doInstall(z, CHOOSE a \in users : TRUE, known, got, order)

\* updateAIStatusSafename, removeAIStatusSafename: every application with this safename
updateAIStatusSafename(z, i, known, got, order) ==
    FoldSet(LAMBDA a, y : doInstall(y, a, known, got, order), z,
            {a \in DOMAIN z.app : ImageOf[a] = i})

Got(d) == {i \in DOMAIN d : d[i].state = "downloaded"}

\* The verifier is asked for i while it, or zedmanager's copy, has not done with an
\* earlier configuration, or when it has neither the file nor a status.
TooSoon(i, z, known) ==
    /\ i \in DOMAIN z.v \ DOMAIN vConfig
    /\ \/ handlers[i] # <<>> \/ i \in DOMAIN vSeen
       \/ i \in DOMAIN known \ DOMAIN vStatus
       \/ i \notin pending \union DOMAIN vStatus

\* An application holds a status of another safename that is not final: a change
\* of that status does not reach it.
Unwatched(i, z, known) ==
    /\ i \notin DOMAIN known
    /\ \E a \in DOMAIN z.app : ImageOf[a] = i /\ z.app[a].ver /\ z.app[a].state # "delivered"
    /\ SameSha(DOMAIN known, i) # {}

\* An expired status has come while the image is in use: it is ignored.
Undecided(i, z, known) == i \in DOMAIN known \intersect DOMAIN z.v /\ known[i].expired /\ z.v[i] > 0

\* Two safenames of the sha are configured.
Twice(i, z) == Cardinality(SameSha(DOMAIN z.v, i)) > 1

Become(after, known) ==
    \E z \in {after} :
        /\ app' = z.app /\ dlConfig' = z.dl /\ vConfig' = z.v
        /\ raced' = raced \union {i \in Image : \E j \in SameSha(Image, i) :
                                      \/ TooSoon(j, z, known) \/ Twice(j, z)
                                      \/ Unwatched(i, z, known) \/ Undecided(j, z, known)}

Order == SetToSeqs(Image)

Ready == boot = {}  \* verifierRestarted

\* handleCreate and handleCreate2
handleCreate(a) ==
    /\ Ready /\ a \in config \ DOMAIN app
    /\ \E order \in Order :
          Become(doInstall([Zm EXCEPT !.app = Put(@, a, [ver |-> FALSE, dl |-> FALSE, state |-> "waiting"])],
                           a, zv, Got(zdl), order), zv)
    /\ UNCHANGED <<path, verifierVars, zdl, zv, boot, touched, config, dl, pending, changes, boots>>

Unref(f, i) == IF i = None THEN f ELSE [f EXCEPT ![i] = (@ + Wrap - 1) % Wrap]

\* handleDelete: removeAIStatus, doUninstall; MaybeRemoveVerifyImageConfigSha256
\* takes the first configuration with the sha.
handleDelete(a) ==
    LET i == ImageOf[a]
        s == app[a]
    IN  /\ Ready /\ a \in DOMAIN app \ config
        /\ \E order \in Order :
              Become([app |-> Without(app, a),
                      dl  |-> IF s.dl /\ i \in DOMAIN dlConfig THEN Unref(dlConfig, i) ELSE dlConfig,
                      v   |-> IF s.ver THEN Unref(vConfig, First(SameSha(DOMAIN vConfig, i), order))
                                       ELSE vConfig], zv)
        /\ UNCHANGED <<path, verifierVars, zdl, zv, boot, touched, config, dl, pending, changes, boots>>

\* Mutant: an expired status removes a configuration that is in use.
VerifiedModifyHasty(i, known, order) ==
    CASE known[i].pending -> Zm
      [] ~known[i].pending /\ i \notin DOMAIN vConfig /\ known[i].ref = 0 -> [Zm EXCEPT !.v = Put(@, i, 0)]
      [] ~known[i].pending /\ i \in DOMAIN vConfig /\ known[i].expired -> [Zm EXCEPT !.v = Without(@, i)]
      [] OTHER -> updateAIStatusSafename(Zm, i, known, Got(zdl), order)

\* The body of handleVerifyImageStatusModify: a status without references is
\* echoed, an expired one ends a configuration without references.
VerifiedModify(i, known, order) ==
    CASE known[i].pending -> Zm
      [] ~known[i].pending /\ i \notin DOMAIN vConfig /\ known[i].ref = 0 -> [Zm EXCEPT !.v = Put(@, i, 0)]
      [] ~known[i].pending /\ i \in DOMAIN vConfig /\ vConfig[i] = 0 /\ known[i].expired ->
            [Zm EXCEPT !.v = Without(@, i)]
      [] OTHER -> updateAIStatusSafename(Zm, i, known, Got(zdl), order)

handleVerifyImageStatusModify(i) ==
    /\ i \in DOMAIN vStatus
    /\ i \in DOMAIN zv /\ zv[i] = vStatus[i] => i \in touched
    /\ zv' = Put(zv, i, vStatus[i])
    /\ \E order \in Order : Become(VerifiedModify(i, zv', order), zv')
    /\ boot' = boot \ {i} /\ touched' = touched \ {i}
    /\ UNCHANGED <<path, verifierVars, zdl, config, dl, pending, changes, boots>>

Unless0(f, i) == IF i \in DOMAIN f /\ f[i] = 0 THEN Without(f, i) ELSE f

handleVerifyImageStatusDelete(i) ==
    /\ i \in DOMAIN zv \ DOMAIN vStatus
    /\ zv' = Without(zv, i) /\ touched' = touched \ {i}
    /\ \E order \in Order :
          LET z == updateAIStatusSafename(Zm, i, zv', Got(zdl), order)
          IN  Become([z EXCEPT !.v = Unless0(@, i)], zv')
    /\ UNCHANGED <<path, verifierVars, zdl, boot, config, dl, pending, changes, boots>>

\* handleDownloaderStatusModify
handleDownloaderStatusModify(i) ==
    /\ Ready
    /\ i \in DOMAIN dl
    /\ i \in DOMAIN zdl => zdl[i] # dl[i]
    /\ zdl' = Put(zdl, i, dl[i])
    /\ \E order \in Order : Become(updateAIStatusSafename(Zm, i, zv, Got(zdl'), order), zv)
    /\ UNCHANGED <<path, verifierVars, zv, boot, touched, config, dl, pending, changes, boots>>

handleDownloaderStatusDelete(i) ==
    /\ Ready
    /\ i \in DOMAIN zdl \ DOMAIN dl
    /\ zdl' = Without(zdl, i)
    /\ \E order \in Order :
          LET z == updateAIStatusSafename(Zm, i, zv, Got(zdl'), order)
          IN  Become([z EXCEPT !.dl = Unless0(@, i)], zv)
    /\ UNCHANGED <<path, verifierVars, zv, boot, touched, config, dl, pending, changes, boots>>

-----------------------------------------------------------------------------
(* The downloader, as zedmanager sees it.                                  *)

\* A RefCount that rises from zero starts a download.
Download(i) ==
    /\ i \in DOMAIN dlConfig
    /\ i \in DOMAIN dl => dl[i].ref # dlConfig[i]
    /\ dl' = Put(dl, i, [ref |-> dlConfig[i],
                         state |-> IF i \in DOMAIN dl /\ (dl[i].ref # 0 \/ dlConfig[i] = 0)
                                   THEN dl[i].state ELSE "started"])
    /\ UNCHANGED <<path, zmVars, verifierVars, config, pending, changes, boots, raced>>

Downloaded(i) ==
    /\ i \in DOMAIN dl /\ dl[i].state = "started"
    /\ dl' = [dl EXCEPT ![i].state = "downloaded"]
    /\ pending' = pending \union {i}
    /\ UNCHANGED <<path, zmVars, verifierVars, config, changes, boots, raced>>

\* An unused object expires, zedmanager removes its configuration, the
\* downloader its file and its status.
DownloadExpired(i) ==
    /\ i \in DOMAIN dl /\ dl[i] = [ref |-> 0, state |-> "downloaded"]
    /\ i \in DOMAIN dlConfig /\ dlConfig[i] = 0
    /\ dl' = Without(dl, i) /\ dlConfig' = Without(dlConfig, i)
    /\ pending' = pending \ {i}
    /\ raced' = IF i \in pending \intersect DOMAIN vConfig THEN raced \union SameSha(Image, i) ELSE raced
    /\ UNCHANGED <<path, app, vConfig, zdl, zv, boot, touched, verifierVars, config, changes, boots>>

-----------------------------------------------------------------------------
(* The verifier's goroutine of a safename, runHandler.                     *)

Thread(i, k, t) == handlers' = [handlers EXCEPT ![i][k] = t]

Select(i, k) == Thread(i, k, [handlers[i][k] EXCEPT !.pc = "select", !.ref = 0])

Publish(i, s) == vStatus' = Put(vStatus, i, s)

\* handleCreate with markObjectAsVerifying: without the file an error, else the file
\* is moved, and all that is left in the two directories of the sha goes.
verifierCreate(i, k, ref) ==
    \/ /\ i \notin pending
       /\ Publish(i, [NewStatus(ref) EXCEPT !.err = TRUE])
       /\ Select(i, k)
       /\ UNCHANGED <<pending, verifying>>
    \/ /\ i \in pending
       /\ pending' = {j \in pending : ShaOf[j] # ShaOf[i]}
       /\ verifying' = [verifying EXCEPT ![ShaOf[i]] = i]
       /\ Publish(i, [NewStatus(ref) EXCEPT !.pending = TRUE])
       /\ Thread(i, k, [handlers[i][k] EXCEPT !.pc = "sha"])

\* handleModify: a safename determines the sha, so only RefCount can have changed.
verifierModify(i, k, ref) ==
    /\ Publish(i, [vStatus[i] EXCEPT !.ref = ref, !.expired = @ /\ vStatus[i].ref = ref])
    /\ Select(i, k)
    /\ UNCHANGED <<pending, verifying>>

HandleConfig(i, k) ==
    LET ref == handlers[i][k].ref
    IN  /\ handlers[i][k].pc = "config"
        /\ \/ i \notin DOMAIN vStatus /\ verifierCreate(i, k, ref)
           \/ i \in DOMAIN vStatus /\ verifierModify(i, k, ref)
        /\ touched' = IF i \in DOMAIN vStatus /\ ref # 0 THEN touched ELSE touched \union {i}
        /\ UNCHANGED <<path, app, dlConfig, vConfig, zdl, zv, boot, vSeen, gc, verified, reverify, bad,
                       config, dl, changes, boots, raced>>

\* verifyObjectSha succeeds; markObjectAsVerified replaces what the sha had.
ShaMatches(i, k) ==
    /\ handlers[i][k].pc = "sha" /\ verifying[ShaOf[i]] = i
    /\ verified' = [verified EXCEPT ![ShaOf[i]] = i]
    /\ verifying' = [verifying EXCEPT ![ShaOf[i]] = None]
    /\ Publish(i, [NewStatus(handlers[i][k].ref) EXCEPT !.state = "DELIVERED"])
    /\ Select(i, k)
    /\ UNCHANGED <<path, zmVars, vSeen, gc, reverify, bad, config, dl, pending, changes, boots, raced>>

ShaFails(i, k) ==
    /\ handlers[i][k].pc = "sha" /\ verifying[ShaOf[i]] = i
    /\ bad < MaxBad /\ bad' = bad + 1
    /\ Publish(i, [NewStatus(handlers[i][k].ref) EXCEPT !.err = TRUE])
    /\ Select(i, k)
    /\ UNCHANGED <<path, zmVars, vSeen, gc, verifying, verified, reverify, config, dl, pending, changes, boots, raced>>

\* The channel is closed: handleDelete, with doDelete, which removes the verified
\* file only for a DELIVERED status.
HandleClosed(i, k) ==
    /\ handlers[i][k].pc = "select" /\ ~handlers[i][k].open
    /\ \/ /\ i \notin DOMAIN vStatus
          /\ UNCHANGED <<vStatus, verifying, verified>>
       \/ /\ i \in DOMAIN vStatus
          /\ vStatus' = Without(vStatus, i)
          /\ verifying' = [verifying EXCEPT ![ShaOf[i]] = None]
          /\ verified' = IF vStatus[i].state = "DELIVERED"
                         THEN [verified EXCEPT ![ShaOf[i]] = None] ELSE verified
    /\ handlers' = [handlers EXCEPT ![i] = RemoveAt(@, k)]
    /\ UNCHANGED <<path, zmVars, vSeen, gc, reverify, bad, config, dl, pending, changes, boots, raced>>

-----------------------------------------------------------------------------
(* The verifier's main goroutine.                                          *)

Live(i) == handlers[i] # <<>> /\ Last(handlers[i]).open

Loop == reverify = {} /\ gc = <<>>

handleVerifyImageModify(i) ==
    LET t == [Idle EXCEPT !.pc = "config", !.ref = vConfig[i]]
    IN  /\ Loop
        /\ i \in DOMAIN vConfig
        /\ i \in DOMAIN vSeen => vSeen[i] # vConfig[i]
        /\ vSeen' = Put(vSeen, i, vConfig[i])
        /\ \/ Live(i) /\ Last(handlers[i]).pc = "select" /\ Thread(i, Len(handlers[i]), t)
           \/ ~Live(i) /\ handlers' = [handlers EXCEPT ![i] = Append(@, t)]
        /\ UNCHANGED <<path, zmVars, vStatus, gc, verifying, verified, reverify, bad, config, dl,
                       pending, changes, boots, raced>>

handleVerifyImageDelete(i) ==
    /\ Loop
    /\ i \in DOMAIN vSeen \ DOMAIN vConfig
    /\ vSeen' = Without(vSeen, i)
    /\ handlers' = IF Live(i) THEN [handlers EXCEPT ![i][Len(handlers[i])].open = FALSE] ELSE handlers
    /\ UNCHANGED <<path, zmVars, vStatus, gc, verifying, verified, reverify, bad, config, dl,
                   pending, changes, boots, raced>>

\* gcVerifiedObjects "runs concurrently with the handler": a copy, then its
\* publication.  downloadGCTime is longer than zedmanager takes to echo a status.
gcCopy(i) ==
    /\ Loop
    /\ i \in DOMAIN vConfig /\ i \in DOMAIN vSeen
    /\ i \in DOMAIN vStatus /\ vStatus[i].ref = 0 /\ ~vStatus[i].expired
    /\ gc' = [j \in {i} |-> vStatus[j]]
    /\ UNCHANGED <<path, zmVars, vSeen, vStatus, handlers, verifying, verified, reverify, bad, config, dl,
                   pending, changes, boots, raced>>

gcPublish(i) ==
    /\ i \in DOMAIN gc
    /\ Publish(i, [gc[i] EXCEPT !.expired = TRUE])
    /\ gc' = <<>>
    /\ raced' = IF i \in DOMAIN vStatus /\ vStatus[i] = gc[i] THEN raced ELSE raced \union SameSha(Image, i)
    /\ UNCHANGED <<path, zmVars, vSeen, handlers, verifying, verified, reverify, bad, config, dl,
                   pending, changes, boots>>

\* updateInitialStatusFromVerified: a file that passes is DELIVERED; of one that
\* does not, doDelete removes nothing, and its status stays.
ReverifyFile(i) ==
    /\ i \in reverify
    /\ reverify' = reverify \ {i}
    /\ \/ Publish(i, [vStatus[i] EXCEPT !.state = "DELIVERED"]) /\ UNCHANGED bad
       \/ bad < MaxBad /\ bad' = bad + 1 /\ UNCHANGED vStatus
    /\ UNCHANGED <<path, zmVars, vSeen, handlers, gc, verifying, verified, config, dl, pending, changes, boots, raced>>

-----------------------------------------------------------------------------
\* The controller configures and removes applications.
Configure(a) ==
    /\ changes < MaxChanges /\ changes' = changes + 1
    /\ config' = IF a \in config THEN config \ {a} ELSE config \union {a}
    /\ UNCHANGED <<path, zmVars, verifierVars, dl, pending, boots, raced>>

\* populateInitialStatusFromVerified: of a name only the part after the last slash is left.
Boot(i) == IF i \in path THEN BootName[i] ELSE i

\* What is published is gone; downloader and verifier clear their directories, and
\* the verifier publishes what it finds in verified.
Restarted(found) ==
    /\ app' = <<>> /\ dlConfig' = <<>> /\ vConfig' = <<>> /\ zdl' = <<>> /\ zv' = <<>>
    /\ dl' = <<>> /\ vSeen' = <<>> /\ gc' = <<>> /\ touched' = {}
    /\ handlers' = [i \in Image |-> <<>>]
    /\ pending' = {} /\ verifying' = [s \in Sha |-> None]
    /\ verified' = [s \in Sha |-> IF verified[s] = None THEN None ELSE Boot(verified[s])]
    /\ vStatus' = [i \in found |-> NewStatus(0)]
    /\ reverify' = found

\* Mutant: zedmanager does not wait for the verifier.
RebootReady ==
    /\ boots < MaxBoots /\ boots' = boots + 1
    /\ Restarted({Boot(verified[s]) : s \in {s \in Sha : verified[s] # None}})
    /\ boot' = {}
    /\ UNCHANGED <<path, config, changes, bad, raced>>

\* A reboot; zedmanager waits until the verifier has reported what it found.
Reboot ==
    LET found == {Boot(verified[s]) : s \in {s \in Sha : verified[s] # None}}
    IN  /\ boots < MaxBoots /\ boots' = boots + 1
        /\ Restarted(found)
        /\ boot' = found
        /\ UNCHANGED <<path, config, changes, bad, raced>>

Init ==
    /\ path \in SUBSET {i \in Image : BootName[i] # i}
    /\ config \in SUBSET App
    /\ app = <<>> /\ dlConfig = <<>> /\ vConfig = <<>> /\ zdl = <<>> /\ zv = <<>>
    /\ dl = <<>> /\ vSeen = <<>> /\ vStatus = <<>> /\ gc = <<>>
    /\ handlers = [i \in Image |-> <<>>]
    /\ pending = {} /\ verifying = [s \in Sha |-> None] /\ verified = [s \in Sha |-> None]
    /\ reverify = {} /\ boot = {} /\ touched = {} /\ changes = 0 /\ bad = 0 /\ boots = 0 /\ raced = {}

Zedmanager(i) ==
    \/ handleVerifyImageStatusModify(i) \/ handleVerifyImageStatusDelete(i)
    \/ handleDownloaderStatusModify(i) \/ handleDownloaderStatusDelete(i)
    \/ \E a \in App : ImageOf[a] = i /\ (handleCreate(a) \/ handleDelete(a))

Downloader(i) == Download(i) \/ Downloaded(i)

Main(i) == handleVerifyImageModify(i) \/ handleVerifyImageDelete(i) \/ gcPublish(i) \/ ReverifyFile(i)

Handler(i) ==
    \E k \in DOMAIN handlers[i] :
        HandleConfig(i, k) \/ ShaMatches(i, k) \/ ShaFails(i, k) \/ HandleClosed(i, k)

Next ==
    \/ \E i \in Image : Zedmanager(i) \/ Downloader(i) \/ DownloadExpired(i)
                       \/ Main(i) \/ gcCopy(i) \/ Handler(i)
    \/ \E a \in App : Configure(a)
    \/ Reboot

Spec == Init /\ [][Next]_vars

\* Nothing is left for the agents to do, the garbage collections included.
AtRest ==
    ~ENABLED (\E i \in Image : Zedmanager(i) \/ Downloader(i) \/ DownloadExpired(i)
                                \/ Main(i) \/ gcCopy(i) \/ Handler(i))

-----------------------------------------------------------------------------
(* Properties.                                                             *)

\* The RefCount zedmanager publishes for a verified image (MaybeAddVerifyImageConfig,
\* MaybeRemoveVerifyImageConfigSha256) is the number of applications that hold it,
\* whether they found it by safename or by sha, and never falls below zero.
RefCountExact ==
    \A i \in DOMAIN vConfig \ raced :
        vConfig[i] = Cardinality({a \in DOMAIN app : app[a].ver /\ ShaOf[ImageOf[a]] = ShaOf[i]})

\* An application that doInstall lets go on has its image in the verified
\* directory: no garbage collection, delete or reboot has taken it.
DeliveredHasFile ==
    \A a \in DOMAIN app : app[a].state = "delivered" /\ ImageOf[a] \notin raced
                             => verified[ShaOf[ImageOf[a]]] # None

\* "First we process the verifierStatus to avoid downloading an image we already
\* have in place" (zedmanager.go): a sound verified image is not downloaded again, also
\* after a reboot and under another name, unless zedmanager has asked the verifier
\* for it and has not heard of the result.
NoNeedlessDownload ==
    [][\A i \in (DOMAIN dlConfig' \ DOMAIN dlConfig) \ raced :
          (bad = 0 /\ verified[ShaOf[i]] # None) =>
              SameSha(DOMAIN vConfig, i) # {} /\ SameSha(DOMAIN zv, i) = {}]_vars

\* The application stays configured and its image is sound and meets no race.
Steady(a) == a \in config /\ bad = 0 /\ ImageOf[a] \notin raced

\* When the agents have come to rest a configured application has its image, since
\* every change that matters to it has led to a call of doInstall
\* (updateAIStatusSafename); and when no application is configured no verified image
\* is left (gcVerifiedObjects, the Expired handshake, doDelete).
SettledAtRest ==
    \/ \E a \in App : Steady(a) /\ ~(a \in DOMAIN app /\ app[a].state = "delivered")
    \/ config = {} /\ bad = 0 /\ \E i \in Image \ raced : verified[ShaOf[i]] # None
    => ~AtRest

\* "handleInitUpdateVerifiedObjects will recheck sha/signatures which can take many
\* minutes, and update zedmanager" (verifier.go): after a reboot an application
\* whose image passes gets it.
InstalledAfterBoot ==
    (boots > 0 /\ bad = 0 /\ \E a \in config : ~(a \in DOMAIN app /\ app[a].state = "delivered"))
        => ~AtRest
=============================================================================
