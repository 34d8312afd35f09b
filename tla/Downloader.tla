----------------------------- MODULE Downloader -----------------------------
(***************************************************************************)
(* cmd/downloader: one goroutine per object, driven by the DownloaderConfig *)
(* the object's user publishes, owning the DownloaderStatus of the object   *)
(* and sharing one account of the space downloads may take.                 *)
(*                                                                          *)
(* A configuration and a status are maps from the object's key (Safename);  *)
(* a key determines URL and sha, so of a configuration only RefCount        *)
(* varies.  A step of a goroutine is atomic up to the point where it waits: *)
(* at its select, or for a download.  The send on the unbuffered channel is *)
(* the rendezvous of the main goroutine with a handler at its select.       *)
(* DownloaderStatus.Size is zero in every published status (unreserveSpace  *)
(* clears it), so it is left out, and deleteSpace subtracts nothing.        *)
(* RetryCount, Progress and the times are left out: timers may fire         *)
(* whenever their other conditions hold.                                    *)
(***************************************************************************)
EXTENDS Integers, Sequences, FiniteSets, SequencesExt, KeyMap

CONSTANTS Object,    \* the keys of the objects
          Size,      \* the size of each object in kbytes
          MaxSpace,  \* GlobalDownloadConfig.MaxSpace
          Wrap,      \* modulus of the unsigned counters
          MaxRef,    \* bound: the references to one object
          MaxConfigs,\* bound: the changes of the configuration
          MaxFails   \* bound: the downloads that fail

ASSUME DownloaderAssumption ==
    /\ IsFiniteSet(Object)
    /\ Size \in [Object -> Nat \ {0}]
    /\ MaxSpace \in Nat
    /\ Wrap \in Nat /\ MaxSpace < Wrap
    /\ MaxRef \in Nat \ {0} /\ MaxConfigs \in Nat /\ MaxFails \in Nat

VARIABLES config,    \* what the user of the objects has published: key -> RefCount
          changes,   \* how often the configuration has changed
          seen,      \* the downloader's copy of config (its subscription)
          status,    \* DownloaderStatus as published: key -> record
          handlers,  \* per object, its goroutines, the one of handlerMap last
          gc,        \* gcObjects' copy of a status it found unused
          used, reserved,  \* GlobalDownloadStatus
          disk,      \* objects with a file in the download directory
          fails,     \* failed downloads so far
          raced      \* history: objects configured again while a goroutine of
                     \* theirs was ending, or hit by an outdated copy of gcObjects

vars == <<config, changes, seen, status, handlers, gc, used, reserved, disk, fails, raced>>

States == {"INITIAL", "DOWNLOAD_STARTED", "DOWNLOADED"}

Status == [ref : Nat, state : States, pending : BOOLEAN, err : BOOLEAN,
           expired : BOOLEAN, resv : Nat]

\* A goroutine: is its channel open, where is it, the RefCount it was handed,
\* the status it works on, and the one its caller publishes afterwards.
Idle == [open |-> TRUE, pc |-> "select", ref |-> 0, local |-> <<>>, after |-> <<>>]

Total(f, S) == FoldFunctionOnSet(+, 0, f, S)

Present(f) == DOMAIN f

Publish(o, s) == status' = Put(status, o, s)

Unpublish(o) == status' = Without(status, o)

-----------------------------------------------------------------------------
(* The account.                                                            *)

RemainingSpace == (MaxSpace - used - reserved) % Wrap

tryReserveSpace(kb) == kb < RemainingSpace

-----------------------------------------------------------------------------
(* A goroutine that starts a download, and its end.                        *)

Thread(o, i, t) == handlers' = [handlers EXCEPT ![o][i] = t]

Done(o, i) == Thread(o, i, [Idle EXCEPT !.open = handlers[o][i].open])

\* handleSyncOp up to the wait for the transfer.  "after" is the status that
\* the caller publishes once handleSyncOp has returned, if there is one.
handleSyncOp(o, i, s, after) ==
    LET t == [s EXCEPT !.state = "DOWNLOAD_STARTED"]
    IN  /\ Publish(o, t)
        /\ Thread(o, i, [handlers[o][i] EXCEPT !.pc = "download", !.ref = 0, !.local = t, !.after = after])

\* The status that is published last by a goroutine whose download has ended
\* with s: handleModify goes on to publish the one it had looked up.
Published(th, s) == IF th.after = <<>> THEN s ELSE th.after

\* unreserveSpace
unreserveSpace(s, kb) ==
    /\ reserved' = (reserved - s.resv) % Wrap
    /\ used' = (used - kb) % Wrap

\* Mutant: the status goes on holding what was unreserved.
DownloadDoneKeeps(o, i) ==
    LET th == handlers[o][i]
        s  == [th.local EXCEPT !.state = "DOWNLOADED", !.pending = FALSE]
    IN  /\ th.pc = "download"
        /\ unreserveSpace(th.local, Size[o])
        /\ disk' = disk \union {o}
        /\ Publish(o, Published(th, s))
        /\ Done(o, i)
        /\ UNCHANGED <<config, changes, seen, gc, fails, raced>>

\* handleSyncOpResponse without an error
DownloadDone(o, i) ==
    LET th == handlers[o][i]
        s  == [th.local EXCEPT !.state = "DOWNLOADED", !.pending = FALSE, !.resv = 0]
    IN  /\ th.pc = "download"
        /\ unreserveSpace(th.local, Size[o])
        /\ disk' = disk \union {o}
        /\ Publish(o, Published(th, s))
        /\ Done(o, i)
        /\ UNCHANGED <<config, changes, seen, gc, fails, raced>>

\* handleSyncOpResponse with an error: doDelete, then the error
DownloadFails(o, i) ==
    LET th == handlers[o][i]
        s  == [th.local EXCEPT !.state = "INITIAL", !.pending = FALSE, !.err = TRUE]
    IN  /\ th.pc = "download"
        /\ fails < MaxFails
        /\ fails' = fails + 1
        /\ disk' = disk \ {o}
        /\ Publish(o, Published(th, s))
        /\ Done(o, i)
        /\ UNCHANGED <<config, changes, seen, gc, used, reserved, raced>>

\* doHttp, doS3 and doSftp publish the progress of the transfer
DownloadProgress(o, i) ==
    LET th == handlers[o][i]
    IN  /\ th.pc = "download"
        /\ Publish(o, th.local)
        /\ UNCHANGED <<config, changes, seen, handlers, gc, used, reserved, disk, fails, raced>>

-----------------------------------------------------------------------------
(* A goroutine handed a configuration with RefCount ref.                   *)

New(ref, kb, err) ==
    [ref |-> ref, state |-> "INITIAL", pending |-> ~err, err |-> err, expired |-> FALSE, resv |-> kb]

\* handleCreate: the download waits for space, and for a reference.
handleCreate(o, i, ref, after) ==
    \/ /\ ~tryReserveSpace(Size[o])
       /\ Publish(o, IF after = <<>> THEN New(ref, 0, TRUE) ELSE after)
       /\ Done(o, i)
       /\ UNCHANGED <<used, reserved>>
    \/ /\ tryReserveSpace(Size[o])
       /\ reserved' = (reserved + Size[o]) % Wrap
       /\ \/ /\ ref = 0
             /\ Publish(o, New(ref, Size[o], TRUE))
             /\ Done(o, i)
          \/ /\ ref # 0
             /\ handleSyncOp(o, i, New(ref, Size[o], FALSE), after)
       /\ UNCHANGED used

\* Mutant: a RefCount is not recorded while the object stays in use.
handleModifyForgets(o, i, ref) ==
    LET s == status[o]
    IN  \/ /\ s.err
           /\ disk' = disk \ {o}
           /\ handleCreate(o, i, ref, <<>>)
        \/ /\ ~s.err
           /\ Publish(o, IF s.ref # 0 /\ ref # 0 THEN s ELSE [s EXCEPT !.ref = ref])
           /\ Done(o, i)
           /\ UNCHANGED <<used, reserved, disk>>

\* Mutant: the file goes with the last reference, the state does not.
handleModifyDeletes(o, i, ref) ==
    LET s == status[o]
    IN  \/ /\ s.err
           /\ disk' = disk \ {o}
           /\ handleCreate(o, i, ref, <<>>)
        \/ /\ ~s.err
           /\ Publish(o, [s EXCEPT !.ref = ref])
           /\ Done(o, i)
           /\ disk' = IF ref = 0 THEN disk \ {o} ELSE disk
           /\ UNCHANGED <<used, reserved>>

\* handleModify: after an error, delete and recreate; install again when the
\* object comes into use; otherwise only record the RefCount.
handleModify(o, i, ref) ==
    LET s == status[o]
        t == [s EXCEPT !.ref = ref, !.expired = @ /\ s.ref = ref]
    IN  \/ /\ s.err
           /\ disk' = disk \ {o}
           /\ handleCreate(o, i, ref, <<>>)
        \/ /\ ~s.err
           /\ s.ref = 0 /\ ref # 0
           /\ handleCreate(o, i, ref, t)
           /\ UNCHANGED disk
        \/ /\ ~s.err
           /\ ~(s.ref = 0 /\ ref # 0)
           /\ Publish(o, t)
           /\ Done(o, i)
           /\ UNCHANGED <<used, reserved, disk>>

\* handleDelete
handleDelete(o) ==
    /\ unreserveSpace(status[o], 0)
    /\ disk' = disk \ {o}
    /\ Unpublish(o)

-----------------------------------------------------------------------------
(* The select of a goroutine, runHandler.                                  *)

Waiting(o, i) == handlers[o][i].pc = "select"

\* runHandler has got a configuration from its channel
HandleConfig(o, i) ==
    /\ handlers[o][i].pc = "config"
    /\ \/ /\ o \notin Present(status)
          /\ handleCreate(o, i, handlers[o][i].ref, <<>>)
          /\ UNCHANGED disk
       \/ /\ o \in Present(status)
          /\ handleModify(o, i, handlers[o][i].ref)
    /\ UNCHANGED <<config, changes, seen, gc, fails, raced>>

\* Mutant: runHandler goes on after it has found its channel closed.
HandleClosedGoesOn(o, i) ==
    /\ Waiting(o, i)
    /\ ~handlers[o][i].open
    /\ o \in Present(status)
    /\ handleDelete(o)
    /\ UNCHANGED <<config, changes, seen, handlers, gc, fails, raced>>

\* runHandler finds its channel closed, and returns
HandleClosed(o, i) ==
    /\ Waiting(o, i)
    /\ ~handlers[o][i].open
    /\ \/ /\ o \in Present(status)
          /\ handleDelete(o)
       \/ /\ o \notin Present(status)
          /\ UNCHANGED <<status, used, reserved, disk>>
    /\ handlers' = [handlers EXCEPT ![o] = RemoveAt(@, i)]
    /\ UNCHANGED <<config, changes, seen, gc, fails, raced>>

\* Mutant: only an object whose creation is pending is tried again.
RetryPending(o, i) ==
    /\ Waiting(o, i)
    /\ o \in Present(status) /\ o \in Present(seen)
    /\ status[o].err /\ status[o].pending
    /\ handleSyncOp(o, i, [status[o] EXCEPT !.err = FALSE], <<>>)
    /\ UNCHANGED <<config, changes, seen, gc, used, reserved, disk, fails, raced>>

\* runHandler's ticker: maybeRetryDownload
maybeRetryDownload(o, i) ==
    /\ Waiting(o, i)
    /\ o \in Present(status) /\ o \in Present(seen)
    /\ status[o].err
    /\ handleSyncOp(o, i, [status[o] EXCEPT !.err = FALSE], <<>>)
    /\ UNCHANGED <<config, changes, seen, gc, used, reserved, disk, fails, raced>>

-----------------------------------------------------------------------------
(* The main goroutine: ProcessChange on the subscription.                  *)

Live(o) == handlers[o] # <<>> /\ handlers[o][Len(handlers[o])].open

\* handleDownloaderModify: the goroutine of handlerMap, when it is at its
\* select, or a new one takes the configuration
handleDownloaderModify(o) ==
    LET hs == handlers[o]
        hd == [Idle EXCEPT !.pc = "config", !.ref = config[o]]
    IN  /\ gc = <<>>
        /\ o \in Present(config)
        /\ o \in Present(seen) => seen[o] # config[o]
        /\ seen' = Put(seen, o, config[o])
        /\ \/ /\ Live(o)
              /\ Waiting(o, Len(hs))
              /\ handlers' = [handlers EXCEPT ![o][Len(hs)] = hd]
           \/ /\ ~Live(o)
              /\ handlers' = [handlers EXCEPT ![o] = Append(@, hd)]
        /\ UNCHANGED <<config, changes, status, gc, used, reserved, disk, fails, raced>>

\* handleDownloaderDelete: close the channel and forget the goroutine
handleDownloaderDelete(o) ==
    /\ gc = <<>>
    /\ o \in Present(seen) /\ o \notin Present(config)
    /\ seen' = Without(seen, o)
    /\ handlers' = IF Live(o) THEN [handlers EXCEPT ![o][Len(handlers[o])].open = FALSE] ELSE handlers
    /\ UNCHANGED <<config, changes, status, gc, used, reserved, disk, fails, raced>>

\* gcObjects: the statuses it gets are copies; of each unused one it publishes
\* its copy, marked as expired, whatever the goroutines do in between.
Unused(o) == o \in Present(status) /\ status[o].ref = 0 /\ ~status[o].expired

gcCopy(o) ==
    /\ gc = <<>>
    /\ Unused(o)
    /\ gc' = [p \in {o} |-> status[p]]
    /\ UNCHANGED <<config, changes, seen, status, handlers, used, reserved, disk, fails, raced>>

gcPublish(o) ==
    /\ o \in Present(gc)
    /\ Publish(o, [gc[o] EXCEPT !.expired = TRUE])
    /\ gc' = <<>>
    /\ raced' = IF o \in Present(status) /\ status[o] = gc[o] THEN raced ELSE raced \union {o}
    /\ UNCHANGED <<config, changes, seen, handlers, used, reserved, disk, fails>>

-----------------------------------------------------------------------------
(* The user of the objects, as zedmanager (handledownloader.go): it counts  *)
(* references, and removes a configuration without references when the      *)
(* status has expired.                                                      *)

Change(c) ==
    /\ changes < MaxConfigs
    /\ changes' = changes + 1
    /\ config' = c
    /\ UNCHANGED <<seen, status, handlers, gc, used, reserved, disk, fails>>

\* AddOrRefcountDownloaderConfig
AddOrRefcount(o) ==
    \/ /\ o \notin Present(config)
       /\ Change(Put(config, o, 1))
       /\ raced' = IF handlers[o] # <<>> \/ o \in Present(seen) THEN raced \union {o} ELSE raced
    \/ /\ o \in Present(config) /\ config[o] < MaxRef
       /\ Change([config EXCEPT ![o] = @ + 1])
       /\ UNCHANGED raced

\* MaybeRemoveDownloaderConfig
MaybeRemove(o) ==
    /\ o \in Present(config) /\ config[o] > 0
    /\ Change([config EXCEPT ![o] = @ - 1])
    /\ UNCHANGED raced

\* handleDownloaderStatusModify
RemoveUnused(o) ==
    /\ o \in Present(config) /\ config[o] = 0
    /\ o \in Present(status) /\ status[o].expired
    /\ Change(Without(config, o))
    /\ UNCHANGED raced

-----------------------------------------------------------------------------
Init ==
    /\ config = <<>> /\ seen = <<>> /\ status = <<>> /\ gc = <<>>
    /\ changes = 0
    /\ handlers = [o \in Object |-> <<>>]
    /\ used = 0 /\ reserved = 0 /\ disk = {} /\ fails = 0 /\ raced = {}

User(o) == AddOrRefcount(o) \/ MaybeRemove(o) \/ RemoveUnused(o)

Main(o) == handleDownloaderModify(o) \/ handleDownloaderDelete(o)
           \/ gcCopy(o) \/ gcPublish(o)

\* What a goroutine does of itself; a transfer comes to an end.
HandlerRuns(o, i) ==
    \/ HandleConfig(o, i) \/ HandleClosed(o, i) \/ maybeRetryDownload(o, i)
    \/ DownloadDone(o, i)

Handler(o, i) == HandlerRuns(o, i) \/ DownloadFails(o, i) \/ DownloadProgress(o, i)

Next ==
    \E o \in Object :
        \/ User(o) \/ Main(o)
        \/ \E i \in DOMAIN handlers[o] : Handler(o, i)

Spec == Init /\ [][Next]_vars

\* The main goroutine and the handlers are scheduled, tickers fire and a
\* transfer ends, with success when it does not fail.
Fairness ==
    \A o \in Object :
        /\ WF_vars(handleDownloaderModify(o))
        /\ WF_vars(handleDownloaderDelete(o))
        /\ WF_vars(gcPublish(o))
        /\ \A i \in 1..MaxConfigs : WF_vars(i \in DOMAIN handlers[o] /\ HandlerRuns(o, i))

FairSpec == Spec /\ Fairness

-----------------------------------------------------------------------------
Map(T) == UNION {[S -> T] : S \in SUBSET Object}

Threads == [open : BOOLEAN, pc : {"select", "config", "download"}, ref : 0..MaxRef,
            local : Status \union {<<>>}, after : Status \union {<<>>}]

\* What the downloader's variables hold.
TypeOK ==
    /\ config \in Map(0..MaxRef) /\ seen \in Map(0..MaxRef)
    /\ Present(status) \subseteq Object /\ \A o \in Present(status) : status[o] \in Status
    /\ \A o \in Object : \A i \in DOMAIN handlers[o] : handlers[o][i] \in Threads
    /\ \A o \in Object : \A i \in DOMAIN handlers[o] :
          handlers[o][i].pc = "download" <=> handlers[o][i].local # <<>>
    /\ used \in 0..(Wrap - 1) /\ reserved \in 0..(Wrap - 1)
    /\ disk \subseteq Object /\ raced \subseteq Object

Quiet(o) ==
    /\ gc = <<>>
    /\ o \in Present(config) <=> o \in Present(seen)
    /\ o \in Present(config) => seen[o] = config[o]
    /\ \A i \in DOMAIN handlers[o] : handlers[o][i] = Idle

Follows(o) ==
    Quiet(o) => /\ o \in Present(config) <=> o \in Present(status)
                /\ o \in Present(config) => status[o].ref = config[o]

\* Once the handler of an object (runHandler) has nothing left to do, there is
\* a status for the object exactly when it is configured, and its RefCount is
\* the configured one, unless one of the two races has hit the object.
RefCountFollows == \A o \in Object \ raced : Follows(o)

Held == [o \in Object |->
            (IF o \in Present(status) THEN status[o].resv ELSE 0)]

Transfer == {<<o, i>> \in Object \X (1..MaxConfigs) :
                i \in DOMAIN handlers[o] /\ handlers[o][i].pc = "download"}

\* Every kbyte a status still holds reserved is part of the space reserved in
\* all: unreserveSpace never takes the unsigned counter below zero.
ReservedCovers == raced = {} => Total(Held, Object) <= reserved

\* A status that says DOWNLOADED has its file, as long as no transfer has failed:
\* "The caller should look at State == DOWNLOADED to determine it is done"
\* (handleSyncOpResponse).
DownloadedOnDisk ==
    fails = 0 => \A o \in Present(status) \ raced :
                    status[o].state = "DOWNLOADED" => o \in disk

\* An object that stays in use is downloaded in the end, whatever failed
\* before: maybeRetryDownload and handleModify take it up again.
InUseIsDownloaded ==
    \A o \in Object :
        <>[](o \in Present(config) /\ config[o] > 0 /\ o \notin raced)
        => <>(o \in Present(status) /\ status[o].state = "DOWNLOADED")

\* A goroutine ends once its object is gone: handleDownloaderDelete closes
\* the channel of every goroutine that handleDownloaderModify started, even
\* where the object is configured again at once.
HandlersEnd ==
    \A o \in Object : <>[](o \notin Present(config)) => <>[](handlers[o] = <<>>)

\* A download that "would exceed remaining space" (handleCreate) is refused:
\* the files and the transfers fit into MaxSpace.
DiskBounded == Total(Size, disk \union {t[1] : t \in Transfer}) <= MaxSpace
=============================================================================
