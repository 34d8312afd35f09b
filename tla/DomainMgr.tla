----------------------------- MODULE DomainMgr -----------------------------
(***************************************************************************)
(* The domain manager (cmd/domainmgr/domainmgr.go): one goroutine per       *)
(* domain reserves adapters, copies the disk, and boots and halts the       *)
(* domain with xl; the main goroutine hands configurations over and removes *)
(* unused disks.                                                            *)
(*                                                                          *)
(* The goroutines share the table of adapters without a lock, the published *)
(* statuses, the disks and Xen.  A step goes from one access that another   *)
(* goroutine or Xen can interfere with to the next.  A domain has one       *)
(* read-write disk; its version, vifs, AppNum and cloud-init image, and the *)
(* changes of the set of adapters and of the ports, are left out.           *)
(***************************************************************************)
EXTENDS Naturals, Sequences, FiniteSets, Functions, KeyMap

CONSTANTS
  Dom,            \* the domains
  IoAdapterList,  \* the adapters a domain asks for: Dom -> sequence of adapters
  Usb,            \* the adapters of type IoUSB
  Preserve,       \* the domains whose disk is kept while they are inactive
  MaxTries,       \* xl create is tried so many times (3)
  MaxDomChanges,  \* bound: changes of a configuration
  MaxMishaps,     \* bound: commands that fail, domains that crash or reboot
  MaxDomBoots     \* bound: reboots of the device

Nobody  == "nobody"
Adapter == UNION {Range(IoAdapterList[d]) : d \in Dom}

ASSUME DomAssumption ==
  /\ IsFiniteSet(Dom) /\ Nobody \notin Dom /\ Preserve \subseteq Dom
  /\ \A d \in Dom : IoAdapterList[d] \in Seq(Adapter) \ {<<>>}
  /\ Usb \subseteq Adapter
  /\ MaxTries \in Nat \ {0}
  /\ {MaxDomChanges, MaxMishaps, MaxDomBoots} \subseteq Nat

VARIABLES
  domConfig,   \* the DomainConfig handed over: "none", or Activate "off" or "on"
  sending,     \* the domain for which the main goroutine is blocked on the channel
  go,          \* a domain's goroutine: where it is and its local variables
  domStatus,   \* the published DomainStatus of those that have one
  usedBy,      \* UsedByUUID of an adapter
  pciback,     \* the adapters that are with pciback
  usbAccess,
  xen,         \* the domain in Xen
  disk,        \* the file ActiveFileLocation
  image,       \* ImageStatus of the disks that have one: whether RefCount is not zero
  gcPass,      \* gcObjects: the statuses still to look at, the disk to remove
  agentFatal,  \* the domain for which domainmgr has ended with log.Fatal
  stray,       \* history: domains that met a mishap the code does not handle
  domChanges, mishaps, domBoots

cfgVars  == <<domConfig, sending, domChanges>>
ioVars   == <<usedBy, pciback, usbAccess>>
diskVars == <<disk, image, gcPass>>
endVars  == <<agentFatal, domBoots>>
domVars  == <<cfgVars, go, domStatus, ioVars, xen, diskVars, endVars, stray, mishaps>>

AtRest  == [pc |-> "select", op |-> "none", on |-> FALSE, k |-> 0, tried |-> 0, st |-> <<>>]
NoGc    == [snap |-> <<>>, at |-> Nobody]

\* A new status: its disks and adapters are not filled in yet.
NewDomain ==
  [pending |-> TRUE, activated |-> FALSE, id |-> FALSE, err |-> FALSE, bootFailed |-> FALSE,
   adaptersFailed |-> FALSE, io |-> FALSE, disks |-> FALSE, state |-> "INSTALLED"]

DomInit ==
  /\ domConfig = [d \in Dom |-> "none"]
  /\ sending = Nobody
  /\ go = [d \in Dom |-> [AtRest EXCEPT !.pc = "none"]]
  /\ domStatus = <<>>
  /\ usedBy = [a \in Adapter |-> Nobody]
  /\ pciback = Adapter \ Usb /\ usbAccess = TRUE
  /\ xen = [d \in Dom |-> "none"]
  /\ disk = [d \in Dom |-> "none"] /\ image = <<>> /\ gcPass = NoGc
  /\ agentFatal = Nobody /\ stray = {}
  /\ domChanges = 0 /\ mishaps = 0 /\ domBoots = 0

Mishap == mishaps < MaxMishaps /\ mishaps' = mishaps + 1

\* xl domid finds the domain.
Alive(d) == xen[d] \in {"paused", "running"}

At(d, where) == agentFatal = Nobody /\ go[d].pc = where

Goto(d, where) == go' = [go EXCEPT ![d].pc = where]

\* Goes on at where with the local status s.
With(d, where, s) == go' = [go EXCEPT ![d].pc = where, ![d].st = s]

publishDomainStatus(d, s) == domStatus' = Put(domStatus, d, s)

\* The end of handleCreate and handleModify; maybeRetryBoot publishes nothing at its end.
Return(d, s) ==
  LET done == [s EXCEPT !.pending = FALSE]
  IN  /\ IF go[d].op = "retry" THEN UNCHANGED domStatus ELSE publishDomainStatus(d, done)
      /\ go' = [go EXCEPT ![d] = AtRest]

-----------------------------------------------------------------------------
(* The main goroutine: it is not blocked on a channel nor in gcObjects.     *)

MainFree == agentFatal = Nobody /\ sending = Nobody /\ gcPass = NoGc

\* zedmanager configures or changes a domain, and handleDomainModify starts to send it to the
\* goroutine, a new one if there is no channel.  zedmanager waits for the DomainStatus of
\* a removed domain to disappear before it configures the domain again.
handleDomainModify(d) ==
  /\ MainFree
  /\ domChanges < MaxDomChanges /\ domChanges' = domChanges + 1
  /\ domConfig[d] = "none" => d \notin DOMAIN domStatus
  /\ \E c \in {"off", "on"} : domConfig' = [domConfig EXCEPT ![d] = c]
  /\ sending' = d
  /\ go' = IF domConfig[d] = "none" THEN [go EXCEPT ![d] = AtRest] ELSE go
  /\ UNCHANGED <<domStatus, ioVars, xen, diskVars, endVars, stray, mishaps>>

\* zedmanager removes a domain, and handleDomainDelete closes the channel.
handleDomainDelete(d) ==
  /\ MainFree
  /\ domChanges < MaxDomChanges /\ domChanges' = domChanges + 1
  /\ domConfig[d] # "none"
  /\ domConfig' = [domConfig EXCEPT ![d] = "none"]
  /\ UNCHANGED <<sending, go, domStatus, ioVars, xen, diskVars, endVars, stray, mishaps>>

\* Mutant: the adapters in use are given back too.
updateUsbAccessAll ==
  /\ MainFree
  /\ domChanges < MaxDomChanges /\ domChanges' = domChanges + 1
  /\ usbAccess' = ~usbAccess
  /\ pciback' = IF usbAccess' THEN pciback \ Usb ELSE pciback \cup Usb
  /\ UNCHANGED <<domConfig, sending, go, domStatus, usedBy, xen, diskVars, endVars,
                 stray, mishaps>>

\* updateUsbAccess: the adapters of type IoUSB go to pciback, or those nobody uses come back.
updateUsbAccess ==
  /\ MainFree
  /\ domChanges < MaxDomChanges /\ domChanges' = domChanges + 1
  /\ usbAccess' = ~usbAccess
  /\ pciback' = IF usbAccess' THEN pciback \ {a \in Usb : usedBy[a] = Nobody} ELSE pciback \cup Usb
  /\ UNCHANGED <<domConfig, sending, go, domStatus, usedBy, xen, diskVars, endVars,
                 stray, mishaps>>

\* findActiveFileLocation, for the disk of d
InStatus(d) == d \in DOMAIN domStatus /\ domStatus[d].disks

\* gcObjects starts with a copy of the statuses.
gcStart ==
  /\ MainFree
  /\ image # <<>>
  /\ gcPass' = [snap |-> image, at |-> Nobody]
  /\ UNCHANGED <<cfgVars, go, domStatus, ioVars, xen, disk, image, endVars, stray, mishaps>>

\* Mutant: the disks in a status are not looked for.
gcCheckRefCountOnly(d) ==
  /\ agentFatal = Nobody /\ gcPass.at = Nobody /\ d \in DOMAIN gcPass.snap
  /\ \/ gcPass' = [gcPass EXCEPT !.snap = Without(@, d)]
     \/ ~gcPass.snap[d] /\ gcPass' = [gcPass EXCEPT !.at = d]
  /\ UNCHANGED <<cfgVars, go, domStatus, ioVars, xen, disk, image, endVars, stray, mishaps>>

\* One turn of the loop of gcObjects, up to the removal: the old copy of a disk in a status is
\* published again, with a new LastUse; another disk is skipped if RefCount is not zero, or
\* if LastUse is recent.
gcCheck(d) ==
  /\ agentFatal = Nobody /\ gcPass.at = Nobody /\ d \in DOMAIN gcPass.snap
  /\ LET skip == gcPass' = [gcPass EXCEPT !.snap = Without(@, d)]
     IN  \/ InStatus(d) /\ skip /\ image' = Put(image, d, gcPass.snap[d])
         \/ ~InStatus(d) /\ skip /\ image' = image
         \/ ~InStatus(d) /\ ~gcPass.snap[d] /\ gcPass' = [gcPass EXCEPT !.at = d] /\ image' = image
  /\ UNCHANGED <<cfgVars, go, domStatus, ioVars, xen, disk, endVars, stray, mishaps>>

gcRemove ==
  /\ agentFatal = Nobody /\ gcPass.at # Nobody
  /\ LET d == gcPass.at
     IN  /\ disk' = [disk EXCEPT ![d] = "none"]
         /\ image' = Without(image, d)
         /\ gcPass' = [snap |-> Without(gcPass.snap, d), at |-> Nobody]
  /\ UNCHANGED <<cfgVars, go, domStatus, ioVars, xen, endVars, stray, mishaps>>

-----------------------------------------------------------------------------
(* runHandler: the select, handleCreate and handleModify.                   *)

addImageStatus(d) == Put(image, d, TRUE)

\* Where doActivate begins.
doActivate(s) == IF s.adaptersFailed THEN "test" ELSE "assign"

\* handleCreate publishes a status without disks; then configToStatus, which may not find the
\* verified image.
handleCreate(d) ==
  /\ At(d, "select") /\ sending = d /\ d \notin DOMAIN domStatus
  /\ sending' = Nobody
  /\ \/ /\ publishDomainStatus(d, NewDomain)
        /\ go' = [go EXCEPT ![d] = [AtRest EXCEPT !.pc = "test", !.op = "create", !.on = domConfig[d] = "on",
                                                  !.k = 1, !.st = [NewDomain EXCEPT !.disks = TRUE]]]
        /\ mishaps' = mishaps
     \/ Mishap /\ Return(d, [NewDomain EXCEPT !.err = TRUE])
  /\ UNCHANGED <<domConfig, domChanges, ioVars, xen, diskVars, endVars, stray>>

\* handleModify up to doInactivate, doActivate or its end.
handleModify(d) ==
  /\ At(d, "select") /\ sending = d /\ d \in DOMAIN domStatus
  /\ sending' = Nobody
  /\ LET s == [domStatus[d] EXCEPT !.pending = TRUE]
         on == domConfig[d] = "on"
         at(where) == [AtRest EXCEPT !.pc = where, !.op = "modify", !.on = on, !.k = 1,
                                     !.st = [s EXCEPT !.err = FALSE]]
     IN  IF (on /\ ~s.activated) \/ (~on /\ (s.err \/ s.activated))
         THEN /\ publishDomainStatus(d, [s EXCEPT !.err = FALSE])
              /\ go' = [go EXCEPT ![d] = at(IF on /\ ~s.err THEN doActivate(s) ELSE "halt")]
         ELSE /\ publishDomainStatus(d, [s EXCEPT !.pending = FALSE])
              /\ go' = [go EXCEPT ![d] = AtRest]
  /\ UNCHANGED <<domConfig, domChanges, ioVars, xen, diskVars, endVars, stray, mishaps>>

Released(S) == [a \in Adapter |-> IF a \in S THEN Nobody ELSE usedBy[a]]

cleanupAdapters(d) == Released({a \in Adapter : usedBy[a] = d})

\* Another goroutine has tested the adapter a and not set it yet.
Testing(a) == {e \in Dom : go[e].pc = "set" /\ IoAdapterList[e][go[e].k] = a}

\* Mutant: cleanupAdapters is not called.
configAdaptersTestKeeps(d) ==
  /\ At(d, "test")
  /\ LET a == IoAdapterList[d][go[d].k]
     IN  IF usedBy[a] # Nobody
         THEN /\ Return(d, [go[d].st EXCEPT !.err = TRUE, !.adaptersFailed = TRUE])
              /\ UNCHANGED <<usedBy, stray>>
         ELSE /\ Goto(d, "set")
              /\ stray' = stray \cup (IF Testing(a) = {} THEN {} ELSE Testing(a) \cup {d})
              /\ UNCHANGED <<usedBy, domStatus>>
  /\ UNCHANGED <<cfgVars, pciback, usbAccess, xen, diskVars, endVars, mishaps>>

\* configAdapters looks at UsedByUUID of the next adapter; if it is used the caller gives up.
configAdaptersTest(d) ==
  /\ At(d, "test")
  /\ LET a == IoAdapterList[d][go[d].k]
     IN  IF usedBy[a] # Nobody
         THEN /\ Return(d, [go[d].st EXCEPT !.err = TRUE, !.adaptersFailed = TRUE])
              /\ usedBy' = cleanupAdapters(d)
              /\ stray' = stray
         ELSE /\ Goto(d, "set")
              /\ stray' = stray \cup (IF Testing(a) = {} THEN {} ELSE Testing(a) \cup {d})
              /\ UNCHANGED <<usedBy, domStatus>>
  /\ UNCHANGED <<cfgVars, pciback, usbAccess, xen, diskVars, endVars, mishaps>>

\* It sets UsedByUUID.  After the last one handleCreate goes on with the disks, doActivate
\* with the assignment.
configAdaptersSet(d) ==
  /\ At(d, "set")
  /\ LET k == go[d].k
     IN  /\ usedBy' = [usedBy EXCEPT ![IoAdapterList[d][k]] = d]
         /\ IF k < Len(IoAdapterList[d])
            THEN go' = [go EXCEPT ![d].pc = "test", ![d].k = k + 1]
            ELSE With(d, IF go[d].op = "create" THEN "disks" ELSE "assign",
                      [go[d].st EXCEPT !.adaptersFailed = FALSE, !.io = TRUE])
  /\ UNCHANGED <<cfgVars, domStatus, pciback, usbAccess, xen, diskVars, endVars, stray, mishaps>>

\* handleCreate publishes the disks, looks whether a preserved one is there, and uses it as
\* it is if so.
handleCreateDisks(d) ==
  /\ At(d, "disks")
  /\ publishDomainStatus(d, go[d].st)
  /\ stray' = IF gcPass.at = d THEN stray \cup {d} ELSE stray
  /\ image' = IF d \in Preserve /\ disk[d] # "none" THEN addImageStatus(d) ELSE image
  /\ Goto(d, IF d \in Preserve /\ disk[d] = "none" THEN "cp" ELSE "created")
  /\ UNCHANGED <<cfgVars, ioVars, xen, disk, gcPass, endVars, mishaps>>

\* The end of handleCreate, or its call of doActivate.
handleCreateDone(d) ==
  /\ At(d, "created")
  /\ IF go[d].on THEN Goto(d, "assign") /\ UNCHANGED domStatus ELSE Return(d, go[d].st)
  /\ UNCHANGED <<cfgVars, ioVars, xen, diskVars, endVars, stray, mishaps>>

\* cp creates the file ...
cpStart(d) ==
  /\ At(d, "cp")
  /\ disk' = [disk EXCEPT ![d] = "partial"]
  /\ Goto(d, "copying")
  /\ UNCHANGED <<cfgVars, domStatus, ioVars, xen, image, gcPass, endVars, stray, mishaps>>

\* ... and fills it, or fails.  A preserved disk is copied by handleCreate, another by doActivate,
\* which then writes the configuration for xl; that may fail too.
cpEnd(d) ==
  /\ At(d, "copying")
  /\ \/ /\ Mishap /\ Return(d, [go[d].st EXCEPT !.err = TRUE])
        /\ stray' = stray \cup (Preserve \cap {d})
        /\ UNCHANGED <<disk, image>>
     \/ /\ disk' = [disk EXCEPT ![d] = "whole"]
        /\ image' = addImageStatus(d)
        /\ stray' = stray
        /\ \/ /\ Goto(d, IF d \in Preserve THEN "created" ELSE "create")
              /\ UNCHANGED <<domStatus, mishaps>>
           \/ d \notin Preserve /\ Mishap /\ Return(d, [go[d].st EXCEPT !.err = TRUE])
  /\ UNCHANGED <<cfgVars, ioVars, xen, gcPass, endVars>>

-----------------------------------------------------------------------------
(* doActivate and maybeRetryBoot.                                           *)

Mine(d) == {a \in Adapter : a \in Range(IoAdapterList[d])}

\* doAssignIoAdaptersToDomain: an adapter that is not the domain's is fatal.
doAssignIoAdaptersToDomain(d) ==
  /\ At(d, "assign")
  /\ LET usb == IF usbAccess THEN (Mine(d) \cap Usb) \ pciback ELSE {}
         next == IF d \in Preserve THEN "create" ELSE "cp"
     IN  \/ /\ \E a \in Mine(d) : usedBy[a] # d
            /\ agentFatal' = d
            /\ UNCHANGED <<go, pciback, mishaps>>
         \/ /\ \A a \in Mine(d) : usedBy[a] = d
            /\ pciback' = pciback \cup usb
            /\ Goto(d, next)
            /\ UNCHANGED <<agentFatal, mishaps>>
         \/ /\ \A a \in Mine(d) : usedBy[a] = d
            /\ usb # {} /\ Mishap
            /\ With(d, next, [go[d].st EXCEPT !.err = TRUE])
            /\ UNCHANGED <<agentFatal, pciback>>
  /\ UNCHANGED <<cfgVars, domStatus, usedBy, usbAccess, xen, diskVars, domBoots, stray>>

\* xl create, one at a time, succeeds: there is no domain of that name, its disk is there and its
\* adapters are with pciback.  doActivateTail publishes it.
xlCreate(d) ==
  /\ At(d, "create")
  /\ ~Alive(d) /\ disk[d] # "none" /\ Mine(d) \subseteq pciback
  /\ xen' = [xen EXCEPT ![d] = "paused"]
  /\ LET s == [go[d].st EXCEPT !.bootFailed = FALSE, !.id = TRUE, !.activated = TRUE, !.state = "BOOTING"]
     IN  publishDomainStatus(d, s) /\ With(d, "unpause", s)
  /\ stray' = IF go[d].op = "retry" /\ (disk[d] # "whole" \/ \E a \in Mine(d) : usedBy[a] # d)
              THEN stray \cup {d} ELSE stray
  /\ UNCHANGED <<cfgVars, ioVars, diskVars, endVars, mishaps>>

\* xlCreate returns an error: xl create fails, or xl domid after it.
xlCreateFails(d) ==
  /\ At(d, "create")
  /\ LET refused == Alive(d) \/ disk[d] = "none" \/ ~(Mine(d) \subseteq pciback)
         last == go[d].op = "retry" \/ go[d].tried + 1 >= MaxTries
         s == [go[d].st EXCEPT !.bootFailed = last \/ @, !.err = last \/ @]
     IN  /\ \/ refused /\ UNCHANGED <<xen, stray, mishaps>>
            \/ ~refused /\ go[d].tried = 0 /\ Mishap /\ UNCHANGED <<xen, stray>>
            \/ ~refused /\ go[d].tried > 0 /\ UNCHANGED <<xen, stray, mishaps>>
            \/ ~refused /\ Mishap /\ xen' = [xen EXCEPT ![d] = "paused"] /\ stray' = stray \cup {d}
         /\ IF ~last
            THEN /\ publishDomainStatus(d, s)
                 /\ go' = [go EXCEPT ![d].tried = @ + 1]
            ELSE IF go[d].op = "retry"
            THEN publishDomainStatus(d, s) /\ go' = [go EXCEPT ![d] = AtRest]
            ELSE Return(d, s)
  /\ UNCHANGED <<cfgVars, ioVars, diskVars, endVars>>

\* The rest of doActivateTail
xlUnpause(d) ==
  /\ At(d, "unpause")
  /\ \/ /\ Alive(d)
        /\ xen' = [xen EXCEPT ![d] = "running"]
        /\ Return(d, [go[d].st EXCEPT !.state = "RUNNING"])
        /\ mishaps' = mishaps
     \/ /\ ~Alive(d)
        /\ Return(d, [go[d].st EXCEPT !.err = TRUE])
        /\ UNCHANGED <<xen, mishaps>>
     \/ /\ Alive(d) /\ Mishap
        /\ Return(d, [go[d].st EXCEPT !.err = TRUE])
        /\ xen' = xen
  /\ UNCHANGED <<cfgVars, ioVars, diskVars, endVars, stray>>

\* verifyStatus
Verified(s, alive) ==
  CASE ~alive /\ s.activated -> [s EXCEPT !.activated = FALSE, !.id = FALSE, !.state = "HALTED"]
    [] ~alive /\ ~s.activated -> [s EXCEPT !.id = FALSE]
    [] alive /\ s.activated -> [s EXCEPT !.id = TRUE]
    [] alive /\ ~s.activated -> [s EXCEPT !.err = FALSE, !.id = TRUE, !.activated = TRUE, !.state = "RUNNING"]

\* The ticker of runHandler: verifyStatus, and maybeRetryBoot if its time has come.
ticker(d) ==
  /\ At(d, "select") /\ d \in DOMAIN domStatus
  /\ LET s == Verified(domStatus[d], Alive(d))
     IN  /\ publishDomainStatus(d, s)
         /\ stray' = IF xen[d] = "rebooting" THEN stray \cup {d} ELSE stray
         /\ \/ s # domStatus[d] /\ go' = go
            \/ /\ s.bootFailed
               /\ go' = [go EXCEPT ![d] = [AtRest EXCEPT !.pc = "create", !.op = "retry",
                                                         !.st = [s EXCEPT !.err = FALSE]]]
  /\ UNCHANGED <<cfgVars, ioVars, xen, diskVars, endVars, mishaps>>

-----------------------------------------------------------------------------
(* doInactivate and handleDelete.                                           *)

\* The channel is closed: handleDelete, and the goroutine ends.
handleDelete(d) ==
  /\ At(d, "select") /\ domConfig[d] = "none" /\ d \in DOMAIN domStatus
  /\ LET s == [domStatus[d] EXCEPT !.pending = TRUE]
     IN  /\ publishDomainStatus(d, s)
         /\ go' = [go EXCEPT ![d] = [AtRest EXCEPT !.pc = IF s.activated THEN "halt" ELSE "unassign",
                                                   !.op = "delete", !.st = s]]
  /\ UNCHANGED <<cfgVars, ioVars, xen, diskVars, endVars, stray, mishaps>>

\* doInactivate, up to the shutdown
doInactivate(d) ==
  /\ At(d, "halt")
  /\ LET s == [go[d].st EXCEPT !.id = @ \/ Alive(d)]
         halting == [s EXCEPT !.state = "HALTING"]
     IN  IF s.id THEN publishDomainStatus(d, halting) /\ With(d, "shutdown", halting)
         ELSE With(d, "halted", s) /\ UNCHANGED domStatus
  /\ UNCHANGED <<cfgVars, ioVars, xen, diskVars, endVars, stray, mishaps>>

\* xl shutdown, or xl destroy, and waitForDomainGone
waitForDomainGone(d) ==
  /\ At(d, "shutdown") \/ At(d, "destroy")
  /\ \/ /\ xen' = IF Alive(d) THEN [xen EXCEPT ![d] = "none"] ELSE xen
        /\ With(d, "halted", [go[d].st EXCEPT !.id = FALSE])
        /\ mishaps' = mishaps
     \/ /\ Alive(d) /\ Mishap
        /\ Goto(d, IF At(d, "shutdown") THEN "destroy" ELSE "halted")
        /\ xen' = xen
  /\ UNCHANGED <<cfgVars, domStatus, ioVars, diskVars, endVars, stray>>

\* The adapters whose UsedByUUID pciUnassign clears
pciUnassign(d) == IF go[d].st.io THEN {a \in Mine(d) \cap Usb : usedBy[a] = d} ELSE {}

\* The rest of doInactivate.  "If everything failed we leave it marked as Activated"; a disk that
\* is not preserved is removed, and the adapters of type IoUSB are given up, even those that
\* pciback does not give back.  Then handleModify activates again or ends, and
\* handleDelete, which calls only pciUnassign if the domain is not activated, goes on.
doInactivateEnd(d) ==
  /\ At(d, "halted") \/ At(d, "unassign")
  /\ LET halted == At(d, "halted")
         scratch == halted /\ d \notin Preserve
         mine == pciUnassign(d)
         back == IF usbAccess THEN mine \cap pciback ELSE {}
         s1 == IF ~halted THEN go[d].st
               ELSE IF go[d].st.id THEN [go[d].st EXCEPT !.err = TRUE]
               ELSE [go[d].st EXCEPT !.activated = FALSE, !.state = "HALTED"]
     IN  /\ disk' = IF scratch THEN [disk EXCEPT ![d] = "none"] ELSE disk
         /\ image' = IF scratch THEN Without(image, d) ELSE image
         /\ usedBy' = Released(mine)
         /\ stray' = IF halted /\ xen[d] # "none" THEN stray \cup {d} ELSE stray
         /\ \E failed \in BOOLEAN :
              LET s == [s1 EXCEPT !.err = @ \/ (failed /\ halted)]
              IN  /\ IF failed THEN back # {} /\ Mishap /\ pciback' = (IF halted THEN pciback ELSE pciback \ back)
                     ELSE pciback' = pciback \ back /\ mishaps' = mishaps
                  /\ IF go[d].op = "modify" /\ ~go[d].on THEN Return(d, s)
                     ELSE /\ publishDomainStatus(d, s1)
                          /\ go' = [go EXCEPT ![d].pc = IF go[d].op = "delete" THEN "cleanup" ELSE doActivate(s),
                                              ![d].k = 1, ![d].st = s]
  /\ UNCHANGED <<cfgVars, usbAccess, xen, gcPass, endVars>>

\* The rest of handleDelete: cleanupAdapters, the preserved disk, and the status.
handleDeleteDone(d) ==
  /\ At(d, "cleanup")
  /\ usedBy' = IF go[d].st.io THEN cleanupAdapters(d) ELSE usedBy
  /\ disk' = IF d \in Preserve /\ go[d].st.disks THEN [disk EXCEPT ![d] = "none"] ELSE disk
  /\ image' = IF d \in Preserve /\ go[d].st.disks THEN Without(image, d) ELSE image
  /\ domStatus' = Without(domStatus, d)
  /\ go' = [go EXCEPT ![d] = [AtRest EXCEPT !.pc = "none"]]
  /\ UNCHANGED <<cfgVars, pciback, usbAccess, xen, gcPass, endVars, stray, mishaps>>

-----------------------------------------------------------------------------
(* What happens around domainmgr.                                           *)

\* A domain ends by itself, reboots, and is back.
crash(d) ==
  /\ xen[d] = "running" /\ Mishap
  /\ \E x \in {"none", "rebooting"} : xen' = [xen EXCEPT ![d] = x]
  /\ UNCHANGED <<cfgVars, go, domStatus, ioVars, diskVars, endVars, stray>>

comeBack(d) ==
  /\ xen[d] = "rebooting"
  /\ xen' = [xen EXCEPT ![d] = "running"]
  /\ UNCHANGED <<cfgVars, go, domStatus, ioVars, diskVars, endVars, stray, mishaps>>

populateInitialImageStatus == [d \in {e \in Dom : disk[e] # "none"} |-> FALSE]

\* The device reboots, possibly because of log.Fatal.  The disks are kept; the domains are
\* configured anew.
reboot ==
  /\ domBoots < MaxDomBoots /\ domBoots' = domBoots + 1
  /\ domConfig' = [d \in Dom |-> "none"] /\ sending' = Nobody
  /\ go' = [d \in Dom |-> [AtRest EXCEPT !.pc = "none"]]
  /\ domStatus' = <<>>
  /\ usedBy' = [a \in Adapter |-> Nobody]
  /\ pciback' = IF usbAccess THEN Adapter \ Usb ELSE Adapter
  /\ xen' = [d \in Dom |-> "none"]
  /\ image' = populateInitialImageStatus
  /\ gcPass' = NoGc
  /\ agentFatal' = Nobody
  /\ stray' = {d \in Preserve : disk[d] = "partial"}
  /\ UNCHANGED <<domChanges, usbAccess, disk, mishaps>>

runHandler(d) ==
  \/ handleCreate(d) \/ handleModify(d)
  \/ configAdaptersTest(d) \/ configAdaptersSet(d)
  \/ handleCreateDisks(d) \/ handleCreateDone(d) \/ cpStart(d) \/ cpEnd(d)
  \/ doAssignIoAdaptersToDomain(d) \/ xlCreate(d) \/ xlCreateFails(d) \/ xlUnpause(d) \/ ticker(d)
  \/ handleDelete(d) \/ doInactivate(d) \/ waitForDomainGone(d) \/ doInactivateEnd(d) \/ handleDeleteDone(d)

DomNext ==
  \/ \E d \in Dom : \/ runHandler(d) \/ handleDomainModify(d) \/ handleDomainDelete(d)
                    \/ gcCheck(d) \/ crash(d) \/ comeBack(d)
  \/ updateUsbAccess \/ gcStart \/ gcRemove \/ reboot

DomSpec == DomInit /\ [][DomNext]_domVars

-----------------------------------------------------------------------------
Regular == Dom \ stray

\* The values of the variables; the loop of configAdapters stays within the list of adapters.
DomTypeOK ==
  /\ domConfig \in [Dom -> {"none", "off", "on"}]
  /\ {sending, agentFatal, gcPass.at} \subseteq Dom \cup {Nobody}
  /\ DOMAIN domStatus \subseteq Dom /\ DOMAIN image \subseteq Dom
  /\ usedBy \in [Adapter -> Dom \cup {Nobody}] /\ pciback \subseteq Adapter
  /\ xen \in [Dom -> {"none", "paused", "running", "rebooting"}]
  /\ disk \in [Dom -> {"none", "partial", "whole"}]
  /\ \A d \in Dom : go[d].k \in 0..Len(IoAdapterList[d])

\* A domain that Xen has runs on a completely copied disk which nobody has removed:
\* neither gcObjects, with its outdated copies, nor an inactivation that overtakes
\* the halt.
DiskWhole == \A d \in Regular : Alive(d) => disk[d] = "whole"

\* The adapters of a domain that Xen has are reserved for it and with pciback, so that no two
\* domains have the same adapter, although UsedByUUID is tested and set without a lock.
AdaptersHeld ==
  \A d \in Regular : Alive(d) => \A a \in Mine(d) : usedBy[a] = d /\ a \in pciback

\* "We reserved it in handleCreate so nobody could have stolen it": domainmgr ends with
\* log.Fatal only for an adapter of type IoUSB, which pciUnassign has given up, or for
\* a domain whose handleCreate failed before it reserved its adapters.
StolenOnlyUsb ==
  agentFatal \in Regular /\ go[agentFatal].st.io =>
    \A a \in Mine(agentFatal) \ Usb : usedBy[a] = agentFatal

\* No adapter stays reserved for a domain without a status.
AdaptersFreed ==
  \A a \in Adapter : usedBy[a] # Nobody => usedBy[a] \in DOMAIN domStatus

\* A domain without a goroutine is not in Xen, and its preserved disk is removed or can be
\* removed by gcObjects.
NothingLeft ==
  \A d \in Regular : go[d].pc = "none" =>
    /\ xen[d] = "none"
    /\ d \in Preserve /\ disk[d] # "none" => d \in DOMAIN image /\ ~image[d]

\* A goroutine that waits has published the end of what it did: nothing is pending, and
\* a domain that is still halting could not be halted.
SettledAtSelect ==
  \A d \in DOMAIN domStatus : go[d].pc = "select" =>
    ~domStatus[d].pending /\ (domStatus[d].state = "HALTING" => domStatus[d].err)
=============================================================================
