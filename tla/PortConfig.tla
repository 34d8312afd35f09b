----------------------------- MODULE PortConfig -----------------------------
(* How the device finds a network configuration that reaches the           *)
(* controller: nim (cmd/nim/nim.go) over devicenetwork/dnc.go.             *)
(*                                                                         *)
(* nim keeps a list of port configurations, the most desirable first,      *)
(* tests them, and uses the first that works.  One goroutine runs all of   *)
(* it: a select over configurations, adapters, address changes and three   *)
(* timers.  A test that has to wait (for an address, or for domainmgr to   *)
(* give a port back) returns to that select, so the list may change while  *)
(* a configuration of it is under test.                                    *)
(*                                                                         *)
(* domainmgr's part is the one that answers nim: it takes the ports of the *)
(* published DeviceNetworkStatus out of pciback and puts the others in.    *)
(*                                                                         *)
(* Indices are the code's plus one, and 0 is its -1 (no working one).      *)
EXTENDS Integers, SequencesExt

CONSTANTS
    Port,               \* Ethernet ports
    Offer,              \* Offer[key]: the sets of ports a source may ask for
    Better,             \* NetworkTestBetterInterval is not zero
    MaxDPCRetestCount,  \* how often a test waits for an address
    MaxConfigs,         \* bound: configurations the sources send
    MaxFaults           \* bound: changes of the network, uses by apps, reboots

Key == {"zedagent", "global", "lastresort"}

ASSUME PortConfigAssumption ==
    /\ Offer \in [Key -> SUBSET SUBSET Port] /\ Better \in BOOLEAN
    /\ {MaxDPCRetestCount, MaxConfigs, MaxFaults} \subseteq Nat

VARIABLES
    nim,        \* DeviceNetworkContext, see NimType
    saved,      \* the published DevicePortConfigList, which survives a reboot
    dns,        \* the published DeviceNetworkStatus: its ports, and Testing
    dnsNew,     \* domainmgr has not looked at it yet
    back,       \* ports domainmgr has in pciback
    usedBy,     \* ports assigned to an application
    addrs,      \* ports with an IP address
    reach,      \* ports through which the controller answers
    asked,      \* asked[key]: the configuration of each source, if any
    configs,    \* configurations sent so far; the clock of zedagent's times
    faults,     \* changes of the surroundings so far
    past        \* what has happened to the list during a test: see Met

pcVars == <<nim, saved, dns, dnsNew, back, usedBy, addrs, reach, asked, configs, faults, past>>

-----------------------------------------------------------------------------
(* The list.  Of LastFailed and LastSucceeded only their order counts.     *)
(* Whether a failure is more than a minute old is for the clock to say: a  *)
(* choice is made among the entries when one is looked for (old).          *)

Times == 0 .. MaxConfigs + 2
Entry == [key : Key, time : Times, ports : SUBSET Port,
          last : {"untested", "failed", "worked"}]

IsDPCTestable(list, i, old) == list[i].last = "failed" => i \in old
IsDPCUntested(c) == c.last = "untested"
WasDPCWorking(c) == c.last = "worked"

\* TimePriority: Unix(0), Unix(2), and the time of sending.
TimePriority(key) ==
    CASE key = "lastresort" -> 0
      [] key = "global"     -> 2
      [] key = "zedagent"   -> 2 + configs'

Least(S) == IF S = {} THEN 0 ELSE CHOOSE i \in S : \A j \in S : i <= j

lookupPortConfig(list, c) ==
    LET byTime    == {i \in DOMAIN list : list[i].key = c.key /\ list[i].time = c.time}
        byContent == {i \in DOMAIN list : list[i].key = c.key /\ list[i].ports = c.ports}
    IN  IF byTime # {} THEN Least(byTime) ELSE Least(byContent)

insertPortConfig(list, c) ==
    LET older == {i \in DOMAIN list : c.time > list[i].time}
    IN  IF older = {} THEN Append(list, c) ELSE InsertAt(list, Least(older), c)

removePortConfig(list, c) ==
    RemoveAt(list, Least({i \in DOMAIN list : list[i].time = c.time /\ list[i].key = c.key}))

\* Mutant: the entry stays where it was.
updateInPlace(list, i, c) == [list EXCEPT ![i] = [c EXCEPT !.last = list[i].last]]

updatePortConfig(list, i, c) ==
    IF list[i].time = c.time THEN [list EXCEPT ![i] = c]
    ELSE insertPortConfig(removePortConfig(list, list[i]), [c EXCEPT !.last = list[i].last])

\* One pass over the list.  The index is corrected as entries go, and is
\* compared with their places in the uncorrected list.
compressDPCL(list, current) ==
    LET pass[i \in 0 .. Len(list)] ==
          IF i = 0 THEN [kept |-> <<>>, current |-> current, zedagent |-> FALSE]
          ELSE LET p == pass[i - 1]
                   c == list[i]
                   keep == \/ c.key # "zedagent"
                           \/ ~p.zedagent
                           \/ c.last \in {"untested", "worked"}
                           \/ p.current = i
               IN  [kept     |-> IF keep THEN Append(p.kept, c) ELSE p.kept,
                    current  |-> IF ~keep /\ i < p.current THEN p.current - 1 ELSE p.current,
                    zedagent |-> p.zedagent \/ c.key = "zedagent"]
    IN  pass[Len(list)]

\* Mutant: the entry at the index is not spared.
CompressedCurrent(n) ==
    LET p == compressDPCL(n.list, 0)
    IN  [n EXCEPT !.list = p.kept,
                  !.current = IF n.current > Len(p.kept) THEN Len(p.kept) ELSE n.current]

Compressed(n) ==
    LET p == compressDPCL(n.list, n.current)
    IN  [n EXCEPT !.list = p.kept, !.current = p.current]

\* The next entry to test from the (zero based) start: the code gives up when
\* it has looked at all entries, also if the last one it looked at will do.
getNextTestableDPCIndex(list, start, old) ==
    LET at(k)    == ((start + k) % Len(list)) + 1
        testable == {k \in 0 .. Len(list) - 2 : IsDPCTestable(list, at(k), old)}
    IN  IF testable = {} THEN 1
        ELSE at(CHOOSE k \in testable : \A j \in testable : k <= j)

-----------------------------------------------------------------------------
(* DeviceNetworkContext.                                                   *)

NoConfig == [key |-> "", time |-> 0, ports |-> {}, last |-> "untested"]

NimType == [
    list        : Seq(Entry),       \* DevicePortConfigList.PortConfigList
    current     : Nat,              \* its CurrentIndex
    next        : Nat,              \* NextDPCIndex
    inprogress  : BOOLEAN,          \* Pending.Inprogress
    pend        : Entry \cup {NoConfig},
    old         : SUBSET Port,      \* Pending.OldDPC: ports dhcpcd runs on
    count       : 0 .. MaxDPCRetestCount,
    used        : [key : Key \cup {""}, ports : SUBSET Port],  \* DevicePortConfig, the one in use
    ips         : SUBSET Port,      \* ports with an address in DeviceNetworkStatus
    works       : BOOLEAN,          \* CloudConnectivityWorks
    pendTimer   : BOOLEAN,          \* timers: about to fire, or fired and not read
    testTimer   : BOOLEAN,
    betterTimer : BOOLEAN,
    loop        : BOOLEAN,          \* inside the loop of VerifyDevicePortConfig
    restarts    : 0 .. 2,           \* calls of RestartVerify that have to return
    aaBack      : SUBSET Port,      \* AssignableAdapters as last heard
    aaUsed      : SUBSET Port,
    main        : BOOLEAN,          \* AssignableAdapters.Initialized
    up          : BOOLEAN]          \* no panic yet

Booted(list) == [
    list |-> list, current |-> 0, next |-> 1, inprogress |-> FALSE, pend |-> NoConfig,
    old |-> {}, count |-> 0, used |-> [key |-> "", ports |-> {}], ips |-> {}, works |-> TRUE,
    pendTimer |-> FALSE, testTimer |-> TRUE, betterTimer |-> Better, loop |-> FALSE,
    restarts |-> 0, aaBack |-> {}, aaUsed |-> {}, main |-> FALSE, up |-> TRUE]

Panic(n) == [n EXCEPT !.up = FALSE]

\* The old result that comes along in pend is never read: the test sets one.
SetupVerify(n, i) ==
    [n EXCEPT !.next = i, !.current = i, !.inprogress = TRUE, !.count = 0,
              !.pend = [n.list[i] EXCEPT !.last = "untested"]]

\* VerifyDevicePortConfig up to its loop, with the Stop of VerifyPending.
Verifying(n) ==
    IF ~n.inprogress THEN n
    ELSE [n EXCEPT !.loop = TRUE, !.pendTimer = FALSE, !.testTimer = FALSE, !.betterTimer = FALSE]

Old(n) == SUBSET {i \in DOMAIN n.list : n.list[i].last = "failed"}

RestartVerify(n, old) ==
    IF n.inprogress THEN n
    ELSE IF n.list = <<>> THEN Panic(n)
    ELSE Verifying([SetupVerify(n, getNextTestableDPCIndex(n.list, 0, old))
                        EXCEPT !.restarts = @ + 1])

publishDNS(ports, testing) ==
    /\ dns' = [ports |-> ports, testing |-> testing]
    /\ dnsNew' = (dnsNew \/ dns' # dns)

-----------------------------------------------------------------------------
PcInit ==
    /\ nim = Booted(<<>>)
    /\ saved = <<>>
    /\ dns = [ports |-> {}, testing |-> FALSE]
    /\ dnsNew = TRUE
    /\ back = {} /\ usedBy = {} /\ addrs = {}
    /\ reach \in SUBSET Port
    /\ asked = [k \in Key |-> {}]
    /\ configs = 0 /\ faults = 0 /\ past = {}

\* nim is in its select.
Selecting == nim.up /\ ~nim.loop

(* doUpdatePortConfigListAndPublish: the new context, and whether anything *)
(* changed.                                                                *)
doUpdatePortConfigListAndPublish(n, c, delete) ==
    LET cur   == IF n.next \in DOMAIN n.list THEN n.next ELSE 0
        i     == lookupPortConfig(n.list, c)
        same  == i # 0 /\ n.list[i].ports = c.ports /\ cur # 0
                       /\ n.list[cur].ports = n.list[i].ports
        list  == IF delete THEN removePortConfig(n.list, n.list[i])
                 ELSE IF i # 0 THEN updatePortConfig(n.list, i, c)
                 ELSE insertPortConfig(n.list, c)
        \* an update in place shows through the pointer to the current one
        was   == IF i = cur /\ ~delete /\ n.list[i].time = c.time THEN c ELSE n.list[cur]
        place == lookupPortConfig(list, was)
        there == IF place = 0 THEN 1 ELSE place
        moved == [n EXCEPT !.list = list,
                           !.current = IF place = n.current /\ place # 0 THEN @
                                       ELSE IF WasDPCWorking(list[there]) THEN there ELSE 0]
    IN  IF (delete /\ i = 0) \/ (~delete /\ same) THEN [to |-> n, changed |-> FALSE]
        ELSE IF cur = 0 THEN [to |-> [n EXCEPT !.list = list], changed |-> TRUE]
        ELSE IF list = <<>> THEN [to |-> Panic([n EXCEPT !.list = list]), changed |-> TRUE]
        ELSE [to |-> Compressed(moved), changed |-> TRUE]

Fault == faults < MaxFaults /\ faults' = faults + 1

\* A handler took nim from one context to another.  Stop does not take back
\* what a timer that had fired already put in its channel.
Handled(from, after) ==
    \E to \in {after} :
        \/ nim' = to /\ UNCHANGED faults
        \/ /\ from.testTimer /\ ~to.testTimer /\ Fault
           /\ nim' = [to EXCEPT !.testTimer = TRUE]
        \/ /\ from.betterTimer /\ ~to.betterTimer /\ Fault
           /\ nim' = [to EXCEPT !.betterTimer = TRUE]
        \/ /\ from.pendTimer /\ ~to.pendTimer /\ Fault
           /\ nim' = [to EXCEPT !.pendTimer = TRUE]

Environment == <<back, usedBy, addrs, reach>>

\* Whether a new configuration c, or a removal, meets the one under test, with
\* the same time or content.
Met(c, delete) ==
    past' = IF nim.inprogress /\ nim.pend.key = c.key
                  /\ (nim.pend.time = c.time \/ nim.pend.ports = c.ports)
            THEN past \cup {IF delete THEN "removed" ELSE "overtaken"} ELSE past

\* Without a current entry the function returns before it publishes.
Published(upd) == upd.changed /\ upd.to.up /\ nim.next \in DOMAIN nim.list

\* A configuration as it arrives, with its priority.
Given(key, ports) ==
    [key |-> key, time |-> TimePriority(key), ports |-> ports, last |-> "untested"]

HandleDPCModify(key, ports) ==
    /\ Selecting /\ (key = "zedagent" => nim.main)
    /\ configs < MaxConfigs /\ configs' = configs + 1
    /\ ports \in Offer[key] \ asked[key]
    /\ asked' = [asked EXCEPT ![key] = {ports}]
    /\ \E c \in {Given(key, ports)} : \E upd \in {doUpdatePortConfigListAndPublish(nim, c, FALSE)} :
        /\ \E old \in Old(upd.to) :
             Handled(nim, IF ~upd.changed /\ nim.ips # {} /\ nim.current # 0 THEN nim
                          ELSE RestartVerify(upd.to, old))
        /\ saved' = IF Published(upd) THEN upd.to.list ELSE saved
        /\ Met(c, FALSE)
    /\ UNCHANGED <<dns, dnsNew, Environment>>

\* Only the last resort is ever taken back (RemoveLastResortPortConfig).
HandleDPCDelete(key, ports) ==
    /\ Selecting /\ key = "lastresort" /\ ports \in asked[key]
    /\ configs < MaxConfigs /\ configs' = configs + 1
    /\ asked' = [asked EXCEPT ![key] = {}]
    /\ \E c \in {Given(key, ports)} : \E upd \in {doUpdatePortConfigListAndPublish(nim, c, TRUE)} :
        /\ \E old \in Old(upd.to) :
             Handled(nim, IF upd.changed /\ upd.to.up THEN RestartVerify(upd.to, old) ELSE upd.to)
        /\ saved' = IF Published(upd) THEN upd.to.list ELSE saved
        /\ Met(c, TRUE)
    /\ UNCHANGED <<dns, dnsNew, Environment>>

HandleAssignableAdaptersModify ==
    /\ Selecting /\ (~nim.main \/ nim.aaBack # back \/ nim.aaUsed # usedBy)
    /\ ~dnsNew \/ nim.main     \* domainmgr starts with the first status
    /\ Handled(nim, Verifying([nim EXCEPT !.aaBack = back, !.aaUsed = usedBy, !.main = TRUE]))
    /\ UNCHANGED <<saved, dns, dnsNew, Environment, asked, configs, past>>

\* An address came or went on some port.  A status under test says Testing and
\* the one computed here does not, so they always differ.
HandleAddressChange ==
    /\ Selecting
    /\ IF nim.inprogress
       THEN /\ nim.used.ports # {} /\ nim.used.ports \subseteq addrs
            /\ Handled(nim, Verifying(nim))
            /\ UNCHANGED <<dns, dnsNew>>
       ELSE /\ nim.ips # nim.used.ports \cap addrs
            /\ nim' = [nim EXCEPT !.ips = nim.used.ports \cap addrs]
            /\ publishDNS(nim.used.ports, FALSE)
            /\ UNCHANGED faults
    /\ UNCHANGED <<saved, Environment, asked, configs, past>>

PendTimerFires ==
    /\ Selecting /\ nim.pendTimer
    /\ LET n == [nim EXCEPT !.pendTimer = FALSE] IN Handled(n, Verifying(n))
    /\ UNCHANGED <<saved, dns, dnsNew, Environment, asked, configs, past>>

\* VerifyDeviceNetworkStatus: some management port reaches the controller.
Reaches(ips) == ips \cap addrs \cap reach # {}

\* Mutant: the timer is not started again after the first failure.
tryOnceMore(n) ==
    IF Reaches(n.ips) THEN [n EXCEPT !.works = TRUE, !.testTimer = TRUE]
    ELSE IF n.works   THEN [n EXCEPT !.works = FALSE]
    ELSE RestartVerify(n, DOMAIN n.list)

\* NetworkTestInterval is at least five minutes: every failure is old by then.
tryDeviceConnectivityToCloud(n) ==
    IF Reaches(n.ips) THEN [n EXCEPT !.works = TRUE, !.testTimer = TRUE]
    ELSE IF n.works   THEN [n EXCEPT !.works = FALSE, !.testTimer = TRUE]
    ELSE RestartVerify(n, DOMAIN n.list)

NetworkTestTimerFires ==
    /\ Selecting /\ nim.testTimer
    /\ LET n == [nim EXCEPT !.testTimer = FALSE]
       IN  Handled(n, IF ~n.main /\ n.current = 0 THEN RestartVerify(n, DOMAIN n.list)
                      ELSE tryDeviceConnectivityToCloud(n))
    /\ UNCHANGED <<saved, dns, dnsNew, Environment, asked, configs, past>>

NetworkTestBetterTimerFires ==
    /\ Selecting /\ nim.betterTimer
    /\ LET n == [nim EXCEPT !.betterTimer = FALSE]
       IN  \E old \in Old(n) : Handled(n, IF n.next = 1 THEN n ELSE RestartVerify(n, old))
    /\ UNCHANGED <<saved, dns, dnsNew, Environment, asked, configs, past>>

-----------------------------------------------------------------------------
(* One round of the loop of VerifyDevicePortConfig: VerifyPending, the     *)
(* status published, and what its outcome leads to.                        *)

\* The list with the outcome of the test, or a panic: the message for an
\* entry that is gone looks for it at NextDPCIndex.
Recorded(n, last) ==
    LET i == lookupPortConfig(n.list, n.pend)
    IN  IF i # 0 THEN [n EXCEPT !.list[i] = [n.pend EXCEPT !.last = last]]
        ELSE IF n.next \notin DOMAIN n.list THEN Panic(n)
        ELSE n

\* Returning through the calls of RestartVerify, each of which compresses.
Returned(n) ==
    LET r == [n EXCEPT !.loop = FALSE, !.restarts = 0]
    IN  CASE n.restarts = 0 -> r
          [] n.restarts = 1 -> Compressed(r)
          [] n.restarts = 2 -> Compressed(Compressed(r))

\* Mutant: the status under test is not published.
WaitUnpublished(n) ==
    /\ nim' = Returned(n)
    /\ saved' = IF n.restarts = 0 THEN saved ELSE nim'.list
    /\ UNCHANGED <<dns, dnsNew>>

DPC_WAIT(n) ==
    /\ nim' = Returned(n)
    /\ saved' = IF n.restarts = 0 THEN saved ELSE nim'.list
    /\ publishDNS(n.pend.ports, TRUE)

\* What failed just now is not testable again yet.
DPC_FAIL(n) ==
    \E r \in {Recorded(n, "failed")} :
        /\ \E old \in Old(r) :
             /\ lookupPortConfig(r.list, n.pend) \notin old
             /\ nim' = IF ~r.up THEN r
                       ELSE SetupVerify(r, IF IsDPCUntested(r.list[1]) THEN 1
                                           ELSE getNextTestableDPCIndex(r.list, r.next, old))
        /\ saved' = IF r.up THEN Compressed(r).list ELSE saved
        /\ publishDNS(n.pend.ports, TRUE)

DPC_SUCCESS(n, ips) ==
    \E r \in {Recorded(n, "worked")} :
    \E s \in {Compressed([r EXCEPT !.current = r.next, !.ips = ips, !.inprogress = FALSE,
                                   !.used = [key |-> n.pend.key, ports |-> n.pend.ports],
                                   !.betterTimer = @ \/ (Better /\ r.next # 1)])} :
        IF ~r.up THEN nim' = r /\ saved' = saved /\ publishDNS(n.pend.ports, TRUE)
        ELSE /\ IF IsDPCUntested(s.list[1]) THEN \E old \in Old(s) : nim' = RestartVerify(s, old)
                ELSE nim' = Returned([s EXCEPT !.testTimer = TRUE])
             /\ saved' = IF nim'.loop THEN s.list ELSE nim'.list
             /\ publishDNS(n.pend.ports, FALSE)

MayRetest(n) == n.count < MaxDPCRetestCount

VerifyDevicePortConfig ==
    /\ nim.up /\ nim.loop
    /\ LET n       == nim
           blocked == n.pend.ports \cap n.aaBack     \* IsAnyPortInPciBack
         IN  \/ /\ \E p \in blocked : IF p \in n.aaUsed THEN DPC_FAIL(n) ELSE DPC_WAIT(n)
                /\ UNCHANGED addrs
             \/ /\ blocked = {}
                \* UpdateDhcpClient releases what the last configuration had;
                \* the new clients may have an answer by the time it is done
                /\ addrs' \in IF n.pend.ports = n.old THEN {addrs}
                               ELSE {(addrs \ (n.old \ n.pend.ports)) \cup got :
                                       got \in SUBSET ((n.pend.ports \ n.old) \ back)}
                /\ LET ips == n.pend.ports \cap addrs'
                       a   == [n EXCEPT !.old = n.pend.ports]
                   IN  IF ips = {}
                       THEN IF MayRetest(n)
                            THEN DPC_WAIT([a EXCEPT !.count = @ + 1, !.pendTimer = TRUE])
                            ELSE DPC_FAIL(a)
                       ELSE LET t == [a EXCEPT !.count = MaxDPCRetestCount]
                            IN  IF ips \cap reach # {} THEN DPC_SUCCESS(t, ips) ELSE DPC_FAIL(t)
    /\ UNCHANGED <<back, usedBy, reach, asked, configs, faults, past>>

-----------------------------------------------------------------------------
(* The surroundings.                                                       *)

\* Mutant: a status under test is taken for one in use.
handleDNSTesting ==
    /\ dnsNew /\ dnsNew' = FALSE
    /\ back' = Port \ dns.ports
    /\ addrs' = addrs \ back'
    /\ UNCHANGED <<nim, saved, dns, usedBy, reach, asked, configs, faults, past>>

\* domainmgr: checkAndSetIoBundle for every Ethernet bundle.
handleDNSModify ==
    /\ dnsNew /\ dnsNew' = FALSE
    /\ back' = IF dns.testing THEN back \ dns.ports ELSE Port \ dns.ports
    /\ addrs' = addrs \ back'
    /\ UNCHANGED <<nim, saved, dns, usedBy, reach, asked, configs, faults, past>>

\* External: an application takes a port that is in pciback, or gives it back.
applicationUses(p) ==
    /\ Fault
    /\ IF p \in usedBy THEN usedBy' = usedBy \ {p}
       ELSE p \in back /\ usedBy' = usedBy \cup {p}
    /\ UNCHANGED <<nim, saved, dns, dnsNew, back, addrs, reach, asked, configs, past>>

\* External: the DHCP server answers on a port that has a client.
dhcpAnswers(p) ==
    /\ p \in (nim.old \ back) \ addrs
    /\ addrs' = addrs \cup {p}
    /\ UNCHANGED <<nim, saved, dns, dnsNew, back, usedBy, reach, asked, configs, faults, past>>

\* External: the network changes.
networkChanges ==
    /\ Fault
    /\ \E p \in Port : \/ reach' = reach \cup {p} /\ UNCHANGED addrs
                       \/ reach' = reach \ {p} /\ addrs' \in {addrs, addrs \ {p}}
    /\ UNCHANGED <<nim, saved, dns, dnsNew, back, usedBy, asked, configs, past>>

\* The geoTimer found the device somewhere else: publishDeviceNetworkStatus.
geoTimerFires ==
    /\ Selecting /\ nim.ips # {} /\ Fault
    /\ publishDNS(nim.used.ports, FALSE)
    /\ UNCHANGED <<nim, saved, Environment, asked, configs, past>>

\* External: the device restarts; a panic of nim makes the watchdog do it.
reboots ==
    /\ IF nim.up THEN Fault ELSE UNCHANGED faults
    /\ nim' = Booted(saved)
    /\ dns' = [ports |-> {}, testing |-> FALSE] /\ dnsNew' = TRUE
    /\ back' = {} /\ usedBy' = {} /\ addrs' = {}
    /\ asked' = [k \in Key |-> {}]
    /\ UNCHANGED <<saved, reach, configs, past>>

PcNext ==
    \/ \E key \in Key, ports \in SUBSET Port :
           HandleDPCModify(key, ports) \/ HandleDPCDelete(key, ports)
    \/ HandleAssignableAdaptersModify
    \/ HandleAddressChange
    \/ PendTimerFires
    \/ NetworkTestTimerFires
    \/ NetworkTestBetterTimerFires
    \/ VerifyDevicePortConfig
    \/ handleDNSModify
    \/ \E p \in Port : applicationUses(p) \/ dhcpAnswers(p)
    \/ networkChanges
    \/ geoTimerFires
    \/ reboots

PcSpec == PcInit /\ [][PcNext]_pcVars

-----------------------------------------------------------------------------
(* The type of every variable; in particular a test waits for an address  *)
(* at most MaxDPCRetestCount times (VerifyPending).                        *)
PcTypeOK ==
    /\ nim \in NimType
    /\ saved \in Seq(Entry)
    /\ dns \in [ports : SUBSET Port, testing : BOOLEAN] /\ dnsNew \in BOOLEAN
    /\ {back, usedBy, addrs, reach} \subseteq SUBSET Port
    /\ asked \in [Key -> SUBSET SUBSET Port]
    /\ configs \in 0 .. MaxConfigs /\ faults \in 0 .. MaxFaults

(* No two entries are of the same source and time, or of the same source   *)
(* and content, whatever is written back after a test (lookupPortConfig,   *)
(* insertPortConfig).  The list is in the order of priorities, "first one  *)
(* is the most desired config to use" (types/zedroutertypes.go), unless a  *)
(* source sent the configuration under test again: the outcome is then     *)
(* written, with the time the test began with, over the newer entry        *)
(* (VerifyDevicePortConfig, *tested = pending.PendDPC).                    *)
ListOrdered ==
    \A i, j \in DOMAIN nim.list : i < j =>
        /\ nim.list[i].key = nim.list[j].key =>
              nim.list[i].time # nim.list[j].time /\ nim.list[i].ports # nim.list[j].ports
        /\ "overtaken" \notin past => nim.list[i].time >= nim.list[j].time

(* In its select nim never waits for nothing: the test timer runs, or      *)
(* during a test the timer for an address, or a port of the configuration  *)
(* under test is in pciback and domainmgr is to give it back.              *)
NeverAsleep ==
    Selecting =>
        IF nim.inprogress
        THEN nim.pendTimer \/ (nim.pend.ports \cap nim.aaBack) \ nim.aaUsed # {}
        ELSE nim.testTimer

(* While nim waits for domainmgr, with no timer running, domainmgr has the *)
(* status still before it or nim has its answer still before it.  It is so *)
(* as long as the status last published is the one under test: the         *)
(* geoTimer may publish the one in use over it, and if domainmgr has not   *)
(* read the other yet nim waits for ever.                                  *)
WaitIsHeard ==
    Selecting /\ nim.inprogress /\ ~nim.pendTimer /\ dns.testing =>
        dnsNew \/ nim.aaBack # back \/ nim.aaUsed # usedBy

(* nim panics in two cases only: a test is started, or a last entry        *)
(* removed, and the list is empty; or the last resort was removed while it *)
(* was under test, and NextDPCIndex is beyond the end of the list when the *)
(* outcome is to be logged.  In particular compression, which does not     *)
(* correct NextDPCIndex, never removes the entry under test.               *)
PanicOnlyOnRemoval == nim.up \/ nim.list = <<>> \/ "removed" \in past

(* A port of the configuration in use is never put into pciback, however   *)
(* many others are tested meanwhile and fail: a status under test takes    *)
(* ports out and puts none in, so no application is given a port the       *)
(* device still uses.                                                      *)
PortsInUseKept == [][(back' \ back) \cap nim.used.ports = {}]_pcVars

=============================================================================
