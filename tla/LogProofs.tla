----------------------------- MODULE LogProofs -----------------------------
(***************************************************************************)
(* Proofs about logmanager (LogManager), for any images and log files, and  *)
(* any number of lines, bundles and restarts: the invariant behind the      *)
(* order of the lines, kept by every step of processEvents and of           *)
(* handleDeferred.  What is needed of a send is proved in CloudProofs.      *)
(***************************************************************************)
EXTENDS LogManager, CloudProofs

LogLine == Source \X Nat
LogSteps == {"select", "check", "send", "record", "add", "store"}

\* On sequences of lines: every line of x comes before every line of y of its file;
\* x has the lines of a file in order; all lines of x are of the files of image k;
\* all lines of x have been read.
LinesBefore(x, y) ==
  \A m \in DOMAIN x, n \in DOMAIN y : x[m][1] = y[n][1] => x[m][2] < y[n][2]
Sorted(x) ==
  \A m, n \in DOMAIN x : m < n /\ x[m][1] = x[n][1] => x[m][2] < x[n][2]
Owned(x, k) == \A m \in DOMAIN x : ImageOf[x[m][1]] = k
WasRead(x) == \A m \in DOMAIN x : x[m][2] <= pos[x[m][1]]

\* The bundles that the cloud got since the start, and those that image k holds.
Recent == {received[i] : i \in (since + 1)..Len(received)}
Held(k) == Range(deferredItems[k]) \cup Range(l[k]) \cup ({mine[k]} \ {0})

Queued(x, c) ==
  \A p, q \in DOMAIN x : p < q => LinesBefore(c[x[p]], c[x[q]])

LogTypes ==
  /\ content \in Seq(Seq(LogLine)) /\ received \in Seq(Nat) /\ since \in Nat
  /\ Range(received) \subseteq drained /\ drained \subseteq DOMAIN content
  /\ deferredItems \in [Key -> Seq(Nat)] /\ l \in [Key -> Seq(Nat)]
  /\ mine \in [Key -> Nat] /\ bundle \in [Key -> Seq(LogLine)]
  /\ pos \in [Source -> Nat] /\ pc \in [Key -> LogSteps] /\ hd \in HdType

\* What image k holds: its own lines only, older bundles first, the bundle in the
\* making last.
HeldOK(k) ==
  /\ Held(k) \subseteq DOMAIN content
  /\ \A b \in Held(k) : /\ Owned(content[b], k) /\ WasRead(content[b])
                        /\ LinesBefore(content[b], bundle[k])
  /\ Owned(bundle[k], k) /\ Sorted(bundle[k]) /\ WasRead(bundle[k])
  /\ Queued(deferredItems[k], content) /\ Queued(l[k], content)
  /\ mine[k] # 0 => \A b \in Range(deferredItems[k]) \cup Range(l[k]) :
                      LinesBefore(content[b], content[mine[k]])

\* processEvents of image k: it has a buffer while it sends or defers, sends only
\* when nothing is deferred, and its copy of the list is that list or stale.
StepOK(k) ==
  /\ pc[k] \in {"check", "send", "add", "store"} => mine[k] # 0
  /\ pc[k] = "send" => deferredItems[k] = <<>>
  /\ pc[k] = "store" => l[k] = deferredItems[k] \/ deferredItems[k] = <<>>
  /\ pc[k] # "store" => l[k] = <<>>

\* What may still be sent for image k comes after all that was received.
LaterOK(k) ==
  \A c \in Recent : /\ LinesBefore(content[c], bundle[k])
                    /\ \A b \in Held(k) \ drained : LinesBefore(content[c], content[b])

ReceivedOK ==
  /\ \A i, j \in (since + 1)..Len(received) :
       i < j => LinesBefore(content[received[i]], content[received[j]])
  /\ \A c \in Recent : WasRead(content[c])
  /\ \A b \in DOMAIN content : Sorted(content[b])

\* handleDeferred's list for a key is a stretch of the key's list, and what is before
\* that stretch has been read.
Stretch(x, y, d) ==
  \E n \in Nat : /\ n + Len(x) <= Len(y)
                 /\ \A i \in 1..Len(x) : x[i] = y[n + i]
                 /\ \A i \in 1..n : y[i] \in d

StretchOK == hd.pc \in Key => /\ deferredItems[hd.pc] # <<>>
                              /\ Stretch(hd.list, deferredItems[hd.pc], drained)

LogInv ==
  /\ LogTypes /\ ReceivedOK /\ StretchOK
  /\ \A k \in Key : HeldOK(k) /\ StepOK(k) /\ LaterOK(k)

\* Lines of different images are of different files.
LEMMA OtherImage ==
  ASSUME NEW x, NEW y, NEW j, NEW k, Owned(x, j), Owned(y, k), j # k
  PROVE  LinesBefore(x, y)
  BY Zenon DEF Owned, LinesBefore

\* What appending a line does to a bundle.
LEMMA LineAdded ==
  ASSUME NEW s \in Source, NEW v \in Nat, NEW y \in Seq(LogLine)
  PROVE  LET z == Append(y, <<s, v>>)
         IN  /\ DOMAIN z = DOMAIN y \cup {Len(y) + 1} /\ DOMAIN y = 1..Len(y) /\ Len(y) \in Nat
             /\ \A n \in DOMAIN y : z[n] = y[n]
             /\ z[Len(y) + 1][1] = s /\ z[Len(y) + 1][2] = v
             /\ z \in Seq(LogLine)
<1>1. <<s, v>> \in LogLine
  BY DEF LogLine
<1>2. QED
  BY <1>1, AppendFacts

\* The next line of a file comes after all lines that were read.
LEMMA NextLine ==
  ASSUME NEW s \in Source, pos \in [Source -> Nat],
         NEW x \in Seq(LogLine), NEW y \in Seq(LogLine), WasRead(x), LinesBefore(x, y),
         NEW z, z = Append(y, <<s, pos[s] + 1>>)
  PROVE  LinesBefore(x, z)
<1>1. /\ DOMAIN z = DOMAIN y \cup {Len(y) + 1}
      /\ \A n \in DOMAIN y : z[n] = y[n]
      /\ z[Len(y) + 1][1] = s /\ z[Len(y) + 1][2] = pos[s] + 1
  <2>1. pos[s] + 1 \in Nat
    OBVIOUS
  <2>2. QED
    BY <2>1, LineAdded
<1>2. \A m \in DOMAIN x : x[m][1] \in Source /\ x[m][2] \in Nat
  BY DEF LogLine
<1> SUFFICES ASSUME NEW m \in DOMAIN x, NEW n \in DOMAIN z, x[m][1] = z[n][1]
             PROVE  x[m][2] < z[n][2]
  BY Zenon DEF LinesBefore
<1>3. CASE n \in DOMAIN y
  BY Zenon, <1>1, <1>3 DEF LinesBefore
<1>4. CASE n = Len(y) + 1
  <2>1. x[m][2] <= pos[s] /\ pos[s] \in Nat
    BY Zenon, <1>1, <1>4 DEF WasRead
  <2>2. QED
    BY <1>1, <1>2, <1>4, <2>1
<1>5. QED
  BY Zenon, <1>1, <1>3, <1>4

\* A bundle stays in order when the next line of a file joins it.
LEMMA NextBundle ==
  ASSUME NEW s \in Source, pos \in [Source -> Nat],
         NEW y \in Seq(LogLine), WasRead(y), Owned(y, ImageOf[s]), Sorted(y),
         NEW z, z = Append(y, <<s, pos[s] + 1>>)
  PROVE  z \in Seq(LogLine) /\ Owned(z, ImageOf[s]) /\ Sorted(z)
<1>1. /\ DOMAIN z = DOMAIN y \cup {Len(y) + 1} /\ DOMAIN y = 1..Len(y) /\ Len(y) \in Nat
      /\ \A n \in DOMAIN y : z[n] = y[n]
      /\ z[Len(y) + 1][1] = s /\ z[Len(y) + 1][2] = pos[s] + 1
      /\ z \in Seq(LogLine)
  <2>1. pos[s] + 1 \in Nat
    OBVIOUS
  <2>2. QED
    BY <2>1, LineAdded
<1>2. \A m \in DOMAIN y : y[m][1] \in Source /\ y[m][2] \in Nat
  BY DEF LogLine
<1>3. Owned(z, ImageOf[s])
  BY Zenon, <1>1 DEF Owned
<1>4. Sorted(z)
  <2> SUFFICES ASSUME NEW m \in DOMAIN z, NEW n \in DOMAIN z, m < n, z[m][1] = z[n][1]
               PROVE  z[m][2] < z[n][2]
    BY Zenon DEF Sorted
  <2>0. m \in DOMAIN y
    BY <1>1
  <2>1. CASE n \in DOMAIN y
    BY Zenon, <1>1, <2>0, <2>1 DEF Sorted
  <2>2. CASE n = Len(y) + 1
    <3>1. y[m][2] <= pos[s] /\ pos[s] \in Nat /\ z[m] = y[m]
      BY Zenon, <1>1, <2>0, <2>2 DEF WasRead
    <3>2. QED
      BY <1>1, <1>2, <2>0, <2>2, <3>1
  <2>3. QED
    BY Zenon, <1>1, <2>1, <2>2
<1>5. QED
  BY Zenon, <1>1, <1>3, <1>4

\* Buffers are made and lines are read, and neither is undone.
Grown ==
  /\ \A b \in DOMAIN content : b \in DOMAIN content' /\ content'[b] = content[b]
  /\ \A s \in Source : pos'[s] \in Nat /\ pos[s] <= pos'[s]

\* A line that was read stays read.
LEMMA StillRead ==
  ASSUME pos \in [Source -> Nat], Grown, NEW x \in Seq(LogLine), WasRead(x)
  PROVE  WasRead(x)'
<1>1. \A m \in DOMAIN x : x[m][1] \in Source /\ x[m][2] \in Nat
  BY DEF LogLine
<1>2. \A s \in Source : pos[s] \in Nat /\ pos'[s] \in Nat /\ pos[s] <= pos'[s]
  BY Zenon DEF Grown
<1>3. QED
  BY <1>1, <1>2 DEF WasRead

\* A step that leaves the buffers of image k alone keeps what is said of them.
LEMMA HeldFrame ==
  ASSUME LogTypes, Grown, NEW k \in Key, HeldOK(k),
         deferredItems'[k] = deferredItems[k], l'[k] = l[k], mine'[k] = mine[k],
         bundle'[k] = bundle[k]
  PROVE  HeldOK(k)' /\ Held(k)' = Held(k)
<1>1. Held(k)' = Held(k)
  BY Zenon DEF Held
<1>2. Held(k)' \subseteq DOMAIN content'
  BY Zenon, <1>1 DEF HeldOK, Grown
<1>3. \A b \in Held(k) : content'[b] = content[b] /\ content[b] \in Seq(LogLine)
  BY DEF HeldOK, Grown, LogTypes
<1>4. \A b \in Held(k) : WasRead(content[b])'
  <2> SUFFICES ASSUME NEW b \in Held(k) PROVE WasRead(content[b])'
    BY Zenon
  <2>1. PICK x \in Seq(LogLine) : x = content[b] /\ x = content'[b]
    BY Zenon, <1>3
  <2>2. WasRead(x)'
    BY Zenon, <2>1, StillRead DEF LogTypes, HeldOK
  <2>3. QED
    BY Zenon, <2>1, <2>2 DEF WasRead
<1>5. WasRead(bundle[k])'
  <2>1. PICK x \in Seq(LogLine) : x = bundle[k]
    BY Zenon DEF LogTypes
  <2>2. WasRead(x)'
    BY Zenon, <2>1, StillRead DEF LogTypes, HeldOK
  <2>3. QED
    BY Zenon, <2>1, <2>2 DEF WasRead
<1>6. \A b \in Held(k) : Owned(content'[b], k) /\ LinesBefore(content'[b], bundle'[k])
  BY Zenon, <1>3 DEF HeldOK
<1>7. Owned(bundle'[k], k) /\ Sorted(bundle'[k])
  BY Zenon DEF HeldOK
<1>8. /\ \A p \in DOMAIN deferredItems[k] : deferredItems[k][p] \in Held(k)
      /\ \A p \in DOMAIN l[k] : l[k][p] \in Held(k)
      /\ mine[k] # 0 => mine[k] \in Held(k)
      /\ Range(deferredItems[k]) \cup Range(l[k]) \subseteq Held(k)
  BY Zenon DEF Held, Range
<1>9. Queued(deferredItems[k], content)' /\ Queued(l[k], content)'
  BY <1>3, <1>8 DEF HeldOK, Queued
<1>10. (mine[k] # 0 => \A b \in Range(deferredItems[k]) \cup Range(l[k]) :
                      LinesBefore(content[b], content[mine[k]]))'
  BY Zenon, <1>3, <1>8 DEF HeldOK
<1>11. QED
  BY Zenon, <1>1, <1>2, <1>4, <1>5, <1>6, <1>7, <1>9, <1>10 DEF HeldOK

\* What was received is among the buffers made.
LEMMA RecentMade ==
  ASSUME LogTypes
  PROVE  /\ Recent \subseteq drained /\ Recent \subseteq DOMAIN content
         /\ \A i \in (since + 1)..Len(received) :
              received[i] \in Recent /\ received[i] \in DOMAIN content
<1>1. \A i \in (since + 1)..Len(received) : i \in DOMAIN received
  BY DEF LogTypes
<1>2. Recent \subseteq Range(received)
  BY Zenon, <1>1 DEF Recent, Range
<1>3. \A i \in (since + 1)..Len(received) : received[i] \in Recent
  BY Zenon DEF Recent
<1>4. QED
  BY Zenon, <1>2, <1>3 DEF LogTypes

\* A step that sends nothing keeps what is said of what image k may still send.
LEMMA LaterFrame ==
  ASSUME LogTypes, Grown, NEW k \in Key, HeldOK(k), LaterOK(k),
         Held(k)' \subseteq Held(k), bundle'[k] = bundle[k],
         received' = received, since' = since, drained' = drained
  PROVE  LaterOK(k)'
<1>1. Recent' = Recent
  BY Zenon DEF Recent
<1>2. \A c \in Recent : content'[c] = content[c]
  BY Zenon, RecentMade DEF Grown
<1>3. \A b \in Held(k) : content'[b] = content[b]
  BY Zenon DEF HeldOK, Grown
<1>4. QED
  BY Zenon, <1>1, <1>2, <1>3 DEF LaterOK

\* A step that sends nothing keeps what is said of what was received.
LEMMA ReceivedFrame ==
  ASSUME LogTypes, Grown, ReceivedOK, received' = received, since' = since,
         \A b \in DOMAIN content' \ DOMAIN content : Sorted(content'[b])
  PROVE  ReceivedOK'
<1>1. Recent' = Recent
  BY Zenon DEF Recent
<1>2. \A c \in Recent : content'[c] = content[c] /\ content[c] \in Seq(LogLine)
  BY RecentMade DEF Grown, LogTypes
<1>3. \A i \in (since + 1)..Len(received) : content'[received[i]] = content[received[i]]
  BY Zenon, RecentMade, <1>2
<1>4. \A b \in DOMAIN content' : Sorted(content'[b])
  BY Zenon DEF ReceivedOK, Grown
<1>5. ASSUME NEW c \in Recent PROVE WasRead(content[c])'
  <2>1. PICK x \in Seq(LogLine) : x = content[c] /\ x = content'[c]
    BY Zenon, <1>2
  <2>2. WasRead(x)'
    BY Zenon, <2>1, StillRead DEF LogTypes, ReceivedOK
  <2>3. QED
    BY Zenon, <2>1, <2>2 DEF WasRead
<1>6. QED
  BY Zenon, <1>1, <1>3, <1>4, <1>5 DEF ReceivedOK

\* Image k goes on to its next step and touches nothing else.
LEMMA StepFrame ==
  ASSUME LogTypes, ReceivedOK, \A k \in Key : HeldOK(k) /\ LaterOK(k),
         UNCHANGED <<deferredItems, drained, received, pos, bundle, mine, l,
                     content, since>>
  PROVE  ReceivedOK' /\ \A k \in Key : HeldOK(k)' /\ LaterOK(k)'
<1>1. Grown
  BY DEF Grown, LogTypes
<1>2. ReceivedOK'
  BY Zenon, <1>1, ReceivedFrame
<1>3. ASSUME NEW k \in Key PROVE HeldOK(k)' /\ LaterOK(k)'
  <2>1. HeldOK(k)' /\ Held(k)' = Held(k)
    BY Zenon, <1>1, HeldFrame
  <2>2. QED
    BY Zenon, <1>1, <2>1, LaterFrame
<1>4. QED
  BY Zenon, <1>2, <1>3

\* A step of another image.
LEMMA StepOther ==
  ASSUME NEW k \in Key, StepOK(k), pc'[k] = pc[k], mine'[k] = mine[k],
         deferredItems'[k] = deferredItems[k], l'[k] = l[k]
  PROVE  StepOK(k)'
  BY Zenon DEF StepOK

\* A step that leaves the lists alone.
LEMMA StretchFrame ==
  ASSUME StretchOK, hd' = hd, drained \subseteq drained', deferredItems' = deferredItems
  PROVE  StretchOK'
  BY Zenon DEF StretchOK, Stretch

\* logmanager starts with nothing read, held or sent.
LEMMA LogInvInit == Init => LogInv
<1> SUFFICES ASSUME Init PROVE LogInv
  BY Zenon
<1> USE DEF Init, DeferredInit
<1>1. hd \in HdType /\ hd.pc = "idle"
  BY DEF NotHandling, HdType
<1>2. LogTypes
  <2>1. content \in Seq(Seq(LogLine)) /\ received \in Seq(Nat) /\ since \in Nat
    OBVIOUS
  <2>2. Range(received) \subseteq drained /\ drained \subseteq DOMAIN content
    BY DEF Range
  <2>3. deferredItems \in [Key -> Seq(Nat)] /\ l \in [Key -> Seq(Nat)]
    OBVIOUS
  <2>4. bundle \in [Key -> Seq(LogLine)]
    OBVIOUS
  <2>5. mine \in [Key -> Nat] /\ pos \in [Source -> Nat] /\ pc \in [Key -> LogSteps]
    BY Zenon DEF LogSteps
  <2>6. QED
    BY Zenon, <1>1, <2>1, <2>2, <2>3, <2>4, <2>5 DEF LogTypes
<1>3. StretchOK
  BY Zenon, <1>1, KeyAssumption DEF StretchOK
<1>4. Recent = {}
  BY DEF Recent
<1>5. ReceivedOK
  BY <1>4 DEF ReceivedOK
<1>6. ASSUME NEW k \in Key PROVE HeldOK(k) /\ StepOK(k) /\ LaterOK(k)
  <2>1. Held(k) = {}
    BY DEF Held, Range
  <2>2. /\ Owned(<<>>, k) /\ Sorted(<<>>) /\ WasRead(<<>>) /\ Queued(<<>>, content)
    BY DEF Owned, Sorted, WasRead, Queued
  <2>3. QED
    BY Zenon, <1>4, <2>1, <2>2 DEF HeldOK, StepOK, LaterOK
<1>7. QED
  BY Zenon, <1>2, <1>3, <1>5, <1>6 DEF LogInv

\* A step that touches nothing of what the invariant is about: WriteLine, Wake.
LEMMA LogQuiet ==
  ASSUME LogInv,
         UNCHANGED <<deferredItems, drained, received, pos, bundle, mine, l, content,
                     since, hd, pc>>
  PROVE  LogInv'
<1>1. LogTypes' /\ StretchOK'
  BY Zenon, StretchFrame DEF LogInv, LogTypes, HdType
<1>2. ReceivedOK' /\ \A k \in Key : HeldOK(k)' /\ LaterOK(k)'
  BY Zenon, StepFrame DEF LogInv
<1>3. \A k \in Key : StepOK(k)'
  BY Zenon, StepOther DEF LogInv
<1>4. QED
  BY Zenon, <1>1, <1>2, <1>3 DEF LogInv

\* CheckDeferred and RecordLast
LEMMA LogPcStep ==
  ASSUME LogInv, NEW k \in Key, CheckDeferred(k) \/ RecordLast(k)
  PROVE  LogInv'
<1>1. /\ UNCHANGED <<deferredItems, drained, received, pos, bundle, mine, l, content,
                     since, hd>>
      /\ \/ /\ pc[k] = "check"
            /\ pc' = [pc EXCEPT ![k] = IF deferredItems[k] # <<>> THEN "add" ELSE "send"]
         \/ /\ pc[k] = "record"
            /\ pc' = [pc EXCEPT ![k] = "select"]
  BY Zenon DEF CheckDeferred, RecordLast, deferredVars, hasDeferred, Keys
<1>2. pc \in [Key -> LogSteps]
  BY Zenon DEF LogInv, LogTypes
<1>3. pc' \in [Key -> LogSteps] /\ \A j \in Key \ {k} : pc'[j] = pc[j]
  BY Zenon, <1>1, <1>2 DEF LogSteps
<1>4. LogTypes' /\ StretchOK'
  BY Zenon, <1>1, <1>3, StretchFrame DEF LogInv, LogTypes, HdType
<1>5. ReceivedOK' /\ \A j \in Key : HeldOK(j)' /\ LaterOK(j)'
  BY Zenon, <1>1, StepFrame DEF LogInv
<1>6. StepOK(k)'
  <2>1. StepOK(k) /\ (pc'[k] \in {"add", "send", "select"})
    BY Zenon, <1>1, <1>2 DEF LogInv
  <2>2. pc'[k] = "send" => deferredItems[k] = <<>>
    BY Zenon, <1>1, <1>2
  <2>3. l[k] = <<>> /\ (pc'[k] # "select" => mine[k] # 0)
    BY Zenon, <1>1, <1>2, <2>1 DEF StepOK
  <2>4. QED
    BY Zenon, <1>1, <2>1, <2>2, <2>3 DEF StepOK
<1>7. \A j \in Key : StepOK(j)'
  BY Zenon, <1>1, <1>3, <1>6, StepOther DEF LogInv
<1>8. QED
  BY Zenon, <1>4, <1>5, <1>7 DEF LogInv

\* A step after which image k holds no more than before.
LEMMA HeldShrinks ==
  ASSUME LogTypes, NEW k \in Key, HeldOK(k), LaterOK(k), Held(k)' \subseteq Held(k),
         UNCHANGED <<content, pos, bundle, received, since, drained>>,
         Queued(deferredItems[k], content)', Queued(l[k], content)',
         mine'[k] # 0 => \A b \in Range(deferredItems'[k]) \cup Range(l'[k]) :
                            LinesBefore(content[b], content[mine'[k]])
  PROVE  HeldOK(k)' /\ LaterOK(k)'
<1>1. \A x : WasRead(x)' <=> WasRead(x)
  BY Zenon DEF WasRead
<1>2. \A b \in Held(k)' : WasRead(content[b])'
  BY Zenon DEF HeldOK, WasRead
<1>3. WasRead(bundle[k])'
  BY Zenon DEF HeldOK, WasRead
<1>4. HeldOK(k)'
  BY Zenon, <1>2, <1>3 DEF HeldOK
<1>5. Recent' = Recent
  BY Zenon DEF Recent
<1>6. LaterOK(k)'
  BY Zenon, <1>5 DEF LaterOK
<1>7. QED
  BY Zenon, <1>4, <1>6

\* AddDeferred: the copy of the list is the list.
LEMMA LogAdd ==
  ASSUME LogInv, NEW k \in Key, AddDeferred(k)
  PROVE  LogInv'
<1>1. /\ pc[k] = "add" /\ l' = [l EXCEPT ![k] = deferredItems[k]]
      /\ pc' = [pc EXCEPT ![k] = "store"]
      /\ UNCHANGED <<deferredItems, drained, received, hd, pos, bundle, mine, content, since>>
  BY Zenon DEF AddDeferred
<1>2. LogTypes /\ l \in [Key -> Seq(Nat)] /\ pc \in [Key -> LogSteps]
      /\ deferredItems \in [Key -> Seq(Nat)]
  BY Zenon DEF LogInv, LogTypes
<1>3. /\ pc' \in [Key -> LogSteps] /\ l' \in [Key -> Seq(Nat)]
      /\ \A j \in Key \ {k} : pc'[j] = pc[j] /\ l'[j] = l[j]
      /\ pc'[k] = "store" /\ l'[k] = deferredItems[k]
  BY Zenon, <1>1, <1>2 DEF LogSteps
<1>4. LogTypes' /\ StretchOK' /\ Grown
  BY <1>1, <1>3, StretchFrame DEF LogInv, LogTypes, HdType, Grown
<1>5. ReceivedOK'
  BY Zenon, <1>1, <1>4, ReceivedFrame DEF LogInv
<1>6. ASSUME NEW j \in Key, j # k
      PROVE  HeldOK(j)' /\ StepOK(j)' /\ LaterOK(j)'
  <2>1. HeldOK(j)' /\ Held(j)' = Held(j)
    BY Zenon, <1>1, <1>2, <1>3, <1>4, <1>6, HeldFrame DEF LogInv
  <2>2. LaterOK(j)'
    BY Zenon, <1>1, <1>2, <1>4, <2>1, LaterFrame DEF LogInv
  <2>3. StepOK(j)'
    BY Zenon, <1>1, <1>3, <1>6, StepOther DEF LogInv
  <2>4. QED
    BY Zenon, <2>1, <2>2, <2>3
<1>7. HeldOK(k)' /\ LaterOK(k)'
  <2>1. HeldOK(k) /\ LaterOK(k)
    BY Zenon DEF LogInv
  <2>2. Held(k)' \subseteq Held(k)
    BY Zenon, <1>1, <1>3 DEF Held
  <2>3. Queued(deferredItems[k], content)' /\ Queued(l[k], content)'
    BY Zenon, <1>1, <1>3, <2>1 DEF HeldOK, Queued
  <2>4. mine'[k] # 0 => \A b \in Range(deferredItems'[k]) \cup Range(l'[k]) :
                            LinesBefore(content[b], content[mine'[k]])
    BY Zenon, <1>1, <1>3, <2>1 DEF HeldOK
  <2>5. QED
    BY Zenon, <1>1, <1>2, <2>1, <2>2, <2>3, <2>4, HeldShrinks
<1>8. StepOK(k)'
  BY Zenon, <1>1, <1>3 DEF LogInv, StepOK
<1>9. QED
  BY Zenon, <1>4, <1>5, <1>6, <1>7, <1>8 DEF LogInv

\* A list that grows at its end still has its stretches.
LEMMA StretchAppend ==
  ASSUME NEW x \in Seq(Nat), NEW y \in Seq(Nat), NEW b \in Nat, NEW d, Stretch(x, y, d)
  PROVE  Stretch(x, Append(y, b), d)
<1>1. PICK n \in Nat : /\ n + Len(x) <= Len(y)
                       /\ \A i \in 1..Len(x) : x[i] = y[n + i]
                       /\ \A i \in 1..n : y[i] \in d
  BY Zenon DEF Stretch
<1>2. /\ Len(Append(y, b)) = Len(y) + 1 /\ Len(x) \in Nat /\ Len(y) \in Nat
      /\ \A i \in 1..Len(y) : Append(y, b)[i] = y[i]
  BY AppendFacts
<1> DEFINE z == Append(y, b)
<1>3. n + Len(x) <= Len(z)
  BY <1>1, <1>2
<1>4. \A i \in 1..Len(x) : n + i \in 1..Len(y)
  BY <1>1, <1>2
<1>5. \A i \in 1..n : i \in 1..Len(y)
  BY <1>1, <1>2
<1> HIDE DEF z
<1>6. \A i \in 1..Len(y) : z[i] = y[i]
  BY Zenon, <1>2 DEF z
<1>7. Stretch(x, z, d)
  <2>1. \A i \in 1..Len(x) : x[i] = z[n + i]
    BY Zenon, <1>1, <1>4, <1>6
  <2>2. \A i \in 1..n : z[i] \in d
    BY Zenon, <1>1, <1>5, <1>6
  <2>3. QED
    BY Zenon, <1>3, <2>1, <2>2 DEF Stretch
<1>8. QED
  BY Zenon, <1>7 DEF z

\* StoreDeferred: the list that it overwrites is the copy, or was emptied after all of
\* it had been read.
LEMMA LogStore ==
  ASSUME LogInv, NEW k \in Key, StoreDeferred(k)
  PROVE  LogInv'
<1>1. /\ pc[k] = "store" /\ deferredItems' = [deferredItems EXCEPT ![k] = Append(l[k], mine[k])]
      /\ pc' = [pc EXCEPT ![k] = "select"]
      /\ mine' = [mine EXCEPT ![k] = 0] /\ l' = [l EXCEPT ![k] = <<>>]
      /\ UNCHANGED <<drained, received, hd, pos, bundle, content, since>>
  BY Zenon DEF StoreDeferred
<1>2. LogTypes /\ l \in [Key -> Seq(Nat)] /\ pc \in [Key -> LogSteps]
      /\ deferredItems \in [Key -> Seq(Nat)] /\ mine \in [Key -> Nat] /\ hd \in HdType
  BY Zenon DEF LogInv, LogTypes
<1>3. PICK x \in Seq(Nat), b \in Nat : x = l[k] /\ b = mine[k]
  BY Zenon, <1>2
<1>4. /\ Append(x, b) \in Seq(Nat) /\ DOMAIN Append(x, b) = DOMAIN x \cup {Len(x) + 1}
      /\ \A p \in DOMAIN x : Append(x, b)[p] = x[p]
      /\ Append(x, b)[Len(x) + 1] = b
      /\ DOMAIN x = 1..Len(x) /\ Len(x) \in Nat
      /\ Range(Append(x, b)) = Range(x) \cup {b}
  BY AppendFacts
<1>5. /\ pc' \in [Key -> LogSteps] /\ l' \in [Key -> Seq(Nat)]
      /\ deferredItems' \in [Key -> Seq(Nat)] /\ mine' \in [Key -> Nat]
      /\ \A j \in Key \ {k} : /\ pc'[j] = pc[j] /\ l'[j] = l[j]
                              /\ deferredItems'[j] = deferredItems[j] /\ mine'[j] = mine[j]
      /\ pc'[k] = "select" /\ l'[k] = <<>> /\ mine'[k] = 0
      /\ deferredItems'[k] = Append(x, b)
  <2>1. /\ pc' \in [Key -> LogSteps] /\ pc'[k] = "select"
        /\ mine' \in [Key -> Nat] /\ mine'[k] = 0
        /\ \A j \in Key \ {k} : pc'[j] = pc[j] /\ mine'[j] = mine[j]
    BY <1>1, <1>2 DEF LogSteps
  <2>2. /\ l' \in [Key -> Seq(Nat)] /\ l'[k] = <<>>
        /\ \A j \in Key \ {k} : l'[j] = l[j]
    BY <1>1, <1>2
  <2>3. /\ deferredItems' \in [Key -> Seq(Nat)] /\ deferredItems'[k] = Append(x, b)
        /\ \A j \in Key \ {k} : deferredItems'[j] = deferredItems[j]
    BY <1>1, <1>2, <1>3, <1>4
  <2>4. QED
    BY Zenon, <2>1, <2>2, <2>3
<1>6. HeldOK(k) /\ LaterOK(k) /\ StepOK(k) /\ b # 0
      /\ (x = deferredItems[k] \/ deferredItems[k] = <<>>)
  BY Zenon, <1>1, <1>3 DEF LogInv, StepOK
<1>7. LogTypes' /\ Grown
  <2>1. LogTypes'
    BY Zenon, <1>1, <1>5 DEF LogInv, LogTypes, HdType
  <2>2. pos \in [Source -> Nat] /\ pos' = pos /\ content' = content
    BY Zenon, <1>1 DEF LogInv, LogTypes
  <2>3. QED
    BY <2>1, <2>2 DEF Grown
<1>8. StretchOK'
  <2> SUFFICES ASSUME hd.pc \in Key
               PROVE  /\ deferredItems'[hd.pc] # <<>>
                      /\ Stretch(hd.list, deferredItems'[hd.pc], drained)
    BY Zenon, <1>1 DEF StretchOK
  <2>1. deferredItems[hd.pc] # <<>> /\ Stretch(hd.list, deferredItems[hd.pc], drained)
    BY Zenon DEF LogInv, StretchOK
  <2>2. CASE hd.pc = k
    <3>1. x = deferredItems[k] /\ hd.list \in Seq(Nat)
      BY Zenon, <1>2, <1>6, <2>1, <2>2 DEF HdType
    <3>2. Stretch(hd.list, Append(x, b), drained)
      BY Zenon, <2>1, <2>2, <3>1, StretchAppend
    <3>3. Append(x, b) # <<>>
      BY <1>4
    <3>4. QED
      BY Zenon, <1>5, <2>2, <3>2, <3>3
  <2>3. CASE hd.pc # k
    BY Zenon, <1>5, <2>1, <2>3
  <2>4. QED
    BY Zenon, <2>2, <2>3
<1>9. ReceivedOK'
  BY Zenon, <1>1, <1>2, <1>7, ReceivedFrame DEF LogInv
<1>10. ASSUME NEW j \in Key, j # k
       PROVE  HeldOK(j)' /\ StepOK(j)' /\ LaterOK(j)'
  <2>1. HeldOK(j)' /\ Held(j)' = Held(j)
    BY Zenon, <1>1, <1>2, <1>5, <1>7, <1>10, HeldFrame DEF LogInv
  <2>2. LaterOK(j)'
    BY Zenon, <1>1, <1>2, <1>7, <2>1, LaterFrame DEF LogInv
  <2>3. StepOK(j)'
    BY Zenon, <1>5, <1>10, StepOther DEF LogInv
  <2>4. QED
    BY Zenon, <2>1, <2>2, <2>3
<1>11. HeldOK(k)' /\ LaterOK(k)'
  <2>1. Range(Append(x, b)) \subseteq Range(x) \cup {b}
    BY Zenon, <1>4
  <2>2. Held(k)' \subseteq Held(k)
    <3>1. Range(<<>>) = {} /\ {mine'[k]} \ {0} = {}
      BY <1>5 DEF Range
    <3>2. Held(k)' = Range(Append(x, b))
      BY Zenon, <1>5, <3>1 DEF Held
    <3>3. QED
      BY Zenon, <1>3, <1>6, <2>1, <3>2 DEF Held
  <2>3. Queued(x, content) /\ \A p \in DOMAIN x : LinesBefore(content[x[p]], content[b])
    BY Zenon, <1>3, <1>6 DEF HeldOK, Range
  <2>4. Queued(Append(x, b), content)
    <3> SUFFICES ASSUME NEW p \in DOMAIN Append(x, b), NEW q \in DOMAIN Append(x, b), p < q
                 PROVE  LinesBefore(content[Append(x, b)[p]], content[Append(x, b)[q]])
      BY Zenon DEF Queued
    <3>1. p \in DOMAIN x
      BY <1>4
    <3>2. CASE q \in DOMAIN x
      BY Zenon, <1>4, <2>3, <3>1, <3>2 DEF Queued
    <3>3. CASE q = Len(x) + 1
      BY Zenon, <1>4, <2>3, <3>1, <3>3
    <3>4. QED
      BY Zenon, <1>4, <3>2, <3>3
  <2>5. Queued(deferredItems[k], content)' /\ Queued(l[k], content)'
    <3>1. Queued(<<>>, content)
      BY DEF Queued
    <3>2. QED
      BY Zenon, <1>1, <1>5, <2>4, <3>1
  <2>6. QED
    BY Zenon, <1>1, <1>2, <1>5, <1>6, <2>2, <2>5, HeldShrinks
<1>12. StepOK(k)'
  BY Zenon, <1>5 DEF StepOK
<1>13. QED
  BY Zenon, <1>7, <1>8, <1>9, <1>10, <1>11, <1>12 DEF LogInv

\* MakeBuffer: the new buffer of image k comes after all that k holds and all that
\* was received.
LEMMA LogMake ==
  ASSUME LogInv, Grown, NEW k \in Key, NEW lines \in Seq(LogLine), MakeBuffer(k, lines),
         pc[k] = "select", pos' \in [Source -> Nat],
         Owned(lines, k), Sorted(lines), WasRead(lines)',
         \A b \in Recent \cup Held(k) : LinesBefore(content[b], lines),
         UNCHANGED <<deferredItems, drained, received, hd, l, since>>
  PROVE  LogInv'
<1>1. /\ content' = Append(content, lines)
      /\ mine' = [mine EXCEPT ![k] = Len(content) + 1]
      /\ bundle' = [bundle EXCEPT ![k] = <<>>]
      /\ pc' = [pc EXCEPT ![k] = "check"]
  BY Zenon DEF MakeBuffer
<1>2. /\ LogTypes /\ l \in [Key -> Seq(Nat)] /\ pc \in [Key -> LogSteps]
      /\ bundle \in [Key -> Seq(LogLine)] /\ mine \in [Key -> Nat]
      /\ content \in Seq(Seq(LogLine))
  BY Zenon DEF LogInv, LogTypes
<1>3. PICK b : b = Len(content) + 1
  BY Zenon
<1>4. /\ b \in Nat \ {0} /\ b \notin DOMAIN content /\ content' \in Seq(Seq(LogLine))
      /\ DOMAIN content' = DOMAIN content \cup {b} /\ content'[b] = lines
      /\ \A c \in DOMAIN content : content'[c] = content[c]
  <2>1. /\ content' \in Seq(Seq(LogLine)) /\ Len(content) \in Nat
        /\ DOMAIN content = 1..Len(content) /\ DOMAIN content' = DOMAIN content \cup {b}
        /\ content'[b] = lines /\ \A c \in DOMAIN content : content'[c] = content[c]
    BY <1>1, <1>2, <1>3, AppendFacts
  <2>2. QED
    BY <1>3, <2>1
<1>5. /\ mine' \in [Key -> Nat] /\ mine'[k] = b
      /\ pc' \in [Key -> LogSteps] /\ pc'[k] = "check"
      /\ \A j \in Key \ {k} : /\ pc'[j] = pc[j] /\ mine'[j] = mine[j]
                              /\ bundle'[j] = bundle[j]
  BY Zenon, <1>1, <1>2, <1>3, <1>4 DEF LogSteps
<1>6. bundle' \in [Key -> Seq(LogLine)] /\ bundle'[k] = <<>>
  BY <1>1, <1>2
<1>7. LogTypes' /\ StretchOK'
  BY Zenon, <1>2, <1>4, <1>5, <1>6, StretchFrame DEF LogInv, LogTypes, HdType
<1>8. ReceivedOK'
  <2>1. \A c \in DOMAIN content' \ DOMAIN content : Sorted(content'[c])
    BY Zenon, <1>4
  <2>2. QED
    BY Zenon, <1>2, <2>1, ReceivedFrame DEF LogInv
<1>9. ASSUME NEW j \in Key, j # k
      PROVE  HeldOK(j)' /\ StepOK(j)' /\ LaterOK(j)'
  <2>1. HeldOK(j)' /\ Held(j)' = Held(j)
    BY Zenon, <1>2, <1>5, <1>9, HeldFrame DEF LogInv
  <2>2. LaterOK(j)'
    BY Zenon, <1>2, <1>5, <1>9, <2>1, LaterFrame DEF LogInv
  <2>3. StepOK(j)'
    BY Zenon, <1>5, <1>9, StepOther DEF LogInv
  <2>4. QED
    BY Zenon, <2>1, <2>2, <2>3
<1>10. HeldOK(k) /\ LaterOK(k) /\ l[k] = <<>>
  BY Zenon DEF LogInv, StepOK
<1>11. /\ Range(<<>>) = {} /\ Owned(<<>>, k) /\ Sorted(<<>>) /\ Queued(<<>>, content')
       /\ \A x : LinesBefore(x, <<>>)
  BY DEF Owned, Sorted, Queued, LinesBefore, Range
<1>12. /\ Range(deferredItems[k]) \subseteq Held(k) /\ Held(k) \subseteq DOMAIN content
       /\ Held(k)' = Range(deferredItems[k]) \cup {b}
       /\ \A p \in DOMAIN deferredItems[k] : deferredItems[k][p] \in Held(k)
  <2>1. /\ Range(deferredItems[k]) \subseteq Held(k) /\ Held(k) \subseteq DOMAIN content
        /\ Range(l[k]) = {} /\ Range(l[k])' = {} /\ mine'[k] # 0
    BY Zenon, <1>4, <1>5, <1>10, <1>11 DEF Held, HeldOK
  <2>2. Held(k)' = Range(deferredItems[k]) \cup {b}
    BY Zenon, <1>5, <2>1 DEF Held
  <2>3. \A p \in DOMAIN deferredItems[k] : deferredItems[k][p] \in Range(deferredItems[k])
    BY Zenon DEF Range
  <2>4. QED
    BY Zenon, <2>1, <2>2, <2>3
<1>13. \A c \in Held(k) : WasRead(content[c])'
  <2> SUFFICES ASSUME NEW c \in Held(k) PROVE WasRead(content[c])'
    BY Zenon
  <2>0. c \in DOMAIN content /\ content'[c] = content[c]
    BY Zenon, <1>4, <1>12
  <2>1. PICK x \in Seq(LogLine) : x = content[c] /\ x = content'[c]
    BY <1>2, <2>0
  <2>2. WasRead(x)'
    <3>1. WasRead(x) /\ pos \in [Source -> Nat]
      BY Zenon, <1>10, <2>1 DEF LogInv, LogTypes, HeldOK
    <3>2. QED
      BY Zenon, <2>1, <3>1, StillRead
  <2>3. QED
    BY Zenon, <2>1, <2>2 DEF WasRead
<1>14. HeldOK(k)'
  <2>1. \A c \in Held(k)' : Owned(content'[c], k) /\ WasRead(content[c])'
    <3>1. WasRead(content[b])'
      BY Zenon, <1>4 DEF WasRead
    <3>2. QED
      BY ZenonT(60), <1>4, <1>10, <1>12, <1>13, <3>1 DEF HeldOK
  <2>2. Queued(deferredItems[k], content)'
    <3>1. PICK y : y = deferredItems[k] /\ y = deferredItems'[k]
      BY Zenon
    <3>2. \A p \in DOMAIN y : content'[y[p]] = content[y[p]]
      BY Zenon, <1>4, <1>12, <3>1
    <3>3. Queued(y, content)
      BY Zenon, <1>10, <3>1 DEF HeldOK
    <3>4. Queued(y, content')
      BY Zenon, <3>2, <3>3 DEF Queued
    <3>5. QED
      BY Zenon, <3>1, <3>4 DEF Queued
  <2>3. \A c \in Range(deferredItems[k]) : LinesBefore(content'[c], content'[b])
    BY Zenon, <1>4, <1>12
  <2>4. WasRead(bundle[k])'
    BY <1>6 DEF WasRead
  <2>5. QED
    BY <1>4, <1>5, <1>6, <1>10, <1>11, <1>12, <2>1, <2>2, <2>3, <2>4 DEF HeldOK
<1>15. LaterOK(k)'
  <2>1. Recent' = Recent
    BY Zenon DEF Recent
  <2>2. \A c \in Recent : content'[c] = content[c]
    BY Zenon, <1>2, <1>4, RecentMade
  <2>3. \A c \in Recent : LinesBefore(content'[c], content'[b])
    BY Zenon, <1>4, <2>2
  <2>4. \A c \in Recent, x \in Held(k)' \ drained' : LinesBefore(content'[c], content'[x])
    BY Zenon, <1>4, <1>10, <1>12, <2>2, <2>3 DEF LaterOK
  <2>5. QED
    BY Zenon, <1>6, <1>11, <2>1, <2>4 DEF LaterOK
<1>16. StepOK(k)'
  BY Zenon, <1>4, <1>5, <1>10 DEF StepOK
<1>17. QED
  BY Zenon, <1>7, <1>8, <1>9, <1>14, <1>15, <1>16 DEF LogInv

\* Flush: the bundle becomes a buffer as it is.
LEMMA LogFlush ==
  ASSUME LogInv, NEW k \in Key, Flush(k)
  PROVE  LogInv'
<1>1. /\ pc[k] = "select" /\ MakeBuffer(k, bundle[k])
      /\ UNCHANGED <<deferredItems, drained, received, hd, l, since, pos>>
  BY Zenon DEF Flush, deferredVars
<1>2. LogTypes /\ HeldOK(k) /\ LaterOK(k)
  BY Zenon DEF LogInv
<1>3. PICK x \in Seq(LogLine) : x = bundle[k]
  BY Zenon, <1>2 DEF LogTypes
<1>4. content' = Append(content, x) /\ content \in Seq(Seq(LogLine)) /\ pos \in [Source -> Nat]
  BY Zenon, <1>1, <1>2, <1>3 DEF MakeBuffer, LogTypes
<1>5. Grown /\ pos' \in [Source -> Nat]
  <2>1. \A b \in DOMAIN content : b \in DOMAIN content' /\ content'[b] = content[b]
    BY <1>4, AppendFacts
  <2>2. QED
    BY <1>1, <1>4, <2>1 DEF Grown
<1>6. /\ Owned(x, k) /\ Sorted(x) /\ WasRead(x)'
      /\ \A b \in Recent \cup Held(k) : LinesBefore(content[b], x)
  BY Zenon, <1>1, <1>2, <1>3 DEF HeldOK, LaterOK, WasRead
<1>7. QED
  BY Zenon, <1>1, <1>3, <1>5, <1>6, LogMake

\* ReadEvent: the line is dropped, joins the bundle, or completes it.
LEMMA LogRead ==
  ASSUME LogInv, NEW s \in Source, ReadEvent(s)
  PROVE  LogInv'
<1>0. PICK k \in Key : k = ImageOf[s]
  BY Zenon, LogAssumption
<1>1. /\ pc[k] = "select" /\ pos' = [pos EXCEPT ![s] = pos[s] + 1]
      /\ UNCHANGED <<deferredItems, drained, received, hd, l, since>>
      /\ \/ UNCHANGED <<bundle, content, mine, pc>>
         \/ /\ bundle' = [bundle EXCEPT ![k] = Append(bundle[k], <<s, pos[s] + 1>>)]
            /\ UNCHANGED <<content, mine, pc>>
         \/ MakeBuffer(k, Append(bundle[k], <<s, pos[s] + 1>>))
  BY Zenon, <1>0 DEF ReadEvent, deferredVars
<1>2. /\ LogTypes /\ HeldOK(k) /\ LaterOK(k) /\ ReceivedOK /\ content \in Seq(Seq(LogLine))
      /\ pos \in [Source -> Nat] /\ bundle \in [Key -> Seq(LogLine)]
  BY Zenon DEF LogInv, LogTypes
<1>3. PICK y \in Seq(LogLine) : y = bundle[k]
  BY Zenon, <1>2
<1>4. PICK z : z = Append(y, <<s, pos[s] + 1>>)
  BY Zenon
<1>5. pos' \in [Source -> Nat] /\ \A r \in Source : pos[r] \in Nat /\ pos[r] <= pos'[r]
  BY <1>1, <1>2
<1>6. /\ z \in Seq(LogLine) /\ Owned(z, k) /\ Sorted(z)
  <2>1. Owned(y, ImageOf[s]) /\ Sorted(y) /\ WasRead(y)
    BY Zenon, <1>0, <1>2, <1>3 DEF HeldOK
  <2>2. /\ z \in Seq(LogLine) /\ Owned(z, ImageOf[s]) /\ Sorted(z)
    BY Zenon, <1>2, <1>3, <1>4, <2>1, NextBundle
  <2>3. QED
    BY Zenon, <1>0, <2>2
<1>7. \A b \in Recent \cup Held(k) : LinesBefore(content[b], z)
  <2> SUFFICES ASSUME NEW b \in Recent \cup Held(k) PROVE LinesBefore(content[b], z)
    BY Zenon
  <2>1. b \in DOMAIN content
    BY Zenon, <1>2, RecentMade DEF HeldOK
  <2>2. PICK x \in Seq(LogLine) : x = content[b]
    BY <1>2, <2>1
  <2>3. WasRead(x) /\ LinesBefore(x, y)
    BY Zenon, <1>2, <1>3, <2>2 DEF HeldOK, LaterOK, ReceivedOK
  <2>4. QED
    BY Zenon, <1>2, <1>4, <2>2, <2>3, NextLine
<1>8. WasRead(z)'
  <2>1. WasRead(y)
    BY Zenon, <1>2, <1>3 DEF HeldOK
  <2>2. \A m \in DOMAIN y : y[m][1] \in Source /\ y[m][2] \in Nat
    BY DEF LogLine
  <2>3. \A m \in DOMAIN y : y[m][2] <= pos'[y[m][1]]
    BY <1>5, <2>1, <2>2 DEF WasRead
  <2>4. /\ DOMAIN z = DOMAIN y \cup {Len(y) + 1}
        /\ \A m \in DOMAIN y : z[m] = y[m]
        /\ z[Len(y) + 1][1] = s /\ z[Len(y) + 1][2] = pos[s] + 1
    <3>1. <<s, pos[s] + 1>> \in LogLine
      BY <1>2 DEF LogLine
    <3>2. QED
      BY <1>4, <3>1, AppendFacts
  <2>5. pos[s] + 1 <= pos'[s]
    BY <1>1, <1>2
  <2>6. QED
    BY Zenon, <2>3, <2>4, <2>5 DEF WasRead
<1>9. CASE MakeBuffer(k, z)
  <2>1. content' = Append(content, z)
    BY Zenon, <1>9 DEF MakeBuffer
  <2>2. Grown
    <3>1. \A b \in DOMAIN content : b \in DOMAIN content' /\ content'[b] = content[b]
      BY <1>2, <1>6, <2>1, AppendFacts
    <3>2. QED
      BY Zenon, <1>5, <3>1 DEF Grown
  <2>3. QED
    BY Zenon, <1>1, <1>5, <1>6, <1>7, <1>8, <1>9, <2>2, LogMake
<1>10. CASE UNCHANGED <<content, mine, pc>> /\ (bundle' = bundle \/ bundle' = [bundle EXCEPT ![k] = z])
  <2>1. Grown
    BY Zenon, <1>5, <1>10 DEF Grown
  <2>2. /\ bundle' \in [Key -> Seq(LogLine)] /\ (bundle'[k] = y \/ bundle'[k] = z)
        /\ \A j \in Key \ {k} : bundle'[j] = bundle[j]
    BY Zenon, <1>2, <1>3, <1>6, <1>10
  <2>3. LogTypes' /\ StretchOK'
    BY Zenon, <1>1, <1>5, <1>10, <2>2, StretchFrame DEF LogInv, LogTypes, HdType
  <2>4. ReceivedOK'
    BY Zenon, <1>1, <1>2, <1>10, <2>1, ReceivedFrame
  <2>5. \A j \in Key : StepOK(j)'
    BY Zenon, <1>1, <1>10, StepOther DEF LogInv
  <2>6. ASSUME NEW j \in Key, bundle'[j] = bundle[j]
        PROVE  HeldOK(j)' /\ LaterOK(j)'
    <3>1. HeldOK(j)' /\ Held(j)' = Held(j)
      BY Zenon, <1>1, <1>2, <1>10, <2>1, <2>6, HeldFrame DEF LogInv
    <3>2. QED
      BY Zenon, <1>1, <1>2, <2>1, <2>6, <3>1, LaterFrame DEF LogInv
  <2>7. CASE bundle'[k] = z
    <3>1. Held(k)' = Held(k) /\ Recent' = Recent
      BY Zenon, <1>1, <1>10 DEF Held, Recent
    <3>2. LaterOK(k)'
      BY Zenon, <1>1, <1>2, <1>7, <1>10, <2>7, <3>1 DEF LaterOK
    <3>3. \A b \in Held(k) : WasRead(content[b])'
      <4> SUFFICES ASSUME NEW b \in Held(k) PROVE WasRead(content[b])'
        BY Zenon
      <4>1. PICK x \in Seq(LogLine) : x = content[b] /\ x = content'[b]
        BY <1>2, <1>10 DEF HeldOK
      <4>2. WasRead(x)'
        BY Zenon, <1>2, <2>1, <4>1, StillRead DEF HeldOK
      <4>3. QED
        BY Zenon, <4>1, <4>2 DEF WasRead
    <3>4. WasRead(bundle[k])'
      BY Zenon, <1>8, <2>7 DEF WasRead
    <3>5. Queued(deferredItems[k], content)' /\ Queued(l[k], content)'
      BY Zenon, <1>1, <1>2, <1>10 DEF HeldOK
    <3>6. HeldOK(k)'
      BY Zenon, <1>1, <1>2, <1>6, <1>7, <1>10, <2>7, <3>1, <3>3, <3>4, <3>5 DEF HeldOK
    <3>7. QED
      BY Zenon, <2>2, <2>3, <2>4, <2>5, <2>6, <3>2, <3>6 DEF LogInv
  <2>8. CASE bundle'[k] = y
    BY Zenon, <1>3, <2>2, <2>3, <2>4, <2>5, <2>6, <2>8 DEF LogInv
  <2>9. QED
    BY Zenon, <2>2, <2>7, <2>8
<1>11. QED
  BY Zenon, <1>1, <1>3, <1>4, <1>9, <1>10

\* A send for image h of a buffer that is older than all the unread ones of h: the
\* cloud gets it after all it got before, and before all that is still to come.
LEMMA LogSent ==
  ASSUME LogInv, NEW h \in Key, NEW b \in Held(h), NEW o \in SendOutcomes[TRUE], Sent(b, o),
         \A x \in Held(h) \ drained : x = b \/ LinesBefore(content[b], content[x]),
         \A k \in Key : Held(k)' \subseteq Held(k),
         UNCHANGED <<content, pos, bundle, since>>
  PROVE  /\ ReceivedOK' /\ \A k \in Key : LaterOK(k)'
         /\ received' \in Seq(Nat) /\ Range(received') \subseteq drained'
         /\ drained \subseteq drained' /\ drained' \subseteq DOMAIN content
         /\ o.result # "error" => b \in drained'
<1>1. /\ LogTypes /\ ReceivedOK /\ \A k \in Key : HeldOK(k) /\ LaterOK(k)
      /\ received \in Seq(Nat) /\ Range(received) \subseteq drained /\ since \in Nat
      /\ content \in Seq(Seq(LogLine)) /\ drained \subseteq DOMAIN content
  BY Zenon DEF LogInv, LogTypes
<1>2. b \in DOMAIN content /\ b \in Nat /\ Owned(content[b], h)
  BY <1>1 DEF HeldOK
<1>3. /\ drained \subseteq drained' /\ drained' \subseteq drained \cup {b}
      /\ o.result # "error" => b \in drained'
      /\ \/ received' = received
         \/ received' = Append(received, b) /\ b \notin drained /\ b \in drained'
      /\ received' \in Seq(Nat) /\ Range(received') \subseteq drained'
  BY Zenon, <1>1, <1>2, SentFacts
<1>4. CASE received' = received
  <2>1. Recent' = Recent
    BY Zenon, <1>4 DEF Recent
  <2>2. ReceivedOK'
    BY Zenon, <1>1, <1>4, <2>1 DEF ReceivedOK, WasRead
  <2>3. \A k \in Key : LaterOK(k)'
    BY Zenon, <1>1, <1>3, <2>1 DEF LaterOK
  <2>4. QED
    BY Zenon, <1>1, <1>2, <1>3, <2>2, <2>3
<1>5. CASE received' = Append(received, b) /\ b \notin drained /\ b \in drained'
  <2>1. /\ Len(received') = Len(received) + 1 /\ Len(received) \in Nat
        /\ \A i \in 1..Len(received) : received'[i] = received[i]
        /\ received'[Len(received) + 1] = b
    BY Zenon, <1>1, <1>2, <1>5, ReceivedFacts
  <2>2. \A i \in (since + 1)..Len(received') :
          \/ i \in (since + 1)..Len(received) /\ received'[i] = received[i]
          \/ i = Len(received) + 1 /\ received'[i] = b
    BY <1>1, <2>1
  <2>3. Recent' \subseteq Recent \cup {b}
    BY Zenon, <2>2 DEF Recent
  <2>4. \A c \in Recent : LinesBefore(content[c], content[b])
    BY Zenon, <1>1, <1>5 DEF LaterOK
  <2>5. ReceivedOK'
    <3>1. ASSUME NEW i \in (since + 1)..Len(received'), NEW j \in (since + 1)..Len(received'),
                 i < j
          PROVE  LinesBefore(content[received'[i]], content[received'[j]])
      <4>1. i \in (since + 1)..Len(received) /\ received'[i] = received[i]
        BY <1>1, <2>1, <2>2, <3>1
      <4>2. received[i] \in Recent
        BY Zenon, <4>1 DEF Recent
      <4>3. CASE j \in (since + 1)..Len(received) /\ received'[j] = received[j]
        BY Zenon, <1>1, <3>1, <4>1, <4>3 DEF ReceivedOK
      <4>4. CASE received'[j] = b
        BY Zenon, <2>4, <4>1, <4>2, <4>4
      <4>5. QED
        BY Zenon, <2>2, <4>3, <4>4
    <3>2. \A c \in Recent \cup {b} : WasRead(content[c])'
      BY Zenon, <1>1 DEF ReceivedOK, HeldOK, WasRead
    <3>3. \A c \in DOMAIN content : Sorted(content[c])
      BY Zenon, <1>1 DEF ReceivedOK
    <3>4. QED
      BY Zenon, <2>3, <3>1, <3>2, <3>3 DEF ReceivedOK
  <2>6. ASSUME NEW k \in Key PROVE LaterOK(k)'
    <3>1. LinesBefore(content[b], bundle[k])
      <4>1. Owned(bundle[k], k)
        BY Zenon, <1>1 DEF HeldOK
      <4>2. CASE k = h
        BY Zenon, <1>1, <4>2 DEF HeldOK
      <4>3. CASE k # h
        BY Zenon, <1>2, <4>1, <4>3, OtherImage
      <4>4. QED
        BY Zenon, <4>2, <4>3
    <3>2. ASSUME NEW x \in Held(k) \ drained, x # b PROVE LinesBefore(content[b], content[x])
      <4>1. Owned(content[x], k)
        BY Zenon, <1>1 DEF HeldOK
      <4>2. CASE k = h
        BY Zenon, <3>2, <4>2
      <4>3. CASE k # h
        BY Zenon, <1>2, <4>1, <4>3, OtherImage
      <4>4. QED
        BY Zenon, <4>2, <4>3
    <3>3. \A x \in Held(k)' \ drained' : x \in Held(k) \ drained /\ x # b
      BY Zenon, <1>3, <1>5
    <3>4. QED
      BY Zenon, <1>1, <2>3, <3>1, <3>2, <3>3 DEF LaterOK
  <2>7. QED
    BY Zenon, <1>1, <1>2, <1>3, <2>5, <2>6
<1>6. QED
  BY Zenon, <1>3, <1>4, <1>5

\* SendBundle: nothing else of the image is deferred, so nothing older can follow.
LEMMA LogSendBundle ==
  ASSUME LogInv, NEW k \in Key, NEW o \in SendOutcomes[TRUE], SendBundle(k, o)
  PROVE  LogInv'
<1>1. /\ pc[k] = "send" /\ Sent(mine[k], o)
      /\ pc' = [pc EXCEPT ![k] = IF o.result = "error" THEN "add" ELSE "record"]
      /\ mine' = [mine EXCEPT ![k] = IF o.result = "error" THEN mine[k] ELSE 0]
      /\ UNCHANGED <<deferredItems, hd, pos, bundle, l, content, since>>
  BY Zenon DEF SendBundle
<1>2. /\ LogTypes /\ pc \in [Key -> LogSteps] /\ mine \in [Key -> Nat]
      /\ HeldOK(k) /\ StepOK(k) /\ LaterOK(k)
  BY Zenon DEF LogInv, LogTypes
<1>3. mine[k] # 0 /\ deferredItems[k] = <<>> /\ l[k] = <<>>
  BY Zenon, <1>1, <1>2 DEF StepOK
<1>4. Held(k) = {mine[k]}
  BY <1>3 DEF Held, Range
<1>5. /\ mine' \in [Key -> Nat] /\ (mine'[k] = mine[k] \/ mine'[k] = 0)
      /\ \A j \in Key \ {k} : mine'[j] = mine[j] /\ pc'[j] = pc[j]
      /\ pc' \in [Key -> LogSteps]
      /\ pc'[k] = "record" \/ (pc'[k] = "add" /\ mine'[k] = mine[k])
  <2>1. CASE o.result = "error"
    BY Zenon, <1>1, <1>2, <2>1 DEF LogSteps
  <2>2. CASE o.result # "error"
    BY Zenon, <1>1, <1>2, <2>2 DEF LogSteps
  <2>3. QED
    BY Zenon, <2>1, <2>2
<1>6. \A j \in Key : Held(j)' \subseteq Held(j)
  BY Zenon, <1>1, <1>5 DEF Held
<1>7. /\ ReceivedOK' /\ \A j \in Key : LaterOK(j)'
      /\ received' \in Seq(Nat) /\ Range(received') \subseteq drained'
      /\ drained \subseteq drained' /\ drained' \subseteq DOMAIN content
  BY Zenon, <1>1, <1>4, <1>6, LogSent
<1>8. LogTypes' /\ StretchOK'
  <2>1. LogTypes'
    BY Zenon, <1>1, <1>5, <1>7 DEF LogInv, LogTypes, HdType
  <2>2. QED
    BY Zenon, <1>1, <1>7, <2>1, StretchFrame DEF LogInv
<1>9. Grown
  BY <1>1, <1>2 DEF Grown, LogTypes
<1>10. ASSUME NEW j \in Key, j # k PROVE HeldOK(j)' /\ StepOK(j)'
  BY Zenon, <1>1, <1>2, <1>5, <1>9, <1>10, HeldFrame, StepOther DEF LogInv
<1>11. HeldOK(k)'
  <2>1. CASE mine'[k] = mine[k]
    BY Zenon, <1>1, <1>2, <1>9, <2>1, HeldFrame
  <2>2. CASE mine'[k] = 0
    <3>1. Held(k)' = {}
      BY <1>1, <1>3, <2>2 DEF Held, Range
    <3>2. WasRead(bundle[k])' /\ Queued(deferredItems[k], content)' /\ Queued(l[k], content)'
      BY Zenon, <1>1, <1>2 DEF HeldOK, WasRead
    <3>3. QED
      BY Zenon, <1>1, <1>2, <2>2, <3>1, <3>2 DEF HeldOK
  <2>3. QED
    BY Zenon, <1>5, <2>1, <2>2
<1>12. StepOK(k)'
  BY Zenon, <1>1, <1>3, <1>5 DEF StepOK
<1>13. QED
  BY Zenon, <1>7, <1>8, <1>10, <1>11, <1>12 DEF LogInv

\* SendItem: handleDeferred sends the first buffer of its list that it has not tried;
\* those before it have been read and those after it are younger.
LEMMA LogSendItem ==
  ASSUME LogInv, NEW o \in SendOutcomes[TRUE], SendItem(o),
         UNCHANGED <<pos, bundle, pc, mine, l, content, since>>
  PROVE  LogInv'
<1>1. /\ hd.pc \in Key /\ hd.list # <<>> /\ Sent(Head(hd.list), o)
      /\ hd' = IF o.result = "error" THEN [hd EXCEPT !.pc = "end", !.list = <<>>]
                                     ELSE [hd EXCEPT !.list = Tail(hd.list)]
      /\ deferredItems' = deferredItems
  BY Zenon DEF SendItem
<1>2. PICK h \in Key : h = hd.pc
  BY Zenon, <1>1
<1>3. /\ LogTypes /\ HeldOK(h) /\ StepOK(h) /\ hd \in HdType /\ hd.list \in Seq(Nat)
      /\ deferredItems \in [Key -> Seq(Nat)]
      /\ deferredItems[h] # <<>> /\ Stretch(hd.list, deferredItems[h], drained)
  BY Zenon, <1>2 DEF LogInv, LogTypes, HdType, StretchOK
<1>4. PICK y \in Seq(Nat), u \in Seq(Nat) : y = deferredItems[h] /\ u = hd.list /\ u # <<>>
  BY Zenon, <1>1, <1>3
<1>5. PICK n \in Nat : /\ n + Len(u) <= Len(y)
                       /\ \A i \in 1..Len(u) : u[i] = y[n + i]
                       /\ \A i \in 1..n : y[i] \in drained
  BY Zenon, <1>3, <1>4 DEF Stretch
<1>6. PICK b \in Nat : b = Head(u) /\ b = u[1]
  BY <1>4
<1>u. Len(u) \in Nat \ {0} /\ Len(y) \in Nat /\ Tail(u) \in Seq(Nat) /\ 1 \in 1..Len(u)
  BY <1>4
<1>7. n + 1 \in DOMAIN y /\ b = y[n + 1]
  <2>1. n + 1 \in 1..Len(y) /\ Len(y) \in Nat
    BY <1>5, <1>u
  <2>2. DOMAIN y = 1..Len(y)
    BY <1>4
  <2>3. u[1] = y[n + 1]
    BY Zenon, <1>5, <1>u
  <2>4. QED
    BY Zenon, <1>6, <2>1, <2>2, <2>3
<1>8. b \in Held(h)
  BY Zenon, <1>4, <1>7 DEF Held, Range
<1>9. \A x \in Held(h) \ drained : x = b \/ LinesBefore(content[b], content[x])
  <2> SUFFICES ASSUME NEW x \in Held(h) \ drained, x # b
               PROVE  LinesBefore(content[b], content[x])
    BY Zenon
  <2>1. CASE x \in Range(y)
    <3>1. PICK q \in DOMAIN y : x = y[q]
      BY Zenon, <2>1 DEF Range
    <3>2. q \in 1..Len(y) /\ Len(y) \in Nat /\ q # n + 1 /\ ~(q \in 1..n)
      BY <1>5, <1>7, <3>1
    <3>3. n + 1 < q
      BY <3>2
    <3>4. QED
      BY Zenon, <1>3, <1>4, <1>7, <3>1, <3>3 DEF HeldOK, Queued
  <2>2. CASE x \in {mine[h]} \ {0}
    <3>1. b \in Range(deferredItems[h])
      BY Zenon, <1>4, <1>7 DEF Range
    <3>2. QED
      BY Zenon, <1>3, <2>2, <3>1 DEF HeldOK
  <2>3. l[h] = <<>> \/ l[h] = y
    BY Zenon, <1>3, <1>4 DEF StepOK
  <2>4. QED
    BY <1>4, <2>1, <2>2, <2>3 DEF Held, Range
<1>10. \A k \in Key : Held(k)' = Held(k)
  BY Zenon, <1>1 DEF Held
<1>11. /\ ReceivedOK' /\ \A k \in Key : LaterOK(k)'
       /\ received' \in Seq(Nat) /\ Range(received') \subseteq drained'
       /\ drained \subseteq drained' /\ drained' \subseteq DOMAIN content
       /\ o.result # "error" => b \in drained'
  BY ZenonT(60), <1>1, <1>4, <1>6, <1>8, <1>9, <1>10, LogSent
<1>12. /\ hd' \in HdType
       /\ o.result = "error" => hd'.pc = "end"
       /\ o.result # "error" => hd'.pc = h /\ hd'.list = Tail(u)
  <2>0. <<>> \in Seq(Nat) /\ Tail(u) \in Seq(Nat)
    BY <1>u
  <2>1. CASE o.result = "error"
    BY Zenon, <1>1, <1>3, <2>0, <2>1, HdUpdate
  <2>2. CASE o.result # "error"
    BY Zenon, <1>1, <1>2, <1>3, <1>4, <2>0, <2>2, HdUpdate
  <2>3. QED
    BY Zenon, <2>1, <2>2
<1>13. LogTypes'
  BY Zenon, <1>1, <1>11, <1>12 DEF LogInv, LogTypes
<1>14. StretchOK'
  <2>1. CASE o.result = "error"
    BY Zenon, <1>12, <2>1, KeyAssumption DEF StretchOK
  <2>2. CASE o.result # "error"
    <3>1. PICK t \in Seq(Nat) : t = Tail(u)
      BY Zenon, <1>u
    <3>2. Len(t) = Len(u) - 1 /\ \A i \in 1..Len(t) : t[i] = u[i + 1]
      BY <1>4, <3>1
    <3>3. (n + 1) + Len(t) <= Len(y)
      BY <1>5, <1>u, <3>2
    <3>4. \A i \in 1..Len(t) : t[i] = y[(n + 1) + i]
      <4> SUFFICES ASSUME NEW i \in 1..Len(t) PROVE t[i] = y[(n + 1) + i]
        BY Zenon
      <4>1. i + 1 \in 1..Len(u) /\ n + (i + 1) = (n + 1) + i
        BY <1>u, <3>2
      <4>2. QED
        BY Zenon, <1>5, <3>2, <4>1
    <3>5. \A i \in 1..(n + 1) : y[i] \in drained'
      <4> SUFFICES ASSUME NEW i \in 1..(n + 1) PROVE y[i] \in drained'
        BY Zenon
      <4>1. i \in 1..n \/ i = n + 1
        OBVIOUS
      <4>2. QED
        BY Zenon, <1>5, <1>7, <1>11, <2>2, <4>1
    <3>6. Stretch(t, y, drained')
      <4>1. PICK m \in Nat : m = n + 1
        OBVIOUS
      <4>2. QED
        BY Zenon, <3>3, <3>4, <3>5, <4>1 DEF Stretch
    <3>7. QED
      BY Zenon, <1>1, <1>3, <1>4, <1>12, <2>2, <3>1, <3>6 DEF StretchOK
  <2>3. QED
    BY Zenon, <2>1, <2>2
<1>15. Grown
  BY <1>3 DEF Grown, LogTypes
<1>16. ASSUME NEW k \in Key PROVE HeldOK(k)' /\ StepOK(k)'
  BY Zenon, <1>1, <1>3, <1>15, HeldFrame, StepOther DEF LogInv
<1>17. QED
  BY Zenon, <1>11, <1>13, <1>14, <1>16 DEF LogInv

\* DeleteKey: what image k loses it will not send.
LEMMA LogDelete ==
  ASSUME LogInv, DeleteKey, UNCHANGED <<pos, bundle, pc, mine, l, content, since>>
  PROVE  LogInv'
<1>1. /\ hd.pc \in Key /\ hd' = [hd EXCEPT !.pc = "range"]
      /\ deferredItems' = [deferredItems EXCEPT ![hd.pc] = <<>>]
      /\ UNCHANGED <<drained, received>>
  BY Zenon DEF DeleteKey, removed
<1>2. PICK h \in Key : h = hd.pc
  BY Zenon, <1>1
<1>3. LogTypes /\ hd \in HdType /\ deferredItems \in [Key -> Seq(Nat)]
  BY Zenon DEF LogInv, LogTypes
<1>4. hd' \in HdType /\ hd'.pc = "range"
  BY Zenon, <1>1, <1>3 DEF HdType
<1>5. /\ deferredItems' \in [Key -> Seq(Nat)] /\ deferredItems'[h] = <<>>
      /\ \A k \in Key \ {h} : deferredItems'[k] = deferredItems[k]
  BY <1>1, <1>2, <1>3
<1>6. LogTypes' /\ StretchOK' /\ Grown
  <2>1. StretchOK'
    BY Zenon, <1>4, KeyAssumption DEF StretchOK
  <2>2. Grown
    BY <1>3 DEF LogTypes, Grown
  <2>3. LogTypes'
    BY Zenon, <1>1, <1>3, <1>4, <1>5 DEF LogTypes
  <2>4. QED
    BY Zenon, <2>1, <2>2, <2>3
<1>7. ReceivedOK'
  BY Zenon, <1>1, <1>3, <1>6, ReceivedFrame DEF LogInv
<1>8. ASSUME NEW k \in Key PROVE HeldOK(k)' /\ LaterOK(k)'
  <2>1. HeldOK(k) /\ LaterOK(k)
    BY Zenon DEF LogInv
  <2>2. Range(<<>>) = {} /\ Queued(<<>>, content)
    BY DEF Range, Queued
  <2>3. deferredItems'[k] = <<>> \/ deferredItems'[k] = deferredItems[k]
    BY Zenon, <1>5
  <2>4. Held(k)' \subseteq Held(k)
    BY Zenon, <2>2, <2>3 DEF Held
  <2>5. Queued(deferredItems[k], content)' /\ Queued(l[k], content)'
    BY Zenon, <2>1, <2>2, <2>3 DEF HeldOK
  <2>6. mine'[k] # 0 => \A b \in Range(deferredItems'[k]) \cup Range(l'[k]) :
                           LinesBefore(content[b], content[mine'[k]])
    BY Zenon, <2>1, <2>2, <2>3 DEF HeldOK
  <2>7. QED
    BY Zenon, <1>1, <1>3, <2>1, <2>4, <2>5, <2>6, HeldShrinks
<1>9. ASSUME NEW k \in Key PROVE StepOK(k)'
  BY Zenon, <1>5 DEF LogInv, StepOK
<1>10. QED
  BY Zenon, <1>6, <1>7, <1>8, <1>9 DEF LogInv

\* The steps of handleDeferred that change its own variables only.
LEMMA LogRange ==
  ASSUME LogInv, UNCHANGED <<pos, bundle, pc, mine, l, content, since>>,
         \/ HandleDeferred \/ EndEmpty \/ EndNonEmpty \/ StopTimer
         \/ \E key \in Key : NextKey(key)
  PROVE  LogInv'
<1>1. UNCHANGED <<deferredItems, drained, received>>
  BY Zenon DEF HandleDeferred, EndEmpty, EndNonEmpty, StopTimer, NextKey
<1>2. LogTypes /\ hd \in HdType /\ deferredItems \in [Key -> Seq(Nat)]
  BY Zenon DEF LogInv, LogTypes
<1>3. ReceivedOK' /\ \A k \in Key : HeldOK(k)' /\ LaterOK(k)'
  BY Zenon, <1>1, StepFrame DEF LogInv
<1>4. \A k \in Key : StepOK(k)'
  BY Zenon, <1>1, StepOther DEF LogInv
<1>5. hd' \in HdType /\ StretchOK'
  <2>0. NotHandling \in HdType /\ NotHandling.pc = "idle"
    BY DEF NotHandling, HdType
  <2>1. CASE HandleDeferred
    <3>1. hd' \in HdType /\ hd'.pc = "range"
      BY Zenon, <2>0, <2>1 DEF HandleDeferred, HdType
    <3>2. QED
      BY Zenon, <3>1, KeyAssumption DEF StretchOK
  <2>2. CASE EndEmpty
    <3>1. hd' \in HdType /\ hd'.pc = "stop"
      BY Zenon, <1>2, <2>2 DEF EndEmpty, HdType
    <3>2. QED
      BY Zenon, <3>1, KeyAssumption DEF StretchOK
  <2>3. CASE EndNonEmpty \/ StopTimer
    <3>1. hd' \in HdType /\ hd'.pc = "idle"
      BY Zenon, <2>0, <2>3 DEF EndNonEmpty, StopTimer
    <3>2. QED
      BY Zenon, <3>1, KeyAssumption DEF StretchOK
  <2>4. CASE \E key \in Key : NextKey(key)
    <3>1. PICK key \in Key : NextKey(key)
      BY Zenon, <2>4
    <3>2. PICK x \in Seq(Nat) : x = deferredItems[key]
      BY Zenon, <1>2
    <3>3. hd' \in HdType /\ hd'.pc = key /\ hd'.list = x /\ x # <<>>
      BY Zenon, <1>2, <3>1, <3>2 DEF NextKey, HdType, Keys
    <3>4. Stretch(x, x, drained)
      <4>1. PICK n \in Nat : n = 0
        BY Zenon
      <4>2. /\ n + Len(x) <= Len(x)
            /\ \A i \in 1..Len(x) : x[i] = x[n + i]
            /\ \A i \in 1..n : x[i] \in drained
        BY <4>1
      <4>3. QED
        BY Zenon, <4>2 DEF Stretch
    <3>5. QED
      BY Zenon, <1>1, <3>2, <3>3, <3>4 DEF StretchOK
  <2>5. QED
    BY Zenon, <2>1, <2>2, <2>3, <2>4
<1>6. LogTypes'
  BY Zenon, <1>1, <1>2, <1>5 DEF LogTypes
<1>7. QED
  BY Zenon, <1>3, <1>4, <1>5, <1>6 DEF LogInv

\* A restart: nothing is held, and nothing has been received since.
LEMMA LogCrash ==
  ASSUME LogInv, Crash
  PROVE  LogInv'
<1>1. /\ deferredItems' = [k \in Key |-> <<>>] /\ hd' = NotHandling
      /\ pos' = [s \in Source |-> 0] /\ bundle' = [k \in Key |-> <<>>]
      /\ pc' = [k \in Key |-> "select"] /\ mine' = [k \in Key |-> 0]
      /\ l' = [k \in Key |-> <<>>] /\ since' = Len(received)
      /\ UNCHANGED <<drained, received, content>>
  BY Zenon DEF Crash
<1>2. /\ content \in Seq(Seq(LogLine)) /\ received \in Seq(Nat)
      /\ Range(received) \subseteq drained /\ drained \subseteq DOMAIN content
  BY Zenon DEF LogInv, LogTypes
<1>3. hd' \in HdType /\ hd'.pc = "idle"
  BY <1>1 DEF NotHandling, HdType
<1>4. LogTypes'
  <2>1. deferredItems' \in [Key -> Seq(Nat)] /\ l' \in [Key -> Seq(Nat)]
    BY <1>1
  <2>2. bundle' \in [Key -> Seq(LogLine)]
    BY <1>1
  <2>3. /\ mine' \in [Key -> Nat] /\ pos' \in [Source -> Nat] /\ pc' \in [Key -> LogSteps]
        /\ since' \in Nat
    BY <1>1, <1>2 DEF LogSteps
  <2>4. QED
    BY Zenon, <1>1, <1>2, <1>3, <2>1, <2>2, <2>3 DEF LogTypes
<1>5. StretchOK'
  BY Zenon, <1>3, KeyAssumption DEF StretchOK
<1>6. (since' + 1)..Len(received') = {}
  BY <1>1, <1>2
<1>7. Recent' = {}
  BY Zenon, <1>6 DEF Recent
<1>8. ReceivedOK'
  BY Zenon, <1>1, <1>6, <1>7 DEF LogInv, ReceivedOK
<1>9. ASSUME NEW k \in Key PROVE HeldOK(k)' /\ StepOK(k)' /\ LaterOK(k)'
  <2>1. /\ deferredItems'[k] = <<>> /\ l'[k] = <<>> /\ mine'[k] = 0 /\ bundle'[k] = <<>>
        /\ pc'[k] = "select"
    BY Zenon, <1>1
  <2>2. Held(k)' = {}
    BY <2>1 DEF Held, Range
  <2>3. /\ Owned(<<>>, k) /\ Sorted(<<>>) /\ Queued(<<>>, content')
    BY DEF Owned, Sorted, Queued
  <2>4. WasRead(bundle[k])'
    BY <2>1 DEF WasRead
  <2>5. QED
    BY Zenon, <1>7, <2>1, <2>2, <2>3, <2>4 DEF HeldOK, StepOK, LaterOK
<1>10. QED
  BY Zenon, <1>4, <1>5, <1>8, <1>9 DEF LogInv

\* Every step of every goroutine, and a restart.
LEMMA LogStep == LogInv /\ [Next]_vars => LogInv'
<1> SUFFICES ASSUME LogInv, [Next]_vars
             PROVE  LogInv'
  BY Zenon
<1>1. CASE \E s \in Source : WriteLine(s)
  BY Zenon, <1>1, LogQuiet DEF WriteLine, deferredVars
<1>2. CASE \E s \in Source : ReadEvent(s)
  BY Zenon, <1>2, LogRead
<1>3. CASE \E k \in Key : Flush(k)
  BY Zenon, <1>3, LogFlush
<1>4. CASE \E k \in Key : CheckDeferred(k) \/ RecordLast(k)
  BY Zenon, <1>4, LogPcStep
<1>5. CASE \E k \in Key : AddDeferred(k)
  BY <1>5, LogAdd
<1>6. CASE \E k \in Key : StoreDeferred(k)
  BY <1>6, LogStore
<1>7. CASE \E k \in Key : Wake(k)
  BY Zenon, <1>7, LogQuiet DEF Wake, deferredVars
<1>8. CASE \E k \in Key, o \in SendOutcomes[TRUE] : SendBundle(k, o)
  BY Zenon, <1>8, LogSendBundle
<1>9. CASE Main
  <2>1. UNCHANGED <<pos, bundle, pc, mine, l, content, since>>
    BY Zenon, <1>9 DEF Main
  <2>2. CASE \E o \in SendOutcomes[TRUE] : SendItem(o)
    BY Zenon, <2>1, <2>2, LogSendItem
  <2>3. CASE DeleteKey
    BY Zenon, <2>1, <2>3, LogDelete
  <2>4. CASE \/ HandleDeferred \/ EndEmpty \/ EndNonEmpty \/ StopTimer
             \/ \E key \in Key : NextKey(key)
    BY Zenon, <2>1, <2>4, LogRange
  <2>5. QED
    BY Zenon, <1>9, <2>2, <2>3, <2>4 DEF Main, handleDeferredStep
<1>10. CASE Crash
  BY Zenon, <1>10, LogCrash
<1>11. CASE UNCHANGED vars
  BY Zenon, <1>11, LogQuiet DEF vars, deferredVars, logVars
<1>12. QED
  BY Zenon, <1>1, <1>2, <1>3, <1>4, <1>5, <1>6, <1>7, <1>8, <1>9, <1>10, <1>11 DEF Next

\* Whatever processEvents of the images and handleDeferred interleave, without a lock.
THEOREM LogInvariant == Spec => []LogInv
  BY LogInvInit, LogStep, PTL DEF Spec

\* "we'll keep things in order for a given image": between two starts of logmanager the
\* cloud gets the lines of a file in their order and none of them twice.
THEOREM LogsInOrder == Spec => []InOrder
<1>1. LogInv => InOrder
  <2> SUFFICES ASSUME LogInv, NEW i \in (since + 1)..Len(received),
                      NEW j \in (since + 1)..Len(received),
                      NEW m \in DOMAIN content[received[i]],
                      NEW n \in DOMAIN content[received[j]],
                      Earlier(i, m, j, n),
                      content[received[i]][m][1] = content[received[j]][n][1]
               PROVE  content[received[i]][m][2] < content[received[j]][n][2]
    BY Zenon DEF InOrder
  <2>1. CASE i < j
    BY Zenon, <2>1 DEF LogInv, ReceivedOK, LinesBefore
  <2>2. CASE i = j /\ m < n
    <3>1. received[i] \in DOMAIN content
      BY Zenon, RecentMade DEF LogInv
    <3>2. QED
      BY Zenon, <2>2, <3>1 DEF LogInv, ReceivedOK, Sorted
  <2>3. QED
    BY Zenon, <2>1, <2>2 DEF Earlier
<1>2. QED
  BY <1>1, LogInvariant, PTL
=============================================================================
