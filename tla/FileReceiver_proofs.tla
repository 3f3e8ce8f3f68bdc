--------------------------- MODULE FileReceiver_proofs ---------------------------
(***************************************************************************)
(* The intermediate directory and the names in memory agree, and the file  *)
(* that is given out is the eldest: for any names, threads and bounds.     *)
(***************************************************************************)
EXTENDS FileReceiver, NumberTheorems

-----------------------------------------------------------------------------
(* What add_file_i_() keeps *)

LEMMA FilesFinite ==
  ASSUME NEW S, S \subseteq Names PROVE IsFiniteSet(S) /\ S \subseteq Nat
BY ReceiverAssumption, FS_Subset

\* Names, and what stands for none, are naturals.
LEMMA TypesAreNat == \A n \in Names \cup {Empty, Mark} : n \in Nat
BY ReceiverAssumption DEF Empty, Mark

\* Smallest() is the smaller one, where Empty stands for none.
LEMMA SmallestIs ==
  ASSUME NEW a \in Nat, NEW b \in Nat, b # Empty
  PROVE  /\ Smallest(a, b) \in {a, b} /\ Smallest(a, b) # Empty /\ Smallest(a, b) <= b
         /\ a # Empty => Smallest(a, b) <= a
BY DEF Smallest, Empty

\* At most MaxFiles names are kept; a name that was known or is new is kept or is
\* not older than the eldest that is known to be missing; and when the eldest of
\* all was known to be kept, it still is.
LEMMA AddKeeps ==
  ASSUME TypeOK, NEW f \in Names, Add(f)
  PROVE  /\ files' \subseteq files \cup {f}
         /\ Cardinality(files') <= MaxFiles
         /\ oldest' \in Names \cup {Empty, Mark}
         /\ \A g \in files \cup {f} : g \in files' \/ (oldest' # Empty /\ oldest' <= g)
         /\ oldest # Empty => oldest' # Empty /\ oldest' <= oldest
         /\ EldestKnown => EldestKnown'
<1> USE ReceiverAssumption
<1>1. PICK more : more = files \cup {f}
  OBVIOUS
<1>2. more \subseteq Names /\ more # {}
  BY <1>1 DEF TypeOK
<1>3. IsFiniteSet(more) /\ more \subseteq Nat /\ Empty \notin more
  BY <1>2, FilesFinite
<1>4. PICK top \in more : top = Max(more) /\ \A y \in more : top >= y
  BY <1>2, <1>3, MaxOf
<1>5. PICK low \in more : low = Min(more) /\ \A y \in more : low <= y
  BY <1>2, <1>3, MinOf
<1>6. oldest \in Nat
  BY TypesAreNat DEF TypeOK
<1>7. Cardinality(more) \in Nat /\ Cardinality(files) \in Nat
  BY <1>3, FS_CardinalityType, FilesFinite DEF TypeOK
<1>8. CASE Cardinality(more) <= MaxFiles
  <2>1. files' = more /\ oldest' = oldest
    BY <1>1, <1>7, <1>8 DEF Add, AddFile
  <2>2. EldestKnown => EldestKnown'
    <3> SUFFICES ASSUME EldestKnown, oldest # Empty PROVE oldest >= Min(more)
      BY <2>1, <1>2 DEF EldestKnown
    <3>1. files # {} /\ oldest >= Min(files) /\ files \subseteq Nat
      BY FilesFinite DEF EldestKnown, TypeOK
    <3>2. PICK g \in files : g = Min(files)
      BY <3>1, MinOf
    <3>3. low <= g /\ g \in Nat /\ low \in Nat
      BY <1>1, <1>3, <1>5
    <3> QED BY <3>1, <3>2, <3>3, <1>5, <1>6
  <2>3. oldest <= oldest
    BY <1>6
  <2>4. Cardinality(files') <= MaxFiles
    BY <2>1, <1>8
  <2> QED BY <2>1, <2>2, <2>3, <2>4, <1>1 DEF TypeOK
<1>9. CASE Cardinality(more) > MaxFiles
  <2>1. files' = more \ {top} /\ oldest' = Smallest(oldest, top)
    BY <1>1, <1>4, <1>9 DEF Add, AddFile
  <2>2. Cardinality(more) <= Cardinality(files) + 1
    <3>1. IsFiniteSet(files)
      BY FilesFinite DEF TypeOK
    <3>2. Cardinality(files \cup {f}) = Cardinality(files)
          \/ Cardinality(files \cup {f}) = Cardinality(files) + 1
      BY <3>1, FS_AddElement
    <3>3. Cardinality(more) = Cardinality(files \cup {f})
      BY <1>1
    <3> QED BY <3>2, <3>3, <1>7
  <2>3. Cardinality(more \ {top}) = Cardinality(more) - 1
    BY <1>3, <1>4, FS_RemoveElement
  <2>4. Cardinality(files') <= MaxFiles
    <3>1. Cardinality(files') = Cardinality(more) - 1
      BY <2>1, <2>3, Zenon
    <3> QED BY <3>1, <2>2, <1>7 DEF TypeOK
  <2>5. top \in Nat /\ top # Empty /\ top \in Names
    BY <1>2, <1>3
  <2>6. /\ oldest' \in {oldest, top} /\ oldest' # Empty /\ oldest' <= top
        /\ oldest # Empty => oldest' <= oldest
    BY <2>1, <2>5, <1>6, SmallestIs
  <2>7. oldest' \in Names \cup {Empty, Mark}
    BY <2>5, <2>6 DEF TypeOK
  <2>8. \A g \in more : g \in files' \/ (oldest' # Empty /\ oldest' <= g)
    BY <2>1, <2>6
  <2>9. low # top
    <3>1. SUFFICES ASSUME low = top PROVE FALSE
      OBVIOUS
    <3>2. \A y \in more : y = top
      BY <3>1, <1>3, <1>4, <1>5
    <3>3. more = {top}
      BY <3>2
    <3>4. Cardinality(more) = 1
      BY <3>3, FS_Singleton, Zenon
    <3> QED BY <3>4, <1>9
  <2>10. low \in files' /\ files' \subseteq Nat /\ files' # {}
    BY <2>1, <2>9, <1>3
  <2>11. Min(files') = low
    <3>1. PICK m \in files' : m = Min(files') /\ \A y \in files' : m <= y
      BY <2>10, MinOf
    <3>2. m <= low /\ low <= m /\ m \in Nat /\ low \in Nat
      BY <3>1, <2>1, <2>10, <1>5
    <3> QED BY <3>1, <3>2
  <2>12. EldestKnown => EldestKnown'
    <3>1. SUFFICES ASSUME EldestKnown PROVE oldest' >= low
      BY <2>10, <2>11 DEF EldestKnown
    <3>2. low \in Nat /\ top >= low
      BY <1>3, <1>4, <1>5
    <3>3. CASE oldest' = top
      BY <3>2, <3>3
    <3>4. CASE oldest' = oldest /\ oldest # Empty
      <4>1. files # {} /\ oldest >= Min(files) /\ files \subseteq Nat
        BY <3>1, <3>4, FilesFinite DEF EldestKnown, TypeOK
      <4>2. PICK g \in files : g = Min(files)
        BY <4>1, MinOf
      <4>3. low <= g /\ g \in Nat
        BY <4>1, <4>2, <1>1, <1>5
      <4> QED BY <4>1, <4>2, <4>3, <3>2, <3>4, <1>6
    <3> QED BY <3>3, <3>4, <2>6
  <2> QED BY <2>1, <2>4, <2>6, <2>7, <2>8, <2>12, <1>1
<1> QED BY <1>7, <1>8, <1>9

-----------------------------------------------------------------------------

LEMMA InitReceiver == Init => ReceiverInv
<1> SUFFICES ASSUME Init PROVE ReceiverInv
  OBVIOUS
<1> USE ReceiverAssumption DEF Init
<1>1. Cardinality(files) = 0
  BY FS_EmptySet, Zenon
<1>2. TypeOK
  <2>1. Cardinality(files) <= MaxFiles
    BY <1>1
  <2>2. cond \in Threads \cup {NoOne} /\ asleep \subseteq Threads
    OBVIOUS
  <2>3. held \in [Threads -> Names \cup {Empty}]
    OBVIOUS
  <2> QED BY <2>1, <2>2, <2>3 DEF TypeOK
<1>3. OneScan /\ HeldOnce
  BY DEF OneScan, HeldOnce
<1>4. EntriesKnown /\ NoneForgotten /\ ScanKnowsEldest
  BY DEF EntriesKnown, NoneForgotten, ScanKnowsEldest
<1> QED BY <1>2, <1>3, <1>4 DEF ReceiverInv

\* A step that leaves the directory, the names in memory and the scan alone keeps
\* what relates them.
LEMMA FrameKeeps ==
  ASSUME ReceiverInv, TypeOK', OneScan',
         UNCHANGED <<dir, setVars, scanVars, held>>,
         \A t \in Threads :
           /\ wpc'[t] = "process" <=> wpc[t] = "process"
           /\ wpc'[t] = "release" <=> wpc[t] = "release"
           /\ wpc'[t] \in {"scan", "scanned"} => wpc[t] \in {"scan", "scanned"}
  PROVE  ReceiverInv'
<1> USE DEF ReceiverInv, setVars, scanVars
<1>1. HeldOnce'
  BY DEF HeldOnce
<1>2. EntriesKnown' /\ NoneForgotten'
  BY DEF EntriesKnown, NoneForgotten
<1>3. ScanKnowsEldest'
  BY DEF ScanKnowsEldest, EldestKnown
<1> QED BY <1>1, <1>2, <1>3

\* Files arrive in the input directory, or a commit file does.
LEMMA DeliveryKeeps ==
  ASSUME ReceiverInv, NEW f \in Names,
         Deliver(f) \/ DeliverData(f) \/ DeliverCommit(f) \/ Redeliver(f)
  PROVE  ReceiverInv'
<1> USE DEF Deliver, DeliverData, DeliverCommit, Redeliver
<1>1. UNCHANGED <<dir, setVars, scanVars, held, fpc, fname, cond, asleep, wpc, stopVars>>
      /\ input' \subseteq Names /\ data' \subseteq Names /\ commit' \subseteq Names
      /\ delivered' \subseteq Names
  BY DEF ReceiverInv, TypeOK
<1>2. TypeOK'
  BY <1>1 DEF ReceiverInv, TypeOK, setVars, scanVars, stopVars
<1>3. OneScan'
  BY <1>1 DEF ReceiverInv, OneScan, setVars, scanVars
<1> QED BY <1>1, <1>2, <1>3, FrameKeeps

LEMMA FetchOrphanKeeps ==
  ASSUME ReceiverInv, NEW f \in Names, FetchOrphan(f) PROVE ReceiverInv'
<1> USE ReceiverAssumption DEF FetchOrphan, Goto
<1>1. TypeOK'
  BY DEF ReceiverInv, TypeOK, setVars, scanVars, dirVars, stopVars
<1>2. OneScan'
  BY DEF ReceiverInv, TypeOK, OneScan, setVars, scanVars
<1> QED BY <1>1, <1>2, FrameKeeps DEF ReceiverInv, TypeOK, dirVars

LEMMA FetchCallbackKeeps ==
  ASSUME ReceiverInv, FetchCallback PROVE ReceiverInv'
<1> USE ReceiverAssumption DEF FetchCallback, Goto
<1>1. TypeOK'
  BY DEF ReceiverInv, TypeOK, setVars, scanVars, dirVars, stopVars
<1>2. OneScan'
  BY DEF ReceiverInv, TypeOK, OneScan, setVars, scanVars
<1> QED BY <1>1, <1>2, FrameKeeps DEF ReceiverInv, TypeOK, dirVars

LEMMA UnlinkCommitKeeps ==
  ASSUME ReceiverInv, UnlinkCommit PROVE ReceiverInv'
<1> USE ReceiverAssumption DEF UnlinkCommit, Goto
<1>1. TypeOK'
  BY DEF ReceiverInv, TypeOK, setVars, scanVars, dirVars, stopVars
<1>2. OneScan'
  BY DEF ReceiverInv, TypeOK, OneScan, setVars, scanVars
<1> QED BY <1>1, <1>2, FrameKeeps DEF ReceiverInv, TypeOK, dirVars

LEMMA LoopKeeps ==
  ASSUME ReceiverInv, NEW t \in Threads, Loop(t) PROVE ReceiverInv'
<1> USE ReceiverAssumption DEF Loop, Goto
<1>1. TypeOK'
  BY DEF ReceiverInv, TypeOK, setVars, scanVars, dirVars, stopVars
<1>2. OneScan'
  BY DEF ReceiverInv, TypeOK, OneScan, setVars, scanVars
<1> QED BY <1>1, <1>2, FrameKeeps DEF ReceiverInv, TypeOK, dirVars

LEMMA SleepKeeps ==
  ASSUME ReceiverInv, NEW t \in Threads, Sleep(t) PROVE ReceiverInv'
<1> USE ReceiverAssumption DEF Sleep, Goto
<1>1. TypeOK'
  BY DEF ReceiverInv, TypeOK, setVars, scanVars, dirVars, stopVars
<1>2. OneScan'
  BY DEF ReceiverInv, TypeOK, OneScan, setVars, scanVars
<1> QED BY <1>1, <1>2, FrameKeeps DEF ReceiverInv, TypeOK, dirVars

LEMMA WakeKeeps ==
  ASSUME ReceiverInv, NEW t \in Threads, Wake(t) PROVE ReceiverInv'
<1> USE ReceiverAssumption DEF Wake, Goto
<1>1. TypeOK'
  BY DEF ReceiverInv, TypeOK, setVars, scanVars, dirVars, stopVars
<1>2. OneScan'
  BY DEF ReceiverInv, TypeOK, OneScan, setVars, scanVars
<1> QED BY <1>1, <1>2, FrameKeeps DEF ReceiverInv, TypeOK, dirVars

LEMMA InterruptedKeeps ==
  ASSUME ReceiverInv, NEW t \in Threads, Interrupted(t) PROVE ReceiverInv'
<1> USE ReceiverAssumption DEF Interrupted, Goto
<1>1. TypeOK'
  BY DEF ReceiverInv, TypeOK, setVars, scanVars, dirVars, stopVars
<1>2. OneScan'
  BY DEF ReceiverInv, TypeOK, OneScan, setVars, scanVars
<1> QED BY <1>1, <1>2, FrameKeeps DEF ReceiverInv, TypeOK, dirVars

LEMMA RevertCallbackKeeps ==
  ASSUME ReceiverInv, NEW t \in Threads, RevertCallback(t) PROVE ReceiverInv'
<1> USE ReceiverAssumption DEF RevertCallback, Goto
<1>1. TypeOK'
  BY DEF ReceiverInv, TypeOK, setVars, scanVars, dirVars, stopVars
<1>2. OneScan'
  BY DEF ReceiverInv, TypeOK, OneScan, setVars, scanVars
<1> QED BY <1>1, <1>2, FrameKeeps DEF ReceiverInv, TypeOK, dirVars

LEMMA InterruptKeeps ==
  ASSUME ReceiverInv, Interrupt PROVE ReceiverInv'
<1> USE ReceiverAssumption DEF Interrupt, Goto
<1>1. TypeOK'
  BY ZenonT(60) DEF ReceiverInv, TypeOK, setVars, scanVars, dirVars, stopVars
<1>2. OneScan'
  BY DEF ReceiverInv, TypeOK, OneScan, setVars, scanVars
<1> QED BY <1>1, <1>2, FrameKeeps DEF ReceiverInv, TypeOK, dirVars

LEMMA TerminateKeeps ==
  ASSUME ReceiverInv, Terminate PROVE ReceiverInv'
<1> USE ReceiverAssumption DEF Terminate, Goto
<1>1. TypeOK'
  BY DEF ReceiverInv, TypeOK, setVars, scanVars, dirVars, stopVars
<1>2. OneScan'
  BY DEF ReceiverInv, TypeOK, OneScan, setVars, scanVars
<1> QED BY <1>1, <1>2, FrameKeeps DEF ReceiverInv, TypeOK, dirVars

\* fetch_file_(): the file comes into the directory and into memory, or it is
\* known to be missing there.
LEMMA FetchFileKeeps ==
  ASSUME ReceiverInv, NEW f \in Names, FetchFile(f), UNCHANGED wpc,
         input' \subseteq Names, data' \subseteq Names, commit' \subseteq Names,
         fpc' \in {"idle", "callback", "commit_callback", "unlink"}
  PROVE  ReceiverInv'
<1> USE DEF ReceiverInv
<1>1. /\ f \notin files \cup inProgress
      /\ dir' = dir \cup {f} /\ fname' = f /\ Add(f)
      /\ UNCHANGED <<inProgress, processed, fetching, must, seen, entry, cond, asleep, wpc,
                     held, active, stopping, aborted, delivered>>
  BY DEF FetchFile, Known, scanVars, stopVars
<1>2. /\ files' \subseteq files \cup {f}
      /\ Cardinality(files') <= MaxFiles
      /\ oldest' \in Names \cup {Empty, Mark}
      /\ \A g \in files \cup {f} : g \in files' \/ (oldest' # Empty /\ oldest' <= g)
      /\ oldest # Empty => oldest' # Empty /\ oldest' <= oldest
      /\ EldestKnown => EldestKnown'
  BY <1>1, AddKeeps
<1>3. TypeOK'
  BY <1>1, <1>2 DEF TypeOK
<1>4. OneScan'
  BY <1>1 DEF OneScan
<1>5. HeldOnce'
  BY <1>1, <1>2 DEF HeldOnce
<1>6. EntriesKnown'
  BY <1>1 DEF EntriesKnown
<1>7. NoneForgotten'
  <2> SUFFICES ASSUME NEW g \in dir'
               PROVE  (\/ g \in files \cup inProgress
                       \/ oldest # Empty /\ oldest <= g
                       \/ fetching /\ g \notin processed /\ (g \in must \/ g = entry))'
    BY DEF NoneForgotten
  <2>1. CASE g \in files \cup {f} \cup inProgress
    BY <2>1, <1>1, <1>2
  <2>2. CASE g \in dir /\ oldest # Empty /\ oldest <= g
    <3>1. oldest \in Nat /\ oldest' \in Nat /\ g \in Nat
      BY <2>2, <1>2, TypesAreNat DEF TypeOK
    <3> QED BY <3>1, <2>2, <1>2
  <2>3. CASE g \in dir /\ fetching /\ g \notin processed /\ (g \in must \/ g = entry)
    BY <2>3, <1>1
  <2> QED BY <2>1, <2>2, <2>3, <1>1 DEF NoneForgotten
<1>8. ScanKnowsEldest'
  BY <1>1, <1>2 DEF ScanKnowsEldest
<1> QED BY <1>3, <1>4, <1>5, <1>6, <1>7, <1>8

LEMMA FetchRegularKeeps ==
  ASSUME ReceiverInv, NEW f \in Names, FetchRegular(f) PROVE ReceiverInv'
BY FetchFileKeeps DEF FetchRegular, ReceiverInv, TypeOK, FetchFile

LEMMA FetchCommittedKeeps ==
  ASSUME ReceiverInv, NEW f \in Names, FetchCommitted(f) PROVE ReceiverInv'
BY FetchFileKeeps DEF FetchCommitted, ReceiverInv, TypeOK, FetchFile

\* A thread that asks for a file, or has just scanned, excludes every scan.
LEMMA NoScanMeanwhile ==
  ASSUME ReceiverInv, NEW t \in Threads, wpc[t] \in {"get", "scanned", "nothing"}
  PROVE  ~fetching /\ processed = {} /\ entry = Empty /\ cond = t
BY DEF ReceiverInv, OneScan

\* get_eldest_i_()
LEMMA TakeKeeps ==
  ASSUME ReceiverInv, NEW t \in Threads, wpc[t] \in {"get", "scanned"}, Take(t)
  PROVE  ReceiverInv'
<1> USE ReceiverAssumption
<1>1. ~fetching /\ cond = t
  BY NoScanMeanwhile
<1>2. CASE files = {}
  <2>1. /\ wpc' = [wpc EXCEPT ![t] = "nothing"]
        /\ UNCHANGED <<dirVars, setVars, scanVars, cond, held, fpc, fname, asleep, stopVars,
                       delivered>>
    BY <1>2 DEF Take, Goto, setVars
  <2>2. TypeOK'
    BY <2>1 DEF ReceiverInv, TypeOK, dirVars, setVars, scanVars, stopVars
  <2>3. OneScan'
    BY <2>1 DEF ReceiverInv, TypeOK, OneScan, setVars, scanVars
  <2> QED BY <2>1, <2>2, <2>3, FrameKeeps DEF ReceiverInv, TypeOK, dirVars
<1>3. CASE files # {}
  <2> USE DEF ReceiverInv
  <2>1. PICK f \in files : f = Min(files) /\ \A g \in files : f <= g
    BY <1>3, MinOf, FilesFinite DEF TypeOK
  <2>2. /\ files' = files \ {f}
        /\ inProgress' = inProgress \cup {f}
        /\ held' = [held EXCEPT ![t] = f]
        /\ cond' = NoOne
        /\ wpc' = [wpc EXCEPT ![t] = "process"]
        /\ UNCHANGED <<input, data, commit, dir, oldest, processed, fetching, must, seen,
                       entry, fpc, fname, asleep, active, stopping, aborted, delivered>>
    BY <1>3, <2>1 DEF Take, Goto, dirVars, scanVars, stopVars
  <2>3. f \in Names /\ f \in dir /\ f \notin inProgress /\ f # Empty
    BY <2>1 DEF TypeOK, HeldOnce
  <2>4. TypeOK'
    <3>1. Cardinality(files') <= MaxFiles
      <4>1. IsFiniteSet(files) /\ Cardinality(files) \in Nat
        BY FilesFinite, FS_CardinalityType DEF TypeOK
      <4>2. Cardinality(files \ {f}) = Cardinality(files) - 1
        BY <4>1, <2>1, FS_RemoveElement
      <4>3. Cardinality(files') = Cardinality(files) - 1
        BY <4>2, <2>2, Zenon
      <4> QED BY <4>1, <4>3 DEF TypeOK
    <3> QED BY <3>1, <2>2, <2>3 DEF TypeOK
  <2>5. OneScan'
    BY <1>1, <2>2 DEF OneScan, TypeOK
  <2>6. HeldOnce'
    <3>1. \A u \in Threads : held[u] # f
      BY <2>3 DEF HeldOnce
    <3>2. held[t] = Empty
      BY DEF HeldOnce
    <3>3. \A u \in Threads : held'[u] = IF u = t THEN f ELSE held[u]
      BY <2>2 DEF TypeOK
    <3>4. \A u \in Threads : wpc'[u] = IF u = t THEN "process" ELSE wpc[u]
      BY <2>2 DEF TypeOK
    <3>5. inProgress' = {held'[u] : u \in Threads} \ {Empty}
      BY <3>2, <3>3, <2>2, <2>3 DEF HeldOnce
    <3>6. files' \subseteq dir' \ inProgress'
      BY <2>2 DEF HeldOnce
    <3>7. \A u \in Threads : held'[u] # Empty <=> wpc'[u] \in {"process", "release"}
      BY <3>3, <3>4, <2>3 DEF HeldOnce
    <3>8. \A u \in Threads : held'[u] # Empty => (held'[u] \in dir' <=> wpc'[u] = "process")
      BY <3>3, <3>4, <2>2, <2>3 DEF HeldOnce
    <3>9. \A u, v \in Threads : u # v /\ held'[u] # Empty => held'[u] # held'[v]
      BY <3>1, <3>3, <2>3 DEF HeldOnce
    <3> QED BY <3>5, <3>6, <3>7, <3>8, <3>9 DEF HeldOnce
  <2>7. EntriesKnown' /\ NoneForgotten'
    BY <1>1, <2>2 DEF EntriesKnown, NoneForgotten
  <2>8. ScanKnowsEldest'
    <3>1. \A u \in Threads : wpc'[u] \notin {"scan", "scanned"}
      BY <1>1, <2>2 DEF OneScan, TypeOK
    <3> QED BY <3>1 DEF ScanKnowsEldest
  <2> QED BY <2>4, <2>5, <2>6, <2>7, <2>8
<1> QED BY <1>2, <1>3

\* The scan begins: every file of the directory is still to come.
LEMMA FetchIntermediateKeeps ==
  ASSUME ReceiverInv, NEW t \in Threads, FetchIntermediate(t) PROVE ReceiverInv'
<1> USE DEF ReceiverInv
<1>1. ~fetching /\ cond = t /\ processed = {} /\ wpc[t] = "get"
  BY NoScanMeanwhile DEF FetchIntermediate
<1>2. /\ fetching' = TRUE /\ oldest' = Empty
      /\ must' = dir /\ seen' = {} /\ entry' = Empty
      /\ wpc' = [wpc EXCEPT ![t] = "scan"]
      /\ UNCHANGED <<input, data, commit, dir, files, inProgress, processed, fpc, fname, cond,
                     asleep, held, active, stopping, aborted, delivered>>
  BY DEF FetchIntermediate, Goto, dirVars, stopVars
<1>3. TypeOK'
  BY <1>2 DEF TypeOK
<1>4. OneScan'
  BY <1>1, <1>2 DEF OneScan, TypeOK
<1>5. HeldOnce'
  BY <1>1, <1>2 DEF HeldOnce, TypeOK
<1>6. EntriesKnown' /\ NoneForgotten' /\ ScanKnowsEldest'
  BY <1>1, <1>2 DEF EntriesKnown, NoneForgotten, ScanKnowsEldest, EldestKnown
<1> QED BY <1>3, <1>4, <1>5, <1>6

\* readdir()
LEMMA ReadEntryKeeps ==
  ASSUME ReceiverInv, NEW t \in Threads, ReadEntry(t) PROVE ReceiverInv'
<1> USE DEF ReceiverInv
<1>1. PICK f \in (must \cup dir) \ seen :
        entry' = f /\ must' = must \ {f} /\ seen' = seen \cup {f}
  BY DEF ReadEntry
<1>2. /\ wpc[t] = "scan" /\ entry = Empty /\ fetching
      /\ UNCHANGED <<input, data, commit, dir, files, oldest, inProgress, processed, fetching,
                     fpc, fname, cond, asleep, wpc, held, active, stopping, aborted, delivered>>
  BY DEF ReadEntry, OneScan, dirVars, setVars, stopVars
<1>3. TypeOK'
  BY <1>1, <1>2 DEF TypeOK
<1>4. OneScan' /\ HeldOnce'
  BY <1>2 DEF OneScan, HeldOnce
<1>5. EntriesKnown'
  BY <1>1, <1>2 DEF EntriesKnown
<1>6. NoneForgotten'
  BY <1>1, <1>2, ReceiverAssumption DEF NoneForgotten, TypeOK
<1>7. ScanKnowsEldest'
  BY <1>2 DEF ScanKnowsEldest, EldestKnown
<1> QED BY <1>3, <1>4, <1>5, <1>6, <1>7

\* fetch_intermediate_dir_handler_(): an entry that is skipped is being processed,
\* or was processed while the scan ran; a file that has come under its name since
\* then is no entry the scan has to add.
LEMMA HandleEntryKeeps ==
  ASSUME ReceiverInv, NEW t \in Threads, HandleEntry(t) PROVE ReceiverInv'
<1> USE DEF ReceiverInv
<1>1. /\ wpc[t] = "scan" /\ entry # Empty /\ entry' = Empty /\ fetching
      /\ UNCHANGED <<input, data, commit, dir, inProgress, processed, fetching, must, seen,
                     fpc, fname, cond, asleep, wpc, held, active, stopping, aborted, delivered>>
  BY DEF HandleEntry, OneScan, dirVars, stopVars
<1>2. OneScan'
  BY <1>1 DEF OneScan
<1>3. EntriesKnown'
  BY <1>1 DEF EntriesKnown
<1>4. CASE entry \in inProgress \cup processed
  <2>1. UNCHANGED <<files, oldest>>
    BY <1>4 DEF HandleEntry
  <2>2. TypeOK'
    BY <1>1, <2>1 DEF TypeOK
  <2>3. HeldOnce' /\ ScanKnowsEldest'
    BY <1>1, <2>1 DEF HeldOnce, ScanKnowsEldest, EldestKnown
  <2>4. NoneForgotten'
    BY <1>1, <1>4, <2>1 DEF NoneForgotten
  <2> QED BY <1>2, <1>3, <2>2, <2>3, <2>4
<1>5. CASE entry \notin inProgress \cup processed
  <2>1. entry \in Names /\ entry \in dir /\ Add(entry)
    BY <1>1, <1>5 DEF HandleEntry, EntriesKnown, TypeOK
  <2>2. /\ files' \subseteq files \cup {entry}
        /\ Cardinality(files') <= MaxFiles
        /\ oldest' \in Names \cup {Empty, Mark}
        /\ \A g \in files \cup {entry} : g \in files' \/ (oldest' # Empty /\ oldest' <= g)
        /\ oldest # Empty => oldest' # Empty /\ oldest' <= oldest
        /\ EldestKnown => EldestKnown'
    BY <2>1, AddKeeps
  <2>3. TypeOK'
    BY <1>1, <2>2 DEF TypeOK
  <2>4. HeldOnce'
    BY <1>1, <1>5, <2>1, <2>2 DEF HeldOnce
  <2>5. ScanKnowsEldest'
    BY <1>1, <2>2 DEF ScanKnowsEldest
  <2>6. NoneForgotten'
    <3> SUFFICES ASSUME NEW g \in dir'
                 PROVE  (\/ g \in files \cup inProgress
                         \/ oldest # Empty /\ oldest <= g
                         \/ fetching /\ g \notin processed /\ (g \in must \/ g = entry))'
      BY DEF NoneForgotten
    <3>1. CASE g \in files \cup {entry} \cup inProgress
      BY <3>1, <1>1, <2>2
    <3>2. CASE oldest # Empty /\ oldest <= g
      <4>1. oldest \in Nat /\ oldest' \in Nat /\ g \in Nat
        BY <1>1, <2>2, TypesAreNat DEF TypeOK
      <4> QED BY <4>1, <3>2, <2>2
    <3>3. CASE g \notin processed /\ g \in must
      BY <3>3, <1>1
    <3> QED BY <3>1, <3>2, <3>3, <1>1 DEF NoneForgotten
  <2> QED BY <1>2, <1>3, <2>3, <2>4, <2>5, <2>6
<1> QED BY <1>4, <1>5

\* The end of the scan: what was to come has come, or is no longer there.
LEMMA FetchedIntermediateKeeps ==
  ASSUME ReceiverInv, NEW t \in Threads, FetchedIntermediate(t) PROVE ReceiverInv'
<1> USE DEF ReceiverInv
<1>1. /\ wpc[t] = "scan" /\ entry = Empty /\ must \cap dir = {}
      /\ processed' = {} /\ fetching' = FALSE /\ wpc' = [wpc EXCEPT ![t] = "scanned"]
      /\ UNCHANGED <<input, data, commit, dir, files, oldest, inProgress, must, seen, entry,
                     fpc, fname, cond, asleep, held, active, stopping, aborted, delivered>>
  BY DEF FetchedIntermediate, Goto, dirVars, stopVars
<1>2. TypeOK'
  BY <1>1 DEF TypeOK
<1>3. OneScan'
  BY <1>1 DEF OneScan, TypeOK
<1>4. HeldOnce' /\ EntriesKnown' /\ ScanKnowsEldest'
  BY <1>1 DEF HeldOnce, EntriesKnown, ScanKnowsEldest, EldestKnown, TypeOK
<1>5. NoneForgotten'
  BY <1>1, ReceiverAssumption DEF NoneForgotten, TypeOK
<1> QED BY <1>2, <1>3, <1>4, <1>5

\* The file is deleted, and the thread still holds its name.
LEMMA ProcessKeeps ==
  ASSUME ReceiverInv, NEW t \in Threads, Process(t) PROVE ReceiverInv'
<1> USE DEF ReceiverInv
<1>1. /\ wpc[t] = "process" /\ dir' = dir \ {held[t]} /\ wpc' = [wpc EXCEPT ![t] = "release"]
      /\ UNCHANGED <<input, data, commit, files, oldest, inProgress, processed, fetching, must,
                     seen, entry, fpc, fname, cond, asleep, held, active, stopping, aborted,
                     delivered>>
  BY DEF Process, Goto, setVars, scanVars, stopVars
<1>2. held[t] # Empty /\ held[t] \in dir /\ held[t] \in inProgress /\ held[t] \notin files
  BY <1>1 DEF HeldOnce
<1>3. TypeOK'
  BY <1>1 DEF TypeOK
<1>4. OneScan'
  BY <1>1 DEF OneScan, TypeOK
<1>5. \A u \in Threads : wpc'[u] = IF u = t THEN "release" ELSE wpc[u]
  BY <1>1 DEF TypeOK
<1>6. HeldOnce'
  <2>1. \A u \in Threads : held'[u] # Empty => (held'[u] \in dir' <=> wpc'[u] = "process")
    BY <1>1, <1>2, <1>5 DEF HeldOnce
  <2> QED BY <2>1, <1>1, <1>2, <1>5 DEF HeldOnce
<1>7. EntriesKnown' /\ NoneForgotten'
  BY <1>1, <1>2 DEF EntriesKnown, NoneForgotten
<1>8. ScanKnowsEldest'
  BY <1>1, <1>5 DEF ScanKnowsEldest, EldestKnown
<1> QED BY <1>3, <1>4, <1>6, <1>7, <1>8

\* file_processed_(): the scan that runs is told.
LEMMA FileProcessedKeeps ==
  ASSUME ReceiverInv, NEW t \in Threads, FileProcessed(t) PROVE ReceiverInv'
<1> USE ReceiverAssumption DEF ReceiverInv
<1>1. PICK f \in Names : f = held[t] /\ f \in inProgress /\ f \notin dir /\ wpc[t] = "release"
  BY DEF FileProcessed, HeldOnce, TypeOK
<1>2. /\ inProgress' = inProgress \ {f}
      /\ processed' = IF fetching THEN processed \cup {f} ELSE processed
      /\ held' = [held EXCEPT ![t] = Empty]
      /\ wpc' = [wpc EXCEPT ![t] = "loop"]
      /\ UNCHANGED <<input, data, commit, dir, files, oldest, fetching, must, seen, entry, fpc,
                     fname, cond, asleep, active, stopping, aborted, delivered>>
  BY <1>1 DEF FileProcessed, Goto, dirVars, scanVars, stopVars
<1>3. TypeOK'
  BY <1>2 DEF TypeOK
<1>4. \A u \in Threads : wpc'[u] = IF u = t THEN "loop" ELSE wpc[u]
  BY <1>2 DEF TypeOK
<1>5. \A u \in Threads : held'[u] = IF u = t THEN Empty ELSE held[u]
  BY <1>2 DEF TypeOK
<1>6. OneScan'
  BY <1>1, <1>2, <1>4 DEF OneScan
<1>7. HeldOnce'
  <2>1. \A u \in Threads : u # t => held[u] # f
    BY <1>1 DEF HeldOnce
  <2>2. inProgress' = {held'[u] : u \in Threads} \ {Empty}
    BY <2>1, <1>1, <1>2, <1>5 DEF HeldOnce
  <2>3. files' \subseteq dir' \ inProgress'
    BY <1>2 DEF HeldOnce
  <2>4. \A u \in Threads : held'[u] # Empty <=> wpc'[u] \in {"process", "release"}
    BY <1>4, <1>5 DEF HeldOnce
  <2>5. \A u \in Threads : held'[u] # Empty => (held'[u] \in dir' <=> wpc'[u] = "process")
    BY <1>2, <1>4, <1>5 DEF HeldOnce
  <2>6. \A u, v \in Threads : u # v /\ held'[u] # Empty => held'[u] # held'[v]
    BY <1>5 DEF HeldOnce
  <2> QED BY <2>2, <2>3, <2>4, <2>5, <2>6 DEF HeldOnce
<1>8. EntriesKnown' /\ NoneForgotten'
  BY <1>1, <1>2 DEF EntriesKnown, NoneForgotten
<1>9. ScanKnowsEldest'
  BY <1>1, <1>2, <1>4 DEF ScanKnowsEldest, EldestKnown
<1> QED BY <1>3, <1>6, <1>7, <1>8, <1>9

\* revert_(): the file is on offer again, or it is known to be missing there.
LEMMA RevertKeeps ==
  ASSUME ReceiverInv, NEW t \in Threads, Revert(t) PROVE ReceiverInv'
<1> USE ReceiverAssumption DEF ReceiverInv
<1>1. PICK f \in Names : f = held[t] /\ f \in inProgress /\ f \in dir /\ wpc[t] = "process"
  BY DEF Revert, HeldOnce, TypeOK
<1>2. /\ inProgress' = inProgress \ {f} /\ Add(f)
      /\ held' = [held EXCEPT ![t] = Empty]
      /\ \E p \in {"callback", "loop"} : wpc' = [wpc EXCEPT ![t] = p]
      /\ UNCHANGED <<input, data, commit, dir, processed, fetching, must, seen, entry, fpc,
                     fname, cond, asleep, active, stopping, aborted, delivered>>
  BY <1>1 DEF Revert, Goto, dirVars, scanVars, stopVars
<1>3. /\ files' \subseteq files \cup {f}
      /\ Cardinality(files') <= MaxFiles
      /\ oldest' \in Names \cup {Empty, Mark}
      /\ \A g \in files \cup {f} : g \in files' \/ (oldest' # Empty /\ oldest' <= g)
      /\ oldest # Empty => oldest' # Empty /\ oldest' <= oldest
      /\ EldestKnown => EldestKnown'
  BY <1>2, AddKeeps
<1>4. PICK p \in {"callback", "loop"} : wpc' = [wpc EXCEPT ![t] = p]
  BY <1>2
<1>5. TypeOK'
  BY <1>2, <1>3, <1>4 DEF TypeOK
<1>6. \A u \in Threads : wpc'[u] = IF u = t THEN p ELSE wpc[u]
  BY <1>4 DEF TypeOK
<1>7. \A u \in Threads : held'[u] = IF u = t THEN Empty ELSE held[u]
  BY <1>2 DEF TypeOK
<1>8. OneScan'
  BY <1>1, <1>2, <1>6 DEF OneScan
<1>9. HeldOnce'
  <2>1. \A u \in Threads : u # t => held[u] # f
    BY <1>1 DEF HeldOnce
  <2>2. inProgress' = {held'[u] : u \in Threads} \ {Empty}
    BY <2>1, <1>1, <1>2, <1>7 DEF HeldOnce
  <2>3. files' \subseteq dir' \ inProgress'
    BY <1>1, <1>2, <1>3 DEF HeldOnce
  <2>4. \A u \in Threads : held'[u] # Empty <=> wpc'[u] \in {"process", "release"}
    BY <1>6, <1>7 DEF HeldOnce
  <2>5. \A u \in Threads : held'[u] # Empty => (held'[u] \in dir' <=> wpc'[u] = "process")
    BY <1>2, <1>6, <1>7 DEF HeldOnce
  <2>6. \A u, v \in Threads : u # v /\ held'[u] # Empty => held'[u] # held'[v]
    BY <1>7 DEF HeldOnce
  <2> QED BY <2>2, <2>3, <2>4, <2>5, <2>6 DEF HeldOnce
<1>10. EntriesKnown'
  BY <1>1, <1>2 DEF EntriesKnown
<1>11. NoneForgotten'
  <2> SUFFICES ASSUME NEW g \in dir'
               PROVE  (\/ g \in files \cup inProgress
                       \/ oldest # Empty /\ oldest <= g
                       \/ fetching /\ g \notin processed /\ (g \in must \/ g = entry))'
    BY DEF NoneForgotten
  <2>1. CASE g \in files \cup inProgress
    BY <2>1, <1>2, <1>3
  <2>2. CASE oldest # Empty /\ oldest <= g
    <3>1. oldest \in Nat /\ oldest' \in Nat /\ g \in Nat
      BY <1>2, <1>3, TypesAreNat DEF TypeOK
    <3> QED BY <3>1, <2>2, <1>3
  <2>3. CASE fetching /\ g \notin processed /\ (g \in must \/ g = entry)
    BY <2>3, <1>2
  <2> QED BY <2>1, <2>2, <2>3, <1>2 DEF NoneForgotten
<1>12. ScanKnowsEldest'
  BY <1>3, <1>6 DEF ScanKnowsEldest
<1> QED BY <1>5, <1>8, <1>9, <1>10, <1>11, <1>12

\* A restart keeps the directories only, and trusts nothing it may have known.
LEMMA RestartKeeps ==
  ASSUME ReceiverInv, Restart PROVE ReceiverInv'
<1> USE ReceiverAssumption DEF ReceiverInv
<1>1. /\ files' = {} /\ oldest' = Mark /\ inProgress' = {} /\ processed' = {}
      /\ fetching' = FALSE /\ must' = {} /\ seen' = {} /\ entry' = Empty
      /\ fpc' = "idle" /\ fname' = Empty /\ cond' = NoOne /\ asleep' = {}
      /\ wpc' = [t \in Threads |-> "loop"] /\ held' = [t \in Threads |-> Empty]
      /\ active' = TRUE /\ stopping' = FALSE /\ aborted' = FALSE
      /\ UNCHANGED <<input, data, commit, dir, delivered>>
  BY DEF Restart, dirVars
<1>2. Cardinality(files') = 0
  BY <1>1, FS_EmptySet, Zenon
<1>3. TypeOK'
  <2>1. Cardinality(files') <= MaxFiles
    BY <1>2
  <2> QED BY <2>1, <1>1 DEF TypeOK
<1>4. OneScan' /\ HeldOnce'
  BY <1>1 DEF OneScan, HeldOnce
<1>5. EntriesKnown' /\ ScanKnowsEldest'
  BY <1>1 DEF EntriesKnown, ScanKnowsEldest
<1>6. NoneForgotten'
  <2> SUFFICES ASSUME NEW g \in dir' PROVE oldest' # Empty /\ oldest' <= g
    BY DEF NoneForgotten
  <2>1. g \in Nat \ {Empty, Mark}
    BY <1>1 DEF TypeOK
  <2> QED BY <2>1, <1>1 DEF Empty, Mark
<1> QED BY <1>3, <1>4, <1>5, <1>6

-----------------------------------------------------------------------------

LEMMA NextKeepsReceiver == ReceiverInv /\ [Next]_vars => ReceiverInv'
<1> SUFFICES ASSUME ReceiverInv, [Next]_vars PROVE ReceiverInv'
  OBVIOUS
<1>1. ASSUME NEW f \in Names,
             Deliver(f) \/ DeliverData(f) \/ DeliverCommit(f) \/ Redeliver(f)
      PROVE  ReceiverInv'
  BY <1>1, DeliveryKeeps
<1>2. CASE Fetch
  BY <1>2, FetchRegularKeeps, FetchCommittedKeeps, FetchOrphanKeeps, FetchCallbackKeeps,
     UnlinkCommitKeeps DEF Fetch
<1>3. ASSUME NEW t \in Threads, Scan(t) PROVE ReceiverInv'
  BY <1>3, FetchIntermediateKeeps, ReadEntryKeeps, HandleEntryKeeps, InterruptedKeeps,
     FetchedIntermediateKeeps DEF Scan
<1>4. ASSUME NEW t \in Threads, GetEldest(t) \/ GetScanned(t) PROVE ReceiverInv'
  BY <1>4, TakeKeeps DEF GetEldest, GetScanned
<1>5. ASSUME NEW t \in Threads, Work(t) PROVE ReceiverInv'
  BY <1>3, <1>4, <1>5, LoopKeeps, SleepKeeps, WakeKeeps, ProcessKeeps, FileProcessedKeeps,
     RevertCallbackKeeps DEF Work
<1>6. ASSUME NEW t \in Threads, Revert(t) PROVE ReceiverInv'
  BY <1>6, RevertKeeps
<1>7. CASE Interrupt \/ Terminate \/ Restart
  BY <1>7, InterruptKeeps, TerminateKeeps, RestartKeeps
<1>8. CASE UNCHANGED vars
  <2>1. TypeOK' /\ OneScan'
    BY <1>8 DEF ReceiverInv, TypeOK, OneScan, vars, dirVars, setVars, scanVars, stopVars
  <2> QED BY <2>1, <1>8, FrameKeeps DEF vars, dirVars
<1> QED BY <1>1, <1>2, <1>5, <1>6, <1>7, <1>8 DEF Next

\* The directory and the names in memory agree whatever is delivered, put back or
\* restarted, and whatever is added or removed while the directory is scanned: no
\* file is given to two threads, on offer without being there, or forgotten.
THEOREM ReceiverCorrect == Spec => []ReceiverInv
BY InitReceiver, NextKeepsReceiver, PTL DEF Spec

\* The file that get_eldest() gives out, at once or after a scan, is the eldest of
\* the directory's files that no thread holds, however few names are kept.
THEOREM EldestGivenFirst == Spec => EldestFirst
<1>1. ReceiverInv /\ [Next]_vars =>
        [\A t \in Threads : wpc[t] \in {"get", "scanned"} /\ wpc'[t] = "process"
           => \A f \in dir \ inProgress : held'[t] <= f]_vars
  <2> SUFFICES ASSUME ReceiverInv, Next, NEW t \in Threads,
                      wpc[t] \in {"get", "scanned"}, wpc'[t] = "process",
                      NEW f \in dir \ inProgress
               PROVE  held'[t] <= f
    OBVIOUS
  <2> USE DEF ReceiverInv
  <2>1. GetEldest(t) \/ GetScanned(t)
    <3>1. ASSUME NEW u \in Threads, Work(u), ~(GetEldest(u) \/ GetScanned(u)) PROVE FALSE
      BY <3>1 DEF Work, Scan, Loop, FetchIntermediate, ReadEntry, HandleEntry, Interrupted,
         FetchedIntermediate, Sleep, Wake, Process, FileProcessed, RevertCallback, Goto, TypeOK
    <3>2. ASSUME NEW u \in Threads, GetEldest(u) \/ GetScanned(u) PROVE u = t
      BY <3>2 DEF GetEldest, GetScanned, Take, Goto, TypeOK
    <3>3. ASSUME NEW u \in Threads, Revert(u) PROVE FALSE
      BY <3>3 DEF Revert, Goto, TypeOK
    <3>4. CASE Fetch
      BY <3>4 DEF Fetch, FetchRegular, FetchCommitted, FetchOrphan, FetchCallback,
         UnlinkCommit, FetchFile
    <3>5. CASE Interrupt \/ Terminate \/ Restart
      BY <3>5 DEF Interrupt, Terminate, Restart
    <3>6. ASSUME NEW g \in Names,
                 Deliver(g) \/ DeliverData(g) \/ DeliverCommit(g) \/ Redeliver(g)
          PROVE  FALSE
      BY <3>6 DEF Deliver, DeliverData, DeliverCommit, Redeliver
    <3> QED BY <3>1, <3>2, <3>3, <3>4, <3>5, <3>6 DEF Next
  <2>2. EldestKnown
    BY <2>1 DEF GetEldest, GetScanned, ScanKnowsEldest
  <2>3. Take(t) /\ ~fetching
    BY <2>1, NoScanMeanwhile DEF GetEldest, GetScanned
  <2>4. files # {} /\ held'[t] = Min(files)
    BY <2>3 DEF Take, Goto, TypeOK
  <2>5. PICK g \in files : g = Min(files) /\ \A h \in files : g <= h
    BY <2>4, MinOf, FilesFinite DEF TypeOK
  <2>6. f \in files \/ (oldest # Empty /\ oldest <= f)
    BY <2>3 DEF NoneForgotten
  <2>7. g \in Nat /\ f \in Nat /\ oldest \in Nat
    BY TypesAreNat DEF TypeOK
  <2> QED BY <2>2, <2>4, <2>5, <2>6, <2>7 DEF EldestKnown
<1> QED BY <1>1, ReceiverCorrect, PTL DEF Spec, EldestFirst

=============================================================================
