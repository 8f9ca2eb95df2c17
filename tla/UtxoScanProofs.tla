--------------------------- MODULE UtxoScanProofs ---------------------------
(* Scans exclude each other for any number of callers, and as long as the
   process is not restarted no commitment gets out of reach, for any chain,
   chunk size, failures, rejected roots, live events and rescans.  With
   restarts this holds as long as no request or write fails (Lasting).  No
   nullifier gets out of reach, either, while only scans write (Read).       *)
EXTENDS UtxoScan, FiniteSetTheorems, TLAPS

\* the chunk a scan has fetched lies on the chain it knows
InChunk == {"shields", "both", "nullifiers", "transacts", "synced"}

ChunkBounds == \A c \in Caller :
  stage[c] \in InChunk =>
    /\ to[c] \in Block /\ to[c] <= latest[c]
    /\ to[c] = latest[c] \/ to[c] = from[c] + ScanChunks

Types == TypeOK /\ ChunkBounds

BusyStage == Guarded \union {"rescanTree", "rescanSynced", "rescanEnd"}
Busy(c) == stage[c] \in BusyStage

Exclusive == \A c, d \in Caller : Busy(c) => isScanning /\ (Busy(d) => c = d)

LEMMA Numbers == /\ Block \subseteq Nat /\ Position \subseteq Nat
                 /\ MaxBlock \in Nat /\ Count \in Nat
                 /\ ScanChunks \in Nat /\ QuickSyncLag \in Nat
                 /\ None \notin Nat /\ None \notin Int
BY ChainIsFinite, ChunksAreNumbers, NoneIsNoValue DEF Block, Position

LEMMA StartIsBlock ==
  ASSUME TypeOK
  PROVE  StartScanningBlock \in Block /\ NextStartingBlock \in Block
<1>1. 0 \in Block
  BY Numbers DEF Block
<1>2. treeLength # 0 => treeLength - 1 \in Position
  BY Numbers DEF TypeOK, Position
<1>3. StartScanningBlock \in Block
  BY <1>1, <1>2, CommitmentsAreInOrder DEF StartScanningBlock
<1> QED
  BY <1>3 DEF NextStartingBlock, TypeOK

LEMMA InitTypes == Init => Types
<1> SUFFICES ASSUME Init PROVE Types
  OBVIOUS
<1>1. 0 \in Block /\ 0 \in 0..Count /\ 0 \in Nat
  BY Numbers DEF Block
<1>2. Cardinality({i \in Position : CommitmentBlock[i] <= head}) \in 0..Count
  <2> DEFINE S == {i \in Position : CommitmentBlock[i] <= head}
  <2>1. IsFiniteSet(Position) /\ Cardinality(Position) = Count
    BY FS_Interval, Numbers DEF Position
  <2>2. IsFiniteSet(S) /\ Cardinality(S) <= Cardinality(Position)
    BY <2>1, FS_Subset
  <2>3. Cardinality(S) \in Nat
    BY <2>2, FS_CardinalityType
  <2> QED
    BY <2>1, <2>2, <2>3, Numbers
<1>3. treeLength \in 0..Count
  BY <1>1, <1>2 DEF Init, OldData
<1>4. head \in Block /\ lastSyncedBlock \in Block \union {None}
  BY <1>1 DEF Init, OldData
<1>5. nullified \in SUBSET Nullifiers
  BY DEF Init, OldData
<1>6. /\ stage \in [Caller -> {"idle", "version", "guard"} \union Clearing \union Guarded]
      /\ from \in [Caller -> Nat] /\ to \in [Caller -> Int]
      /\ latest \in [Caller -> Block] /\ retried \in [Caller -> BOOLEAN]
      /\ spent \in [Bounded -> Nat]
  BY <1>1 DEF Init
<1>7. {outdated, isScanning} \subseteq BOOLEAN
  BY SwitchesAreBoolean DEF Init
<1>8. writeQueue = {} /\ invalid = None /\ storedInvalid = None /\ live = None
  BY DEF Init
<1>9. TypeOK
  BY <1>3, <1>4, <1>5, <1>6, <1>7, <1>8 DEF TypeOK
<1>10. ChunkBounds
  BY DEF Init, ChunkBounds, InChunk
<1> QED
  BY <1>9, <1>10 DEF Types

LEMMA SpendTypes ==
  ASSUME TypeOK, NEW kind \in Bounded, NEW limit, Spend(kind, limit)
  PROVE  spent' \in [Bounded -> Nat]
BY DEF TypeOK, Spend

\* What updateTreesFromWriteQueue does to the tree and the queue
LEMMA UpdateFacts ==
  ASSUME TypeOK, NEW q \in SUBSET Position, NEW s, Update(q, s)
  PROVE  /\ treeLength' \in 0..Count /\ treeLength <= treeLength'
         /\ writeQueue' \in SUBSET Position
         /\ {storedInvalid', invalid'} \subseteq Position \union {None}
         /\ spent' \in [Bounded -> Nat]
         /\ \A i \in Position : i < treeLength \/ i \in q => i < treeLength' \/ i \in writeQueue'
<1>1. PICK n \in treeLength..Count :
        /\ treeLength' = n
        /\ writeQueue' = {i \in q : n <= i}
        /\ \/ /\ IF n \in q THEN Spend("error", MaxErrors) ELSE UNCHANGED spent
              /\ invalid' = InvalidAfter(n)
              /\ storedInvalid' = IF treeLength < n THEN InvalidAfter(n) ELSE storedInvalid
           \/ /\ n \in q /\ ~s
              /\ Spend("reject", MaxRejects)
              /\ invalid' = n /\ storedInvalid' = n
  BY DEF Update
<1>2. n \in 0..Count /\ treeLength <= n /\ treeLength \in Nat
  BY <1>1, Numbers DEF TypeOK
<1>3. InvalidAfter(n) \in Position \union {None}
  BY DEF InvalidAfter, TypeOK
<1>4. {storedInvalid', invalid'} \subseteq Position \union {None}
  BY <1>1, <1>3 DEF TypeOK
<1>5. spent' \in [Bounded -> Nat]
  BY <1>1, SpendTypes DEF Bounded, TypeOK
<1>6. \A i \in Position : i < treeLength \/ i \in q => i < treeLength' \/ i \in writeQueue'
  BY <1>1, <1>2, Numbers
<1> QED
  BY <1>1, <1>2, <1>4, <1>5, <1>6

LEMMA ListenerFacts ==
  ASSUME TypeOK, NEW events \in SUBSET Position, NEW s, CommitmentListener(events, s)
  PROVE  /\ treeLength' \in 0..Count /\ treeLength <= treeLength'
         /\ writeQueue' \in SUBSET Position
         /\ {storedInvalid', invalid'} \subseteq Position \union {None}
         /\ spent' \in [Bounded -> Nat]
         /\ \A i \in Position :
              i < treeLength \/ i \in writeQueue \/ i \in events
                => i < treeLength' \/ i \in writeQueue'
<1>1. CASE events = {}
  <2>1. UNCHANGED <<treeLength, storedInvalid, writeQueue, invalid, spent>>
    BY <1>1 DEF CommitmentListener, tree
  <2>2. treeLength <= treeLength
    BY Numbers DEF TypeOK
  <2> QED
    BY <1>1, <2>1, <2>2 DEF TypeOK
<1>2. CASE events # {}
  <2> DEFINE q == writeQueue \union NotInTree(events)
  <2>1. q \in SUBSET Position
    BY DEF TypeOK, NotInTree
  <2>2. Update(q, s)
    BY <1>2 DEF CommitmentListener
  <2>3. \A i \in Position : i < treeLength \/ i \in q => i < treeLength' \/ i \in writeQueue'
    BY <2>1, <2>2, UpdateFacts
  <2>4. \A i \in events : i < treeLength \/ i \in q
    BY Numbers DEF NotInTree, TypeOK
  <2> HIDE DEF q
  <2>5. /\ treeLength' \in 0..Count /\ treeLength <= treeLength'
        /\ writeQueue' \in SUBSET Position
        /\ {storedInvalid', invalid'} \subseteq Position \union {None}
        /\ spent' \in [Bounded -> Nat]
    BY <2>1, <2>2, UpdateFacts
  <2>6. writeQueue \subseteq q
    BY DEF q
  <2> QED
    BY <2>3, <2>4, <2>5, <2>6
<1> QED
  BY <1>1, <1>2

LEMMA NullifierTypes ==
  ASSUME TypeOK, NEW a, NEW b, NullifierListener(a, b)
  PROVE  nullified' \in SUBSET Nullifiers
BY DEF TypeOK, NullifierListener


\* Steps that leave the tree and the chain alone and move one caller
LEMMA MoveTypes ==
  ASSUME Types, NEW c \in Caller,
         ScanCall(c) \/ CheckVersion(c) \/ Guard(c) \/ CheckRoots(c)
           \/ QuickFail(c) \/ Rescan(c) \/ RescanEnd(c)
  PROVE  Types'
<1> USE DEF Types, TypeOK, ChunkBounds, InChunk, Goto, disk, tree, scan, Clearing, Guarded, Slow
<1>1. CASE ScanCall(c)
  BY <1>1 DEF ScanCall
<1>2. CASE CheckVersion(c)
  BY <1>2 DEF CheckVersion
<1>3. CASE Guard(c)
  BY <1>3 DEF Guard
<1>4. CASE CheckRoots(c)
  BY <1>4 DEF CheckRoots
<1>5. CASE QuickFail(c)
  <2>1. spent' \in [Bounded -> Nat]
    BY <1>5, SpendTypes DEF QuickFail, Bounded
  <2> QED
    BY <1>5, <2>1 DEF QuickFail
<1>6. CASE Rescan(c)
  <2>1. spent' \in [Bounded -> Nat]
    BY <1>6, SpendTypes DEF Rescan, Bounded
  <2> QED
    BY <1>6, <2>1 DEF Rescan
<1>7. CASE RescanEnd(c)
  BY <1>7 DEF RescanEnd
<1> QED
  BY <1>1, <1>2, <1>3, <1>4, <1>5, <1>6, <1>7

LEMMA ScanTypes ==
  ASSUME Types, NEW c \in Caller,
         Start(c) \/ Fetch(c) \/ SetLastSyncedBlock(c) \/ UpgradeVersion(c)
  PROVE  Types'
<1> USE DEF Types, TypeOK, ChunkBounds, InChunk, Goto, disk, tree, scan, Clearing, Guarded, Slow
<1>1. CASE Start(c)
  BY <1>1, StartIsBlock, Numbers DEF Start
<1>2. CASE Fetch(c)
  <2>1. from[c] < latest[c] => /\ EndBlock(c) \in Block /\ EndBlock(c) <= latest[c]
                               /\ EndBlock(c) = latest[c] \/ EndBlock(c) = from[c] + ScanChunks
    BY Numbers DEF EndBlock, Block
  <2>2. EndBlock(c) \in Int
    <3>1. latest[c] \in Int /\ from[c] + ScanChunks \in Int
      BY Numbers DEF Block
    <3> QED
      BY <3>1 DEF EndBlock
  <2>3. TypeOK'
    BY <1>2, <2>2 DEF Fetch
  <2>4. ChunkBounds'
    BY <1>2, <2>1 DEF Fetch
  <2> QED
    BY <2>3, <2>4
<1>3. CASE SetLastSyncedBlock(c)
  <2>1. Synced(c) \in Block \union {None}
    BY <1>3 DEF Synced, SetLastSyncedBlock
  <2>2. After(c) \in Nat
    BY Numbers DEF After
  <2> QED
    BY <1>3, <2>1, <2>2 DEF SetLastSyncedBlock
<1>4. CASE UpgradeVersion(c)
  BY <1>4 DEF UpgradeVersion
<1> QED
  BY <1>1, <1>2, <1>3, <1>4

LEMMA ChunkIsPositions ==
  /\ \A a, b : Commitments(a, b) \subseteq Position
  /\ \A a, b : Commitments(a, b) \intersect Shields \subseteq Position
  /\ \A a, b : Commitments(a, b) \ Shields \subseteq Position
BY DEF Commitments

\* Steps that write commitments
LEMMA CommitmentTypes ==
  ASSUME Types, (\E c \in Caller : QuickCommitments(c) \/ ProcessShields(c) \/ ProcessTransacts(c)) \/ LiveEvents
  PROVE  Types'
<1>1. ASSUME NEW c \in Caller, QuickCommitments(c) PROVE Types'
  BY <1>1, ListenerFacts, ChunkIsPositions
  DEF QuickCommitments, Types, TypeOK, ChunkBounds, InChunk, Goto, disk, tree, scan, Clearing, Guarded, Slow
<1>2. ASSUME NEW c \in Caller, ProcessShields(c) PROVE Types'
  BY <1>2, ListenerFacts, ChunkIsPositions
  DEF ProcessShields, Types, TypeOK, ChunkBounds, InChunk, Goto, disk, tree, scan, Clearing, Guarded, Slow
<1>3. ASSUME NEW c \in Caller, ProcessTransacts(c) PROVE Types'
  BY <1>3, ListenerFacts, ChunkIsPositions
  DEF ProcessTransacts, Types, TypeOK, ChunkBounds, InChunk, Goto, disk, tree, scan, Clearing, Guarded, Slow
<1>4. CASE LiveEvents
  <2>1. live' \in Block
    BY <1>4, Numbers DEF LiveEvents, Types, TypeOK, Block
  <2>2. CASE isScanning
    BY <1>4, <2>1, <2>2 DEF LiveEvents, Types, TypeOK, ChunkBounds, tree, scan
  <2>3. CASE ~isScanning
    <3>1. nullified' \in SUBSET Nullifiers
      BY <1>4, <2>3, NullifierTypes DEF LiveEvents, Types
    <3> QED
      BY <1>4, <2>1, <2>3, <3>1, ListenerFacts, ChunkIsPositions
      DEF LiveEvents, Types, TypeOK, ChunkBounds, scan
  <2> QED
    BY <2>2, <2>3
<1> QED
  BY <1>1, <1>2, <1>3, <1>4

LEMMA NullifierStepTypes ==
  ASSUME Types, NEW c \in Caller, QuickNullifiers(c) \/ ProcessNullifiers(c)
  PROVE  Types'
<1>1. nullified' \in SUBSET Nullifiers
  BY NullifierTypes DEF QuickNullifiers, ProcessNullifiers, Types
<1>2. CASE QuickNullifiers(c)
  <2>1. StartScanningBlock \in Nat /\ head - QuickSyncLag \in Int
    <3>1. TypeOK
      BY DEF Types
    <3>2. StartScanningBlock \in Block /\ head \in Block
      BY <3>1, StartIsBlock DEF TypeOK
    <3> QED
      BY <3>2, Numbers DEF Block
  <2>2. /\ from' \in [Caller -> Nat] /\ to' \in [Caller -> Int]
        /\ stage' = [stage EXCEPT ![c] = "quickCommitments"]
        /\ UNCHANGED <<head, treeLength, storedInvalid, writeQueue, invalid, lastSyncedBlock,
                       outdated, isScanning, live, latest, retried, spent>>
        /\ \A d \in Caller : d # c => from'[d] = from[d] /\ to'[d] = to[d]
    BY <1>2, <2>1 DEF QuickNullifiers, Types, TypeOK, Goto, tree
  <2> QED
    BY <1>1, <2>2
    DEF Types, TypeOK, ChunkBounds, InChunk, Goto, tree, Clearing, Guarded, Slow
<1>3. CASE ProcessNullifiers(c)
  BY <1>1, <1>3
  DEF ProcessNullifiers, Types, TypeOK, ChunkBounds, InChunk, Goto, tree, Clearing, Guarded, Slow
<1> QED
  BY <1>2, <1>3

LEMMA ReturnTypes ==
  ASSUME Types, NEW c \in Caller, Decrypt(c) \/ Fail(c) \/ ClearFail(c)
  PROVE  Types'
<1>1. spent' \in [Bounded -> Nat]
  BY SpendTypes DEF Types, TypeOK, Decrypt, Fail, ClearFail, Bounded
<1>2. 0 \in Block /\ 0 \in Nat /\ 0 \in Int
  BY Numbers DEF Block
<1>3. isScanning' \in BOOLEAN
  BY DEF Types, TypeOK, Decrypt, Fail, ClearFail
<1>4. UNCHANGED <<head, disk, writeQueue, invalid, live>> /\ Return(c)
  BY DEF Decrypt, Fail, ClearFail
<1> QED
  BY <1>1, <1>2, <1>3, <1>4
  DEF Return, Goto, Types, TypeOK, ChunkBounds, InChunk, disk, Clearing, Guarded, Slow

LEMMA ClearTypes ==
  ASSUME Types, NEW c \in Caller, Clear(c)
  PROVE  Types'
<1>1. 0 \in 0..Count
  BY Numbers
<1>2. ASSUME NEW next \in Clearing, ClearTree(c, next) PROVE Types'
  BY <1>1, <1>2
  DEF ClearTree, Goto, Types, TypeOK, ChunkBounds, InChunk, Clearing, Guarded, Slow
<1>3. ASSUME NEW next \in Clearing, ClearSynced(c, next) PROVE Types'
  BY <1>3
  DEF ClearSynced, Goto, Types, TypeOK, ChunkBounds, InChunk, tree, Clearing, Guarded, Slow
<1> QED
  BY <1>2, <1>3 DEF Clear, Clearing

LEMMA OtherTypes ==
  ASSUME Types, Mine \/ Listen \/ Crash
  PROVE  Types'
<1>1. CASE Mine
  <2>1. head' \in Block
    BY <1>1, Numbers DEF Mine, Types, TypeOK, Block
  <2> QED
    BY <1>1, <2>1 DEF Mine, Types, TypeOK, ChunkBounds, disk, scan
<1>2. CASE Listen
  BY <1>2 DEF Listen, Types, TypeOK, ChunkBounds, disk, scan
<1>3. CASE Crash
  <2>1. spent' \in [Bounded -> Nat]
    BY <1>3, SpendTypes DEF Crash, Types, Bounded
  <2>2. 0 \in Block /\ 0 \in Nat /\ 0 \in Int
    BY Numbers DEF Block
  <2> QED
    BY <1>3, <2>1, <2>2 DEF Crash, Types, TypeOK, ChunkBounds, InChunk, disk
<1> QED
  BY <1>1, <1>2, <1>3

LEMMA NextTypes == Types /\ [Next]_vars => Types'
<1> SUFFICES ASSUME Types, [Next]_vars PROVE Types'
  OBVIOUS
<1>1. CASE UNCHANGED vars
  BY <1>1 DEF vars, disk, scan, Types, TypeOK, ChunkBounds
<1>2. CASE Mine \/ Listen \/ Crash
  BY <1>2, OtherTypes
<1>3. CASE LiveEvents
  BY <1>3, CommitmentTypes
<1>4. ASSUME NEW c \in Caller, ScanStep(c) PROVE Types'
  BY <1>4, MoveTypes, ScanTypes, CommitmentTypes, NullifierStepTypes, ReturnTypes, ClearTypes
  DEF ScanStep
<1>5. ASSUME NEW c \in Caller,
             ScanCall(c) \/ Rescan(c) \/ QuickFail(c) \/ Fail(c) \/ ClearFail(c)
      PROVE  Types'
  BY <1>5, MoveTypes, ReturnTypes
<1> QED
  BY <1>1, <1>2, <1>3, <1>4, <1>5 DEF Next

(* Types of a scan, for any chain, callers and bounds.                        *)
THEOREM ScanTypeCorrect == Spec => []TypeOK
<1>1. Types => TypeOK
  BY DEF Types
<1> QED
  BY InitTypes, NextTypes, <1>1, PTL DEF Spec
-----------------------------------------------------------------------------
\* A caller that moves on stays busy, or stays idle, as isScanning stays
LEMMA MovesExclusively ==
  ASSUME TypeOK, Exclusive, NEW c \in Caller, NEW next, Goto(c, next),
         isScanning' = isScanning, next \in BusyStage => Busy(c)
  PROVE  Exclusive'
<1>1. /\ stage'[c] = next
      /\ \A d \in Caller : d # c => stage'[d] = stage[d]
  BY DEF Goto, TypeOK
<1>2. \A d \in Caller : Busy(d)' => Busy(d)
  BY <1>1 DEF Busy
<1> QED
  BY <1>2 DEF Exclusive

\* The one that is busy leaves, and resets isScanning
LEMMA LeavesExclusively ==
  ASSUME TypeOK, Exclusive, NEW c \in Caller, NEW next, Goto(c, next),
         Busy(c), next \notin BusyStage
  PROVE  \A d \in Caller : ~Busy(d)'
<1>1. /\ stage'[c] = next
      /\ \A d \in Caller : d # c => stage'[d] = stage[d]
  BY DEF Goto, TypeOK
<1>2. \A d \in Caller : Busy(d)' => d # c /\ Busy(d)
  BY <1>1 DEF Busy
<1> QED
  BY <1>2 DEF Exclusive

\* Nobody is busy, and one becomes so
LEMMA EntersExclusively ==
  ASSUME TypeOK, Exclusive, NEW c \in Caller, NEW next, Goto(c, next),
         ~isScanning, isScanning'
  PROVE  Exclusive'
<1>1. \A d \in Caller : d # c => stage'[d] = stage[d]
  BY DEF Goto, TypeOK
<1>2. \A d \in Caller : Busy(d)' => d = c
  BY <1>1 DEF Busy, Exclusive
<1> QED
  BY <1>2 DEF Exclusive

LEMMA Stages ==
  /\ {"idle", "version", "guard", "upgradeTree", "upgradeSynced", "upgradeVersion"}
       \intersect BusyStage = {}
  /\ Guarded \subseteq BusyStage
  /\ {"rescanTree", "rescanSynced", "rescanEnd"} \subseteq BusyStage
BY DEF BusyStage, Guarded, Slow

LEMMA StepExclusive ==
  ASSUME TypeOK, Exclusive, NEW c \in Caller, ScanStep(c) \/ QuickFail(c) \/ ScanCall(c)
  PROVE  Exclusive'
<1>1. CASE ScanCall(c)
  BY <1>1, Stages, MovesExclusively DEF ScanCall
<1>2. CASE CheckVersion(c) \/ UpgradeVersion(c)
  BY <1>2, Stages, MovesExclusively DEF CheckVersion, UpgradeVersion
<1>3. CASE Guard(c)
  <2>1. CASE isScanning
    <3>1. Goto(c, "idle") /\ isScanning' = isScanning
      BY <1>3, <2>1 DEF Guard, TypeOK
    <3> QED
      BY <3>1, Stages, MovesExclusively
  <2>2. CASE ~isScanning
    <3>1. Goto(c, "quick") /\ isScanning'
      BY <1>3, <2>2 DEF Guard
    <3> QED
      BY <3>1, <2>2, EntersExclusively
  <2> QED
    BY <2>1, <2>2
<1>4. CASE Clear(c)
  <2>1. ASSUME NEW next, ClearTree(c, next) \/ ClearSynced(c, next),
               next \in BusyStage => Busy(c)
        PROVE  Exclusive'
    BY <2>1, MovesExclusively DEF ClearTree, ClearSynced
  <2> QED
    BY <1>4, <2>1, Stages DEF Clear, Busy
<1>5. CASE RescanEnd(c)
  <2>1. Goto(c, "version") /\ Busy(c)
    BY <1>5, Stages DEF RescanEnd, Busy
  <2> QED
    BY <2>1, LeavesExclusively, Stages DEF Exclusive
<1>6. CASE \/ QuickNullifiers(c) \/ QuickCommitments(c) \/ Start(c) \/ Fetch(c)
           \/ ProcessShields(c) \/ ProcessNullifiers(c) \/ ProcessTransacts(c)
           \/ SetLastSyncedBlock(c) \/ CheckRoots(c) \/ QuickFail(c)
  <2>1. stage[c] \in Guarded /\ isScanning' = isScanning /\ \E next : Goto(c, next)
    BY <1>6 DEF QuickNullifiers, QuickCommitments, Start, Fetch, ProcessShields,
                ProcessNullifiers, ProcessTransacts, SetLastSyncedBlock, CheckRoots,
                QuickFail, Guarded, Slow
  <2> QED
    BY <2>1, Stages, MovesExclusively DEF Busy
<1>7. CASE Decrypt(c)
  <2>1. Goto(c, "idle") /\ Busy(c)
    BY <1>7, Stages DEF Decrypt, Return, Busy, Guarded
  <2> QED
    BY <2>1, LeavesExclusively, Stages DEF Exclusive
<1> QED
  BY <1>1, <1>2, <1>3, <1>4, <1>5, <1>6, <1>7 DEF ScanStep

LEMMA NextExclusive == TypeOK /\ Exclusive /\ [Next]_vars => Exclusive'
<1> SUFFICES ASSUME TypeOK, Exclusive, [Next]_vars PROVE Exclusive'
  OBVIOUS
<1>1. CASE Mine \/ Listen \/ LiveEvents \/ UNCHANGED vars
  <2>1. stage' = stage /\ isScanning' = isScanning
    BY <1>1 DEF Mine, Listen, LiveEvents, vars, scan
  <2> QED
    BY <2>1 DEF Exclusive, Busy
<1>2. CASE Crash
  BY <1>2, Stages DEF Crash, Exclusive, Busy
<1>3. ASSUME NEW c \in Caller, ScanCall(c) \/ ScanStep(c) \/ QuickFail(c)
      PROVE  Exclusive'
  BY <1>3, StepExclusive
<1>4. ASSUME NEW c \in Caller, Rescan(c) PROVE Exclusive'
  BY <1>4, EntersExclusively DEF Rescan
<1>5. ASSUME NEW c \in Caller, Fail(c) PROVE Exclusive'
  <2>1. Goto(c, "idle") /\ Busy(c)
    BY <1>5, Stages DEF Fail, Return, Busy, Guarded, Slow
  <2> QED
    BY <2>1, LeavesExclusively, Stages DEF Exclusive
<1>6. ASSUME NEW c \in Caller, ClearFail(c) PROVE Exclusive'
  <2>1. Goto(c, "idle") /\ isScanning' = isScanning
    BY <1>6 DEF ClearFail, Return
  <2> QED
    BY <2>1, MovesExclusively, Stages
<1> QED
  BY <1>1, <1>2, <1>3, <1>4, <1>5, <1>6 DEF Next

(* Scans and rescans exclude each other: isScanning is set while one of them
   runs, so that checking and setting it without an await in between lets one
   caller in, however many there are.                                         *)
THEOREM ScansExclude == Spec => []OneScan
<1>1. Init => Exclusive
  BY Stages DEF Init, Exclusive, Busy
<1>2. Exclusive => OneScan
  BY DEF Exclusive, OneScan, Busy, BusyStage
<1> QED
  BY <1>1, <1>2, NextExclusive, ScanTypeCorrect, PTL DEF Spec
-----------------------------------------------------------------------------
\* What a caller's scan has behind it is in the tree or queued for it
In(i) == i < treeLength \/ i \in writeQueue

CallerReach(c) ==
  /\ stage[c] \notin {"upgradeTree", "upgradeSynced", "upgradeVersion"}
  /\ stage[c] \in Slow \union {"roots", "decrypt"} =>
       \A i \in Position :
         CommitmentBlock[i] < from[c] /\ CommitmentBlock[i] <= latest[c] => In(i)
  /\ stage[c] \in {"both", "transacts"} =>
       \A i \in Commitments(from[c], to[c]) \intersect Shields : In(i)
  /\ stage[c] \in {"nullifiers", "synced"} => \A i \in Commitments(from[c], to[c]) : In(i)
  /\ stage[c] \in {"roots", "decrypt"} => latest[c] <= from[c]

\* and so is what the last synced block has behind it, unless a rescan is about
\* to remove it
SyncedReach == (\A c \in Caller : stage[c] # "rescanSynced") =>
  \A i \in Position :
    lastSyncedBlock # None /\ CommitmentBlock[i] < lastSyncedBlock => In(i)

Reach == ~outdated /\ SyncedReach /\ \A c \in Caller : CallerReach(c)

Kept == \A i \in Position : In(i) => In(i)'

Still(d) == /\ stage'[d] = stage[d] /\ from'[d] = from[d]
            /\ to'[d] = to[d] /\ latest'[d] = latest[d]

LEMMA BlocksAreNumbers == \A i \in Position : CommitmentBlock[i] \in Nat
BY CommitmentsAreInOrder, Numbers DEF Block

LEMMA NextStartReach ==
  ASSUME TypeOK, NEW i \in Position, CommitmentBlock[i] < NextStartingBlock,
         lastSyncedBlock # None /\ CommitmentBlock[i] < lastSyncedBlock => In(i)
  PROVE  In(i)
<1>1. CASE lastSyncedBlock # None /\ lastSyncedBlock > StartScanningBlock
  BY <1>1 DEF NextStartingBlock
<1>2. CASE ~(lastSyncedBlock # None /\ lastSyncedBlock > StartScanningBlock)
  <2>1. CommitmentBlock[i] < StartScanningBlock
    BY <1>2 DEF NextStartingBlock
  <2>2. treeLength # 0
    BY <2>1, BlocksAreNumbers DEF StartScanningBlock
  <2>3. treeLength - 1 \in Position /\ i \in Int /\ treeLength \in Int
    BY <2>2, Numbers DEF TypeOK, Position
  <2>4. CommitmentBlock[i] < CommitmentBlock[treeLength - 1]
    BY <2>1, <2>2 DEF StartScanningBlock
  <2>5. ~(treeLength - 1 <= i)
    BY <2>3, <2>4, BlocksAreNumbers, CommitmentsAreInOrder
  <2> QED
    BY <2>3, <2>5 DEF In
<1> QED
  BY <1>1, <1>2

LEMMA StillReach ==
  ASSUME Kept, NEW d \in Caller, CallerReach(d), Still(d)
  PROVE  CallerReach(d)'
<1>1. \A a, b : Commitments(a, b) \subseteq Position
  BY ChunkIsPositions
<1> QED
  BY <1>1 DEF Kept, Still, CallerReach, Commitments

\* A step of one caller that loses nothing
LEMMA StepReach ==
  ASSUME Reach, Kept, ~outdated', NEW c \in Caller, CallerReach(c)',
         \A d \in Caller : d # c => Still(d),
         lastSyncedBlock' = lastSyncedBlock, stage[c] # "rescanSynced"
  PROVE  Reach'
<1>1. \A d \in Caller : CallerReach(d)'
  BY StillReach DEF Reach
<1>2. (\A d \in Caller : stage'[d] # "rescanSynced") => \A d \in Caller : stage[d] # "rescanSynced"
  BY DEF Still
<1>3. SyncedReach'
  BY <1>2 DEF Reach, SyncedReach, Kept
<1> QED
  BY <1>1, <1>3 DEF Reach

LEMMA ListenerKeeps ==
  ASSUME TypeOK, NEW events \in SUBSET Position, NEW s, CommitmentListener(events, s)
  PROVE  Kept /\ \A i \in events : In(i)'
<1>1. \A i \in Position : i < treeLength \/ i \in writeQueue \/ i \in events
                            => i < treeLength' \/ i \in writeQueue'
  BY ListenerFacts
<1> QED
  BY <1>1 DEF Kept, In

LEMMA StageFacts ==
  ASSUME TypeOK, NEW c \in Caller, NEW next, Goto(c, next)
  PROVE  stage'[c] = next /\ \A d \in Caller : d # c => stage'[d] = stage[d]
BY DEF Goto, TypeOK

\* Steps that neither write the tree nor move the last synced block
LEMMA QuietReach ==
  ASSUME Types, Reach, NEW c \in Caller,
         ScanCall(c) \/ CheckVersion(c) \/ Guard(c) \/ QuickFail(c) \/ Rescan(c)
           \/ QuickNullifiers(c) \/ ProcessNullifiers(c) \/ CheckRoots(c)
           \/ Decrypt(c) \/ Fail(c) \/ RescanEnd(c)
  PROVE  Reach'
<1>1. UNCHANGED <<treeLength, writeQueue, lastSyncedBlock, outdated>> /\ \E next : Goto(c, next)
  BY DEF ScanCall, CheckVersion, Guard, QuickFail, Rescan, QuickNullifiers,
         ProcessNullifiers, CheckRoots, Decrypt, Fail, RescanEnd, Return, disk, tree
<1>2. Kept
  BY <1>1 DEF Kept, In
<1>3. \A d \in Caller : d # c => Still(d)
  <2>1. \A d \in Caller : d # c => stage'[d] = stage[d]
    BY <1>1, StageFacts DEF Types
  <2>2. \A d \in Caller : d # c => from'[d] = from[d] /\ to'[d] = to[d] /\ latest'[d] = latest[d]
    BY DEF Types, TypeOK, ScanCall, CheckVersion, Guard, QuickFail, Rescan,
           QuickNullifiers, ProcessNullifiers, CheckRoots, Decrypt, Fail, RescanEnd,
           Return, scan
  <2> QED
    BY <2>1, <2>2 DEF Still
<1>4. CallerReach(c) /\ ~outdated
  BY DEF Reach
<1>5. stage[c] # "rescanSynced"
  BY DEF ScanCall, CheckVersion, Guard, QuickFail, Rescan, QuickNullifiers,
         ProcessNullifiers, CheckRoots, Decrypt, Fail, RescanEnd
<1>6. ASSUME stage'[c] \notin {"upgradeTree", "upgradeSynced", "upgradeVersion",
                               "roots", "decrypt"} \union Slow
      PROVE  CallerReach(c)'
  BY <1>6 DEF CallerReach, Slow
<1>7. CASE ScanCall(c) \/ CheckVersion(c) \/ Guard(c) \/ QuickFail(c) \/ Rescan(c)
           \/ QuickNullifiers(c) \/ Decrypt(c) \/ Fail(c) \/ RescanEnd(c)
  <2>1. \E next \in {"idle", "version", "guard", "quick", "start", "rescanTree",
                     "quickCommitments"} : Goto(c, next)
    BY <1>4, <1>7 DEF ScanCall, CheckVersion, Guard, QuickFail, Rescan, QuickNullifiers,
         Decrypt, Fail, RescanEnd, Return
  <2>2. stage'[c] \in {"idle", "version", "guard", "quick", "start", "rescanTree",
                       "quickCommitments"}
    BY <2>1, StageFacts DEF Types
  <2>3. CallerReach(c)'
    BY <1>6, <2>2 DEF Slow
  <2> QED
    BY <1>1, <1>2, <1>3, <1>4, <1>5, <2>3, StepReach
<1>8. CASE CheckRoots(c)
  <2>1. stage[c] = "roots" /\ UNCHANGED <<from, to, latest>> /\ Goto(c, "decrypt")
    BY <1>8 DEF CheckRoots
  <2>2. stage'[c] = "decrypt"
    BY <2>1, StageFacts DEF Types
  <2>3. CallerReach(c)'
    BY <1>1, <1>4, <2>1, <2>2 DEF CallerReach, In
  <2> QED
    BY <1>1, <1>2, <1>3, <1>4, <1>5, <2>3, StepReach
<1>9. CASE ProcessNullifiers(c)
  <2>1. UNCHANGED <<from, to, latest>>
    BY <1>9 DEF ProcessNullifiers
  <2>2. \/ stage[c] = "both" /\ stage'[c] = "transacts"
        \/ stage[c] = "nullifiers" /\ stage'[c] = "synced"
    BY <1>9, StageFacts DEF ProcessNullifiers, Types
  <2>3. CallerReach(c)'
    BY <1>1, <1>4, <2>1, <2>2 DEF CallerReach, In, Slow, Commitments
  <2> QED
    BY <1>1, <1>2, <1>3, <1>4, <1>5, <2>3, StepReach
<1> QED
  BY <1>7, <1>8, <1>9

\* Steps that write commitments
LEMMA CommitmentReach ==
  ASSUME Types, Reach, NEW c \in Caller,
         QuickCommitments(c) \/ ProcessShields(c) \/ ProcessTransacts(c)
  PROVE  Reach'
<1>1. /\ UNCHANGED <<lastSyncedBlock, outdated, from, to, latest>>
      /\ \E next : Goto(c, next)
  BY DEF QuickCommitments, ProcessShields, ProcessTransacts
<1>2. \A d \in Caller : d # c => Still(d)
  BY <1>1, StageFacts DEF Types, Still
<1>3. CallerReach(c) /\ ~outdated /\ TypeOK
  BY DEF Reach, Types
<1>4. stage[c] # "rescanSynced"
  BY DEF QuickCommitments, ProcessShields, ProcessTransacts
<1>5. CASE QuickCommitments(c)
  <2>1. Kept
    BY <1>3, <1>5, ListenerKeeps, ChunkIsPositions DEF QuickCommitments
  <2>2. stage'[c] = "start"
    BY <1>3, <1>5, StageFacts DEF QuickCommitments
  <2>3. CallerReach(c)'
    BY <2>2 DEF CallerReach, Slow
  <2> QED
    BY <1>1, <1>2, <1>3, <1>4, <2>1, <2>3, StepReach
<1>6. CASE ProcessShields(c)
  <2>1. Kept /\ \A i \in Commitments(from[c], to[c]) \intersect Shields : In(i)'
    BY <1>3, <1>6, ListenerKeeps, ChunkIsPositions DEF ProcessShields
  <2>2. stage[c] = "shields" /\ stage'[c] = "both"
    BY <1>3, <1>6, StageFacts DEF ProcessShields
  <2>3. Commitments(from[c], to[c])' = Commitments(from[c], to[c])
    BY <1>1 DEF Commitments
  <2>4. CallerReach(c)'
    BY <1>1, <1>3, <2>1, <2>2, <2>3 DEF CallerReach, Kept, Slow
  <2> QED
    BY <1>1, <1>2, <1>3, <1>4, <2>1, <2>4, StepReach
<1>7. CASE ProcessTransacts(c)
  <2>1. Kept /\ \A i \in Commitments(from[c], to[c]) \ Shields : In(i)'
    BY <1>3, <1>7, ListenerKeeps, ChunkIsPositions DEF ProcessTransacts
  <2>2. \/ stage[c] = "both" /\ stage'[c] = "nullifiers"
        \/ stage[c] = "transacts" /\ stage'[c] = "synced"
    BY <1>3, <1>7, StageFacts DEF ProcessTransacts
  <2>3. Commitments(from[c], to[c])' = Commitments(from[c], to[c])
    BY <1>1 DEF Commitments
  <2>4. \A i \in Commitments(from[c], to[c]) \intersect Shields : In(i)'
    BY <1>3, <2>1, <2>2, ChunkIsPositions DEF CallerReach, Kept
  <2>5. \A i \in Commitments(from[c], to[c]) : In(i)'
    BY <2>1, <2>4
  <2>6. CallerReach(c)'
    BY <1>1, <1>3, <2>1, <2>2, <2>3, <2>5 DEF CallerReach, Kept, Slow
  <2> QED
    BY <1>1, <1>2, <1>3, <1>4, <2>1, <2>6, StepReach
<1> QED
  BY <1>5, <1>6, <1>7

\* The scan's own position
LEMMA PositionReach ==
  ASSUME Types, Reach, Exclusive, NEW c \in Caller, Start(c) \/ Fetch(c)
  PROVE  Reach'
<1>1. UNCHANGED <<treeLength, writeQueue, lastSyncedBlock, outdated>>
  BY DEF Start, Fetch, disk
<1>2. Kept
  BY <1>1 DEF Kept, In
<1>3. \E next : Goto(c, next)
  BY DEF Start, Fetch
<1>4. \A d \in Caller : d # c => Still(d)
  <2>1. \A d \in Caller : d # c => from'[d] = from[d] /\ to'[d] = to[d] /\ latest'[d] = latest[d]
    BY DEF Types, TypeOK, Start, Fetch
  <2> QED
    BY <1>3, <2>1, StageFacts DEF Types, Still
<1>5. CallerReach(c) /\ ~outdated /\ TypeOK
  BY DEF Reach, Types
<1>6. stage[c] # "rescanSynced"
  BY DEF Start, Fetch
<1>7. CASE Start(c)
  <2>1. stage[c] = "start" /\ stage'[c] = "fetch"
    BY <1>5, <1>7, StageFacts DEF Start
  <2>2. from'[c] = NextStartingBlock
    BY <1>5, <1>7 DEF Start, TypeOK
  <2>3. \A d \in Caller : stage[d] # "rescanSynced"
    BY <2>1 DEF Exclusive, Busy, BusyStage, Guarded
  <2>4. \A i \in Position : CommitmentBlock[i] < NextStartingBlock => In(i)
    BY <1>5, <2>3, NextStartReach DEF Reach, SyncedReach
  <2>5. CallerReach(c)'
    BY <1>1, <2>1, <2>2, <2>4 DEF CallerReach, Slow, In
  <2> QED
    BY <1>1, <1>2, <1>4, <1>5, <1>6, <2>5, StepReach
<1>8. CASE Fetch(c)
  <2>1. stage[c] = "fetch" /\ UNCHANGED <<from, latest>>
    BY <1>8 DEF Fetch
  <2>2. \/ stage'[c] = "shields"
        \/ ~(from[c] < latest[c]) /\ stage'[c] = "roots"
    BY <1>5, <1>8, StageFacts DEF Fetch
  <2>3. from[c] \in Nat /\ latest[c] \in Nat
    BY <1>5, Numbers DEF TypeOK, Block
  <2>4. CallerReach(c)'
    BY <1>1, <1>5, <2>1, <2>2, <2>3 DEF CallerReach, Slow, In
  <2> QED
    BY <1>1, <1>2, <1>4, <1>5, <1>6, <2>4, StepReach
<1> QED
  BY <1>7, <1>8

\* A chunk is done: everything up to its end is in the tree or queued
LEMMA SetLastSyncedReach ==
  ASSUME Types, Reach, NEW c \in Caller, SetLastSyncedBlock(c)
  PROVE  Reach'
<1>1. /\ stage[c] = "synced" /\ stage'[c] = "fetch"
      /\ from'[c] = from[c] + ScanChunks + 1
      /\ UNCHANGED <<treeLength, writeQueue, outdated, latest, to>>
      /\ \A d \in Caller : d # c => Still(d)
  <2>1. stage'[c] = "fetch" /\ \A d \in Caller : d # c => stage'[d] = stage[d]
    BY StageFacts DEF SetLastSyncedBlock, Types
  <2>2. from'[c] = After(c) /\ \A d \in Caller : d # c => from'[d] = from[d]
    BY DEF SetLastSyncedBlock, Types, TypeOK
  <2> QED
    BY <2>1, <2>2 DEF SetLastSyncedBlock, tree, After, Still
<1>2. Kept
  BY <1>1 DEF Kept, In
<1>3. /\ from[c] \in Nat /\ latest[c] \in Nat /\ to[c] \in Nat /\ to[c] <= latest[c]
      /\ to[c] = latest[c] \/ to[c] = from[c] + ScanChunks
  BY <1>1, Numbers DEF Types, TypeOK, ChunkBounds, InChunk, Block
<1>4. /\ \A i \in Position :
           CommitmentBlock[i] < from[c] /\ CommitmentBlock[i] <= latest[c] => In(i)
      /\ \A i \in Position :
           from[c] <= CommitmentBlock[i] /\ CommitmentBlock[i] <= to[c] => In(i)
  BY <1>1 DEF Reach, CallerReach, Slow, Commitments
<1>5. \A i \in Position :
        CommitmentBlock[i] < from'[c] /\ CommitmentBlock[i] <= latest[c] => In(i)
  <2> SUFFICES ASSUME NEW i \in Position, CommitmentBlock[i] < from[c] + ScanChunks + 1,
                      CommitmentBlock[i] <= latest[c]
               PROVE  In(i)
    BY <1>1
  <2>1. CommitmentBlock[i] < from[c] \/ CommitmentBlock[i] <= to[c]
    BY <1>3, BlocksAreNumbers, Numbers
  <2>2. CommitmentBlock[i] < from[c] \/ from[c] <= CommitmentBlock[i]
    BY <1>3, BlocksAreNumbers
  <2> QED
    BY <1>4, <2>1, <2>2
<1>6. \A i \in Position : CommitmentBlock[i] < to[c] => In(i)
  <2> SUFFICES ASSUME NEW i \in Position, CommitmentBlock[i] < to[c] PROVE In(i)
    OBVIOUS
  <2>1. /\ CommitmentBlock[i] <= latest[c] /\ CommitmentBlock[i] <= to[c]
        /\ CommitmentBlock[i] < from[c] \/ from[c] <= CommitmentBlock[i]
    BY <1>3, BlocksAreNumbers
  <2> QED
    BY <1>4, <2>1
<1>7. CallerReach(c)'
  BY <1>1, <1>5 DEF CallerReach, Slow, In
<1>8. \A d \in Caller : CallerReach(d)'
  BY <1>1, <1>2, <1>7, StillReach DEF Reach
<1>9. SyncedReach'
  <2>1. CASE lastSyncedBlock' = to[c]
    BY <1>1, <1>6, <2>1 DEF SyncedReach, In
  <2>2. CASE lastSyncedBlock' = lastSyncedBlock
    <3>1. (\A d \in Caller : stage'[d] # "rescanSynced")
            => \A d \in Caller : stage[d] # "rescanSynced"
      BY <1>1 DEF Still
    <3> QED
      BY <1>1, <2>2, <3>1 DEF Reach, SyncedReach, In
  <2> QED
    BY <2>1, <2>2 DEF SetLastSyncedBlock, Synced
<1> QED
  BY <1>1, <1>8, <1>9 DEF Reach

\* A rescan clears the tree while no scan runs, and then the last synced block
LEMMA ClearReach ==
  ASSUME Types, Reach, Exclusive, NEW c \in Caller, Clear(c)
  PROVE  Reach'
<1>1. \/ stage[c] = "rescanTree" /\ ClearTree(c, "rescanSynced")
      \/ stage[c] = "rescanSynced" /\ ClearSynced(c, "rescanEnd")
  BY DEF Clear, Reach, CallerReach
<1>2. /\ \A d \in Caller : d # c => stage[d] \notin BusyStage /\ Still(d)
      /\ stage'[c] \in {"rescanSynced", "rescanEnd"}
      /\ outdated' = outdated
  <2>1. Busy(c)
    BY <1>1, Stages DEF Busy
  <2>2. \A d \in Caller : d # c => stage[d] \notin BusyStage
    BY <2>1 DEF Exclusive, Busy
  <2>3. \E next \in {"rescanSynced", "rescanEnd"} :
          /\ Goto(c, next)
          /\ UNCHANGED <<outdated, from, to, latest>>
    BY <1>1 DEF ClearTree, ClearSynced
  <2> QED
    BY <2>2, <2>3, StageFacts DEF Types, Still
<1>3. CallerReach(c)'
  BY <1>2 DEF CallerReach, Slow
<1>4. ASSUME NEW d \in Caller, d # c PROVE CallerReach(d)'
  <2>1. stage'[d] = stage[d] /\ stage[d] \notin BusyStage /\ CallerReach(d)
    BY <1>2, <1>4 DEF Still, Reach
  <2> QED
    BY <2>1 DEF CallerReach, BusyStage, Guarded, Slow
<1>5. SyncedReach'
  <2>1. CASE ClearTree(c, "rescanSynced")
    <3>1. Goto(c, "rescanSynced") /\ TypeOK
      BY <2>1 DEF ClearTree, Types
    <3>2. stage'[c] = "rescanSynced"
      BY <3>1, StageFacts
    <3> QED
      BY <3>2 DEF SyncedReach
  <2>2. CASE ClearSynced(c, "rescanEnd")
    BY <2>2 DEF SyncedReach, ClearSynced
  <2> QED
    BY <1>1, <2>1, <2>2
<1> QED
  BY <1>2, <1>3, <1>4, <1>5 DEF Reach

\* The database clears what it is told to
LEMMA NoClearFails ==
  ASSUME MaxClearErrors = 0, TypeOK, NEW c \in Caller
  PROVE  ~ClearFail(c)
BY DEF TypeOK, Bounded, ClearFail, Spend

LEMMA NextReach ==
  ASSUME \A c \in Caller : ~ClearFail(c), Types, Exclusive, Reach, ~Crash, [Next]_vars
  PROVE  Reach'
<1>1. CASE Mine \/ Listen \/ LiveEvents \/ UNCHANGED vars
  <2>1. UNCHANGED <<stage, from, to, latest, lastSyncedBlock, outdated>>
    BY <1>1 DEF Mine, Listen, LiveEvents, vars, scan, disk
  <2>2. Kept
    <3>1. CASE UNCHANGED <<treeLength, writeQueue>>
      BY <3>1 DEF Kept, In
    <3>2. CASE LiveEvents /\ ~isScanning
      BY <3>2, ListenerKeeps, ChunkIsPositions DEF LiveEvents, Types
    <3> QED
      BY <1>1, <3>1, <3>2 DEF Mine, Listen, LiveEvents, vars, disk, tree
  <2>3. \A d \in Caller : CallerReach(d)'
    BY <2>1, <2>2, StillReach DEF Reach, Still
  <2>4. SyncedReach'
    BY <2>1, <2>2 DEF Reach, SyncedReach, Kept
  <2> QED
    BY <2>1, <2>3, <2>4 DEF Reach
<1>2. \A c \in Caller : ~ClearFail(c)
  OBVIOUS
<1>3. ASSUME NEW c \in Caller, ScanCall(c) \/ QuickFail(c) \/ Fail(c) \/ Rescan(c)
      PROVE  Reach'
  BY <1>3, QuietReach
<1>4. ASSUME NEW c \in Caller, ScanStep(c) PROVE Reach'
  <2>1. ~UpgradeVersion(c)
    BY DEF Reach, CallerReach, UpgradeVersion
  <2> QED
    BY <1>4, <2>1, QuietReach, CommitmentReach, PositionReach, SetLastSyncedReach,
       ClearReach DEF ScanStep
<1> QED
  BY <1>1, <1>2, <1>3, <1>4 DEF Next

LEMMA InitReach == ASSUME Outdated = FALSE, Init PROVE Reach
<1>1. treeLength = 0 /\ lastSyncedBlock = None /\ ~outdated
  BY DEF Init
<1> QED
  BY <1>1 DEF Init, Reach, SyncedReach, CallerReach, Slow

LEMMA ReachIsInvariant ==
  ASSUME Outdated = FALSE, MaxCrashes = 0, MaxClearErrors = 0
  PROVE  Spec => [](Types /\ Reach)
<1>1. Init => Exclusive
  BY Stages DEF Init, Exclusive, Busy
<1>2. Types => TypeOK
  BY DEF Types
<1>3. Init => Reach
  BY InitReach
<1>4. Types /\ Exclusive /\ Reach /\ [Next]_vars => Reach'
  <2>1. Types => ~Crash
    BY DEF Types, TypeOK, Bounded, Crash, Spend
  <2>2. Types => \A c \in Caller : ~ClearFail(c)
    BY NoClearFails DEF Types
  <2> QED
    BY <2>1, <2>2, NextReach
<1> QED
  BY <1>1, <1>2, <1>3, <1>4, InitTypes, NextTypes, NextExclusive, PTL DEF Spec

LEMMA ReachIsWithin == Types /\ Reach => CommitmentsWithinReach
<1> SUFFICES ASSUME Types, Reach, Settled, NEW i \in Position, treeLength <= i,
                    CommitmentBlock[i] < NextStartingBlock
             PROVE  i \in writeQueue
  BY DEF CommitmentsWithinReach
<1>1. TypeOK
  BY DEF Types
<1>2. lastSyncedBlock # None /\ CommitmentBlock[i] < lastSyncedBlock => In(i)
  BY DEF Reach, SyncedReach, Settled
<1>3. In(i)
  BY <1>1, <1>2, NextStartReach
<1>4. ~(i < treeLength)
  BY Numbers DEF Types, TypeOK, Position
<1> QED
  BY <1>3, <1>4 DEF In

LEMMA ReachIsRead == Types /\ Reach => ScanReadsItsBlocks
<1> SUFFICES ASSUME Types, Reach, NEW c \in Caller, stage[c] \in {"roots", "decrypt"},
                    NEW i \in Position, CommitmentBlock[i] < latest[c]
             PROVE  In(i)
  BY DEF ScanReadsItsBlocks, In
<1>1. latest[c] \in Nat /\ from[c] \in Nat /\ latest[c] <= from[c]
  BY Numbers DEF Types, TypeOK, Block, Reach, CallerReach
<1>2. CommitmentBlock[i] < from[c] /\ CommitmentBlock[i] <= latest[c]
  BY <1>1, BlocksAreNumbers
<1> QED
  BY <1>2 DEF Reach, CallerReach

(* As long as the process is not restarted and the database clears what it is
   told to, no commitment gets out of reach of the scans: for any chain, chunk
   size, number of callers, order of live events, failures, rejected roots and
   rescans, what is behind the block the next scan starts from is in the tree
   or queued for it.                                                          *)
THEOREM NothingIsPassedOver ==
  ASSUME Outdated = FALSE, MaxCrashes = 0, MaxClearErrors = 0
  PROVE  Spec => []CommitmentsWithinReach
BY ReachIsWithin, ReachIsInvariant, PTL

(* Under the same assumptions a scan that got to the check of the roots has
   every commitment before the latest block it knew when it started.          *)
THEOREM ScansReadTheirBlocks ==
  ASSUME Outdated = FALSE, MaxCrashes = 0, MaxClearErrors = 0
  PROVE  Spec => []ScanReadsItsBlocks
BY ReachIsRead, ReachIsInvariant, PTL
-----------------------------------------------------------------------------
(* Restarts.  The queue is lost with the process, so what is behind the last
   synced block must be in the tree, not just queued for it (SyncedIn).  When no
   request or write fails, what could continue the tree waits only because a root
   was refused (OnlyRefusedWait), and then the last synced block stays.       *)

QueueBehindTree == \A i \in writeQueue : treeLength <= i
OnlyRefusedWait == treeLength \in writeQueue => invalid # None
InvalidStops == QueueBehindTree /\ OnlyRefusedWait

SyncedIn == lastSyncedBlock # None =>
  \A i \in Position : CommitmentBlock[i] < lastSyncedBlock => i < treeLength

NotRescanning == \A c \in Caller : stage[c] \notin {"rescanTree", "rescanSynced", "rescanEnd"}

\* the one caller there is has the old data to clear before it scans
Upgrading == \A c \in Caller :
  /\ stage[c] \in {"idle", "version", "upgradeTree", "upgradeSynced", "upgradeVersion"}
  /\ stage[c] = "upgradeVersion" => lastSyncedBlock = None

OneCaller == \A c, d \in Caller : c = d

Lasting == /\ InvalidStops /\ NotRescanning
           /\ IF outdated THEN Upgrading /\ OneCaller ELSE SyncedIn /\ Reach

\* nothing fails but the clearing of old data, which is done again
Faultless == MaxErrors = 0 /\ MaxRescans = 0

LEMMA UpdateStops ==
  ASSUME Faultless, TypeOK, NEW q \in SUBSET Position, NEW s, Update(q, s)
  PROVE  InvalidStops'
<1>1. PICK n \in treeLength..Count :
        /\ treeLength' = n
        /\ writeQueue' = {i \in q : n <= i}
        /\ \/ IF n \in q THEN Spend("error", MaxErrors) ELSE UNCHANGED spent
           \/ invalid' = n /\ n \in q
  BY DEF Update
<1>2. ~Spend("error", MaxErrors)
  BY DEF Faultless, Spend, TypeOK, Bounded
<1>3. n \in Nat
  BY <1>1, Numbers DEF TypeOK
<1>4. n \in q => invalid' = n
  BY <1>1, <1>2
<1>5. n \in writeQueue' => invalid' # None
  BY <1>1, <1>3, <1>4, Numbers
<1> QED
  BY <1>1, <1>5 DEF InvalidStops, QueueBehindTree, OnlyRefusedWait

LEMMA ListenerStops ==
  ASSUME Faultless, TypeOK, InvalidStops, NEW events \in SUBSET Position, NEW s,
         CommitmentListener(events, s)
  PROVE  InvalidStops'
<1>1. CASE events = {}
  BY <1>1 DEF CommitmentListener, tree, InvalidStops, QueueBehindTree, OnlyRefusedWait
<1>2. CASE events # {}
  <2>1. writeQueue \union NotInTree(events) \in SUBSET Position
    BY DEF TypeOK, NotInTree
  <2> QED
    BY <1>2, <2>1, UpdateStops DEF CommitmentListener
<1> QED
  BY <1>1, <1>2

\* A tree that is cleared keeps its queue, which can continue it only if it
\* was empty before
LEMMA ClearStops ==
  ASSUME TypeOK, InvalidStops, treeLength' = 0, UNCHANGED <<writeQueue, invalid>>
  PROVE  InvalidStops'
<1>1. writeQueue \subseteq Nat /\ treeLength \in Nat
  BY Numbers DEF TypeOK
<1>2. 0 \in writeQueue => treeLength = 0
  BY <1>1 DEF InvalidStops, QueueBehindTree
<1> QED
  BY <1>1, <1>2 DEF InvalidStops, QueueBehindTree, OnlyRefusedWait

\* Who writes the tree, or forgets what waits for it
LEMMA NextStops ==
  ASSUME Faultless, Types, InvalidStops, [Next]_vars
  PROVE  InvalidStops'
<1> USE DEF Types
<1>1. CASE UNCHANGED <<treeLength, writeQueue, invalid>>
  BY <1>1 DEF InvalidStops, QueueBehindTree, OnlyRefusedWait
<1>2. CASE Crash
  BY <1>2 DEF Crash, InvalidStops, QueueBehindTree, OnlyRefusedWait
<1>3. CASE LiveEvents /\ ~isScanning
  BY <1>3, ListenerStops, ChunkIsPositions DEF LiveEvents
<1>4. ASSUME NEW c \in Caller, QuickCommitments(c) \/ ProcessShields(c) \/ ProcessTransacts(c)
      PROVE  InvalidStops'
  <2>1. /\ Commitments(from[c], to[c]) \in SUBSET Position
        /\ Commitments(from[c], to[c]) \intersect Shields \in SUBSET Position
        /\ Commitments(from[c], to[c]) \ Shields \in SUBSET Position
    BY ChunkIsPositions
  <2> QED
    BY <1>4, <2>1, ListenerStops DEF QuickCommitments, ProcessShields, ProcessTransacts
<1>5. ASSUME NEW c \in Caller, NEW next, ClearTree(c, next)
      PROVE  InvalidStops'
  BY <1>5, ClearStops DEF ClearTree
<1>6. ASSUME NEW c \in Caller, ScanStep(c)
      PROVE  InvalidStops'
  <2>1. \/ UNCHANGED <<treeLength, writeQueue, invalid>>
        \/ QuickCommitments(c) \/ ProcessShields(c) \/ ProcessTransacts(c)
        \/ \E next : ClearTree(c, next)
    BY <1>6 DEF ScanStep, CheckVersion, UpgradeVersion, Guard, Clear, ClearSynced,
         RescanEnd, QuickNullifiers, Start, Fetch, ProcessNullifiers,
         SetLastSyncedBlock, CheckRoots, Decrypt, disk, tree
  <2> QED
    BY <1>1, <1>4, <1>5, <2>1
<1>7. ASSUME NEW c \in Caller,
             ScanCall(c) \/ Rescan(c) \/ QuickFail(c) \/ Fail(c) \/ ClearFail(c)
      PROVE  InvalidStops'
  <2>1. UNCHANGED <<treeLength, writeQueue, invalid>>
    BY <1>7 DEF ScanCall, Rescan, QuickFail, Fail, ClearFail, disk
  <2> QED
    BY <1>1, <2>1
<1>8. CASE Mine \/ Listen \/ UNCHANGED vars
  BY <1>1, <1>8 DEF Mine, Listen, vars, disk
<1>9. CASE LiveEvents /\ isScanning
  BY <1>1, <1>9 DEF LiveEvents, tree
<1> QED
  BY <1>2, <1>3, <1>6, <1>7, <1>8, <1>9 DEF Next

\* What nobody does without rescans
LEMMA NobodyRescans ==
  ASSUME Faultless, TypeOK, NotRescanning, [Next]_vars
  PROVE  /\ NotRescanning'
         /\ \A c \in Caller : ~Rescan(c) /\ ~RescanEnd(c) /\ ~Fail(c) /\ ~QuickFail(c)
         /\ \A c \in Caller : Clear(c) =>
              \/ stage[c] = "upgradeTree" /\ ClearTree(c, "upgradeSynced")
              \/ stage[c] = "upgradeSynced" /\ ClearSynced(c, "upgradeVersion")
<1>1. \A c \in Caller : ~Rescan(c) /\ ~Fail(c) /\ ~QuickFail(c)
  BY DEF Faultless, Rescan, Fail, QuickFail, Spend, TypeOK, Bounded
<1>2. \A c \in Caller : ~RescanEnd(c)
  BY DEF NotRescanning, RescanEnd
<1>3. ASSUME NEW c \in Caller, Clear(c)
      PROVE  \/ stage[c] = "upgradeTree" /\ ClearTree(c, "upgradeSynced")
             \/ stage[c] = "upgradeSynced" /\ ClearSynced(c, "upgradeVersion")
  BY <1>3 DEF NotRescanning, Clear
<1> DEFINE Others == {"idle", "version", "guard", "upgradeTree", "upgradeSynced",
                      "upgradeVersion"} \union Guarded
<1>4. \A next \in Others : next \notin {"rescanTree", "rescanSynced", "rescanEnd"}
  BY DEF Guarded, Slow
<1>5. ASSUME NEW c \in Caller, ScanCall(c) \/ ScanStep(c) \/ ClearFail(c)
      PROVE  NotRescanning'
  <2>1. PICK next \in Others : Goto(c, next)
    <3>1. CASE Clear(c)
      BY <1>3, <3>1 DEF ClearTree, ClearSynced
    <3>2. CASE ~Clear(c)
      BY <1>2, <1>5, <3>2 DEF ScanCall, ScanStep, ClearFail, CheckVersion, UpgradeVersion,
           Guard, QuickNullifiers, QuickCommitments, Start, Fetch, ProcessShields,
           ProcessNullifiers, ProcessTransacts, SetLastSyncedBlock, CheckRoots,
           Decrypt, Return, Guarded, Slow
    <3> QED
      BY <3>1, <3>2
  <2>2. stage'[c] = next /\ \A d \in Caller : d # c => stage'[d] = stage[d]
    BY <2>1, StageFacts
  <2> QED
    BY <1>4, <2>1, <2>2 DEF NotRescanning
<1>6. ASSUME Mine \/ Listen \/ LiveEvents \/ Crash \/ UNCHANGED vars
      PROVE  NotRescanning'
  <2>1. CASE Crash
    <3>1. \A d \in Caller : stage'[d] = "idle"
      BY <2>1 DEF Crash
    <3> QED
      BY <3>1 DEF NotRescanning
  <2>2. CASE ~Crash
    <3>1. stage' = stage
      BY <1>6, <2>2 DEF Mine, Listen, LiveEvents, vars, scan
    <3> QED
      BY <3>1 DEF NotRescanning
  <2> QED
    BY <2>1, <2>2
<1>7. NotRescanning'
  BY <1>1, <1>5, <1>6 DEF Next
<1> QED
  BY <1>1, <1>2, <1>3, <1>7

\* What was read up to the end of a chunk is in the tree if no root is refused
LEMMA ReadIsInTree ==
  ASSUME TypeOK, InvalidStops, invalid = None, NEW b \in Nat,
         \A i \in Position : CommitmentBlock[i] < b => In(i),
         NEW i \in Position, CommitmentBlock[i] < b
  PROVE  i < treeLength
<1>1. treeLength \in Nat /\ i \in Nat /\ i < Count /\ Count \in Nat
  BY Numbers DEF TypeOK, Position
<1>2. SUFFICES ASSUME treeLength <= i PROVE FALSE
  BY <1>1
<1>3. treeLength \in Position
  BY <1>1, <1>2 DEF Position
<1>4. CommitmentBlock[treeLength] <= CommitmentBlock[i]
  BY <1>2, <1>3, CommitmentsAreInOrder
<1>5. CommitmentBlock[treeLength] < b
  BY <1>3, <1>4, BlocksAreNumbers
<1>6. treeLength \in writeQueue
  BY <1>1, <1>3, <1>5 DEF In
<1> QED
  BY <1>6 DEF InvalidStops, OnlyRefusedWait

\* The end of a chunk
LEMMA SetLastSyncedIn ==
  ASSUME Types, InvalidStops, SyncedIn, Reach, NEW c \in Caller, SetLastSyncedBlock(c)
  PROVE  SyncedIn'
<1>1. stage[c] = "synced" /\ UNCHANGED treeLength
  BY DEF SetLastSyncedBlock, tree
<1>2. from[c] \in Nat /\ to[c] \in Nat /\ latest[c] \in Nat /\ to[c] <= latest[c]
  BY <1>1, Numbers DEF Types, TypeOK, ChunkBounds, InChunk, Block
<1>3. \A i \in Position : CommitmentBlock[i] < to[c] => In(i)
  <2> SUFFICES ASSUME NEW i \in Position, CommitmentBlock[i] < to[c] PROVE In(i)
    OBVIOUS
  <2>1. /\ CommitmentBlock[i] <= latest[c] /\ CommitmentBlock[i] <= to[c]
        /\ CommitmentBlock[i] < from[c] \/ from[c] <= CommitmentBlock[i]
    BY <1>2, BlocksAreNumbers
  <2> QED
    BY <1>1, <2>1 DEF Reach, CallerReach, Slow, Commitments
<1>4. CASE invalid = None
  <2>1. \A i \in Position : CommitmentBlock[i] < to[c] => i < treeLength
    BY <1>2, <1>3, <1>4, ReadIsInTree DEF Types
  <2> QED
    BY <1>1, <1>4, <2>1 DEF SyncedIn, SetLastSyncedBlock, Synced
<1>5. CASE invalid # None
  BY <1>1, <1>5 DEF SyncedIn, SetLastSyncedBlock, Synced
<1> QED
  BY <1>4, <1>5

\* A step of a process with data of the current version
LEMMA CurrentLasts ==
  ASSUME Faultless, Types, Exclusive, Lasting, ~outdated, ~Crash, [Next]_vars
  PROVE  ~outdated' /\ SyncedIn' /\ Reach'
<1>1. /\ InvalidStops /\ NotRescanning /\ SyncedIn /\ Reach /\ TypeOK
  BY DEF Lasting, Types
<1>2. \A c \in Caller : ~Rescan(c) /\ ~RescanEnd(c) /\ ~Fail(c) /\ ~QuickFail(c) /\ ~Clear(c)
                          /\ ~ClearFail(c) /\ ~UpgradeVersion(c)
  <2>1. \A c \in Caller : stage[c] \notin Clearing
    BY <1>1 DEF Reach, CallerReach, NotRescanning, Clearing
  <2> QED
    BY <1>1, <2>1, NobodyRescans DEF ClearFail, Clear, UpgradeVersion, Clearing
<1>3. Reach'
  BY <1>1, <1>2, NextReach
<1>4. ~outdated'
  BY <1>3 DEF Reach
<1>5. ASSUME treeLength <= treeLength', UNCHANGED lastSyncedBlock, treeLength' \in Nat
      PROVE  SyncedIn'
  <2>1. treeLength \in Nat /\ Position \subseteq Nat
    BY <1>1, Numbers DEF TypeOK
  <2> QED
    BY <1>1, <1>5, <2>1 DEF SyncedIn
<1>6. ASSUME UNCHANGED <<treeLength, lastSyncedBlock>>
      PROVE  SyncedIn'
  <2>1. treeLength' = treeLength /\ lastSyncedBlock' = lastSyncedBlock /\ SyncedIn
    BY <1>1, <1>6
  <2> QED
    BY <2>1, Zenon DEF SyncedIn
<1>7. ASSUME NEW events \in SUBSET Position, NEW s, CommitmentListener(events, s),
             UNCHANGED lastSyncedBlock
      PROVE  SyncedIn'
  <2>1. treeLength' \in 0..Count /\ treeLength <= treeLength'
    BY <1>1, <1>7, ListenerFacts
  <2>2. treeLength' \in Nat
    BY <2>1, Numbers
  <2>3. UNCHANGED lastSyncedBlock
    BY <1>7
  <2> QED
    BY <1>5, <2>1, <2>2, <2>3, Zenon
<1>8. ASSUME Mine \/ Listen \/ LiveEvents \/ UNCHANGED vars
      PROVE  SyncedIn'
  <2>1. CASE LiveEvents /\ ~isScanning
    BY <1>7, <2>1, ChunkIsPositions DEF LiveEvents
  <2>2. CASE ~(LiveEvents /\ ~isScanning)
    BY <1>6, <1>8, <2>2 DEF Mine, Listen, LiveEvents, vars, disk, tree
  <2> QED
    BY <2>1, <2>2
<1>9. ASSUME NEW c \in Caller, ScanCall(c) \/ ScanStep(c) PROVE SyncedIn'
  <2>1. CASE QuickCommitments(c) \/ ProcessShields(c) \/ ProcessTransacts(c)
    <3>1. /\ Commitments(from[c], to[c]) \in SUBSET Position
          /\ Commitments(from[c], to[c]) \intersect Shields \in SUBSET Position
          /\ Commitments(from[c], to[c]) \ Shields \in SUBSET Position
      BY ChunkIsPositions
    <3> QED
      BY <1>7, <2>1, <3>1 DEF QuickCommitments, ProcessShields, ProcessTransacts
  <2>2. CASE SetLastSyncedBlock(c)
    BY <1>1, <2>2, SetLastSyncedIn
  <2>3. CASE ScanCall(c) \/ CheckVersion(c) \/ Guard(c) \/ QuickNullifiers(c) \/ Start(c)
               \/ Fetch(c) \/ ProcessNullifiers(c) \/ CheckRoots(c) \/ Decrypt(c)
    BY <1>6, <2>3 DEF ScanCall, CheckVersion, Guard, QuickNullifiers, Start, Fetch,
         ProcessNullifiers, CheckRoots, Decrypt, disk, tree
  <2> QED
    BY <1>2, <1>9, <2>1, <2>2, <2>3 DEF ScanStep
<1>10. SyncedIn'
  BY <1>2, <1>8, <1>9 DEF Next
<1> QED
  BY <1>3, <1>4, <1>10

\* A step of a process that has old data to clear
LEMMA UpgradeLasts ==
  ASSUME Faultless, Types, Lasting, outdated, ~Crash, [Next]_vars
  PROVE  IF outdated' THEN Upgrading' ELSE SyncedIn' /\ Reach'
<1>1. NotRescanning /\ Upgrading /\ OneCaller /\ TypeOK
  BY DEF Lasting, Types
<1>2. CASE Mine \/ Listen \/ LiveEvents \/ UNCHANGED vars
  <2>1. UNCHANGED <<stage, lastSyncedBlock, outdated>>
    BY <1>2 DEF Mine, Listen, LiveEvents, vars, scan, disk
  <2> QED
    BY <1>1, <2>1 DEF Upgrading
<1>3. ASSUME NEW c \in Caller, ScanCall(c) \/ ScanStep(c) \/ ClearFail(c)
      PROVE  IF outdated' THEN Upgrading' ELSE SyncedIn' /\ Reach'
  <2>1. \A d \in Caller : d = c
    BY <1>1 DEF OneCaller
  <2>2. stage[c] \in {"idle", "version", "upgradeTree", "upgradeSynced", "upgradeVersion"}
    BY <1>1 DEF Upgrading
  <2>3. CASE ScanCall(c)
    <3>1. Goto(c, "version") /\ UNCHANGED <<lastSyncedBlock, outdated>>
      BY <2>3 DEF ScanCall, disk
    <3> QED
      BY <1>1, <2>1, <3>1, StageFacts DEF Upgrading
  <2>4. CASE CheckVersion(c)
    <3>1. Goto(c, "upgradeTree") /\ UNCHANGED <<lastSyncedBlock, outdated>>
      BY <2>4 DEF CheckVersion, disk
    <3> QED
      BY <1>1, <2>1, <3>1, StageFacts DEF Upgrading
  <2>5. CASE Clear(c)
    <3>1. \/ Goto(c, "upgradeSynced") /\ UNCHANGED <<lastSyncedBlock, outdated>>
          \/ Goto(c, "upgradeVersion") /\ lastSyncedBlock' = None /\ UNCHANGED outdated
      BY <1>1, <2>5, NobodyRescans DEF ClearTree, ClearSynced
    <3> QED
      BY <1>1, <2>1, <3>1, StageFacts DEF Upgrading
  <2>6. CASE UpgradeVersion(c)
    <3>1. /\ outdated' = FALSE /\ UNCHANGED <<lastSyncedBlock, treeLength>>
          /\ stage[c] = "upgradeVersion" /\ Goto(c, "guard")
      BY <2>6 DEF UpgradeVersion, tree
    <3>2. lastSyncedBlock' = None
      BY <1>1, <3>1 DEF Upgrading
    <3>3. \A d \in Caller : stage'[d] = "guard"
      BY <1>1, <2>1, <3>1, StageFacts
    <3>4. \A d \in Caller : CallerReach(d)'
      BY <3>3 DEF CallerReach, Slow
    <3> QED
      BY <3>1, <3>2, <3>4 DEF SyncedIn, Reach, SyncedReach
  <2>7. CASE ClearFail(c)
    <3>1. Goto(c, "idle") /\ UNCHANGED <<lastSyncedBlock, outdated>>
      BY <2>7 DEF ClearFail, Return, disk
    <3> QED
      BY <1>1, <2>1, <3>1, StageFacts DEF Upgrading
  <2>8. CASE ScanStep(c) /\ ~CheckVersion(c) /\ ~Clear(c) /\ ~UpgradeVersion(c)
    BY <2>2, <2>8 DEF ScanStep, Guard, RescanEnd, QuickNullifiers, QuickCommitments, Start,
         Fetch, ProcessShields, ProcessNullifiers, ProcessTransacts,
         SetLastSyncedBlock, CheckRoots, Decrypt
  <2> QED
    BY <1>3, <2>3, <2>4, <2>5, <2>6, <2>7, <2>8
<1>4. \A c \in Caller : ~Rescan(c) /\ ~QuickFail(c) /\ ~Fail(c)
  BY <1>1, NobodyRescans
<1> QED
  BY <1>2, <1>3, <1>4 DEF Next

\* A restart finds the tree behind the last synced block complete
LEMMA CrashLasts ==
  ASSUME Types, Lasting, Crash
  PROVE  IF outdated' THEN Upgrading' ELSE SyncedIn' /\ Reach'
<1>1. /\ UNCHANGED <<treeLength, lastSyncedBlock, outdated>>
      /\ \A c \in Caller : stage'[c] = "idle"
  BY DEF Crash, disk
<1>2. CASE outdated
  BY <1>1, <1>2 DEF Upgrading
<1>3. CASE ~outdated
  <2>1. SyncedIn
    BY <1>3 DEF Lasting
  <2>2. SyncedIn' /\ SyncedReach'
    BY <1>1, <2>1 DEF SyncedIn, SyncedReach, In
  <2>3. \A c \in Caller : CallerReach(c)'
    BY <1>1 DEF CallerReach, Slow
  <2> QED
    BY <1>1, <1>3, <2>2, <2>3 DEF Reach
<1> QED
  BY <1>2, <1>3

LEMMA NextLasts ==
  ASSUME Faultless, Types, Exclusive, Lasting, [Next]_vars
  PROVE  Lasting'
<1>1. InvalidStops' /\ NotRescanning'
  BY NextStops, NobodyRescans DEF Lasting, Types
<1>2. IF outdated' THEN Upgrading' ELSE SyncedIn' /\ Reach'
  BY CurrentLasts, UpgradeLasts, CrashLasts
<1>3. outdated' => outdated
  BY CurrentLasts, CrashLasts DEF Crash, disk
<1>4. outdated' => OneCaller
  BY <1>3 DEF Lasting
<1> QED
  BY <1>1, <1>2, <1>4 DEF Lasting, OneCaller

LEMMA InitLasts ==
  ASSUME Outdated = FALSE \/ OneCaller, Init
  PROVE  Lasting
<1>1. writeQueue = {} /\ \A c \in Caller : stage[c] = "idle"
  BY DEF Init
<1>2. InvalidStops /\ NotRescanning /\ Upgrading
  BY <1>1 DEF InvalidStops, QueueBehindTree, OnlyRefusedWait, NotRescanning, Upgrading
<1>3. CASE Outdated = FALSE
  BY <1>1, <1>2, <1>3, InitReach DEF Init, Lasting, SyncedIn
<1>4. CASE Outdated # FALSE /\ OneCaller
  BY <1>2, <1>4, SwitchesAreBoolean DEF Init, Lasting
<1> QED
  BY <1>3, <1>4

(* What has been scanned survives restarts at any moment, when no request or
   write fails in the middle of a scan: whichever roots are rejected, whichever
   events the listeners drop, with one caller that has data of an older version
   to clear (and may fail to), or any number without.                         *)
THEOREM RestartsPassNothingOver ==
  ASSUME MaxErrors = 0, MaxRescans = 0,
         Outdated = FALSE \/ \A c, d \in Caller : c = d
  PROVE  Spec => [](CommitmentsWithinReach /\ ScanReadsItsBlocks)
<1>1. Faultless /\ (Outdated = FALSE \/ OneCaller)
  BY DEF Faultless, OneCaller
<1>2. Init => Lasting /\ Exclusive
  BY <1>1, InitLasts, Stages DEF Init, Exclusive, Busy
<1>3. Types /\ Exclusive /\ Lasting /\ [Next]_vars => Lasting'
  BY <1>1, NextLasts
<1>4. Types /\ Lasting => CommitmentsWithinReach
  BY ReachIsWithin DEF Lasting, CommitmentsWithinReach, Settled
<1>5. Types /\ Lasting => ScanReadsItsBlocks
  <2>1. CASE outdated
    BY <2>1 DEF Lasting, Upgrading, ScanReadsItsBlocks
  <2> QED
    BY <2>1, ReachIsRead DEF Lasting
<1>6. Types => TypeOK
  BY DEF Types
<1> QED
  BY <1>2, <1>3, <1>4, <1>5, <1>6, InitTypes, NextTypes, NextExclusive, PTL DEF Spec
-----------------------------------------------------------------------------
(* Nullifiers.  What is in the tree or queued for it has the nullifiers of
   earlier blocks with it, but for the chunk that is being read.              *)
Reading(b) == \E c \in Caller :
  stage[c] \in {"shields", "both", "nullifiers"} /\ from[c] <= b /\ b <= to[c]

TreeRead == \A i \in Position : In(i) =>
  \A b \in Nullifiers : b < CommitmentBlock[i] => b \in nullified \/ Reading(b)

SyncedRead == (\A c \in Caller : stage[c] # "rescanSynced") /\ lastSyncedBlock # None =>
  \A b \in Nullifiers : b < lastSyncedBlock => b \in nullified

CallerRead(c) ==
  /\ stage[c] = "quickCommitments" =>
       /\ from[c] = StartScanningBlock
       /\ \A b \in Nullifiers : b <= to[c] => b \in nullified
  /\ stage[c] \in {"fetch"} \union InChunk =>
       \A b \in Nullifiers : b < from[c] /\ b <= latest[c] => b \in nullified
  /\ stage[c] \in {"transacts", "synced"} => \A b \in Nullifiers : b <= to[c] => b \in nullified
  /\ stage[c] \in {"rescanTree", "rescanSynced", "rescanEnd"} => spent["rescan"] > 0

\* Unless a root is rejected, commitments wait for those of their own chunk only
QueueServed == spent["reject"] = 0 =>
  /\ \A i \in writeQueue : treeLength < i
  /\ \A i \in writeQueue : \E c \in Caller :
       stage[c] \in {"both", "transacts"} /\ CommitmentBlock[i] <= to[c]

Read == TreeRead /\ SyncedRead /\ QueueServed /\ \A c \in Caller : CallerRead(c)

Quiet == OnlyScansWrite /\ NothingLeftOver

\* Nothing is taken back of what is spent
Dearer == \A kind \in Bounded : spent'[kind] \in Nat /\ spent[kind] <= spent'[kind]

LEMMA NullifiersAreNumbers == \A b \in Nullifiers : b \in Nat
BY EventsAreOnChain, Numbers

LEMMA SpendIsDearer ==
  ASSUME TypeOK, NEW kind \in Bounded, NEW limit, Spend(kind, limit)
  PROVE  Dearer /\ spent'[kind] > 0
BY DEF TypeOK, Spend, Dearer

LEMMA SameIsDearer == ASSUME TypeOK, UNCHANGED spent PROVE Dearer
BY DEF TypeOK, Dearer

\* With no error, the tree takes all that continues it, or a root is rejected
LEMMA UpdateRuns ==
  ASSUME TypeOK, NEW q \in SUBSET Position, NEW s, Update(q, s)
  PROVE  /\ Dearer
         /\ treeLength' \in 0..Count /\ treeLength <= treeLength'
         /\ \A i \in Position : treeLength <= i /\ i < treeLength' => i \in q
         /\ writeQueue' = {i \in q : treeLength' <= i}
         /\ spent'["error"] = 0 /\ spent'["reject"] = 0 => treeLength' \notin q
<1>1. PICK n \in treeLength..Count :
        /\ \A i \in Position : treeLength <= i /\ i < n => i \in q
        /\ treeLength' = n
        /\ writeQueue' = {i \in q : n <= i}
        /\ \/ IF n \in q THEN Spend("error", MaxErrors) ELSE UNCHANGED spent
           \/ n \in q /\ Spend("reject", MaxRejects)
  BY DEF Update
<1>2. n \in 0..Count /\ treeLength <= n
  BY <1>1, Numbers DEF TypeOK
<1>3. {"error", "reject"} \subseteq Bounded
  BY DEF Bounded
<1>4. Dearer
  BY <1>1, <1>3, SpendIsDearer, SameIsDearer
<1>5. n \in q => spent'["error"] > 0 \/ spent'["reject"] > 0
  BY <1>1, <1>3, SpendIsDearer
<1> QED
  BY <1>1, <1>2, <1>4, <1>5

LEMMA ListenerRuns ==
  ASSUME TypeOK, NEW events \in SUBSET Position, NEW s, CommitmentListener(events, s)
  PROVE  /\ Dearer
         /\ \A i \in Position : In(i)' => In(i) \/ i \in events
         /\ (spent'["error"] = 0 /\ spent'["reject"] = 0 /\ \A i \in writeQueue : treeLength < i)
              => \A i \in writeQueue' :
                   /\ i \in Position /\ (i \in writeQueue \/ i \in events)
                   /\ treeLength' \in Position /\ treeLength' < i
                   /\ ~In(treeLength') /\ treeLength' \notin events
<1>1. treeLength \in Nat /\ writeQueue \subseteq Position
  BY Numbers DEF TypeOK
<1>2. \A i, j \in Nat : i \in Position /\ j < i => j \in Position
  BY Numbers DEF Position
<1>3. CASE events = {}
  <2>1. UNCHANGED <<treeLength, writeQueue, spent>>
    BY <1>3 DEF CommitmentListener, tree
  <2>2. Dearer
    BY <2>1, SameIsDearer
  <2>3. \A i \in writeQueue : i \in Position /\ i \in Nat
    BY <1>1, Numbers
  <2> QED
    BY <1>1, <1>2, <1>3, <2>1, <2>2, <2>3 DEF In
<1>4. CASE events # {}
  <2> DEFINE q == writeQueue \union NotInTree(events)
  <2>1. q \in SUBSET Position
    BY DEF TypeOK, NotInTree
  <2>2. Update(q, s)
    BY <1>4 DEF CommitmentListener
  <2>3. \A i : i \in q <=> i \in writeQueue \/ (i \in events /\ treeLength <= i)
    BY DEF NotInTree
  <2> HIDE DEF q
  <2>4. /\ Dearer
        /\ treeLength' \in Nat /\ treeLength <= treeLength'
        /\ \A i \in Position : treeLength <= i /\ i < treeLength' => i \in q
        /\ writeQueue' = {i \in q : treeLength' <= i}
        /\ spent'["error"] = 0 /\ spent'["reject"] = 0 => treeLength' \notin q
    BY <2>1, <2>2, UpdateRuns, Numbers
  <2>5. \A i \in Position : In(i)' => In(i) \/ i \in events
    <3>1. \A i \in Position : i \in Nat
      BY Numbers
    <3> QED
      BY <1>1, <2>3, <2>4, <3>1 DEF In
  <2>6. ASSUME spent'["error"] = 0, spent'["reject"] = 0, NEW i \in writeQueue'
        PROVE  /\ i \in Position /\ (i \in writeQueue \/ i \in events)
               /\ treeLength' \in Position /\ treeLength' < i
               /\ ~In(treeLength') /\ treeLength' \notin events
    <3>1. i \in q /\ treeLength' <= i /\ i \in Nat /\ treeLength' # i
      BY <2>1, <2>4, <2>6, Numbers
    <3>2. treeLength' < i /\ ~(treeLength' < treeLength)
      BY <1>1, <2>4, <3>1
    <3> QED
      BY <1>2, <2>1, <2>3, <2>4, <2>6, <3>1, <3>2 DEF In
  <2> QED
    BY <2>4, <2>5, <2>6
<1> QED
  BY <1>3, <1>4
LEMMA ReadingIsBusy == \A d \in Caller :
  stage[d] \in {"shields", "both", "nullifiers", "transacts"} => Busy(d)
BY DEF Busy, BusyStage, Guarded, Slow

\* A step of a busy caller: the others are not in a scan, before and after it
LEMMA OthersRead ==
  ASSUME TypeOK, Exclusive, NEW c \in Caller, Busy(c), NEW next, Goto(c, next),
         CallerRead(c)'
  PROVE  /\ \A d \in Caller : CallerRead(d)'
         /\ \A d \in Caller : Busy(d) => d = c
<1>1. \A d \in Caller : Busy(d) => d = c
  BY DEF Exclusive
<1>2. \A d \in Caller : d # c => stage'[d] = stage[d] /\ stage[d] \notin BusyStage
  BY <1>1, StageFacts DEF Busy
<1>3. \A d \in Caller : stage'[d] \notin BusyStage => CallerRead(d)'
  BY DEF CallerRead, BusyStage, Guarded, Slow, InChunk
<1> QED
  BY <1>1, <1>2, <1>3

\* Callers that are not in a scan yet, or leave it: nothing is read or written
LEMMA MoveRead ==
  ASSUME Types, Read, Exclusive, NEW c \in Caller,
         ScanCall(c) \/ CheckVersion(c) \/ Guard(c) \/ Rescan(c) \/ CheckRoots(c)
           \/ Decrypt(c) \/ RescanEnd(c)
  PROVE  Read' /\ Dearer
<1>1. /\ UNCHANGED <<treeLength, writeQueue, lastSyncedBlock, nullified>>
      /\ stage[c] \in {"idle", "version", "guard", "roots", "decrypt", "rescanEnd"}
  BY DEF ScanCall, CheckVersion, Guard, Rescan, CheckRoots, Decrypt, RescanEnd, disk
<1>2. \E next \in {"version", "upgradeTree", "guard", "idle", "quick", "rescanTree", "decrypt"} :
        Goto(c, next) /\ (next = "rescanTree" => Rescan(c))
  BY DEF ScanCall, CheckVersion, Guard, Rescan, CheckRoots, Decrypt, RescanEnd, Return
<1>3. /\ stage'[c] \in {"version", "upgradeTree", "guard", "idle", "quick", "rescanTree", "decrypt"}
      /\ stage'[c] = "rescanTree" => Rescan(c)
      /\ \A d \in Caller : d # c => stage'[d] = stage[d]
  BY <1>2, StageFacts DEF Types
<1>4. \A d \in Caller : d # c => Still(d)
  <2>1. \A d \in Caller : d # c => from'[d] = from[d] /\ to'[d] = to[d] /\ latest'[d] = latest[d]
    BY DEF Types, TypeOK, ScanCall, CheckVersion, Guard, Rescan, CheckRoots, Decrypt,
           RescanEnd, Return, scan
  <2> QED
    BY <1>3, <2>1 DEF Still
<1>5. Dearer /\ (Rescan(c) => spent'["rescan"] > 0)
  BY SpendIsDearer, SameIsDearer
  DEF Types, Bounded, ScanCall, CheckVersion, Guard, Rescan, CheckRoots, Decrypt, RescanEnd
<1>6. CallerRead(c)'
  BY <1>3, <1>5 DEF CallerRead, InChunk
<1>7. \A d \in Caller : CallerRead(d)'
  <2> SUFFICES ASSUME NEW d \in Caller, d # c PROVE CallerRead(d)'
    BY <1>6
  <2>1. CallerRead(d) /\ Still(d) /\ StartScanningBlock' = StartScanningBlock
    BY <1>1, <1>4 DEF Read, StartScanningBlock
  <2>2. spent["rescan"] > 0 => spent'["rescan"] > 0
    BY <1>5 DEF Dearer, Bounded, Types, TypeOK
  <2> QED
    BY <1>1, <2>1, <2>2 DEF CallerRead, Still
<1>8. \A b \in Nullifiers : Reading(b) => Reading(b)'
  BY <1>1, <1>4 DEF Reading, Still
<1>9. TreeRead' /\ SyncedRead'
  BY <1>1, <1>3, <1>8 DEF Read, TreeRead, SyncedRead, In
<1>10. QueueServed'
  <2>1. spent'["reject"] = 0 => spent["reject"] = 0
    BY <1>5 DEF Dearer, Bounded, Types, TypeOK
  <2>2. \A d \in Caller : stage[d] \in {"both", "transacts"} => Still(d)
    BY <1>1, <1>4
  <2> QED
    BY <1>1, <2>1, <2>2 DEF Read, QueueServed, Still
<1> QED
  BY <1>5, <1>7, <1>9, <1>10 DEF Read
\* What the tree starts a scan from is read, while nobody is reading
LEMMA StartIsRead ==
  ASSUME Types, Read, NEW b \in Nullifiers, b < StartScanningBlock, ~Reading(b)
  PROVE  b \in nullified
<1>1. treeLength # 0
  BY NullifiersAreNumbers DEF StartScanningBlock
<1>2. /\ treeLength - 1 \in Position /\ In(treeLength - 1)
      /\ b < CommitmentBlock[treeLength - 1]
  BY <1>1, Numbers DEF Types, TypeOK, Position, In, StartScanningBlock
<1> QED
  BY <1>2 DEF Read, TreeRead

\* Steps of a scan that write nothing
LEMMA PositionRead ==
  ASSUME Types, Read, Exclusive, NEW c \in Caller, Start(c) \/ Fetch(c)
  PROVE  Read' /\ Dearer
<1>1. UNCHANGED <<treeLength, writeQueue, lastSyncedBlock, nullified, spent>>
  BY DEF Start, Fetch, disk
<1>2. Dearer
  BY <1>1, SameIsDearer DEF Types
<1>3. Busy(c) /\ stage[c] \in {"start", "fetch"}
  BY DEF Start, Fetch, Busy, BusyStage, Guarded, Slow
<1>4. stage'[c] \in {"fetch", "shields", "roots"} /\ \A d \in Caller : d # c => stage'[d] = stage[d]
  BY StageFacts DEF Start, Fetch, Types
<1>5. CallerRead(c)'
  <2>1. CASE Start(c)
    <3>1. from'[c] = NextStartingBlock /\ stage'[c] = "fetch"
      BY <2>1, StageFacts DEF Start, Types, TypeOK
    <3>2. \A b \in Nullifiers : b < StartScanningBlock => b \in nullified
      BY <1>3, StartIsRead, ReadingIsBusy DEF Exclusive, Reading
    <3>3. \A d \in Caller : stage[d] # "rescanSynced"
      BY <1>3 DEF Exclusive, Busy, BusyStage
    <3>4. \A b \in Nullifiers : b < NextStartingBlock => b \in nullified
      BY <3>2, <3>3 DEF Read, SyncedRead, NextStartingBlock
    <3> QED
      BY <1>1, <3>1, <3>4 DEF CallerRead, InChunk
  <2>2. CASE Fetch(c)
    <3>1. stage[c] = "fetch" /\ UNCHANGED <<from, latest>> /\ stage'[c] \in {"shields", "roots"}
      BY <2>2, StageFacts DEF Fetch, Types
    <3> QED
      BY <1>1, <3>1 DEF Read, CallerRead, InChunk
  <2> QED
    BY <2>1, <2>2
<1>6. /\ \A d \in Caller : CallerRead(d)'
      /\ \A d \in Caller : Busy(d) => d = c
  <2>1. \E next : Goto(c, next)
    BY DEF Start, Fetch
  <2> QED
    BY <1>3, <1>5, <2>1, OthersRead DEF Types
<1>7. \A b : ~Reading(b)
  BY <1>3, <1>6, ReadingIsBusy DEF Reading
<1>8. TreeRead' /\ SyncedRead'
  BY <1>1, <1>3, <1>4, <1>7 DEF Read, TreeRead, SyncedRead, In
<1>9. QueueServed'
  BY <1>1, <1>3, <1>6, ReadingIsBusy DEF Read, QueueServed
<1> QED
  BY <1>2, <1>6, <1>8, <1>9 DEF Read
\* Steps that write nullifiers
LEMMA NullifierRead ==
  ASSUME Types, Read, Exclusive, NEW c \in Caller, QuickNullifiers(c) \/ ProcessNullifiers(c)
  PROVE  Read' /\ Dearer
<1>1. /\ UNCHANGED <<treeLength, writeQueue, lastSyncedBlock, spent>>
      /\ nullified \subseteq nullified'
  BY DEF QuickNullifiers, ProcessNullifiers, tree, NullifierListener
<1>2. Dearer
  BY <1>1, SameIsDearer DEF Types
<1>3. Busy(c) /\ stage[c] \in {"quick", "both", "nullifiers"}
  BY DEF QuickNullifiers, ProcessNullifiers, Busy, BusyStage, Guarded, Slow
<1>4. /\ stage'[c] \in {"quickCommitments", "transacts", "synced"}
      /\ stage[c] = "both" => stage'[c] = "transacts" /\ to'[c] = to[c]
      /\ \A d \in Caller : d # c => stage'[d] = stage[d]
  BY StageFacts DEF QuickNullifiers, ProcessNullifiers, Types
<1>5. CallerRead(c)'
  <2>1. CASE QuickNullifiers(c)
    <3>1. /\ stage[c] = "quick" /\ stage'[c] = "quickCommitments"
          /\ from'[c] = StartScanningBlock /\ to'[c] = head - QuickSyncLag
          /\ NullifierListener(StartScanningBlock, head - QuickSyncLag)
      BY <2>1, StageFacts DEF QuickNullifiers, Types, TypeOK
    <3>2. StartScanningBlock' = StartScanningBlock
      BY <1>1 DEF StartScanningBlock
    <3>3. StartScanningBlock \in Nat
      BY StartIsBlock, Numbers DEF Types
    <3>4. ASSUME NEW b \in Nullifiers, b <= to'[c] PROVE b \in nullified'
      <4>1. CASE b < StartScanningBlock
        BY <1>1, <1>3, <3>1, <4>1, StartIsRead, ReadingIsBusy DEF Exclusive, Reading
      <4>2. CASE StartScanningBlock <= b
        BY <3>1, <3>4, <4>2 DEF NullifierListener
      <4> QED
        BY <3>3, <4>1, <4>2, NullifiersAreNumbers
    <3> QED
      BY <3>1, <3>2, <3>4 DEF CallerRead, InChunk
  <2>2. CASE ProcessNullifiers(c)
    <3>1. /\ stage[c] \in InChunk /\ stage'[c] \in {"transacts", "synced"}
          /\ UNCHANGED <<from, to, latest>>
          /\ NullifierListener(from[c], to[c])
      BY <2>2, StageFacts DEF ProcessNullifiers, Types, InChunk
    <3>2. from[c] \in Nat /\ to[c] \in Nat /\ latest[c] \in Nat /\ to[c] <= latest[c]
      BY <3>1, Numbers DEF Types, TypeOK, ChunkBounds, Block
    <3>3. \A b \in Nullifiers : b < from[c] /\ b <= latest[c] => b \in nullified
      BY <3>1 DEF Read, CallerRead
    <3>4. ASSUME NEW b \in Nullifiers, b <= to[c] PROVE b \in nullified'
      <4>1. CASE b < from[c]
        BY <1>1, <3>2, <3>3, <3>4, <4>1, NullifiersAreNumbers
      <4>2. CASE from[c] <= b
        BY <3>1, <3>4, <4>2 DEF NullifierListener
      <4> QED
        BY <3>2, <4>1, <4>2, NullifiersAreNumbers
    <3> QED
      BY <1>1, <3>1, <3>3, <3>4 DEF CallerRead, InChunk
  <2> QED
    BY <2>1, <2>2
<1>6. /\ \A d \in Caller : CallerRead(d)'
      /\ \A d \in Caller : Busy(d) => d = c
  <2>1. \E next : Goto(c, next)
    BY DEF QuickNullifiers, ProcessNullifiers
  <2> QED
    BY <1>3, <1>5, <2>1, OthersRead DEF Types
<1>7. \A b \in Nullifiers : Reading(b) => b \in nullified'
  <2> SUFFICES ASSUME NEW b \in Nullifiers, Reading(b) PROVE b \in nullified'
    OBVIOUS
  <2>1. stage[c] \in {"shields", "both", "nullifiers"} /\ from[c] <= b /\ b <= to[c]
    BY <1>6, ReadingIsBusy DEF Reading
  <2>2. ProcessNullifiers(c)
    BY <2>1 DEF QuickNullifiers
  <2> QED
    BY <2>1, <2>2 DEF ProcessNullifiers, NullifierListener
<1>8. TreeRead' /\ SyncedRead'
  BY <1>1, <1>3, <1>4, <1>7 DEF Read, TreeRead, SyncedRead, In
<1>9. QueueServed'
  <2>1. \A i \in writeQueue, d \in Caller :
          stage[d] \in {"both", "transacts"} /\ CommitmentBlock[i] <= to[d]
            => stage'[c] = "transacts" /\ to'[c] = to[d]
    BY <1>3, <1>4, <1>6, ReadingIsBusy
  <2> QED
    BY <1>1, <2>1 DEF Read, QueueServed
<1> QED
  BY <1>2, <1>6, <1>8, <1>9 DEF Read

LEMMA SetLastSyncedRead ==
  ASSUME Types, Read, Exclusive, NEW c \in Caller, SetLastSyncedBlock(c)
  PROVE  Read' /\ Dearer
<1>1. /\ UNCHANGED <<treeLength, writeQueue, nullified, spent, to, latest>>
      /\ stage[c] = "synced" /\ stage'[c] = "fetch"
      /\ from'[c] = from[c] + ScanChunks + 1
      /\ lastSyncedBlock' \in {to[c], lastSyncedBlock}
  BY StageFacts DEF SetLastSyncedBlock, tree, Types, TypeOK, After, Synced
<1>2. Dearer
  BY <1>1, SameIsDearer DEF Types
<1>3. Busy(c)
  BY <1>1 DEF Busy, BusyStage, Guarded, Slow
<1>4. /\ from[c] \in Nat /\ latest[c] \in Nat /\ to[c] \in Nat /\ to[c] <= latest[c]
      /\ to[c] = latest[c] \/ to[c] = from[c] + ScanChunks
  BY <1>1, Numbers DEF Types, TypeOK, ChunkBounds, InChunk, Block
<1>5. \A b \in Nullifiers : b <= to[c] => b \in nullified
  BY <1>1 DEF Read, CallerRead
<1>6. CallerRead(c)'
  <2>1. ASSUME NEW b \in Nullifiers, b < from[c] + ScanChunks + 1, b <= latest[c]
        PROVE  b <= to[c]
    BY <1>4, <2>1, Numbers, NullifiersAreNumbers
  <2> QED
    BY <1>1, <1>5, <2>1 DEF CallerRead, InChunk
<1>7. /\ \A d \in Caller : CallerRead(d)'
      /\ \A d \in Caller : Busy(d) => d = c
  <2>1. \E next : Goto(c, next)
    BY DEF SetLastSyncedBlock
  <2> QED
    BY <1>3, <1>6, <2>1, OthersRead DEF Types
<1>8. \A d \in Caller : stage[d] \notin {"shields", "both", "nullifiers", "transacts",
                                         "rescanSynced"}
  BY <1>1, <1>7, Stages DEF Busy, BusyStage, Guarded, Slow
<1>9. TreeRead'
  BY <1>1, <1>8 DEF Read, TreeRead, In, Reading
<1>10. SyncedRead'
  <2>1. \A b \in Nullifiers : b < to[c] => b <= to[c]
    BY <1>4, NullifiersAreNumbers
  <2> QED
    BY <1>1, <1>5, <1>8, <2>1 DEF Read, SyncedRead
<1>11. QueueServed'
  BY <1>1, <1>8 DEF Read, QueueServed
<1> QED
  BY <1>2, <1>7, <1>9, <1>10, <1>11 DEF Read
\* Steps that write commitments; the nullifiers before them are stored or next
LEMMA CommitmentRead ==
  ASSUME Types, Read, Reach, Exclusive, spent'["error"] = 0, NEW c \in Caller,
         QuickCommitments(c) \/ ProcessShields(c) \/ ProcessTransacts(c)
  PROVE  Read' /\ Dearer
<1>1. /\ UNCHANGED <<nullified, lastSyncedBlock, from, to, latest>>
      /\ stage[c] \in {"quickCommitments", "shields", "both", "transacts"}
      /\ from[c] \in Nat /\ to[c] \in Int /\ latest[c] \in Nat
  BY Numbers DEF QuickCommitments, ProcessShields, ProcessTransacts, Types, TypeOK, Block
<1>2. stage'[c] = CASE stage[c] = "quickCommitments" -> "start"
                    [] stage[c] = "shields"   -> "both"
                    [] stage[c] = "both"      -> "nullifiers"
                    [] stage[c] = "transacts" -> "synced"
  BY StageFacts DEF QuickCommitments, ProcessShields, ProcessTransacts, Types
<1>3. Busy(c)
  BY <1>1 DEF Busy, BusyStage, Guarded, Slow
<1>4. /\ stage[c] = "quickCommitments" => from[c] = StartScanningBlock
      /\ stage[c] \in {"quickCommitments", "transacts"} =>
           \A b \in Nullifiers : b <= to[c] => b \in nullified
      /\ stage[c] # "quickCommitments" =>
           /\ to[c] <= latest[c]
           /\ \A b \in Nullifiers : b < from[c] /\ b <= latest[c] => b \in nullified
  BY <1>1 DEF Read, CallerRead, Types, ChunkBounds, InChunk
<1>5. CallerRead(c)'
  BY <1>1, <1>2, <1>4 DEF CallerRead, InChunk
<1>6. /\ \A d \in Caller : CallerRead(d)'
      /\ \A d \in Caller : Busy(d) => d = c
  <2>1. \E next : Goto(c, next)
    BY DEF QuickCommitments, ProcessShields, ProcessTransacts
  <2> QED
    BY <1>3, <1>5, <2>1, OthersRead DEF Types
<1>7. PICK events \in SUBSET Commitments(from[c], to[c]), s \in BOOLEAN :
        /\ CommitmentListener(events, s)
        /\ stage[c] = "quickCommitments" => events = Commitments(from[c], to[c])
        /\ stage[c] \in {"both", "transacts"} => events = Commitments(from[c], to[c]) \ Shields
  BY DEF QuickCommitments, ProcessShields, ProcessTransacts
<1>8. events \in SUBSET Position
  BY <1>7, ChunkIsPositions
<1>9. /\ Dearer
      /\ \A i \in Position : In(i)' => In(i) \/ i \in events
      /\ (spent'["error"] = 0 /\ spent'["reject"] = 0 /\ \A i \in writeQueue : treeLength < i)
           => \A i \in writeQueue' :
                /\ i \in Position /\ (i \in writeQueue \/ i \in events)
                /\ treeLength' \in Position /\ treeLength' < i
                /\ ~In(treeLength') /\ treeLength' \notin events
  BY <1>7, <1>8, ListenerRuns DEF Types
<1>10. SyncedRead'
  BY <1>1, <1>3, <1>6 DEF Read, SyncedRead, Busy, BusyStage, Guarded, Slow
<1>11. \A b \in Nullifiers : Reading(b) => from[c] <= b /\ b <= to[c] /\ stage[c] \in {"shields", "both"}
  BY <1>1, <1>6, ReadingIsBusy DEF Reading
<1>12. ASSUME NEW b \in Nullifiers, b \in nullified \/ b <= to[c]
       PROVE  b \in nullified \/ Reading(b)'
  <2>1. CASE stage[c] \in {"quickCommitments", "transacts"}
    BY <1>4, <1>12, <2>1
  <2>2. CASE stage[c] \in {"shields", "both"}
    <3>1. stage'[c] \in {"both", "nullifiers"}
      BY <1>2, <2>2
    <3>2. from[c] <= b /\ b <= to[c] => Reading(b)'
      BY <1>1, <3>1 DEF Reading
    <3>3. b < from[c] /\ b <= to[c] => b \in nullified
      BY <1>1, <1>4, <2>2, NullifiersAreNumbers
    <3> QED
      BY <1>1, <1>12, <3>2, <3>3, NullifiersAreNumbers
  <2> QED
    BY <1>1, <2>1, <2>2
<1>13. TreeRead'
  <2> SUFFICES ASSUME NEW i \in Position, In(i)', NEW b \in Nullifiers, b < CommitmentBlock[i]
               PROVE  b \in nullified \/ Reading(b)'
    BY <1>1 DEF TreeRead
  <2>1. CASE In(i)
    BY <1>11, <1>12, <2>1 DEF Read, TreeRead
  <2>2. CASE i \in events
    <3>1. CommitmentBlock[i] <= to[c]
      BY <1>7, <2>2 DEF Commitments
    <3>2. b <= to[c]
      BY <1>1, <3>1, BlocksAreNumbers, NullifiersAreNumbers
    <3> QED
      BY <1>12, <3>2
  <2> QED
    BY <1>9, <2>1, <2>2
<1>14. QueueServed'
  <2> SUFFICES ASSUME spent'["reject"] = 0, NEW i \in writeQueue'
               PROVE  /\ treeLength' < i
                      /\ stage[c] = "shields" /\ CommitmentBlock[i] <= to[c]
    BY <1>1, <1>2 DEF QueueServed
  <2>1. spent["reject"] = 0
    BY <1>9 DEF Dearer, Bounded, Types, TypeOK
  <2>2. /\ \A j \in writeQueue : treeLength < j
        /\ \A j \in writeQueue : stage[c] \in {"both", "transacts"} /\ CommitmentBlock[j] <= to[c]
    BY <1>6, <2>1, ReadingIsBusy DEF Read, QueueServed
  <2>3. /\ i \in Position /\ (i \in writeQueue \/ i \in events)
        /\ treeLength' \in Position /\ treeLength' < i
        /\ ~In(treeLength') /\ treeLength' \notin events
    BY <1>9, <2>2
  <2>4. CommitmentBlock[i] <= to[c]
    BY <1>7, <2>2, <2>3 DEF Commitments
  <2> DEFINE n == treeLength'
  <2>5. n \in Position /\ n < i /\ ~In(n) /\ n \notin events
    BY <2>3
  <2> HIDE DEF n
  <2>6. CommitmentBlock[n] <= to[c]
    <3>1. n <= i /\ CommitmentBlock[n] <= CommitmentBlock[i]
      BY <2>3, <2>5, Numbers, CommitmentsAreInOrder
    <3> QED
      BY <1>1, <2>3, <2>4, <2>5, <3>1, BlocksAreNumbers
  <2>7. CASE stage[c] = "quickCommitments"
    <3>1. CommitmentBlock[n] < from[c] => In(n)
      <4>1. treeLength = 0 => StartScanningBlock = 0
        BY DEF StartScanningBlock
      <4>2. ASSUME treeLength # 0, CommitmentBlock[n] < StartScanningBlock PROVE n < treeLength
        <5>1. treeLength - 1 \in Position /\ treeLength \in Nat /\ n \in Nat
          BY <2>5, <4>2, Numbers DEF Types, TypeOK, Position
        <5>2. CommitmentBlock[n] < CommitmentBlock[treeLength - 1]
          BY <4>2 DEF StartScanningBlock
        <5>3. ~(treeLength - 1 <= n)
          BY <2>5, <5>1, <5>2, BlocksAreNumbers, CommitmentsAreInOrder
        <5> QED
          BY <5>1, <5>3
      <4> QED
        BY <1>4, <2>5, <2>7, <4>1, <4>2, BlocksAreNumbers DEF In
    <3>2. from[c] <= CommitmentBlock[n] => n \in events
      BY <1>7, <2>5, <2>6, <2>7 DEF Commitments
    <3> QED
      BY <1>1, <2>5, <3>1, <3>2, BlocksAreNumbers
  <2>8. CASE stage[c] \in {"both", "transacts"}
    <3>1. CallerReach(c)
      BY DEF Reach
    <3>2. CommitmentBlock[n] < from[c] => In(n)
      <4>1. CommitmentBlock[n] <= latest[c]
        BY <1>1, <1>4, <2>5, <2>6, <2>8, BlocksAreNumbers
      <4> QED
        BY <2>5, <2>8, <3>1, <4>1 DEF CallerReach, Slow
    <3>3. from[c] <= CommitmentBlock[n] => n \in events \/ In(n)
      BY <1>7, <2>5, <2>6, <2>8, <3>1 DEF Commitments, CallerReach
    <3> QED
      BY <1>1, <2>5, <3>2, <3>3, BlocksAreNumbers
  <2> QED
    BY <1>1, <2>3, <2>4, <2>7, <2>8
<1> QED
  BY <1>6, <1>9, <1>10, <1>13, <1>14 DEF Read

\* A rescan that clears the tree finds no queue: no root was rejected
LEMMA ClearRead ==
  ASSUME Types, Read, Reach, Exclusive, NothingLeftOver, NEW c \in Caller, Clear(c)
  PROVE  Read' /\ Dearer
<1>1. \/ stage[c] = "rescanTree" /\ ClearTree(c, "rescanSynced")
      \/ stage[c] = "rescanSynced" /\ ClearSynced(c, "rescanEnd")
  BY DEF Clear, Reach, CallerReach
<1>2. Busy(c) /\ spent' = spent /\ writeQueue' = writeQueue
  BY <1>1, Stages DEF Busy, ClearTree, ClearSynced, tree
<1>3. Dearer
  BY <1>2, SameIsDearer DEF Types
<1>4. /\ stage[c] \in {"rescanTree", "rescanSynced"}
      /\ \E next \in {"rescanSynced", "rescanEnd"} : Goto(c, next)
  BY <1>1 DEF ClearTree, ClearSynced
<1>5. stage'[c] \in {"rescanSynced", "rescanEnd"} /\ \A d \in Caller : d # c => stage'[d] = stage[d]
  BY <1>4, StageFacts DEF Types
<1>6. spent["rescan"] > 0
  BY <1>4 DEF Read, CallerRead
<1>7. CallerRead(c)'
  BY <1>2, <1>5, <1>6 DEF CallerRead, InChunk
<1>8. /\ \A d \in Caller : CallerRead(d)'
      /\ \A d \in Caller : Busy(d) => d = c
  BY <1>2, <1>4, <1>7, OthersRead DEF Types
<1>9. writeQueue = {}
  <2>1. spent["reject"] = 0
    BY <1>6 DEF NothingLeftOver, Types, TypeOK, Bounded
  <2> QED
    BY <1>4, <1>8, <2>1, ReadingIsBusy DEF Read, QueueServed
<1>10. QueueServed'
  BY <1>2, <1>9 DEF QueueServed
<1>11. CASE ClearTree(c, "rescanSynced")
  <2>1. treeLength' = 0 /\ stage'[c] = "rescanSynced"
    BY <1>11, StageFacts DEF ClearTree, Types
  <2>2. TreeRead'
    BY <1>2, <1>9, <2>1, Numbers DEF TreeRead, In
  <2> QED
    BY <1>3, <1>8, <1>10, <2>1, <2>2 DEF Read, SyncedRead
<1>12. CASE ClearSynced(c, "rescanEnd")
  <2>1. UNCHANGED <<treeLength, nullified>> /\ lastSyncedBlock' = None
    BY <1>12 DEF ClearSynced, tree
  <2>2. \A b : ~Reading(b)
    BY <1>4, <1>8, ReadingIsBusy DEF Reading
  <2>3. TreeRead'
    BY <1>2, <2>1, <2>2 DEF Read, TreeRead, In
  <2> QED
    BY <1>3, <1>8, <1>10, <2>1, <2>3 DEF Read, SyncedRead
<1> QED
  BY <1>1, <1>11, <1>12
\* A quiet run was quiet before: what is spent stays spent, and listeners listen on
LEMMA QuietBefore ==
  ASSUME Types, Quiet', [Next]_vars
  PROVE  /\ Quiet
         /\ ~Crash /\ ~Listen /\ ~LiveEvents
         /\ \A c \in Caller : ~QuickFail(c) /\ ~Fail(c)
<1> TypeOK
  BY DEF Types
<1>1. spent'["crash"] = 0 /\ spent'["error"] = 0 /\ live' = None
  BY DEF Quiet, OnlyScansWrite
<1>2. ~Crash /\ \A c \in Caller : ~QuickFail(c) /\ ~Fail(c)
  <2>1. {"crash", "error"} \subseteq Bounded
    BY DEF Bounded
  <2> QED
    BY <1>1, <2>1, SpendIsDearer DEF Crash, QuickFail, Fail
<1>3. ~Listen /\ ~LiveEvents
  <2>1. head \in Nat /\ (live # None => live + 1 \in Nat)
    BY Numbers DEF TypeOK
  <2>2. Listen \/ LiveEvents => live' \in Nat
    BY <2>1 DEF Listen, LiveEvents
  <2> QED
    BY <1>1, <2>2, Numbers
<1>4. live = None
  BY <1>1, <1>2, <1>3
  DEF Next, ScanStep, Mine, ScanCall, Rescan, ClearFail, CheckVersion, UpgradeVersion,
      Guard, Clear, ClearTree, ClearSynced, RescanEnd, QuickNullifiers, QuickCommitments,
      Start, Fetch, ProcessShields, ProcessNullifiers, ProcessTransacts,
      SetLastSyncedBlock, CheckRoots, Decrypt, vars
<1>5. Dearer
  <2>1. ASSUME NEW c \in Caller,
               QuickCommitments(c) \/ ProcessShields(c) \/ ProcessTransacts(c)
        PROVE  Dearer
    BY <2>1, ListenerRuns, ChunkIsPositions DEF QuickCommitments, ProcessShields, ProcessTransacts
  <2>2. ASSUME NEW c \in Caller, Rescan(c) \/ ClearFail(c) PROVE Dearer
    BY <2>2, SpendIsDearer DEF Rescan, ClearFail, Bounded
  <2>3. CASE UNCHANGED spent
    BY <2>3, SameIsDearer
  <2>4. ASSUME NEW c \in Caller, ScanStep(c) PROVE UNCHANGED spent
                \/ QuickCommitments(c) \/ ProcessShields(c) \/ ProcessTransacts(c)
    BY <2>4 DEF ScanStep, CheckVersion, UpgradeVersion, Guard, Clear, ClearTree, ClearSynced,
                RescanEnd, QuickNullifiers, Start, Fetch, ProcessNullifiers,
                SetLastSyncedBlock, CheckRoots, Decrypt
  <2>5. Mine \/ UNCHANGED vars \/ (\E c \in Caller : ScanCall(c)) => UNCHANGED spent
    BY DEF Mine, vars, ScanCall
  <2> QED
    BY <1>2, <1>3, <2>1, <2>2, <2>3, <2>4, <2>5 DEF Next
<1>6. spent["crash"] = 0 /\ spent["error"] = 0
  BY <1>1, <1>5 DEF Dearer, Bounded, TypeOK
<1>7. \A kind \in {"reject", "rescan"} : spent'[kind] = 0 => spent[kind] = 0
  BY <1>5 DEF Dearer, Bounded, TypeOK
<1> QED
  BY <1>2, <1>3, <1>4, <1>6, <1>7 DEF Quiet, OnlyScansWrite, NothingLeftOver

QuietlyRead == Quiet => Reach /\ Read

LEMMA NextQuietlyRead ==
  ASSUME MaxClearErrors = 0, Types, Exclusive, QuietlyRead, [Next]_vars
  PROVE  QuietlyRead'
<1> SUFFICES ASSUME Quiet' PROVE Reach' /\ Read'
  BY DEF QuietlyRead
<1>1. /\ Reach /\ Read /\ Quiet
      /\ ~Crash /\ ~Listen /\ ~LiveEvents
      /\ \A c \in Caller : ~QuickFail(c) /\ ~Fail(c)
  BY QuietBefore DEF QuietlyRead
<1>2. Reach'
  BY <1>1, NextReach, NoClearFails DEF Types
<1>3. spent'["error"] = 0
  BY DEF Quiet, OnlyScansWrite
<1>4. CASE Mine \/ UNCHANGED vars
  <2>1. UNCHANGED <<disk, writeQueue, scan, spent>>
    BY <1>4 DEF Mine, vars
  <2> QED
    BY <1>1, <1>2, <2>1
    DEF disk, scan, Read, TreeRead, SyncedRead, QueueServed, CallerRead, Reading, In,
        StartScanningBlock
<1>5. ASSUME NEW c \in Caller, ClearFail(c) PROVE FALSE
  <2>1. spent["clearError"] \in Nat
    BY DEF Types, TypeOK, Bounded
  <2> QED
    BY <1>5, <2>1 DEF ClearFail, Spend
<1>6. ASSUME NEW c \in Caller, ScanStep(c) PROVE Read'
  <2>1. ~UpgradeVersion(c)
    BY <1>1 DEF Reach, CallerReach, UpgradeVersion
  <2> QED
    BY <1>1, <1>3, <1>6, <2>1, MoveRead, PositionRead, NullifierRead, SetLastSyncedRead,
       CommitmentRead, ClearRead DEF ScanStep, Quiet
<1>7. ASSUME NEW c \in Caller, ScanCall(c) \/ Rescan(c) PROVE Read'
  BY <1>1, <1>7, MoveRead
<1> QED
  BY <1>1, <1>2, <1>4, <1>5, <1>6, <1>7 DEF Next

LEMMA InitRead == ASSUME Init, Outdated = FALSE PROVE Read
<1>1. treeLength = 0 /\ writeQueue = {} /\ lastSyncedBlock = None
  BY DEF Init
<1>2. \A i \in Position : ~In(i)
  BY <1>1, Numbers DEF In
<1> QED
  BY <1>1, <1>2
  DEF Init, Read, TreeRead, SyncedRead, QueueServed, CallerRead, InChunk

(* As long as only scans write and none fails, no nullifier gets out of reach
   either: for any chain, chunk size, number of callers, order of scans and
   rescans, and rejected roots that no rescan follows, what is behind the block
   the next scan starts from is stored.                                       *)
THEOREM NoNullifierIsPassedOver ==
  ASSUME Outdated = FALSE, MaxClearErrors = 0
  PROVE  Spec => []NullifiersWithinReach
<1>1. Types /\ Exclusive /\ QuietlyRead => NullifiersWithinReach
  <2> SUFFICES ASSUME Types, Exclusive, QuietlyRead, Quiet, ~isScanning, Settled,
                      NEW b \in Nullifiers, b < NextStartingBlock
               PROVE  b \in nullified
    BY DEF NullifiersWithinReach, NullifiersBehind, Quiet
  <2>1. Read /\ SyncedRead
    BY DEF QuietlyRead, Read
  <2>2. lastSyncedBlock # None /\ b < lastSyncedBlock => b \in nullified
    BY <2>1 DEF SyncedRead, Settled
  <2>3. ~Reading(b)
    BY ReadingIsBusy DEF Reading, Exclusive
  <2>4. b < StartScanningBlock => b \in nullified
    BY <2>1, <2>3, StartIsRead
  <2> QED
    BY <2>2, <2>4 DEF NextStartingBlock
<1>2. Init => Exclusive /\ QuietlyRead
  BY InitRead, InitReach, Stages DEF Init, Exclusive, Busy, QuietlyRead
<1>3. Types /\ Exclusive /\ QuietlyRead /\ [Next]_vars => QuietlyRead'
  BY NextQuietlyRead
<1>4. Types => TypeOK
  BY DEF Types
<1> QED
  BY <1>1, <1>2, <1>3, <1>4, InitTypes, NextTypes, NextExclusive, PTL DEF Spec
-----------------------------------------------------------------------------
InProgress == isScanning => \E c \in Caller : Busy(c)

\* A caller that was busy stays so, and isScanning stays as it was
LEMMA StaysInProgress ==
  ASSUME TypeOK, InProgress, NEW c \in Caller, NEW next, Goto(c, next),
         isScanning' = isScanning, Busy(c) => next \in BusyStage
  PROVE  InProgress'
<1>1. stage'[c] = next /\ \A d \in Caller : d # c => stage'[d] = stage[d]
  BY StageFacts
<1>2. \A d \in Caller : Busy(d) => Busy(d)'
  BY <1>1 DEF Busy
<1> QED
  BY <1>2 DEF InProgress

LEMMA BecomesBusy ==
  ASSUME TypeOK, NEW c \in Caller, NEW next \in BusyStage, Goto(c, next)
  PROVE  InProgress'
BY StageFacts DEF InProgress, Busy

LEMMA NextInProgress ==
  ASSUME MaxClearErrors = 0, TypeOK, InProgress, [Next]_vars
  PROVE  InProgress'
<1>1. CASE Mine \/ Listen \/ LiveEvents \/ UNCHANGED vars
  <2>1. stage' = stage /\ isScanning' = isScanning
    BY <1>1 DEF Mine, Listen, LiveEvents, vars, scan
  <2> QED
    BY <2>1 DEF InProgress, Busy
<1>2. ASSUME isScanning' = FALSE PROVE InProgress'
  BY <1>2 DEF InProgress
<1>3. ASSUME NEW c \in Caller, ClearFail(c) PROVE FALSE
  <2>1. spent["clearError"] \in Nat
    BY DEF TypeOK, Bounded
  <2> QED
    BY <1>3, <2>1 DEF ClearFail, Spend
<1>4. ASSUME NEW c \in Caller, ScanCall(c) \/ CheckVersion(c) \/ UpgradeVersion(c)
      PROVE  InProgress'
  <2>1. ~Busy(c) /\ isScanning' = isScanning /\ \E next : Goto(c, next)
    BY <1>4, Stages DEF ScanCall, CheckVersion, UpgradeVersion, Busy
  <2> QED
    BY <2>1, StaysInProgress
<1>5. ASSUME NEW c \in Caller, Guard(c) PROVE InProgress'
  <2>1. CASE isScanning
    <3>1. ~Busy(c) /\ isScanning' = isScanning /\ Goto(c, "idle")
      BY <1>5, <2>1, Stages DEF Guard, Busy, TypeOK
    <3> QED
      BY <3>1, StaysInProgress
  <2>2. CASE ~isScanning
    <3>1. Goto(c, "quick") /\ "quick" \in BusyStage
      BY <1>5, <2>2, Stages DEF Guard, Guarded
    <3> QED
      BY <3>1, BecomesBusy
  <2> QED
    BY <2>1, <2>2
<1>6. ASSUME NEW c \in Caller, Clear(c) PROVE InProgress'
  <2>1. ASSUME NEW next, ClearTree(c, next) \/ ClearSynced(c, next),
               Busy(c) => next \in BusyStage
        PROVE  InProgress'
    BY <2>1, StaysInProgress DEF ClearTree, ClearSynced
  <2> QED
    BY <1>6, <2>1, Stages DEF Clear, Busy
<1>7. ASSUME NEW c \in Caller,
             \/ QuickNullifiers(c) \/ QuickCommitments(c) \/ Start(c) \/ Fetch(c)
             \/ ProcessShields(c) \/ ProcessNullifiers(c) \/ ProcessTransacts(c)
             \/ SetLastSyncedBlock(c) \/ CheckRoots(c) \/ QuickFail(c) \/ Rescan(c)
      PROVE  InProgress'
  <2>1. \E next \in Guarded \union {"rescanTree"} : Goto(c, next)
    BY <1>7 DEF QuickNullifiers, QuickCommitments, Start, Fetch, ProcessShields,
                ProcessNullifiers, ProcessTransacts, SetLastSyncedBlock, CheckRoots,
                QuickFail, Rescan, Guarded, Slow
  <2> QED
    BY <2>1, Stages, BecomesBusy
<1>8. ASSUME NEW c \in Caller, RescanEnd(c) \/ Decrypt(c) \/ Fail(c) PROVE InProgress'
  BY <1>2, <1>8 DEF RescanEnd, Decrypt, Fail
<1>9. ASSUME NEW c \in Caller, ScanStep(c) \/ Rescan(c) PROVE InProgress'
  BY <1>4, <1>5, <1>6, <1>7, <1>8, <1>9 DEF ScanStep
<1>10. CASE Crash
  BY <1>2, <1>10 DEF Crash
<1> QED
  BY <1>1, <1>3, <1>4, <1>7, <1>8, <1>9, <1>10 DEF Next

(* The flag is never left behind, whatever a scan's requests and writes do, as
   long as the database clears what a rescan tells it to: while isScanning
   refuses callers, one of them is in a scan or rescan that will reset it.     *)
THEOREM FlagIsHeld ==
  ASSUME MaxClearErrors = 0
  PROVE  Spec => []ScanInProgress
<1>1. Init => InProgress
  BY DEF Init, InProgress
<1>2. InProgress => ScanInProgress
  BY DEF InProgress, ScanInProgress, Busy, BusyStage
<1>3. TypeOK /\ InProgress /\ [Next]_vars => InProgress'
  BY NextInProgress
<1> QED
  BY <1>1, <1>2, <1>3, ScanTypeCorrect, PTL DEF Spec
-----------------------------------------------------------------------------
\* A scan between two chunks starts its next one, and a scan in a chunk ends it,
\* not before the last synced block
NotBehind(c) ==
  /\ stage[c] = "fetch" => lastSyncedBlock = None \/ lastSyncedBlock <= from[c]
  /\ stage[c] \in InChunk => /\ to[c] <= from[c] + ScanChunks
                             /\ lastSyncedBlock = None \/ lastSyncedBlock <= to[c]

Forward == \A c \in Caller : NotBehind(c)

InForward == Types /\ Exclusive /\ Forward

LEMMA StillForward ==
  ASSUME NEW c \in Caller, NotBehind(c), Still(c),
         lastSyncedBlock' \in {lastSyncedBlock, None}
  PROVE  NotBehind(c)'
BY DEF NotBehind, Still

\* A step of one caller that does not write the block
LEMMA StepForward ==
  ASSUME InForward, NEW c \in Caller, \A d \in Caller : d # c => Still(d),
         NotBehind(c)', lastSyncedBlock' \in {lastSyncedBlock, None}
  PROVE  Forward'
BY StillForward DEF InForward, Forward

\* A caller that neither reads chunks nor begins to
LEMMA ElsewhereForward ==
  ASSUME NEW c \in Caller, stage'[c] # "fetch", stage'[c] \notin InChunk
  PROVE  NotBehind(c)'
BY DEF NotBehind

LEMMA StartForward ==
  ASSUME InForward, NEW c \in Caller, Start(c)
  PROVE  Forward'
<1>1. /\ stage'[c] = "fetch" /\ from'[c] = NextStartingBlock
      /\ lastSyncedBlock' = lastSyncedBlock
      /\ \A d \in Caller : d # c => Still(d)
  <2>1. stage'[c] = "fetch" /\ \A d \in Caller : d # c => stage'[d] = stage[d]
    BY StageFacts DEF Start, InForward, Types
  <2> QED
    BY <2>1 DEF Start, InForward, Types, TypeOK, Still, disk
<1>2. lastSyncedBlock # None => lastSyncedBlock <= NextStartingBlock
  <2>1. StartScanningBlock \in Nat
    BY StartIsBlock, Numbers DEF InForward, Types
  <2>2. lastSyncedBlock # None => lastSyncedBlock \in Nat
    BY Numbers DEF InForward, Types, TypeOK
  <2> QED
    BY <2>1, <2>2 DEF NextStartingBlock
<1>3. NotBehind(c)'
  BY <1>1, <1>2 DEF NotBehind, InChunk
<1> QED
  BY <1>1, <1>3, StepForward

LEMMA FetchForward ==
  ASSUME InForward, NEW c \in Caller, Fetch(c)
  PROVE  Forward'
<1>1. /\ stage[c] = "fetch" /\ UNCHANGED <<lastSyncedBlock, from>>
      /\ \A d \in Caller : d # c => Still(d)
  <2>1. \A d \in Caller : d # c => stage'[d] = stage[d]
    BY StageFacts DEF Fetch, InForward, Types
  <2> QED
    BY <2>1 DEF Fetch, InForward, Types, TypeOK, Still, disk
<1>2. from[c] \in Nat /\ latest[c] \in Nat /\ ScanChunks \in Nat
      /\ (lastSyncedBlock # None => lastSyncedBlock \in Nat)
  BY Numbers DEF InForward, Types, TypeOK
<1>3. NotBehind(c)'
  <2>1. CASE from[c] < latest[c]
    <3>1. stage'[c] = "shields" /\ to'[c] = EndBlock(c)
      BY <2>1, StageFacts DEF Fetch, InForward, Types, TypeOK
    <3>2. from[c] <= EndBlock(c) /\ EndBlock(c) <= from[c] + ScanChunks /\ EndBlock(c) \in Nat
      BY <1>2, <2>1 DEF EndBlock
    <3>3. lastSyncedBlock = None \/ lastSyncedBlock <= from[c]
      BY <1>1 DEF InForward, Forward, NotBehind
    <3> QED
      BY <1>1, <1>2, <3>1, <3>2, <3>3 DEF NotBehind
  <2>2. CASE ~(from[c] < latest[c])
    <3>1. stage'[c] = "roots"
      BY <2>2, StageFacts DEF Fetch, InForward, Types
    <3> QED
      BY <3>1, ElsewhereForward DEF InChunk
  <2> QED
    BY <2>1, <2>2
<1> QED
  BY <1>1, <1>3, StepForward

\* The only write of a block: its caller is the only one that reads chunks
LEMMA SetLastSyncedForward ==
  ASSUME InForward, NEW c \in Caller, SetLastSyncedBlock(c)
  PROVE  /\ Forward'
         /\ lastSyncedBlock # None => lastSyncedBlock <= lastSyncedBlock'
<1>1. /\ stage[c] = "synced" /\ stage'[c] = "fetch"
      /\ from'[c] = from[c] + ScanChunks + 1
      /\ lastSyncedBlock' \in {to[c], lastSyncedBlock}
      /\ \A d \in Caller : d # c => stage'[d] = stage[d]
  BY StageFacts DEF SetLastSyncedBlock, Synced, After, InForward, Types, TypeOK
<1>2. /\ from[c] \in Nat /\ to[c] \in Nat /\ ScanChunks \in Nat
      /\ lastSyncedBlock # None => lastSyncedBlock \in Nat
  BY <1>1, Numbers DEF InForward, Types, TypeOK, ChunkBounds, InChunk
<1>3. /\ to[c] <= from[c] + ScanChunks
      /\ lastSyncedBlock = None \/ lastSyncedBlock <= to[c]
  BY <1>1 DEF InForward, Forward, NotBehind, InChunk
<1>4. NotBehind(c)'
  <2>1. lastSyncedBlock' = None \/ lastSyncedBlock' <= from'[c]
    BY <1>1, <1>2, <1>3
  <2> QED
    BY <1>1, <2>1 DEF NotBehind, InChunk
<1>5. ASSUME NEW d \in Caller, d # c PROVE NotBehind(d)'
  <2>1. stage[d] \notin BusyStage
    <3>1. Busy(c)
      BY <1>1 DEF Busy, BusyStage, Guarded, Slow
    <3> QED
      BY <1>5, <3>1 DEF InForward, Exclusive, Busy
  <2>2. stage'[d] # "fetch" /\ stage'[d] \notin InChunk
    BY <1>1, <1>5, <2>1 DEF BusyStage, Guarded, Slow, InChunk
  <2> QED
    BY <2>2, ElsewhereForward
<1>6. lastSyncedBlock # None => lastSyncedBlock <= lastSyncedBlock'
  BY <1>1, <1>2, <1>3
<1> QED
  BY <1>4, <1>5, <1>6 DEF Forward

\* What a chunk consists of is processed while the chunk stays the same
LEMMA ProcessForward ==
  ASSUME InForward, NEW c \in Caller,
         ProcessShields(c) \/ ProcessNullifiers(c) \/ ProcessTransacts(c)
  PROVE  Forward'
<1>1. /\ stage[c] \in InChunk /\ \E next \in InChunk : Goto(c, next)
      /\ UNCHANGED <<lastSyncedBlock, from, to, latest>>
  BY DEF ProcessShields, ProcessNullifiers, ProcessTransacts, InChunk
<1>2. stage'[c] \in InChunk /\ \A d \in Caller : d # c => Still(d)
  BY <1>1, StageFacts DEF InForward, Types, Still
<1>3. NotBehind(c)'
  <2>1. NotBehind(c) /\ stage'[c] # "fetch"
    BY <1>2 DEF InForward, Forward, InChunk
  <2> QED
    BY <1>1, <1>2, <2>1 DEF NotBehind
<1> QED
  BY <1>1, <1>2, <1>3, StepForward

\* Whatever else a caller does keeps it away from chunks, and writes no block
LEMMA OtherForward ==
  ASSUME InForward, NEW c \in Caller,
         \/ ScanCall(c) \/ CheckVersion(c) \/ UpgradeVersion(c) \/ Guard(c) \/ Clear(c)
         \/ RescanEnd(c) \/ QuickNullifiers(c) \/ QuickCommitments(c) \/ CheckRoots(c)
         \/ Decrypt(c) \/ Rescan(c) \/ QuickFail(c) \/ Fail(c) \/ ClearFail(c)
  PROVE  Forward' /\ lastSyncedBlock' \in {lastSyncedBlock, None}
<1> DEFINE Elsewhere == {"idle", "version", "guard", "quick", "quickCommitments", "start",
                         "decrypt"} \union Clearing
<1>1. lastSyncedBlock' \in {lastSyncedBlock, None} /\ \E next \in Elsewhere : Goto(c, next)
  BY DEF ScanCall, CheckVersion, UpgradeVersion, Guard, Clear, ClearTree, ClearSynced,
         RescanEnd, QuickNullifiers, QuickCommitments, CheckRoots, Decrypt, Rescan,
         QuickFail, Fail, ClearFail, Return, Clearing, disk
<1>2. stage'[c] \in Elsewhere /\ \A d \in Caller : d # c => stage'[d] = stage[d]
  BY <1>1, StageFacts DEF InForward, Types
<1>3. \A d \in Caller : d # c => from'[d] = from[d] /\ to'[d] = to[d] /\ latest'[d] = latest[d]
  BY DEF InForward, Types, TypeOK, ScanCall, CheckVersion, UpgradeVersion, Guard, Clear,
         ClearTree, ClearSynced, RescanEnd, QuickNullifiers, QuickCommitments, CheckRoots,
         Decrypt, Rescan, QuickFail, Fail, ClearFail, Return, scan
<1>4. NotBehind(c)'
  BY <1>2, ElsewhereForward DEF InChunk, Clearing
<1> QED
  BY <1>1, <1>2, <1>3, <1>4, StepForward DEF Still

LEMMA NextForward ==
  ASSUME InForward, [Next]_vars
  PROVE  /\ Forward'
         /\ lastSyncedBlock # None /\ lastSyncedBlock' # None
              => lastSyncedBlock <= lastSyncedBlock'
<1>1. lastSyncedBlock # None => lastSyncedBlock <= lastSyncedBlock
  BY Numbers DEF InForward, Types, TypeOK
<1>2. CASE Mine \/ Listen \/ LiveEvents \/ UNCHANGED vars
  <2>1. UNCHANGED <<lastSyncedBlock, stage, from, to, latest>>
    BY <1>2 DEF Mine, Listen, LiveEvents, vars, disk, scan
  <2> QED
    BY <1>1, <2>1 DEF InForward, Forward, NotBehind
<1>3. CASE Crash
  <2>1. lastSyncedBlock' = lastSyncedBlock /\ \A c \in Caller : stage'[c] = "idle"
    BY <1>3 DEF Crash, disk
  <2> QED
    BY <1>1, <2>1, ElsewhereForward DEF Forward, InChunk
<1>4. ASSUME NEW c \in Caller, Start(c) \/ Fetch(c) PROVE Forward' /\ lastSyncedBlock' = lastSyncedBlock
  BY <1>4, StartForward, FetchForward DEF Start, Fetch, disk
<1>5. ASSUME NEW c \in Caller, ProcessShields(c) \/ ProcessNullifiers(c) \/ ProcessTransacts(c)
      PROVE  Forward' /\ lastSyncedBlock' = lastSyncedBlock
  BY <1>5, ProcessForward DEF ProcessShields, ProcessNullifiers, ProcessTransacts
<1>6. ASSUME NEW c \in Caller, SetLastSyncedBlock(c)
      PROVE  Forward' /\ (lastSyncedBlock # None => lastSyncedBlock <= lastSyncedBlock')
  BY <1>6, SetLastSyncedForward
<1>7. ASSUME NEW c \in Caller,
             \/ ScanCall(c) \/ CheckVersion(c) \/ UpgradeVersion(c) \/ Guard(c) \/ Clear(c)
             \/ RescanEnd(c) \/ QuickNullifiers(c) \/ QuickCommitments(c) \/ CheckRoots(c)
             \/ Decrypt(c) \/ Rescan(c) \/ QuickFail(c) \/ Fail(c) \/ ClearFail(c)
      PROVE  Forward' /\ lastSyncedBlock' \in {lastSyncedBlock, None}
  BY <1>7, OtherForward
<1> QED
  BY <1>1, <1>2, <1>3, <1>4, <1>5, <1>6, <1>7 DEF Next, ScanStep

(* The last synced block never goes back but to be cleared, for any chain, chunk
   size and number of callers, whatever fails: only one scan at a time reads
   chunks, so the block it started at is still no earlier than the stored one. *)
THEOREM NoBlockIsUnsynced == Spec => SyncedForward
<1>1. Init => InForward
  <2> SUFFICES ASSUME Init PROVE InForward
    OBVIOUS
  <2>1. Exclusive
    BY Stages DEF Init, Exclusive, Busy
  <2>2. Forward
    BY DEF Init, Forward, NotBehind, InChunk
  <2> QED
    BY <2>1, <2>2, InitTypes DEF InForward
<1>2. InForward /\ [Next]_vars => InForward'
  BY NextTypes, NextExclusive, NextForward DEF InForward, Types
<1>3. InForward /\ [Next]_vars =>
        [lastSyncedBlock # None /\ lastSyncedBlock' # None
           => lastSyncedBlock <= lastSyncedBlock']_vars
  BY NextForward
<1> QED
  BY <1>1, <1>2, <1>3, PTL DEF Spec, SyncedForward
=============================================================================
