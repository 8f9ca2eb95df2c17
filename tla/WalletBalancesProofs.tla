------------------------ MODULE WalletBalancesProofs ------------------------
(* What the wallet keeps of its notes, for any number of versions, trees, runs
   and readers: no note is passed over, and a cached list is current.

   The two properties do not follow by induction from themselves.  A height
   that a run of decryptBalances will store must be covered while the run still
   has it in memory (Covered, NoneMissed), and a list that will be cached must be
   current while its reader still works on it (ListsCurrent).  Both need that
   every record is that of a note of the wallet and is spent only if the
   nullifier was seen (Genuine), and that nothing of the wallet is before its
   creation (CreationFirst).                                                 *)
EXTENDS WalletBalances, FiniteSetTheorems, TLAPS

-----------------------------------------------------------------------------
(* The inductive invariant.                                                  *)

\* record rec may be that of the leaf p
IsRecordOf(rec, p) ==
  /\ \E n \in Own : Position(n) = p /\ n.version = rec.version
  /\ rec.spent => IsNullified(rec.version, p)

StoredGenuine  == \A p \in Leaf : stored[p] # None => IsRecordOf(stored[p], p)
UpdateGenuine  == update.at # "idle" => IsRecordOf(update.record, update.leaf)
ReadersGenuine ==
  \A q \in Reader : reader[q].at # "idle" =>
    \A p \in DOMAIN reader[q].txos :
      IsRecordOf([version |-> reader[q].version, spent |-> reader[q].txos[p]], p)
Genuine == StoredGenuine /\ UpdateGenuine /\ ReadersGenuine

NoneBefore(v, c) ==
  c # None => \A n \in Own : n.version = v /\ n.tree = c.tree => ~(n.index < c.index)

CreationFirst ==
  /\ \A v \in Version : NoneBefore(v, details[v].creation) /\ NoneBefore(v, clear.creation[v])
  /\ \A r \in Run : run[r].at # "idle" =>
       /\ NoneBefore(run[r].version, run[r].details.creation)
       /\ \A v \in Version : NoneBefore(v, run[r].map[v].creation)

\* the notes of version v in tree t, below index h, are stored
Covered(v, t, h) ==
  \A n \in Own : n.version = v /\ n.tree = t /\ n.index < h /\ Alone(n) => IsStored(n)

\* what a run in state x will build on
EndOf(x) == IF x.start + BatchSize < x.height THEN x.start + BatchSize ELSE x.height
RunCovered(x) ==
  /\ \A t \in Tree : Covered(x.version, t, x.details.heights[t])
  /\ Covered(x.version, x.tree, x.start)
  /\ x.at \in {"check", "commit"} => Covered(x.version, x.tree, EndOf(x))
  /\ x.at = "commit" => \A v \in Version, t \in Tree : Covered(v, t, x.map[v].heights[t])

NoneMissed ==
  ~passedOver =>
    /\ \A v \in Version, t \in Tree : Covered(v, t, details[v].heights[t])
    /\ \A r \in Run \ outrun : run[r].at \in {"batch", "check", "commit"} => RunCovered(run[r])

\* Found and IsNullified, of the records st and the nullified notes ns
FoundIn(st, v) == {p \in Leaf : st[p] # None /\ st[p].version = v}
SpentIn(ns, v, p) == \E n \in ns : n.version = v /\ Position(n) = p
Current(st, ns, v, list) ==
  DOMAIN list = FoundIn(st, v) /\ \A p \in FoundIn(st, v) : list[p] = SpentIn(ns, v, p)

\* the list of a reader in state x, as far as it is checked
ReaderCurrent(st, ns, x) ==
  /\ DOMAIN x.txos = FoundIn(st, x.version)
  /\ \A p \in FoundIn(st, x.version) \ x.left : x.txos[p] = SpentIn(ns, x.version, p)

ListsCurrent ==
  clear.at # "end" =>
    /\ \A v \in Version \ stale : cache[v] # None => Current(stored, nullified, v, cache[v])
    /\ \A q \in Reader \ late : reader[q].at # "idle" => ReaderCurrent(stored, nullified, reader[q])

IInv == TypeOK /\ Genuine /\ CreationFirst /\ NoneMissed /\ ListsCurrent

-----------------------------------------------------------------------------
(* Types.                                                                    *)

LEMMA Sizes == TreeSize \in Nat /\ TreeSize > 0 /\ BatchSize \in Nat /\ BatchSize > 0
BY SizesArePositive

LEMMA NoDetailsType == NoDetails \in Details
<1>1. [t \in Tree |-> 0] \in [Tree -> 0..TreeSize]
  BY Sizes
<1> QED BY <1>1 DEF NoDetails, Details

LEMMA NoMapType == NoMap \in Map
BY NoDetailsType DEF NoMap, Map

LEMMA NoNotesType == NoNotes \in List /\ DOMAIN NoNotes = {}
<1>1. NoNotes \in [{} -> BOOLEAN] /\ {} \in SUBSET Leaf
  BY DEF NoNotes
<1> QED BY <1>1 DEF List, NoNotes

LEMMA IdleRunType == IdleRun \in RunState
<1> DEFINE x == IdleRun
<1>1. 0 \in Tree /\ 0 \in 0..TreeSize
  BY Sizes, TreesAreCounted DEF Tree
<1>2. IdleRun \in [at : {"idle", "details", "batch", "check", "commit"}, version : Version \union {None},
          details : Details, latest : Tree, tree : Tree \union {-1}, height : 0..TreeSize,
          start : 0..TreeSize, map : Map]
  BY <1>1, NoDetailsType, NoMapType DEF IdleRun
<1>3. IdleRun.at = "idle" /\ IdleRun.start = 0 /\ IdleRun.height = 0
  BY DEF IdleRun
<1> QED BY <1>2, <1>3 DEF RunState

LEMMA IdleReaderType == IdleReader \in ReaderState
BY NoNotesType DEF IdleReader, ReaderState

LEMMA NoUpdateType == NoUpdate \in UpdateState
BY DEF NoUpdate, UpdateState

\* A list changed at one of its leaves.
LEMMA ListExcept ==
  ASSUME NEW l \in List, NEW p \in DOMAIN l, NEW b \in BOOLEAN
  PROVE  /\ [l EXCEPT ![p] = b] \in List /\ DOMAIN [l EXCEPT ![p] = b] = DOMAIN l
         /\ DOMAIN l \subseteq Leaf
<1>1. PICK S \in SUBSET Leaf : l \in [S -> BOOLEAN]
  BY DEF List
<1>2. [l EXCEPT ![p] = b] \in [S -> BOOLEAN]
  BY <1>1
<1> QED BY <1>1, <1>2 DEF List

\* The list of the notes that are stored.
LEMMA FoundType ==
  ASSUME TypeOK, NEW v \in Version
  PROVE  /\ Found(v) \subseteq Leaf
         /\ [p \in Found(v) |-> stored[p].spent] \in List
         /\ \A p \in Found(v) : stored[p] \in Record /\ stored[p].version = v
<1>1. \A p \in Found(v) : stored[p] \in Record /\ stored[p].version = v
  BY DEF Found, TypeOK
<1>2. [p \in Found(v) |-> stored[p].spent] \in [Found(v) -> BOOLEAN]
  BY <1>1 DEF Record
<1>3. Found(v) \in SUBSET Leaf
  BY DEF Found
<1> QED BY <1>1, <1>2, <1>3 DEF List

\* What a run that is under way has.
LEMMA RunType ==
  ASSUME TypeOK, NEW r \in Run
  PROVE  /\ run[r].at \in {"idle", "details", "batch", "check", "commit"}
         /\ run[r].details \in Details /\ run[r].latest \in Tree /\ run[r].tree \in Tree \union {-1}
         /\ run[r].height \in 0..TreeSize /\ run[r].start \in 0..TreeSize /\ run[r].map \in Map
         /\ run[r].version \in Version \union {None}
         /\ run[r].at # "idle" => run[r].version \in Version
         /\ run[r].at \in {"check", "commit"} \/ run[r].start < run[r].height =>
              run[r].tree \in Tree /\ run[r].start < run[r].height
<1>1. run[r] \in RunState
  BY DEF TypeOK
<1> QED BY <1>1 DEF RunState

\* The end of a batch is within the tree.
LEMMA BatchEndType ==
  ASSUME TypeOK, NEW r \in Run, run[r].start < run[r].height
  PROVE  BatchEnd(r) \in 0..TreeSize /\ run[r].start < BatchEnd(r) /\ BatchEnd(r) <= run[r].height
BY RunType, Sizes DEF BatchEnd

\* A run that is given new values, as its actions do it.
LEMMA ToType ==
  ASSUME TypeOK, NEW r \in Run, NEW x \in RunState, To(r, x)
  PROVE  run' \in [Run -> RunState] /\ run'[r] = x /\ \A s \in Run \ {r} : run'[s] = run[s]
BY DEF To, TypeOK

LEMMA InvalidateType ==
  ASSUME TypeOK, NEW q, InvalidateCommitmentsCache(q)
  PROVE  /\ cache' \in [Version -> List \union {None}] /\ stale' \subseteq Version /\ late' \subseteq Reader
         /\ cache' = [v \in Version |-> None]
         /\ \A p \in Reader \ {q} : reader[p].at # "idle" => p \in late'
         /\ late \subseteq late'
BY DEF TypeOK, InvalidateCommitmentsCache

LEMMA InitTypes == Init => TypeOK
<1> SUFFICES ASSUME Init PROVE TypeOK
  OBVIOUS
<1>1. ASSUME NEW v \in Version, NEW t \in Tree
      PROVE  Cardinality({i \in 0..(TreeSize - 1) : t * TreeSize + i < Loaded[v]}) \in 0..TreeSize
  <2> DEFINE L == {i \in 0..(TreeSize - 1) : t * TreeSize + i < Loaded[v]}
  <2>1. IsFiniteSet(0..(TreeSize - 1)) /\ Cardinality(0..(TreeSize - 1)) = TreeSize
    BY Sizes, FS_Interval
  <2>2. L \subseteq 0..(TreeSize - 1)
    OBVIOUS
  <2>3. IsFiniteSet(L) /\ Cardinality(L) <= TreeSize
    BY <2>1, <2>2, FS_Subset
  <2>4. Cardinality(L) \in Nat
    BY <2>3, FS_CardinalityType
  <2> QED BY <2>3, <2>4, Sizes
<1>2. length \in [Version -> [Tree -> 0..TreeSize]]
  BY <1>1 DEF Init
<1>3. details \in Map /\ run \in [Run -> RunState] /\ reader \in [Reader -> ReaderState] /\ update \in UpdateState
  BY NoMapType, IdleRunType, IdleReaderType, NoUpdateType DEF Init
<1>4. clear \in [at : {"idle", "clearing", "stuck", "end"}, creation : [Version -> Leaf \union {None}]]
  BY DEF Init, NoClear
<1>5. stored \in [Leaf -> Record \union {None}] /\ cache \in [Version -> List \union {None}]
  BY DEF Init
<1> QED BY <1>2, <1>3, <1>4, <1>5 DEF Init, TypeOK

\* Every action keeps the types.
LEMMA RunTypes ==
  ASSUME TypeOK, NEW r \in Run, RunStep(r) \/ (\E v \in Version : Call(r, v) \/ Refuse(r, v)) \/ Fail(r)
  PROVE  TypeOK'
<1> USE RunType
<1> DEFINE Fields == [at : {"idle", "details", "batch", "check", "commit"}, version : Version \union {None},
          details : Details, latest : Tree, tree : Tree \union {-1}, height : 0..TreeSize,
          start : 0..TreeSize, map : Map]
<1>0. run[r] \in Fields /\ IdleRun \in Fields /\ IdleRun.start = 0 /\ IdleRun.height = 0 /\ IdleRun.at = "idle"
  BY IdleRunType DEF TypeOK, RunState, IdleRun
<1>1. ASSUME NEW v \in Version, Call(r, v) PROVE TypeOK'
  <2> DEFINE x == [IdleRun EXCEPT !.at = "details", !.version = v]
  <2>1. x \in RunState
    <3>1. x \in Fields /\ x.start = 0 /\ x.height = 0 /\ x.at = "details" /\ x.version = v
      BY <1>0
    <3> HIDE DEF x
    <3> QED BY <3>1, NoneIsNone DEF RunState
  <2>2. run' \in [Run -> RunState]
    BY <1>1, <2>1, ToType DEF Call
  <2>3. events' \in Nat /\ key' \in Run \union {None}
    <3>1. key' = r /\ (events' = events \/ events' = events + 1)
      BY <1>1 DEF Call, Event
    <3>2. events \in Nat
      BY DEF TypeOK
    <3> QED BY <3>1, <3>2
  <2>4. UNCHANGED <<length, nullified, stored, details, clear, cache, reader, update, late, stale, outrun, passedOver>>
    BY <1>1 DEF Call, trees, disk, lists
  <2> QED BY <2>2, <2>3, <2>4 DEF TypeOK
<1>2. CASE ReadDetails(r)
  <2>1. PICK map \in {details, NoMap}, latest \in Tree, creation \in Leaf \union {None} :
          LET v == run[r].version
              d == map[v]
          IN /\ IF d.creation # None THEN creation = d.creation ELSE IsCreationAnswer(v, creation)
             /\ ReadsAs(map)
             /\ To(r, [IdleRun EXCEPT !.at = "batch", !.version = v, !.latest = latest,
                       !.details = [heights |-> d.heights, creation |-> creation],
                       !.tree = IF creation = None THEN -1 ELSE creation.tree - 1])
    BY <1>2 DEF ReadDetails
  <2> DEFINE d == [heights |-> map[run[r].version].heights, creation |-> creation]
             t == IF creation = None THEN -1 ELSE creation.tree - 1
             x == [IdleRun EXCEPT !.at = "batch", !.version = run[r].version, !.latest = latest,
                       !.details = d, !.tree = t]
  <2>2. run[r].version \in Version /\ run[r].version # None
    BY <1>2, <1>0 DEF ReadDetails, TypeOK, RunState
  <2>3. d \in Details
    BY <2>2, NoMapType DEF TypeOK, Map, Details
  <2>4. t \in Tree \union {-1}
    BY TreesAreCounted, NoneIsNone DEF Leaf, Tree
  <2>5. x \in Fields /\ x.start = 0 /\ x.height = 0 /\ x.at = "batch" /\ x.version = run[r].version
    <3> HIDE DEF d, t
    <3> QED BY <1>0, <2>2, <2>3, <2>4
  <2>6. x \in RunState
    <3> HIDE DEF x
    <3> QED BY <2>2, <2>5 DEF RunState
  <2>7. To(r, x)
    BY <2>1
  <2>8. run' \in [Run -> RunState]
    <3> HIDE DEF x
    <3> QED BY <2>6, <2>7, ToType
  <2> QED BY <1>2, <2>8, <2>1 DEF ReadDetails, ReadsAs, Event, TypeOK, trees, disk, lists
<1>3. CASE ScanTree(r)
  <2> DEFINE t == run[r].tree + 1
             x == [run[r] EXCEPT !.tree = t, !.start = StartScanHeight(run[r].details, t),
                             !.height = length[run[r].version][t]]
  <2>1. t \in Tree /\ run[r].version \in Version /\ run[r].at = "batch"
    BY <1>3, <1>0, TreesAreCounted DEF ScanTree, Scanned, Tree
  <2>2. StartScanHeight(run[r].details, t) \in 0..TreeSize /\ length[run[r].version][t] \in 0..TreeSize
    BY <2>1, <1>0, Sizes DEF StartScanHeight, TypeOK, Details, Leaf
  <2>3. x \in Fields /\ x.tree \in Tree /\ x.at = "batch" /\ x.version = run[r].version
    <3> HIDE DEF t
    <3> QED BY <2>1, <2>2, <1>0
  <2>4. x \in RunState
    BY <2>1, <2>3, NoneIsNone, <1>0 DEF RunState, TypeOK
  <2>5. run' \in [Run -> RunState]
    BY <2>4, <1>3, ToType DEF ScanTree
  <2> QED BY <1>3, <2>5 DEF ScanTree, TypeOK, trees, disk, lists
<1>4. CASE ScanLeaves(r)
  <2> DEFINE x == [run[r] EXCEPT !.at = "check"]
  <2>1. run[r].at = "batch" /\ run[r].start < run[r].height /\ run[r].tree \in Tree /\ run[r].version \in Version
        /\ run[r].version # None
    BY <1>4, <1>0 DEF ScanLeaves, TypeOK, RunState
  <2>2. x \in RunState
    BY <2>1, <1>0 DEF RunState
  <2>3. run' \in [Run -> RunState]
    BY <2>2, <1>4, ToType DEF ScanLeaves
  <2>4. stored' \in [Leaf -> Record \union {None}]
    BY <1>4, <2>1 DEF ScanLeaves, TypeOK, Record
  <2>5. cache' \in [Version -> List \union {None}] /\ stale' \subseteq Version /\ late' \subseteq Reader
    BY <1>4, InvalidateType DEF ScanLeaves
  <2>6. events' \in Nat /\ passedOver' \in BOOLEAN
    BY <1>4 DEF ScanLeaves, Event, TypeOK
  <2> QED BY <1>4, <2>3, <2>4, <2>5, <2>6 DEF ScanLeaves, TypeOK, trees
<1>5. ASSUME Stop(r) PROVE run' \in [Run -> RunState] /\ outrun' \subseteq Run
  <2> DEFINE v == IF r \in Regular THEN run[r].version ELSE None
             x == [IdleRun EXCEPT !.version = v]
  <2>1. x \in Fields /\ x.at = "idle" /\ x.start = 0 /\ x.height = 0
    BY <1>0
  <2>2. x \in RunState
    BY <2>1 DEF RunState
  <2>3. To(r, x)
    BY <1>5 DEF Stop
  <2> HIDE DEF x
  <2> QED BY <1>5, <2>2, <2>3, ToType DEF Stop, TypeOK
<1>6. CASE GiveUp(r)
  BY <1>6, <1>5 DEF GiveUp, TypeOK, trees, disk, lists
<1>7. CASE ReadMap(r)
  <2>1. PICK map \in {details, NoMap} :
          ReadsAs(map) /\ To(r, [run[r] EXCEPT !.at = "commit", !.map = [map EXCEPT ![run[r].version] = NoDetails]])
    BY <1>7 DEF ReadMap
  <2> DEFINE m == [map EXCEPT ![run[r].version] = NoDetails]
             x == [run[r] EXCEPT !.at = "commit", !.map = m]
  <2>2. m \in Map
    BY NoMapType, NoDetailsType DEF Map, TypeOK
  <2>3. x \in Fields /\ x.at = "commit" /\ x.version = run[r].version /\ x.tree = run[r].tree
        /\ x.start = run[r].start /\ x.height = run[r].height
    <3> HIDE DEF m
    <3> QED BY <1>0, <2>2
  <2>4. x \in RunState
    BY <1>0, <1>7, <2>3 DEF RunState, ReadMap, TypeOK
  <2>5. run' \in [Run -> RunState]
    <3>1. To(r, x)
      BY <2>1
    <3> HIDE DEF x
    <3> QED BY <3>1, <2>4, ToType
  <2> QED BY <1>7, <2>5, <2>1 DEF ReadMap, ReadsAs, Event, TypeOK, trees, disk, lists
<1>8. CASE Commit(r)
  <2> DEFINE d == [run[r].details EXCEPT !.heights[run[r].tree] = BatchEnd(r)]
             x == [run[r] EXCEPT !.at = "batch", !.details = d, !.start = BatchEnd(r), !.map = NoMap]
  <2>1. run[r].at = "commit" /\ run[r].version \in Version /\ run[r].version # None /\ run[r].tree \in Tree
        /\ run[r].start < run[r].height
    BY <1>8, <1>0 DEF Commit, TypeOK, RunState
  <2>2. BatchEnd(r) \in 0..TreeSize
    BY <2>1, BatchEndType
  <2>3. d \in Details
    <3>1. [run[r].details.heights EXCEPT ![run[r].tree] = BatchEnd(r)] \in [Tree -> 0..TreeSize]
      BY <2>2, <1>0 DEF Details
    <3> QED BY <3>1, <1>0 DEF Details
  <2>4. x \in Fields /\ x.at = "batch" /\ x.version = run[r].version /\ x.tree = run[r].tree
    <3> HIDE DEF d
    <3> QED BY <1>0, <2>2, <2>3, NoMapType
  <2>5. x \in RunState
    BY <2>1, <2>4 DEF RunState
  <2>6. run' \in [Run -> RunState]
    <3>1. To(r, x)
      BY <1>8 DEF Commit
    <3> HIDE DEF x
    <3> QED BY <3>1, <2>5, ToType
  <2>7. details' \in Map
    <3>1. details' = [run[r].map EXCEPT ![run[r].version] = d]
      BY <1>8 DEF Commit
    <3> HIDE DEF d
    <3> QED BY <3>1, <2>3, <1>0 DEF Map
  <2> QED BY <1>8, <2>6, <2>7 DEF Commit, TypeOK, trees, lists
<1>9. CASE Finish(r)
  BY <1>9, <1>5 DEF Finish, TypeOK, trees, disk, lists
<1>10. CASE Fail(r)
  BY <1>10, <1>5 DEF Fail, Event, TypeOK, trees, disk, lists
<1>11. ASSUME NEW v \in Version, Refuse(r, v) PROVE TypeOK'
  <2> DEFINE x == [IdleRun EXCEPT !.version = v]
  <2>1. x \in Fields /\ x.at = "idle" /\ x.start = 0 /\ x.height = 0
    BY <1>0
  <2>2. To(r, x)
    BY <1>11 DEF Refuse
  <2> HIDE DEF x
  <2>3. run' \in [Run -> RunState]
    <3>1. x \in RunState
      BY <2>1 DEF RunState
    <3> QED BY <2>2, <3>1, ToType
  <2> QED BY <1>11, <2>3 DEF Refuse, TypeOK, trees, disk, lists
<1> QED BY <1>1, <1>2, <1>3, <1>4, <1>6, <1>7, <1>8, <1>9, <1>10, <1>11 DEF RunStep

LEMMA ReaderTypes ==
  ASSUME TypeOK, NEW q \in Reader, ReadStep(q) \/ \E v \in Version : QueryStored(q, v)
  PROVE  TypeOK'
<1> DEFINE Fields == [at : {"idle", "notes"}, version : Version \union {None}, txos : List, left : SUBSET Leaf]
<1>0. /\ reader[q] \in Fields /\ reader \in [Reader -> ReaderState]
      /\ reader[q].at # "idle" => reader[q].version # None /\ reader[q].left \subseteq DOMAIN reader[q].txos
  <2>1. reader[q] \in ReaderState /\ reader \in [Reader -> ReaderState]
    BY DEF TypeOK
  <2> QED BY <2>1 DEF ReaderState
<1>1. ASSUME NEW v \in Version, QueryStored(q, v) PROVE TypeOK'
  <2> DEFINE x == [at |-> "notes", version |-> v, left |-> Found(v),
                   txos |-> [p \in Found(v) |-> stored[p].spent]]
  <2>1. x \in Fields /\ x.version = v /\ x.left = DOMAIN x.txos
    BY FoundType
  <2>2. x \in ReaderState
    <3> HIDE DEF x
    <3> QED BY <2>1, NoneIsNone DEF ReaderState
  <2>3. reader' = [reader EXCEPT ![q] = x]
    BY <1>1 DEF QueryStored
  <2>4. reader' \in [Reader -> ReaderState]
    <3> HIDE DEF x
    <3> QED BY <1>0, <2>2, <2>3
  <2>5. events' \in Nat
    <3>1. events' = events + 1 /\ events \in Nat
      BY <1>1 DEF QueryStored, Event, TypeOK
    <3> QED BY <3>1
  <2> QED BY <1>1, <2>4, <2>5 DEF QueryStored, TypeOK, trees, disk
<1>2. ASSUME NEW p \in Leaf, CheckSpent(q, p) PROVE TypeOK'
  <2> DEFINE v == reader[q].version
  <2>1. reader[q].at = "notes" /\ p \in reader[q].left /\ v \in Version /\ p \in DOMAIN reader[q].txos
    BY <1>2, <1>0 DEF CheckSpent
  <2>2. CASE ~reader[q].txos[p] /\ IsNullified(v, p)
    <3> DEFINE l == [reader[q].txos EXCEPT ![p] = TRUE]
               x == [reader[q] EXCEPT !.left = @ \ {p}, !.txos = l]
    <3>1. l \in List /\ DOMAIN l = DOMAIN reader[q].txos
      BY <2>1, <1>0, ListExcept
    <3>2. x \in Fields /\ x.version = v /\ x.left \subseteq DOMAIN x.txos
      <4> HIDE DEF l
      <4> QED BY <3>1, <1>0, <2>1
    <3>3. x \in ReaderState
      <4> HIDE DEF x
      <4> QED BY <3>2, <2>1, NoneIsNone DEF ReaderState
    <3>4. reader' = [reader EXCEPT ![q] = x]
      BY <1>2, <2>2, <1>0 DEF CheckSpent
    <3>5. reader' \in [Reader -> ReaderState]
      <4> HIDE DEF x
      <4> QED BY <1>0, <3>3, <3>4
    <3>6. stored' \in [Leaf -> Record \union {None}]
      <4>1. stored' = [stored EXCEPT ![p] = [version |-> v, spent |-> TRUE]]
        BY <1>2, <2>2 DEF CheckSpent
      <4>2. [version |-> v, spent |-> TRUE] \in Record
        BY <2>1 DEF Record
      <4> QED BY <4>1, <4>2 DEF TypeOK
    <3>7. cache' \in [Version -> List \union {None}] /\ stale' \subseteq Version /\ late' \subseteq Reader
      BY <1>2, <2>2, InvalidateType DEF CheckSpent
    <3> QED BY <1>2, <3>5, <3>6, <3>7 DEF CheckSpent, TypeOK, trees
  <2>3. CASE ~(~reader[q].txos[p] /\ IsNullified(v, p))
    <3> DEFINE x == [reader[q] EXCEPT !.left = @ \ {p}]
    <3>1. x \in Fields /\ x.version = v /\ x.left \subseteq DOMAIN x.txos
      BY <1>0, <2>1
    <3>2. x \in ReaderState
      <4> HIDE DEF x
      <4> QED BY <3>1, <2>1, NoneIsNone DEF ReaderState
    <3>3. reader' = [reader EXCEPT ![q] = x] /\ UNCHANGED <<stored, cache, late, stale>>
      BY <1>2, <2>3, <1>0 DEF CheckSpent
    <3>4. reader' \in [Reader -> ReaderState]
      <4> HIDE DEF x
      <4> QED BY <1>0, <3>2, <3>3
    <3> QED BY <1>2, <3>3, <3>4 DEF CheckSpent, TypeOK, trees
  <2> QED BY <2>2, <2>3
<1>3. CASE FillCache(q)
  <2>1. reader' \in [Reader -> ReaderState]
    BY <1>3, <1>0, IdleReaderType DEF FillCache
  <2>2. cache' \in [Version -> List \union {None}] /\ stale' \subseteq Version /\ late' \subseteq Reader
    BY <1>3, <1>0 DEF FillCache, TypeOK
  <2> QED BY <1>3, <2>1, <2>2 DEF FillCache, TypeOK, trees, disk
<1> QED BY <1>1, <1>2, <1>3 DEF ReadStep

LEMMA OtherTypes ==
  ASSUME TypeOK,
         \/ AddLeaf \/ Nullify \/ StartClear \/ ClearStep \/ FailClear
         \/ ReadForPOIs \/ WritePOIs \/ Restart \/ UNCHANGED vars
  PROVE  TypeOK'
<1>0. ASSUME Event PROVE events' \in Nat
  <2>1. events' = events + 1 /\ events \in Nat
    BY <1>0 DEF Event, TypeOK
  <2> QED BY <2>1
<1>1. CASE AddLeaf
  <2>1. PICK v \in Version, t \in Tree : length[v][t] < TreeSize /\ length' = [length EXCEPT ![v][t] = @ + 1]
    BY <1>1 DEF AddLeaf
  <2>2. [length[v] EXCEPT ![t] = @ + 1] \in [Tree -> 0..TreeSize]
    BY <2>1, Sizes DEF TypeOK
  <2>3. length' \in [Version -> [Tree -> 0..TreeSize]]
    BY <2>1, <2>2 DEF TypeOK
  <2> QED BY <1>1, <2>3 DEF AddLeaf, TypeOK, disk, lists
<1>2. CASE Nullify
  <2>1. cache' \in [Version -> List \union {None}] /\ stale' \subseteq Version /\ late' \subseteq Reader
    BY <1>2, InvalidateType DEF Nullify
  <2>2. nullified' \subseteq Own
    BY <1>2 DEF Nullify, TypeOK
  <2> QED BY <1>2, <2>1, <2>2 DEF Nullify, TypeOK, disk
<1>3. CASE StartClear
  <2>1. PICK map \in {details, NoMap} : clear' = [at |-> "clearing", creation |-> [v \in Version |-> map[v].creation]]
    BY <1>3 DEF StartClear
  <2>2. map \in Map
    BY NoMapType DEF TypeOK
  <2>3. clear' \in [at : {"idle", "clearing", "stuck", "end"}, creation : [Version -> Leaf \union {None}]]
    BY <2>1, <2>2 DEF Map, Details
  <2> QED BY <1>3, <1>0, <2>3 DEF StartClear, TypeOK, trees, disk, lists
<1>4. CASE ClearNamespace
  <2>1. clear' \in [at : {"idle", "clearing", "stuck", "end"}, creation : [Version -> Leaf \union {None}]]
    BY <1>4 DEF ClearNamespace, TypeOK
  <2>2. outrun' \subseteq Run /\ stored' \in [Leaf -> Record \union {None}] /\ details' \in Map
    BY <1>4, NoMapType DEF ClearNamespace
  <2> QED BY <1>4, <2>1, <2>2 DEF ClearNamespace, TypeOK, trees, lists
<1>5. CASE EndClear
  <2>1. cache' \in [Version -> List \union {None}] /\ stale' \subseteq Version /\ late' \subseteq Reader
    BY <1>5, InvalidateType DEF EndClear
  <2>2. \A v \in Version : [NoDetails EXCEPT !.creation = clear.creation[v]] \in Details
    BY NoDetailsType DEF TypeOK, Details
  <2>3. details' \in Map
    BY <1>5, <2>2 DEF EndClear, Map
  <2>4. clear' \in [at : {"idle", "clearing", "stuck", "end"}, creation : [Version -> Leaf \union {None}]]
    BY <1>5 DEF EndClear, NoClear
  <2> QED BY <1>5, <2>1, <2>3, <2>4 DEF EndClear, TypeOK, trees
<1>6. CASE ReadForPOIs
  <2>1. PICK p \in Leaf : stored[p] # None /\ update' = [at |-> "write", leaf |-> p, record |-> stored[p]]
    BY <1>6 DEF ReadForPOIs
  <2>2. stored[p] \in Record /\ p # None
    BY <2>1, NoneIsNone DEF TypeOK
  <2>3. update' \in UpdateState
    BY <2>1, <2>2 DEF UpdateState
  <2> QED BY <1>6, <1>0, <2>3 DEF ReadForPOIs, TypeOK, trees, disk
<1>7. CASE WritePOIs
  <2>1. cache' \in [Version -> List \union {None}] /\ stale' \subseteq Version /\ late' \subseteq Reader
    BY <1>7, InvalidateType DEF WritePOIs
  <2>2. update.leaf \in Leaf /\ update.record \in Record
    BY <1>7 DEF WritePOIs, TypeOK, UpdateState
  <2>3. stored' \in [Leaf -> Record \union {None}]
    BY <1>7, <2>2 DEF WritePOIs, TypeOK
  <2> QED BY <1>7, <2>1, <2>3, NoUpdateType DEF WritePOIs, TypeOK, trees
<1>8. CASE Restart
  <2>1. run' \in [Run -> RunState] /\ reader' \in [Reader -> ReaderState] /\ update' \in UpdateState
    BY <1>8, IdleRunType, IdleReaderType, NoUpdateType DEF Restart
  <2>2. clear' \in [at : {"idle", "clearing", "stuck", "end"}, creation : [Version -> Leaf \union {None}]]
        /\ cache' \in [Version -> List \union {None}]
    BY <1>8 DEF Restart, NoClear
  <2> QED BY <1>8, <1>0, <2>1, <2>2 DEF Restart, TypeOK, trees, disk
<1>9. CASE UNCHANGED vars
  BY <1>9 DEF TypeOK, vars, trees, disk, lists
<1>10. CASE FailClearNamespace
  <2>1. stored' \in [Leaf -> Record \union {None}] /\ details' \in Map
    BY <1>10, NoMapType DEF FailClearNamespace, TypeOK
  <2>2. stale' \subseteq Version /\ late' \subseteq Reader /\ passedOver' \in BOOLEAN
    BY <1>10 DEF FailClearNamespace, LeaveCaches, TypeOK
  <2>3. clear' \in [at : {"idle", "clearing", "stuck", "end"}, creation : [Version -> Leaf \union {None}]]
    BY <1>10 DEF FailClearNamespace, NoClear
  <2>4. events' \in Nat /\ UNCHANGED <<trees, key, run, cache, reader, update, outrun>>
    BY <1>0, <1>10 DEF FailClearNamespace
  <2> QED BY <2>1, <2>2, <2>3, <2>4 DEF TypeOK, trees
<1>11. CASE FailEndClear
  <2>1. stale' \subseteq Version /\ late' \subseteq Reader
    BY <1>11 DEF FailEndClear, LeaveCaches
  <2>2. clear' \in [at : {"idle", "clearing", "stuck", "end"}, creation : [Version -> Leaf \union {None}]]
    BY <1>11 DEF FailEndClear, NoClear
  <2>3. events' \in Nat /\ UNCHANGED <<trees, disk, key, run, cache, reader, update, outrun, passedOver>>
    BY <1>0, <1>11 DEF FailEndClear
  <2> QED BY <2>1, <2>2, <2>3 DEF TypeOK, trees, disk
<1> QED BY <1>1, <1>2, <1>3, <1>4, <1>5, <1>6, <1>7, <1>8, <1>9, <1>10, <1>11 DEF ClearStep, FailClear

LEMMA NextTypes == TypeOK /\ [Next]_vars => TypeOK'
BY RunTypes, ReaderTypes, OtherTypes DEF Next

\* Every value of the variables is of its type, in every run of the wallet.
THEOREM WalletTypes == Spec => []TypeOK
BY InitTypes, NextTypes, PTL DEF Spec

-----------------------------------------------------------------------------
(* Every record is that of a note.                                           *)

LEMMA NullifiedGrows == TypeOK /\ [Next]_vars => nullified \subseteq nullified'
BY DEF Next, vars, trees, disk, lists, AddLeaf, Nullify, Call, Refuse, FailClear, FailClearNamespace, FailEndClear, RunStep, ReadDetails, ScanTree, ScanLeaves, GiveUp,
       ReadMap, Commit, Finish, Fail, StartClear, ClearStep, ClearNamespace, EndClear, QueryStored, ReadStep,
       CheckSpent, FillCache, ReadForPOIs, WritePOIs, Restart

\* A record that is kept stays that of a note.
LEMMA RecordStays ==
  ASSUME NEW rec, NEW p, IsRecordOf(rec, p), nullified \subseteq nullified'
  PROVE  /\ \E n \in Own : Position(n) = p /\ n.version = rec.version
         /\ rec.spent => \E n \in nullified' : n.version = rec.version /\ Position(n) = p
BY DEF IsRecordOf, IsNullified

LEMMA StoredGenuineStays ==
  ASSUME StoredGenuine, UNCHANGED stored, nullified \subseteq nullified'
  PROVE  StoredGenuine'
<1> SUFFICES ASSUME NEW p \in Leaf, stored[p] # None PROVE IsRecordOf(stored[p], p)'
  BY DEF StoredGenuine
<1> QED BY RecordStays DEF StoredGenuine, IsRecordOf, IsNullified

LEMMA UpdateGenuineStays ==
  ASSUME UpdateGenuine, UNCHANGED update, nullified \subseteq nullified'
  PROVE  UpdateGenuine'
BY RecordStays DEF UpdateGenuine, IsRecordOf, IsNullified

LEMMA ReadersGenuineStays ==
  ASSUME ReadersGenuine, UNCHANGED reader, nullified \subseteq nullified'
  PROVE  ReadersGenuine'
<1> SUFFICES ASSUME NEW q \in Reader, reader[q].at # "idle", NEW p \in DOMAIN reader[q].txos
             PROVE  IsRecordOf([version |-> reader[q].version, spent |-> reader[q].txos[p]], p)'
  BY DEF ReadersGenuine
<1> QED BY RecordStays DEF ReadersGenuine, IsRecordOf, IsNullified

LEMMA InitGenuine == Init => Genuine
BY DEF Init, Genuine, StoredGenuine, UpdateGenuine, ReadersGenuine, NoUpdate, IdleReader

LEMMA GenuineInductive ==
  ASSUME TypeOK, Genuine, [Next]_vars
  PROVE  Genuine'
<1>0. nullified \subseteq nullified'
  BY NullifiedGrows
<1>1. CASE /\ UNCHANGED <<update, reader>>
           /\ UNCHANGED stored \/ (\E r \in Run : ScanLeaves(r)) \/ ClearNamespace \/ FailClearNamespace
  <2>1. UpdateGenuine' /\ ReadersGenuine'
    BY <1>0, <1>1, UpdateGenuineStays, ReadersGenuineStays DEF Genuine
  <2>2. CASE UNCHANGED stored
    BY <1>0, <2>1, <2>2, StoredGenuineStays DEF Genuine
  <2>3. ASSUME NEW r \in Run, ScanLeaves(r) PROVE StoredGenuine'
    <3> SUFFICES ASSUME NEW p \in Leaf, stored'[p] # None PROVE IsRecordOf(stored[p], p)'
      BY DEF StoredGenuine
    <3>0. PICK failed : stored' = [l \in Leaf |-> IF l \in Decrypted(r, failed)
                                                  THEN [version |-> run[r].version, spent |-> FALSE]
                                                  ELSE stored[l]]
      BY <2>3 DEF ScanLeaves
    <3>1. CASE p \in Decrypted(r, failed)
      <4>1. stored'[p] = [version |-> run[r].version, spent |-> FALSE]
        BY <3>0, <3>1
      <4>2. \E n \in Own : Position(n) = p /\ n.version = run[r].version
        BY <3>1 DEF Decrypted, InBatch
      <4> QED BY <4>1, <4>2 DEF IsRecordOf
    <3>2. CASE p \notin Decrypted(r, failed)
      <4>1. stored'[p] = stored[p]
        BY <3>0, <3>2
      <4>2. IsRecordOf(stored[p], p)
        BY <4>1 DEF Genuine, StoredGenuine
      <4> QED BY <1>0, <4>1, <4>2, RecordStays DEF IsRecordOf, IsNullified
    <3> QED BY <3>1, <3>2
  <2>4. CASE ClearNamespace
    BY <2>1, <2>4 DEF ClearNamespace, Genuine, StoredGenuine
  <2>5. ASSUME FailClearNamespace PROVE StoredGenuine'
    <3> SUFFICES ASSUME NEW p \in Leaf, stored'[p] # None PROVE IsRecordOf(stored[p], p)'
      BY DEF StoredGenuine
    <3>1. stored'[p] = stored[p]
      BY <2>5 DEF FailClearNamespace
    <3>2. IsRecordOf(stored[p], p)
      BY <3>1 DEF Genuine, StoredGenuine
    <3> QED BY <1>0, <3>1, <3>2, RecordStays DEF IsRecordOf, IsNullified
  <2> QED BY <1>1, <2>1, <2>2, <2>3, <2>4, <2>5 DEF Genuine
<1>2. CASE ReadForPOIs
  <2>1. PICK p \in Leaf : stored[p] # None /\ update' = [at |-> "write", leaf |-> p, record |-> stored[p]]
    BY <1>2 DEF ReadForPOIs
  <2>2. UpdateGenuine'
    BY <1>0, <2>1, RecordStays DEF Genuine, StoredGenuine, UpdateGenuine, IsRecordOf, IsNullified
  <2> QED BY <1>0, <1>2, <2>2, StoredGenuineStays, ReadersGenuineStays DEF ReadForPOIs, Genuine, disk
<1>3. CASE WritePOIs
  <2>1. UpdateGenuine' /\ ReadersGenuine'
    BY <1>0, <1>3, ReadersGenuineStays DEF WritePOIs, Genuine, UpdateGenuine, NoUpdate
  <2>2. ASSUME NEW p \in Leaf, stored'[p] # None PROVE IsRecordOf(stored[p], p)'
    <3>1. CASE p = update.leaf
      <4>1. stored'[p] = update.record /\ IsRecordOf(update.record, p)
        BY <1>3, <3>1 DEF WritePOIs, Genuine, UpdateGenuine, TypeOK
      <4> QED BY <1>0, <4>1, RecordStays DEF IsRecordOf, IsNullified
    <3>2. CASE p # update.leaf
      <4>1. stored'[p] = stored[p]
        BY <1>3, <3>2 DEF WritePOIs, TypeOK
      <4>2. IsRecordOf(stored[p], p)
        BY <2>2, <4>1 DEF Genuine, StoredGenuine
      <4> QED BY <1>0, <4>1, <4>2, RecordStays DEF IsRecordOf, IsNullified
    <3> QED BY <3>1, <3>2
  <2> QED BY <2>1, <2>2 DEF Genuine, StoredGenuine
<1>4. CASE Restart
  BY <1>0, <1>4, StoredGenuineStays
  DEF Restart, Genuine, UpdateGenuine, ReadersGenuine, NoUpdate, IdleReader, disk
<1>5. ASSUME NEW q \in Reader, NEW v \in Version, QueryStored(q, v) PROVE Genuine'
  <2>1. reader' = [reader EXCEPT ![q] = [at |-> "notes", version |-> v, left |-> Found(v),
                                         txos |-> [p \in Found(v) |-> stored[p].spent]]]
    BY <1>5 DEF QueryStored
  <2>2. ASSUME NEW s \in Reader, reader'[s].at # "idle", NEW p \in DOMAIN reader'[s].txos
        PROVE  IsRecordOf([version |-> reader[s].version, spent |-> reader[s].txos[p]], p)'
    <3>1. CASE s = q
      <4>1. p \in Found(v) /\ reader'[s].version = v /\ reader'[s].txos[p] = stored[p].spent
        BY <2>1, <2>2, <3>1 DEF TypeOK
      <4>2. IsRecordOf(stored[p], p) /\ stored[p].version = v
        BY <4>1 DEF Found, Genuine, StoredGenuine
      <4> QED BY <1>0, <4>1, <4>2, RecordStays DEF IsRecordOf, IsNullified
    <3>2. CASE s # q
      <4>1. reader'[s] = reader[s]
        BY <2>1, <3>2 DEF TypeOK
      <4>2. IsRecordOf([version |-> reader[s].version, spent |-> reader[s].txos[p]], p)
        BY <2>2, <4>1 DEF Genuine, ReadersGenuine
      <4> QED BY <1>0, <4>1, <4>2, RecordStays DEF IsRecordOf, IsNullified
    <3> QED BY <3>1, <3>2
  <2>3. ReadersGenuine'
    BY <2>2 DEF ReadersGenuine
  <2> QED BY <1>0, <1>5, <2>3, StoredGenuineStays, UpdateGenuineStays DEF QueryStored, Genuine, disk
<1>6. ASSUME NEW q \in Reader, NEW p \in Leaf, CheckSpent(q, p) PROVE Genuine'
  <2> DEFINE v == reader[q].version
  <2>0. /\ reader[q].at = "notes" /\ p \in reader[q].left /\ p \in DOMAIN reader[q].txos
        /\ v \in Version /\ reader[q].txos \in List
        /\ IsRecordOf([version |-> v, spent |-> reader[q].txos[p]], p)
    <3>1. reader[q] \in ReaderState /\ reader[q].at = "notes" /\ p \in reader[q].left
      BY <1>6 DEF CheckSpent, TypeOK
    <3> QED BY <3>1 DEF ReaderState, Genuine, ReadersGenuine
  <2>1. UpdateGenuine'
    BY <1>0, <1>6, UpdateGenuineStays DEF CheckSpent, Genuine
  <2>2. CASE ~reader[q].txos[p] /\ IsNullified(v, p)
    <3>1. /\ stored' = [stored EXCEPT ![p] = [version |-> v, spent |-> TRUE]]
          /\ reader' = [reader EXCEPT ![q].left = @ \ {p}, ![q].txos[p] = TRUE]
      BY <1>6, <2>2 DEF CheckSpent
    <3>2. IsRecordOf([version |-> v, spent |-> TRUE], p)
      BY <2>0, <2>2 DEF IsRecordOf
    <3>3. ASSUME NEW l \in Leaf, stored'[l] # None PROVE IsRecordOf(stored[l], l)'
      <4>1. CASE l = p
        <5>1. stored'[l] = [version |-> v, spent |-> TRUE]
          BY <3>1, <4>1 DEF TypeOK
        <5> QED BY <1>0, <3>2, <4>1, <5>1, RecordStays DEF IsRecordOf, IsNullified
      <4>2. CASE l # p
        <5>1. stored'[l] = stored[l]
          BY <3>1, <4>2 DEF TypeOK
        <5>2. IsRecordOf(stored[l], l)
          BY <3>3, <5>1 DEF Genuine, StoredGenuine
        <5> QED BY <1>0, <5>1, <5>2, RecordStays DEF IsRecordOf, IsNullified
      <4> QED BY <4>1, <4>2
    <3>4. ASSUME NEW s \in Reader, reader'[s].at # "idle", NEW l \in DOMAIN reader'[s].txos
          PROVE  IsRecordOf([version |-> reader[s].version, spent |-> reader[s].txos[l]], l)'
      <4>1. /\ reader'[s].version = reader[s].version /\ reader[s].at # "idle"
            /\ DOMAIN reader'[s].txos = DOMAIN reader[s].txos
            /\ reader'[s].txos[l] = IF s = q /\ l = p THEN TRUE ELSE reader[s].txos[l]
        <5>1. CASE s = q
          <6>1. /\ reader'[s].txos = [reader[q].txos EXCEPT ![p] = TRUE]
                /\ reader'[s].version = v
            BY <3>1, <5>1 DEF TypeOK, ReaderState
          <6>2. DOMAIN reader'[s].txos = DOMAIN reader[q].txos
            BY <6>1
          <6> QED BY <2>0, <5>1, <6>1, <6>2, <3>4
        <5>2. CASE s # q
          BY <3>1, <3>4, <5>2 DEF TypeOK
        <5> QED BY <5>1, <5>2
      <4>2. IsRecordOf([version |-> reader'[s].version, spent |-> reader'[s].txos[l]], l)
        BY <3>2, <4>1, <3>4 DEF Genuine, ReadersGenuine
      <4> QED BY <1>0, <4>2, RecordStays DEF IsRecordOf, IsNullified
    <3> QED BY <2>1, <3>3, <3>4 DEF Genuine, StoredGenuine, ReadersGenuine
  <2>3. CASE ~(~reader[q].txos[p] /\ IsNullified(v, p))
    <3>1. reader' = [reader EXCEPT ![q].left = @ \ {p}] /\ stored' = stored
      BY <1>6, <2>3 DEF CheckSpent
    <3>2. \A s \in Reader : /\ reader'[s].version = reader[s].version /\ reader'[s].at = reader[s].at
                            /\ reader'[s].txos = reader[s].txos
      BY <3>1 DEF TypeOK, ReaderState
    <3>3. ASSUME NEW s \in Reader, reader'[s].at # "idle", NEW l \in DOMAIN reader'[s].txos
          PROVE  IsRecordOf([version |-> reader[s].version, spent |-> reader[s].txos[l]], l)'
      <4>1. IsRecordOf([version |-> reader[s].version, spent |-> reader[s].txos[l]], l)
        BY <3>2, <3>3 DEF Genuine, ReadersGenuine
      <4> QED BY <1>0, <3>2, <4>1, RecordStays DEF IsRecordOf, IsNullified
    <3>4. StoredGenuine'
      BY <1>0, <3>1, StoredGenuineStays DEF Genuine
    <3> QED BY <2>1, <3>3, <3>4 DEF Genuine, ReadersGenuine
  <2> QED BY <2>2, <2>3
<1>7. ASSUME NEW q \in Reader, FillCache(q) PROVE Genuine'
  <2>1. reader' = [reader EXCEPT ![q] = IdleReader]
    BY <1>7 DEF FillCache
  <2>2. \A s \in Reader : reader'[s].at = "idle" \/ reader'[s] = reader[s]
    BY <2>1 DEF TypeOK, IdleReader
  <2>3. ASSUME NEW s \in Reader, reader'[s].at # "idle", NEW l \in DOMAIN reader'[s].txos
        PROVE  IsRecordOf([version |-> reader[s].version, spent |-> reader[s].txos[l]], l)'
    <3>1. IsRecordOf([version |-> reader[s].version, spent |-> reader[s].txos[l]], l)
      BY <2>2, <2>3 DEF Genuine, ReadersGenuine
    <3> QED BY <1>0, <2>2, <2>3, <3>1, RecordStays DEF IsRecordOf, IsNullified
  <2> QED BY <1>0, <1>7, <2>3, StoredGenuineStays, UpdateGenuineStays DEF FillCache, Genuine, ReadersGenuine, disk
<1>8. ASSUME AddLeaf \/ Nullify \/ StartClear \/ EndClear \/ FailEndClear \/ UNCHANGED vars
      PROVE  UNCHANGED <<update, reader, stored>>
  BY <1>8 DEF AddLeaf, Nullify, StartClear, EndClear, FailEndClear, vars, disk, lists
<1>9. ASSUME NEW r \in Run, RunStep(r) \/ (\E v \in Version : Call(r, v) \/ Refuse(r, v)) \/ Fail(r)
      PROVE  UNCHANGED <<update, reader>> /\ (UNCHANGED stored \/ ScanLeaves(r))
  BY <1>9 DEF RunStep, Call, Refuse, ReadDetails, ScanTree, ScanLeaves, GiveUp, ReadMap, Commit, Finish, Fail, disk, lists
<1>10. ClearNamespace \/ FailClearNamespace => UNCHANGED <<update, reader>>
  BY DEF ClearNamespace, FailClearNamespace, lists
<1> QED BY <1>1, <1>2, <1>3, <1>4, <1>5, <1>6, <1>7, <1>8, <1>9, <1>10 DEF Next, ClearStep, FailClear, ReadStep

-----------------------------------------------------------------------------
(* Nothing of the wallet is before its creation.                             *)

LEMMA AnswerIsFirst ==
  ASSUME NEW v \in Version, NEW c \in Leaf \union {None}, IsCreationAnswer(v, c)
  PROVE  NoneBefore(v, c)
<1> SUFFICES ASSUME c # None, NEW n \in Own, n.version = v, n.tree = c.tree, n.index < c.index
             PROVE  FALSE
  BY DEF NoneBefore
<1>1. c \in Leaf /\ Creation[v] \in Leaf /\ ~Before(Creation[v], c)
  BY CreationIsLeaf DEF IsCreationAnswer, IsCreationLeaf
<1>2. ~Before(n, Creation[v])
  BY <1>1, OwnAfterCreation, NoneIsNone
<1>3. /\ n.tree \in Int /\ n.index \in Int /\ c.tree \in Int /\ c.index \in Int
      /\ Creation[v].tree \in Int /\ Creation[v].index \in Int
  BY <1>1, OwnNotes, TreesAreCounted, Sizes DEF Leaf, Tree
<1> QED BY <1>1, <1>2, <1>3 DEF Before

LEMMA NoneFirst == \A v : NoneBefore(v, None)
BY DEF NoneBefore

LEMMA InitCreation == Init => CreationFirst
<1> SUFFICES ASSUME Init PROVE CreationFirst
  OBVIOUS
<1>1. \A v \in Version : details[v].creation = None /\ clear.creation[v] = None
  BY DEF Init, NoMap, NoDetails, NoClear
<1>2. \A r \in Run : run[r].at = "idle"
  BY DEF Init, IdleRun
<1> QED BY <1>1, <1>2, NoneFirst DEF CreationFirst

LEMMA CreationInductive ==
  ASSUME TypeOK, CreationFirst, [Next]_vars
  PROVE  CreationFirst'
<1> DEFINE InRun(x) == /\ NoneBefore(x.version, x.details.creation)
                       /\ \A v \in Version : NoneBefore(v, x.map[v].creation)
<1>0. \A v \in Version : NoMap[v].creation = None /\ NoMap[v].heights = NoDetails.heights
  BY DEF NoMap, NoDetails
<1>1. ASSUME UNCHANGED <<details, clear, run>> PROVE CreationFirst'
  BY <1>1 DEF CreationFirst, NoneBefore
<1>2. ASSUME NEW r \in Run, NEW x, To(r, x), x.at # "idle" => InRun(x), UNCHANGED <<details, clear>>
      PROVE  CreationFirst'
  <2>1. \A s \in Run : run'[s] = IF s = r THEN x ELSE run[s]
    BY <1>2 DEF To, TypeOK
  <2> QED BY <1>2, <2>1 DEF CreationFirst, NoneBefore
<1>3. ASSUME NEW r \in Run, NEW v \in Version, Call(r, v) PROVE CreationFirst'
  <2> DEFINE x == [IdleRun EXCEPT !.at = "details", !.version = v]
  <2>1. x.details = NoDetails /\ x.map = NoMap
    BY DEF IdleRun
  <2>2. InRun(x)
    BY <2>1, <1>0, NoneFirst DEF NoDetails
  <2>3. To(r, x) /\ UNCHANGED <<details, clear>>
    BY <1>3 DEF Call, disk
  <2> HIDE DEF x
  <2> QED BY <1>2, <2>2, <2>3
<1>4. ASSUME NEW r \in Run, ReadDetails(r) PROVE CreationFirst'
  <2>1. PICK map \in {details, NoMap}, latest \in Tree, creation \in Leaf \union {None} :
          LET v == run[r].version
              d == map[v]
          IN /\ IF d.creation # None THEN creation = d.creation ELSE IsCreationAnswer(v, creation)
             /\ To(r, [IdleRun EXCEPT !.at = "batch", !.version = v, !.latest = latest,
                       !.details = [heights |-> d.heights, creation |-> creation],
                       !.tree = IF creation = None THEN -1 ELSE creation.tree - 1])
    BY <1>4 DEF ReadDetails
  <2> DEFINE t == IF creation = None THEN -1 ELSE creation.tree - 1
             d == [heights |-> map[run[r].version].heights, creation |-> creation]
             x == [IdleRun EXCEPT !.at = "batch", !.version = run[r].version, !.latest = latest,
                       !.details = d, !.tree = t]
  <2>2. run[r].version \in Version
    BY <1>4, RunType DEF ReadDetails
  <2>3. NoneBefore(run[r].version, creation)
    BY <2>1, <2>2, <1>0, AnswerIsFirst DEF CreationFirst
  <2>4. x.version = run[r].version /\ x.details.creation = creation /\ x.map = NoMap
    <3> HIDE DEF t
    <3> QED BY DEF IdleRun
  <2>5. InRun(x)
    <3> HIDE DEF x
    <3> QED BY <2>3, <2>4, <1>0, NoneFirst
  <2>6. To(r, x) /\ UNCHANGED <<details, clear>>
    BY <1>4, <2>1 DEF ReadDetails, disk
  <2> HIDE DEF x
  <2> QED BY <1>2, <2>5, <2>6
<1>5. ASSUME NEW r \in Run, ScanTree(r) \/ ScanLeaves(r) PROVE CreationFirst'
  <2>1. PICK x : To(r, x) /\ x.version = run[r].version /\ x.details = run[r].details /\ x.map = run[r].map
                 /\ UNCHANGED <<details, clear>> /\ run[r].at # "idle"
    <3> DEFINE y == [run[r] EXCEPT !.tree = run[r].tree + 1,
                                   !.start = StartScanHeight(run[r].details, run[r].tree + 1),
                                   !.height = length[run[r].version][run[r].tree + 1]]
               z == [run[r] EXCEPT !.at = "check"]
    <3>1. run[r] \in RunState
      BY DEF TypeOK
    <3>2. y.version = run[r].version /\ y.details = run[r].details /\ y.map = run[r].map
      BY <3>1 DEF RunState
    <3>3. z.version = run[r].version /\ z.details = run[r].details /\ z.map = run[r].map
      BY <3>1 DEF RunState
    <3>4. CASE ScanTree(r)
      <4>1. To(r, y) /\ UNCHANGED <<details, clear>> /\ run[r].at # "idle"
        BY <3>4 DEF ScanTree, Scanned, disk
      <4> HIDE DEF y
      <4> QED BY <4>1, <3>2
    <3>5. CASE ScanLeaves(r)
      <4>1. To(r, z) /\ UNCHANGED <<details, clear>> /\ run[r].at # "idle"
        BY <3>5 DEF ScanLeaves
      <4> HIDE DEF z
      <4> QED BY <4>1, <3>3
    <3> QED BY <1>5, <3>4, <3>5
  <2>2. InRun(x)
    BY <2>1 DEF CreationFirst
  <2> QED BY <1>2, <2>1, <2>2
<1>6. ASSUME NEW r \in Run, Stop(r), UNCHANGED <<details, clear>> PROVE CreationFirst'
  <2> DEFINE x == [IdleRun EXCEPT !.version = IF r \in Regular THEN run[r].version ELSE None]
  <2>1. To(r, x) /\ x.at = "idle"
    BY <1>6 DEF Stop, IdleRun
  <2> HIDE DEF x
  <2> QED BY <1>2, <1>6, <2>1
<1>7. ASSUME NEW r \in Run, ReadMap(r) PROVE CreationFirst'
  <2>1. PICK map \in {details, NoMap} :
          To(r, [run[r] EXCEPT !.at = "commit", !.map = [map EXCEPT ![run[r].version] = NoDetails]])
    BY <1>7 DEF ReadMap
  <2> DEFINE m == [map EXCEPT ![run[r].version] = NoDetails]
             x == [run[r] EXCEPT !.at = "commit", !.map = m]
  <2>2. map \in Map
    BY NoMapType DEF TypeOK
  <2>3. \A v \in Version : m[v].creation = None \/ m[v].creation = map[v].creation
    BY <2>2 DEF Map, NoDetails
  <2>4. \A v \in Version : NoneBefore(v, m[v].creation)
    <3> HIDE DEF m
    <3> QED BY <2>3, <1>0, NoneFirst DEF CreationFirst
  <2>5. run[r] \in RunState /\ run[r].at # "idle"
    BY <1>7 DEF ReadMap, TypeOK
  <2>6. x.version = run[r].version /\ x.details = run[r].details /\ x.map = m
    <3> HIDE DEF m
    <3> QED BY <2>5 DEF RunState
  <2>7. InRun(x)
    <3> HIDE DEF x, m
    <3> QED BY <2>4, <2>5, <2>6 DEF CreationFirst
  <2>8. To(r, x) /\ UNCHANGED <<details, clear>>
    BY <1>7, <2>1 DEF ReadMap, disk
  <2> HIDE DEF x
  <2> QED BY <1>2, <2>7, <2>8
<1>8. ASSUME NEW r \in Run, Commit(r) PROVE CreationFirst'
  <2> DEFINE d == [run[r].details EXCEPT !.heights[run[r].tree] = BatchEnd(r)]
             x == [run[r] EXCEPT !.at = "batch", !.details = d, !.start = BatchEnd(r), !.map = NoMap]
  <2>1. run[r] \in RunState /\ run[r].at # "idle"
    BY <1>8 DEF Commit, TypeOK
  <2>2. run[r].details \in Details /\ run[r].map \in Map /\ run[r].version \in Version
    BY <1>8, RunType DEF Commit
  <2>3. d.creation = run[r].details.creation
    BY <2>2 DEF Details
  <2>4. x.at = "batch" /\ x.version = run[r].version /\ x.details = d /\ x.map = NoMap
    <3> HIDE DEF d
    <3> QED BY <2>1 DEF RunState
  <2>5. \A s \in Run : run'[s] = IF s = r THEN x ELSE run[s]
    <3>1. To(r, x)
      BY <1>8 DEF Commit
    <3> HIDE DEF x
    <3> QED BY <3>1 DEF To, TypeOK
  <2>6. \A v \in Version : details'[v] = IF v = run[r].version THEN d ELSE run[r].map[v]
    <3>1. details' = [run[r].map EXCEPT ![run[r].version] = d]
      BY <1>8 DEF Commit
    <3> HIDE DEF d
    <3> QED BY <3>1, <2>2 DEF Map
  <2>7. clear' = clear
    BY <1>8 DEF Commit
  <2> HIDE DEF x, d
  <2>8. \A v \in Version : NoneBefore(v, details'[v].creation) /\ NoneBefore(v, clear'.creation[v])
    BY <2>1, <2>3, <2>6, <2>7 DEF CreationFirst
  <2>9. \A s \in Run : run'[s].at # "idle" => InRun(run'[s])
    BY <2>1, <2>3, <2>4, <2>5, <1>0, NoneFirst DEF CreationFirst
  <2> QED BY <2>8, <2>9 DEF CreationFirst, NoneBefore
<1>9. CASE StartClear
  <2>1. PICK map \in {details, NoMap} : clear' = [at |-> "clearing", creation |-> [v \in Version |-> map[v].creation]]
    BY <1>9 DEF StartClear
  <2>2. \A v \in Version : NoneBefore(v, clear'.creation[v])
    BY <2>1, <1>0, NoneFirst DEF CreationFirst
  <2> QED BY <1>9, <2>2 DEF StartClear, CreationFirst, NoneBefore, disk
<1>10. CASE ClearNamespace
  <2>1. details' = NoMap /\ run' = run /\ clear'.creation = clear.creation
    BY <1>10 DEF ClearNamespace, TypeOK
  <2> QED BY <2>1, <1>0, NoneFirst DEF CreationFirst, NoneBefore
<1>11. CASE EndClear
  <2>1. /\ \A v \in Version : details'[v].creation = clear.creation[v] /\ clear'.creation[v] = None
        /\ run' = run
    BY <1>11 DEF EndClear, NoDetails, NoClear
  <2> QED BY <2>1, NoneFirst DEF CreationFirst, NoneBefore
<1>12. CASE Restart
  <2>1. /\ \A v \in Version : details'[v].creation = details[v].creation /\ clear'.creation[v] = None
        /\ \A r \in Run : run'[r].at = "idle"
    BY <1>12 DEF Restart, NoClear, IdleRun, disk
  <2> QED BY <2>1, NoneFirst DEF CreationFirst, NoneBefore
<1>13. ASSUME NEW q \in Reader, ReadStep(q) \/ \E v \in Version : QueryStored(q, v)
       PROVE  UNCHANGED <<details, clear, run>>
  BY <1>13 DEF ReadStep, QueryStored, CheckSpent, FillCache, disk
<1>14. ASSUME AddLeaf \/ Nullify \/ ReadForPOIs \/ WritePOIs \/ UNCHANGED vars
       PROVE  UNCHANGED <<details, clear, run>>
  BY <1>14 DEF AddLeaf, Nullify, ReadForPOIs, WritePOIs, vars, disk
<1>15. ASSUME NEW r \in Run, GiveUp(r) \/ Finish(r) \/ Fail(r)
       PROVE  Stop(r) /\ UNCHANGED <<details, clear>>
  BY <1>15 DEF GiveUp, Finish, Fail, disk
<1>16. CASE FailClear
  <2>1. /\ run' = run /\ \A v \in Version : clear'.creation[v] = None
        /\ details' \in {details, NoMap}
    BY <1>16 DEF FailClear, FailClearNamespace, FailEndClear, NoClear, disk
  <2> QED BY <2>1, <1>0, NoneFirst DEF CreationFirst, NoneBefore
<1>17. ASSUME NEW r \in Run, NEW v \in Version, Refuse(r, v) PROVE CreationFirst'
  <2> DEFINE x == [IdleRun EXCEPT !.version = v]
  <2>1. x.at = "idle"
    BY DEF IdleRun
  <2>2. To(r, x) /\ UNCHANGED <<details, clear>>
    BY <1>17 DEF Refuse, disk
  <2> HIDE DEF x, InRun
  <2> QED BY <1>2, <2>1, <2>2
<1> QED BY <1>1, <1>3, <1>4, <1>5, <1>6, <1>7, <1>8, <1>9, <1>10, <1>11, <1>12, <1>13, <1>14, <1>15,
           <1>16, <1>17
        DEF Next, ClearStep, RunStep

-----------------------------------------------------------------------------
(* No note is passed over.                                                   *)

LEMMA OwnType ==
  ASSUME NEW n \in Own
  PROVE  /\ n.version \in Version /\ n.tree \in Tree /\ n.index \in Nat /\ Position(n) \in Leaf
         /\ Position(n).tree = n.tree /\ Position(n).index = n.index
BY OwnNotes DEF Position, Leaf

\* A note that is the only one at its key is overwritten by itself only.
LEMMA StoredStays ==
  ASSUME TypeOK, Genuine, [Next]_vars, ~ClearNamespace, FailClearNamespace => UNCHANGED stored,
         NEW n \in Own, Alone(n), IsStored(n)
  PROVE  IsStored(n)'
<1> DEFINE p == Position(n)
<1>0. p \in Leaf /\ stored[p] # None /\ stored[p].version = n.version
  BY OwnType DEF IsStored
<1>1. ASSUME NEW w \in Version, NEW b \in BOOLEAN, NEW m \in Own, Position(m) = p, m.version = w,
             stored'[p] = [version |-> w, spent |-> b]
      PROVE  IsStored(n)'
  <2>1. m = n
    BY <1>1 DEF Alone
  <2>2. [version |-> w, spent |-> b] \in Record
    BY DEF Record
  <2> QED BY <1>1, <2>1, <2>2, NoneIsNone DEF IsStored
<1>2. ASSUME stored'[p] = stored[p] PROVE IsStored(n)'
  BY <1>0, <1>2 DEF IsStored
<1>3. ASSUME NEW r \in Run, ScanLeaves(r) PROVE IsStored(n)'
  <2>0. PICK failed : stored' = [l \in Leaf |-> IF l \in Decrypted(r, failed)
                                                THEN [version |-> run[r].version, spent |-> FALSE]
                                                ELSE stored[l]]
    BY <1>3 DEF ScanLeaves
  <2>1. CASE p \in Decrypted(r, failed)
    <3>1. stored'[p] = [version |-> run[r].version, spent |-> FALSE]
      BY <1>0, <2>0, <2>1
    <3>2. PICK m \in Own : Position(m) = p /\ m.version = run[r].version
      BY <2>1 DEF Decrypted, InBatch
    <3> QED BY <1>1, <3>1, <3>2, OwnType
  <2>2. CASE p \notin Decrypted(r, failed)
    BY <1>0, <1>2, <2>0, <2>2
  <2> QED BY <2>1, <2>2
<1>4. ASSUME NEW q \in Reader, NEW l \in Leaf, CheckSpent(q, l) PROVE IsStored(n)'
  <2>1. CASE l = p /\ stored' = [stored EXCEPT ![l] = [version |-> reader[q].version, spent |-> TRUE]]
    <3>1. stored'[p] = [version |-> reader[q].version, spent |-> TRUE]
      BY <1>0, <2>1 DEF TypeOK
    <3>2. reader[q] \in ReaderState /\ reader[q].at = "notes" /\ p \in reader[q].left
      BY <1>4, <2>1 DEF CheckSpent, TypeOK
    <3>3. p \in DOMAIN reader[q].txos
      BY <3>2 DEF ReaderState
    <3>4. PICK m \in Own : Position(m) = p /\ m.version = reader[q].version
      BY <3>2, <3>3 DEF Genuine, ReadersGenuine, IsRecordOf
    <3> QED BY <1>1, <3>1, <3>4, OwnType
  <2>2. CASE l # p \/ stored' = stored
    <3>1. stored'[p] = stored[p]
      BY <1>0, <1>4, <2>2 DEF CheckSpent, TypeOK
    <3> QED BY <1>2, <3>1
  <2>3. stored' = stored \/ stored' = [stored EXCEPT ![l] = [version |-> reader[q].version, spent |-> TRUE]]
    BY <1>4 DEF CheckSpent
  <2> QED BY <2>1, <2>2, <2>3
<1>5. CASE WritePOIs
  <2>1. stored' = [stored EXCEPT ![update.leaf] = update.record] /\ update.at = "write"
    BY <1>5 DEF WritePOIs
  <2>2. update.record \in Record /\ update.leaf \in Leaf
    BY <2>1 DEF TypeOK, UpdateState
  <2>3. CASE update.leaf = p
    <3>1. PICK m \in Own : Position(m) = p /\ m.version = update.record.version
      BY <2>1, <2>3 DEF Genuine, UpdateGenuine, IsRecordOf
    <3>2. m = n
      BY <3>1 DEF Alone
    <3>3. stored'[p] = update.record
      BY <1>0, <2>1, <2>3 DEF TypeOK
    <3> QED BY <2>2, <3>1, <3>2, <3>3, NoneIsNone DEF IsStored
  <2>4. CASE update.leaf # p
    BY <1>0, <1>2, <2>1, <2>4 DEF TypeOK
  <2> QED BY <2>3, <2>4
<1>6. ASSUME \/ AddLeaf \/ Nullify \/ StartClear \/ EndClear \/ FailClear
             \/ ReadForPOIs \/ Restart \/ UNCHANGED vars
      PROVE  stored' = stored
  BY <1>6 DEF AddLeaf, Nullify, StartClear, EndClear, FailClear, FailEndClear, ReadForPOIs, Restart, vars, disk
<1>7. ASSUME NEW r \in Run, RunStep(r) \/ (\E v \in Version : Call(r, v) \/ Refuse(r, v)) \/ Fail(r)
      PROVE  stored' = stored \/ ScanLeaves(r)
  BY <1>7 DEF RunStep, Call, Refuse, ReadDetails, ScanTree, GiveUp, ReadMap, Commit, Finish, Fail, disk
<1>8. ASSUME NEW q \in Reader, FillCache(q) \/ \E v \in Version : QueryStored(q, v)
      PROVE  stored' = stored
  BY <1>8 DEF FillCache, QueryStored, disk
<1> QED BY <1>2, <1>3, <1>4, <1>5, <1>6, <1>7, <1>8 DEF Next, ClearStep, ReadStep

LEMMA NothingBelowZero == \A v, t : Covered(v, t, 0)
BY OwnType DEF Covered

LEMMA InitMissed == Init => NoneMissed
<1> SUFFICES ASSUME Init PROVE NoneMissed
  OBVIOUS
<1>1. \A v \in Version, t \in Tree : details[v].heights[t] = 0
  BY DEF Init, NoMap, NoDetails
<1>2. \A r \in Run : run[r].at = "idle"
  BY DEF Init, IdleRun
<1> QED BY <1>1, <1>2, NothingBelowZero DEF NoneMissed

LEMMA MissedInductive ==
  ASSUME TypeOK, Genuine, CreationFirst, NoneMissed, [Next]_vars
  PROVE  NoneMissed'
<1> DEFINE Cov(v, t, h) == \A n \in Own : n.version = v /\ n.tree = t /\ n.index < h /\ Alone(n) => IsStored(n)'
           RunCov(x) == /\ \A t \in Tree : Cov(x.version, t, x.details.heights[t])
                        /\ Cov(x.version, x.tree, x.start)
                        /\ x.at \in {"check", "commit"} => Cov(x.version, x.tree, EndOf(x))
                        /\ x.at = "commit" => \A v \in Version, t \in Tree : Cov(v, t, x.map[v].heights[t])
           Working(x) == x.at \in {"batch", "check", "commit"}
           Clears == ClearNamespace \/ FailClearNamespace
<1>0. NoneMissed' = (~passedOver' => /\ \A v \in Version, t \in Tree : Cov(v, t, details'[v].heights[t])
                                     /\ \A r \in Run \ outrun' : Working(run'[r]) => RunCov(run'[r]))
  BY DEF NoneMissed, RunCovered, Covered, Alone
<1>z. \A v, t : Cov(v, t, 0)
  BY OwnType
<1>u. ASSUME ~ClearNamespace, FailClearNamespace => UNCHANGED stored,
             NEW v, NEW t, NEW h, Covered(v, t, h)
      PROVE  Cov(v, t, h)
  BY <1>u, StoredStays DEF Covered
<1>s. ASSUME ~Clears, NEW v, NEW t, NEW h, Covered(v, t, h) PROVE Cov(v, t, h)
  <2> HIDE DEF Cov
  <2> QED BY <1>s, <1>u
<1>c. ASSUME ~Clears, NEW x, RunCovered(x) PROVE RunCov(x)
  <2> HIDE DEF Cov
  <2> QED BY <1>c, <1>s DEF RunCovered
<1>d. ASSUME ~Clears, ~passedOver, NEW v \in Version, NEW t \in Tree PROVE Cov(v, t, details[v].heights[t])
  <2>1. Covered(v, t, details[v].heights[t])
    BY <1>d DEF NoneMissed
  <2> HIDE DEF Cov
  <2> QED BY <2>1, <1>d, <1>s
<1>m. \A v \in Version, t \in Tree : NoMap[v].heights[t] = 0 /\ NoDetails.heights[t] = 0
  BY DEF NoMap, NoDetails
<1> HIDE DEF Cov
<1>1. ASSUME ~Clears, UNCHANGED <<details, run, outrun, passedOver>> PROVE NoneMissed'
  <2>1. ASSUME ~passedOver, NEW r \in Run \ outrun, Working(run[r]) PROVE RunCov(run[r])
    <3>1. RunCovered(run[r])
      BY <2>1 DEF NoneMissed
    <3> QED BY <3>1, <1>1, <1>c
  <2> HIDE DEF RunCov, Working
  <2> QED BY <1>0, <1>1, <1>d, <2>1
<1>2. ASSUME NEW r \in Run, NEW x, To(r, x), ~Clears, UNCHANGED <<details, passedOver>>, outrun \ {r} \subseteq outrun',
             ~passedOver /\ r \notin outrun' /\ Working(x) => RunCov(x)
      PROVE  NoneMissed'
  <2>1. \A s \in Run : run'[s] = IF s = r THEN x ELSE run[s]
    BY <1>2 DEF To, TypeOK
  <2>2. ASSUME ~passedOver, NEW s \in Run \ outrun', Working(run'[s]) PROVE RunCov(run'[s])
    <3>1. CASE s = r
      BY <1>2, <2>1, <2>2, <3>1
    <3>2. CASE s # r
      <4>1. RunCovered(run[s]) /\ run'[s] = run[s]
        BY <1>2, <2>1, <2>2, <3>2 DEF NoneMissed
      <4>2. RunCov(run[s])
        BY <4>1, <1>2, <1>c
      <4> HIDE DEF RunCov
      <4> QED BY <4>1, <4>2
    <3> QED BY <3>1, <3>2
  <2> HIDE DEF RunCov, Working
  <2> QED BY <1>0, <1>2, <1>d, <2>2
<1>3. ASSUME NEW r \in Run, NEW v \in Version, Call(r, v), ~Clears PROVE NoneMissed'
  <2> DEFINE x == [IdleRun EXCEPT !.at = "details", !.version = v]
  <2>1. ~Working(x)
    BY DEF IdleRun
  <2>2. To(r, x) /\ UNCHANGED <<details, passedOver, outrun>>
    BY <1>3 DEF Call, disk
  <2> HIDE DEF x, RunCov, Working
  <2> QED BY <1>2, <1>3, <2>1, <2>2
<1>4. ASSUME NEW r \in Run, ReadDetails(r), ~Clears PROVE NoneMissed'
  <2>1. PICK map \in {details, NoMap}, latest \in Tree, creation \in Leaf \union {None} :
          LET v == run[r].version
              d == map[v]
          IN To(r, [IdleRun EXCEPT !.at = "batch", !.version = v, !.latest = latest,
                       !.details = [heights |-> d.heights, creation |-> creation],
                       !.tree = IF creation = None THEN -1 ELSE creation.tree - 1])
    BY <1>4 DEF ReadDetails
  <2> DEFINE t0 == IF creation = None THEN -1 ELSE creation.tree - 1
             d == [heights |-> map[run[r].version].heights, creation |-> creation]
             x == [IdleRun EXCEPT !.at = "batch", !.version = run[r].version, !.latest = latest,
                       !.details = d, !.tree = t0]
  <2>2. run[r].version \in Version
    BY <1>4, RunType DEF ReadDetails
  <2>3. x.at = "batch" /\ x.version = run[r].version /\ x.details.heights = map[run[r].version].heights /\ x.start = 0
    <3> HIDE DEF t0
    <3> QED BY DEF IdleRun
  <2>4. To(r, x) /\ UNCHANGED <<details, passedOver, outrun>>
    BY <1>4, <2>1 DEF ReadDetails, disk
  <2> HIDE DEF x
  <2>5. ~passedOver => \A t \in Tree : Cov(x.version, t, x.details.heights[t])
    BY <1>d, <1>z, <1>m, <1>4, <2>2, <2>3
  <2>6. ~passedOver => RunCov(x)
    BY <2>3, <2>5, <1>z
  <2> HIDE DEF RunCov
  <2> QED BY <1>2, <1>4, <2>4, <2>6
<1>5. ASSUME NEW r \in Run, ScanTree(r), ~Clears PROVE NoneMissed'
  <2> DEFINE t == run[r].tree + 1
             st == StartScanHeight(run[r].details, t)
             x == [run[r] EXCEPT !.tree = t, !.start = st, !.height = length[run[r].version][t]]
  <2>1. To(r, x) /\ UNCHANGED <<details, passedOver, outrun>> /\ run[r].at = "batch"
    BY <1>5 DEF ScanTree, Scanned, disk
  <2>2. run[r] \in RunState /\ t \in Tree /\ run[r].version \in Version
    <3>1. run[r] \in RunState
      BY DEF TypeOK
    <3>2. run[r].version \in Version /\ run[r].tree \in Tree \union {-1} /\ run[r].latest \in Tree
      BY <2>1, RunType
    <3>3. t <= run[r].latest
      BY <1>5 DEF ScanTree
    <3>4. t \in Tree
      BY <3>2, <3>3, TreesAreCounted DEF Tree
    <3> QED BY <3>1, <3>2, <3>4
  <2>3. x.at = "batch" /\ x.version = run[r].version /\ x.details = run[r].details /\ x.start = st /\ x.tree = t
    <3> HIDE DEF st, t
    <3> QED BY <2>1, <2>2 DEF RunState
  <2>4. ASSUME ~passedOver, r \notin outrun PROVE RunCov(x)
    <3>1. RunCovered(run[r])
      BY <2>1, <2>4 DEF NoneMissed
    <3>2. RunCov(run[r])
      BY <3>1, <1>5, <1>c
    <3>3. NoneBefore(run[r].version, run[r].details.creation)
      BY <2>1 DEF CreationFirst
    <3>4. Covered(run[r].version, t, st)
      BY <3>1, <3>3, <2>2 DEF RunCovered, NoneBefore, Covered, StartScanHeight
    <3>5. Cov(run[r].version, t, st)
      <4> HIDE DEF st, t
      <4> QED BY <3>4, <1>5, <1>s
    <3> HIDE DEF x, st, t
    <3> QED BY <3>2, <3>5, <2>3
  <2> HIDE DEF x, RunCov
  <2> QED BY <1>2, <1>5, <2>1, <2>4
<1>6. ASSUME NEW r \in Run, ScanLeaves(r), ~Clears PROVE NoneMissed'
  <2> DEFINE x == [run[r] EXCEPT !.at = "check"]
  <2> SUFFICES ASSUME ~passedOver' PROVE NoneMissed'
    BY DEF NoneMissed
  <2>0. /\ UNCHANGED passedOver
        /\ stored' = [p \in Leaf |-> IF p \in Decrypted(r, {})
                                     THEN [version |-> run[r].version, spent |-> FALSE]
                                     ELSE stored[p]]
    <3>1. PICK failed : /\ passedOver' = (passedOver \/ failed # {})
                        /\ stored' = [p \in Leaf |-> IF p \in Decrypted(r, failed)
                                        THEN [version |-> run[r].version, spent |-> FALSE]
                                        ELSE stored[p]]
      BY <1>6 DEF ScanLeaves
    <3>2. failed = {} /\ passedOver \in BOOLEAN
      BY <3>1 DEF TypeOK
    <3> QED BY <3>1, <3>2
  <2>1. To(r, x) /\ UNCHANGED <<details, passedOver, outrun>> /\ run[r].at = "batch" /\ run[r].start < run[r].height
    BY <1>6, <2>0 DEF ScanLeaves
  <2>2. run[r] \in RunState /\ run[r].version \in Version
    BY <2>1, RunType DEF TypeOK
  <2>3. /\ x.at = "check" /\ x.version = run[r].version /\ x.details = run[r].details
        /\ x.start = run[r].start /\ x.tree = run[r].tree /\ EndOf(x) = BatchEnd(r)
    BY <2>2 DEF RunState, EndOf, BatchEnd
  <2>4. ASSUME ~passedOver, r \notin outrun PROVE RunCov(x)
    <3>1. RunCovered(run[r])
      BY <2>1, <2>4 DEF NoneMissed
    <3>2. RunCov(run[r])
      BY <3>1, <1>6, <1>c
    <3>3. ASSUME NEW n \in Own, n.version = run[r].version, n.tree = run[r].tree, n.index < BatchEnd(r), Alone(n)
          PROVE  IsStored(n)'
      <4>1. CASE n.index < run[r].start
        <5>1. IsStored(n)
          BY <3>1, <3>3, <4>1 DEF RunCovered, Covered
        <5> QED BY <5>1, <3>3, <1>6, StoredStays
      <4>2. CASE ~(n.index < run[r].start)
        <5>1. run[r].start \in Nat /\ n.index \in Nat
          BY OwnType, RunType, Sizes
        <5>2. Position(n) \in Decrypted(r, {}) /\ Position(n) \in Leaf
          BY <3>3, <4>2, <5>1, OwnType DEF Decrypted, InBatch
        <5> DEFINE rec == [version |-> run[r].version, spent |-> FALSE]
        <5>3. stored'[Position(n)] = rec
          BY <2>0, <5>2
        <5>4. rec \in Record /\ rec.version = run[r].version
          BY <2>2 DEF Record
        <5> HIDE DEF rec
        <5>5. stored'[Position(n)] # None /\ stored'[Position(n)].version = run[r].version
          BY <5>3, <5>4, NoneIsNone
        <5>6. IsStored(n)' = (stored'[Position(n)] # None /\ stored'[Position(n)].version = n.version)
          BY DEF IsStored
        <5> QED BY <3>3, <5>5, <5>6
      <4> QED BY <4>1, <4>2
    <3>4. Cov(run[r].version, run[r].tree, BatchEnd(r))
      BY <3>3 DEF Cov
    <3> HIDE DEF x
    <3> QED BY <3>2, <3>4, <2>3
  <2> HIDE DEF x, RunCov
  <2> QED BY <1>2, <1>6, <2>1, <2>4
<1>7. ASSUME NEW r \in Run, Stop(r), UNCHANGED <<details, passedOver>>, ~Clears PROVE NoneMissed'
  <2> DEFINE x == [IdleRun EXCEPT !.version = IF r \in Regular THEN run[r].version ELSE None]
  <2>1. To(r, x) /\ ~Working(x) /\ outrun' = outrun \ {r}
    BY <1>7 DEF Stop, IdleRun
  <2> HIDE DEF x, RunCov, Working
  <2> QED BY <1>2, <1>7, <2>1
<1>8. ASSUME NEW r \in Run, ReadMap(r), ~Clears PROVE NoneMissed'
  <2>1. PICK map \in {details, NoMap} :
          To(r, [run[r] EXCEPT !.at = "commit", !.map = [map EXCEPT ![run[r].version] = NoDetails]])
    BY <1>8 DEF ReadMap
  <2> DEFINE m == [map EXCEPT ![run[r].version] = NoDetails]
             x == [run[r] EXCEPT !.at = "commit", !.map = m]
  <2>2. map \in Map
    BY NoMapType DEF TypeOK
  <2>3. \A v \in Version : m[v] = NoDetails \/ m[v] = map[v]
    BY <2>2 DEF Map
  <2>4. run[r] \in RunState /\ run[r].at = "check"
    BY <1>8 DEF ReadMap, TypeOK
  <2>5. /\ x.at = "commit" /\ x.version = run[r].version /\ x.details = run[r].details /\ x.map = m
        /\ x.start = run[r].start /\ x.tree = run[r].tree /\ EndOf(x) = EndOf(run[r])
    <3> HIDE DEF m
    <3> QED BY <2>4 DEF RunState, EndOf
  <2>6. To(r, x) /\ UNCHANGED <<details, passedOver, outrun>>
    BY <1>8, <2>1 DEF ReadMap, disk
  <2> HIDE DEF x
  <2>7. ASSUME ~passedOver, r \notin outrun PROVE RunCov(x)
    <3>1. RunCovered(run[r])
      BY <2>4, <2>7 DEF NoneMissed
    <3>2. RunCov(run[r])
      BY <3>1, <1>8, <1>c
    <3>3. \A v \in Version, t \in Tree : Cov(v, t, m[v].heights[t])
      <4> HIDE DEF m
      <4> QED BY <2>3, <2>7, <1>8, <1>d, <1>z, <1>m
    <3> HIDE DEF m
    <3> QED BY <3>2, <3>3, <2>4, <2>5
  <2> HIDE DEF RunCov
  <2> QED BY <1>2, <1>8, <2>6, <2>7
<1>9. ASSUME NEW r \in Run, Commit(r), ~Clears PROVE NoneMissed'
  <2> DEFINE d == [run[r].details EXCEPT !.heights[run[r].tree] = BatchEnd(r)]
             x == [run[r] EXCEPT !.at = "batch", !.details = d, !.start = BatchEnd(r), !.map = NoMap]
  <2>1. /\ run[r] \in RunState /\ run[r].at = "commit" /\ passedOver' = (passedOver \/ r \in outrun)
        /\ outrun' = outrun
    BY <1>9 DEF Commit, TypeOK
  <2>2. /\ run[r].details \in Details /\ run[r].map \in Map /\ run[r].version \in Version /\ run[r].tree \in Tree
    BY <2>1, RunType
  <2>3. \A t \in Tree : d.heights[t] = IF t = run[r].tree THEN BatchEnd(r) ELSE run[r].details.heights[t]
    BY <2>2 DEF Details
  <2>4. x.at = "batch" /\ x.version = run[r].version /\ x.details = d /\ x.start = BatchEnd(r) /\ x.tree = run[r].tree
    <3> HIDE DEF d
    <3> QED BY <2>1 DEF RunState
  <2>5. \A s \in Run : run'[s] = IF s = r THEN x ELSE run[s]
    <3>1. To(r, x)
      BY <1>9 DEF Commit
    <3> HIDE DEF x
    <3> QED BY <3>1 DEF To, TypeOK
  <2>6. \A v \in Version : details'[v] = IF v = run[r].version THEN d ELSE run[r].map[v]
    <3>1. details' = [run[r].map EXCEPT ![run[r].version] = d]
      BY <1>9 DEF Commit
    <3> HIDE DEF d
    <3> QED BY <3>1, <2>2 DEF Map
  <2> HIDE DEF x, d
  <2> SUFFICES ASSUME ~passedOver, r \notin outrun
               PROVE  /\ \A v \in Version, t \in Tree : Cov(v, t, details'[v].heights[t])
                      /\ \A s \in Run \ outrun' : Working(run'[s]) => RunCov(run'[s])
    BY <1>0, <2>1
  <2>7. RunCov(run[r])
    <3>1. RunCovered(run[r])
      BY <2>1 DEF NoneMissed
    <3> QED BY <3>1, <1>9, <1>c
  <2>8. Cov(run[r].version, run[r].tree, BatchEnd(r))
    <3>1. EndOf(run[r]) = BatchEnd(r)
      BY DEF EndOf, BatchEnd
    <3> QED BY <2>1, <2>7, <3>1
  <2>9. \A t \in Tree : Cov(run[r].version, t, d.heights[t])
    BY <2>3, <2>7, <2>8
  <2>10. \A v \in Version, t \in Tree : Cov(v, t, details'[v].heights[t])
    BY <2>1, <2>6, <2>7, <2>9
  <2>11. RunCov(x)
    BY <2>4, <2>8, <2>9
  <2>12. ASSUME NEW s \in Run \ outrun, s # r, Working(run[s]) PROVE RunCov(run[s])
    <3>1. RunCovered(run[s])
      BY <2>12 DEF NoneMissed
    <3> QED BY <3>1, <1>9, <1>c
  <2> HIDE DEF RunCov, Working
  <2> QED BY <2>1, <2>5, <2>10, <2>11, <2>12
<1>10. CASE ClearNamespace
  <2>1. /\ details' = NoMap /\ run' = run
        /\ outrun' = {r \in Run : run[r].at \notin {"idle", "details"}}
    BY <1>10 DEF ClearNamespace
  <2>2. \A r \in Run \ outrun' : ~Working(run'[r])
    BY <2>1
  <2> HIDE DEF RunCov, Working
  <2> QED BY <1>0, <1>z, <1>m, <2>1, <2>2
<1>11. ASSUME EndClear, ~Clears PROVE NoneMissed'
  <2>1. /\ \A v \in Version : details'[v].heights = NoDetails.heights
        /\ UNCHANGED <<run, outrun, passedOver>>
    BY <1>11 DEF EndClear, NoDetails
  <2>2. ASSUME ~passedOver, NEW r \in Run \ outrun, Working(run[r]) PROVE RunCov(run[r])
    <3>1. RunCovered(run[r])
      BY <2>2 DEF NoneMissed
    <3> QED BY <3>1, <1>11, <1>c
  <2> HIDE DEF RunCov, Working
  <2> QED BY <1>0, <1>z, <1>m, <2>1, <2>2
<1>12. ASSUME Restart, ~Clears PROVE NoneMissed'
  <2>1. UNCHANGED <<details, passedOver>> /\ \A r \in Run : ~Working(run'[r])
    BY <1>12 DEF Restart, disk, IdleRun
  <2> HIDE DEF RunCov, Working
  <2> QED BY <1>0, <1>12, <1>d, <2>1
<1>13. ASSUME NEW q \in Reader, ReadStep(q) \/ \E v \in Version : QueryStored(q, v)
       PROVE  UNCHANGED <<details, run, outrun, passedOver>>
  BY <1>13 DEF ReadStep, QueryStored, CheckSpent, FillCache, disk
<1>14. ASSUME AddLeaf \/ Nullify \/ StartClear \/ ReadForPOIs \/ WritePOIs \/ UNCHANGED vars
       PROVE  UNCHANGED <<details, run, outrun, passedOver>>
  BY <1>14 DEF AddLeaf, Nullify, StartClear, ReadForPOIs, WritePOIs, vars, disk
<1>15. ASSUME NEW r \in Run, GiveUp(r) \/ Finish(r) \/ Fail(r)
       PROVE  Stop(r) /\ UNCHANGED <<details, passedOver>>
  BY <1>15 DEF GiveUp, Finish, Fail, disk
<1>16. CASE FailClearNamespace
  <2>1. /\ details' \in {details, NoMap} /\ UNCHANGED <<run, outrun>>
        /\ ~passedOver' => ~passedOver /\ UNCHANGED stored
    <3>1. PICK removed \in SUBSET {p \in Leaf : stored[p] # None} :
            /\ stored' = [p \in Leaf |-> IF p \in removed THEN None ELSE stored[p]]
            /\ passedOver' = (passedOver \/ removed # {})
      BY <1>16 DEF FailClearNamespace
    <3>2. removed = {} => stored' = stored
      BY <3>1 DEF TypeOK
    <3> QED BY <1>16, <3>1, <3>2 DEF FailClearNamespace
  <2>2. ~ClearNamespace
    BY <1>16 DEF FailClearNamespace, ClearNamespace, NoClear
  <2>3. ASSUME ~passedOver' PROVE \A v, t, h : Covered(v, t, h) => Cov(v, t, h)
    BY <1>u, <2>1, <2>2, <2>3
  <2>4. ASSUME ~passedOver', NEW v \in Version, NEW t \in Tree
        PROVE  Cov(v, t, details'[v].heights[t])
    <3>1. Covered(v, t, details[v].heights[t])
      BY <2>1, <2>4 DEF NoneMissed
    <3> QED BY <1>z, <1>m, <2>1, <2>3, <2>4, <3>1
  <2>5. ASSUME ~passedOver', NEW r \in Run \ outrun', Working(run'[r]) PROVE RunCov(run'[r])
    <3>1. RunCovered(run[r]) /\ run'[r] = run[r]
      BY <2>1, <2>5 DEF NoneMissed
    <3>2. RunCov(run[r])
      BY <2>3, <2>5, <3>1 DEF RunCovered
    <3> HIDE DEF RunCov
    <3> QED BY <3>1, <3>2
  <2> HIDE DEF RunCov, Working
  <2> QED BY <1>0, <2>4, <2>5
<1>17. ASSUME FailEndClear, ~Clears PROVE NoneMissed'
  BY <1>1, <1>17 DEF FailEndClear, disk
<1>18. ASSUME NEW r \in Run, NEW v \in Version, Refuse(r, v), ~Clears PROVE NoneMissed'
  <2> DEFINE x == [IdleRun EXCEPT !.version = v]
  <2>1. ~Working(x)
    BY DEF IdleRun
  <2>2. To(r, x) /\ UNCHANGED <<details, passedOver, outrun>>
    BY <1>18 DEF Refuse, disk
  <2> HIDE DEF x, RunCov, Working
  <2> QED BY <1>2, <1>18, <2>1, <2>2
<1> HIDE DEF RunCov, Working
<1> QED BY <1>1, <1>3, <1>4, <1>5, <1>6, <1>7, <1>8, <1>9, <1>10, <1>11, <1>12, <1>13, <1>14, <1>15,
           <1>16, <1>17, <1>18
        DEF Next, ClearStep, FailClear, RunStep

-----------------------------------------------------------------------------
(* A cached list is current.                                                 *)

LEMMA InitLists == Init => ListsCurrent
BY DEF Init, ListsCurrent, IdleReader

LEMMA ListsInductive ==
  ASSUME TypeOK, Genuine, ListsCurrent, [Next]_vars
  PROVE  ListsCurrent'
<1>1. ASSUME UNCHANGED <<stored, nullified, cache, reader, late, stale>>, clear'.at # "end" => clear.at # "end"
      PROVE  ListsCurrent'
  BY <1>1 DEF ListsCurrent
<1>2. ASSUME InvalidateCommitmentsCache(None), UNCHANGED reader PROVE ListsCurrent'
  <2>1. /\ cache' = [v \in Version |-> None]
        /\ \A q \in Reader : reader[q].at # "idle" => q \in late'
    BY <1>2, InvalidateType, NoneIsNone
  <2>2. \A v \in Version : cache'[v] = None
    BY <2>1
  <2>3. \A q \in Reader \ late' : reader'[q].at = "idle"
    BY <1>2, <2>1
  <2> QED BY <2>2, <2>3 DEF ListsCurrent
<1>3. CASE ClearNamespace
  <2>1. clear'.at = "end"
    BY <1>3 DEF ClearNamespace, TypeOK
  <2> QED BY <2>1 DEF ListsCurrent
<1>4. CASE Restart
  <2>1. /\ \A v \in Version : cache'[v] = None
        /\ \A q \in Reader : reader'[q].at = "idle"
    BY <1>4 DEF Restart, IdleReader
  <2> QED BY <2>1 DEF ListsCurrent
<1>5. ASSUME NEW q \in Reader, NEW v \in Version, QueryStored(q, v) PROVE ListsCurrent'
  <2> DEFINE x == [at |-> "notes", version |-> v, left |-> Found(v), txos |-> [p \in Found(v) |-> stored[p].spent]]
  <2>1. \A s \in Reader : reader'[s] = IF s = q THEN x ELSE reader[s]
    BY <1>5 DEF QueryStored, TypeOK
  <2>2. UNCHANGED <<stored, nullified, clear, cache, late, stale>>
    BY <1>5 DEF QueryStored, trees, disk
  <2>3. x.version = v /\ x.left = Found(v) /\ DOMAIN x.txos = Found(v)
    OBVIOUS
  <2> HIDE DEF x
  <2>4. ReaderCurrent(stored, nullified, x)
    BY <2>3 DEF ReaderCurrent, Found, FoundIn
  <2> QED BY <2>1, <2>2, <2>4 DEF ListsCurrent
<1>6. ASSUME NEW q \in Reader, NEW p \in Leaf, CheckSpent(q, p) PROVE ListsCurrent'
  <2> DEFINE v == reader[q].version
  <2>0. /\ reader[q].at = "notes" /\ p \in reader[q].left /\ p \in DOMAIN reader[q].txos
        /\ v \in Version /\ reader[q].txos \in List
        /\ reader[q].txos[p] => IsNullified(v, p)
    <3>1. reader[q] \in ReaderState /\ reader[q].at = "notes" /\ p \in reader[q].left
      BY <1>6 DEF CheckSpent, TypeOK
    <3>2. p \in DOMAIN reader[q].txos /\ v \in Version /\ reader[q].txos \in List
      BY <3>1 DEF ReaderState
    <3>3. IsRecordOf([version |-> v, spent |-> reader[q].txos[p]], p)
      BY <3>1, <3>2 DEF Genuine, ReadersGenuine
    <3> QED BY <3>1, <3>2, <3>3 DEF IsRecordOf
  <2>1. UNCHANGED <<nullified, clear>>
    BY <1>6 DEF CheckSpent, trees
  <2>2. CASE ~reader[q].txos[p] /\ IsNullified(v, p)
    <3>1. /\ stored' = [stored EXCEPT ![p] = [version |-> v, spent |-> TRUE]]
          /\ reader' = [reader EXCEPT ![q].left = @ \ {p}, ![q].txos[p] = TRUE]
          /\ InvalidateCommitmentsCache(q)
      BY <1>6, <2>2 DEF CheckSpent
    <3>2. /\ \A w \in Version : cache'[w] = None
          /\ \A s \in Reader \ {q} : reader[s].at # "idle" => s \in late'
          /\ late \subseteq late'
      BY <3>1, InvalidateType
    <3>3. \A s \in Reader \ {q} : reader'[s] = reader[s]
      BY <3>1 DEF TypeOK
    <3>4. /\ reader'[q].version = v /\ reader'[q].left = reader[q].left \ {p}
          /\ reader'[q].txos = [reader[q].txos EXCEPT ![p] = TRUE]
      BY <3>1 DEF TypeOK, ReaderState
    <3>5. ASSUME q \notin late', clear.at # "end" PROVE ReaderCurrent(stored', nullified', reader'[q])
      <4>1. ReaderCurrent(stored, nullified, reader[q])
        BY <2>0, <3>2, <3>5 DEF ListsCurrent
      <4>2. DOMAIN reader[q].txos = FoundIn(stored, v) /\ p \in FoundIn(stored, v)
        BY <2>0, <4>1 DEF ReaderCurrent
      <4>3. FoundIn(stored', v) = FoundIn(stored, v)
        <5> DEFINE rec == [version |-> v, spent |-> TRUE]
        <5>1. rec \in Record /\ rec.version = v
          BY <2>0 DEF Record
        <5>2. \A l \in Leaf : stored'[l] = IF l = p THEN rec ELSE stored[l]
          BY <3>1 DEF TypeOK
        <5> HIDE DEF rec
        <5>3. rec # None
          BY <5>1, NoneIsNone
        <5> QED BY <4>2, <5>1, <5>2, <5>3 DEF FoundIn
      <4>4. DOMAIN reader'[q].txos = FoundIn(stored, v)
        BY <3>4, <4>2
      <4>5. ASSUME NEW l \in FoundIn(stored, v) \ reader'[q].left
            PROVE  reader'[q].txos[l] = SpentIn(nullified, v, l)
        <5>1. CASE l = p
          <6>1. reader'[q].txos[l] = TRUE
            BY <2>0, <3>4, <5>1
          <6>2. SpentIn(nullified, v, l) = TRUE
            BY <2>2, <5>1 DEF IsNullified, SpentIn
          <6> QED BY <6>1, <6>2
        <5>2. CASE l # p
          <6>1. reader'[q].txos[l] = reader[q].txos[l] /\ l \notin reader[q].left
            BY <3>4, <4>2, <4>5, <5>2
          <6> QED BY <4>1, <4>5, <6>1 DEF ReaderCurrent
        <5> QED BY <5>1, <5>2
      <4> QED BY <3>4, <4>3, <4>4, <4>5, <2>1 DEF ReaderCurrent
    <3> QED BY <2>1, <3>2, <3>3, <3>5 DEF ListsCurrent
  <2>3. CASE ~(~reader[q].txos[p] /\ IsNullified(v, p))
    <3>1. reader' = [reader EXCEPT ![q].left = @ \ {p}] /\ UNCHANGED <<stored, cache, late, stale>>
      BY <1>6, <2>3 DEF CheckSpent
    <3>2. \A s \in Reader : /\ reader'[s].version = reader[s].version /\ reader'[s].at = reader[s].at
                            /\ reader'[s].txos = reader[s].txos
                            /\ reader'[s].left = IF s = q THEN reader[q].left \ {p} ELSE reader[s].left
      BY <3>1 DEF TypeOK, ReaderState
    <3>3. reader[q].txos[p] = SpentIn(nullified, v, p)
      <4>1. PICK S \in SUBSET Leaf : reader[q].txos \in [S -> BOOLEAN]
        BY <2>0 DEF List
      <4>2. reader[q].txos[p] \in BOOLEAN
        BY <4>1, <2>0
      <4>3. reader[q].txos[p] <=> SpentIn(nullified, v, p)
        BY <2>0, <2>3 DEF SpentIn, IsNullified
      <4>4. SpentIn(nullified, v, p) \in BOOLEAN
        BY DEF SpentIn
      <4> QED BY <4>2, <4>3, <4>4
    <3>4. ASSUME NEW s \in Reader \ late', reader'[s].at # "idle", clear.at # "end"
          PROVE  ReaderCurrent(stored', nullified', reader'[s])
      <4>1. ReaderCurrent(stored, nullified, reader[s])
        BY <3>1, <3>2, <3>4 DEF ListsCurrent
      <4>2. ASSUME NEW l \in FoundIn(stored, reader[s].version) \ reader'[s].left
            PROVE  reader[s].txos[l] = SpentIn(nullified, reader[s].version, l)
        <5>1. CASE s = q /\ l = p
          BY <3>3, <5>1
        <5>2. CASE ~(s = q /\ l = p)
          BY <3>2, <4>1, <4>2, <5>2 DEF ReaderCurrent
        <5> QED BY <5>1, <5>2
      <4> QED BY <2>1, <3>1, <3>2, <4>1, <4>2 DEF ReaderCurrent
    <3> QED BY <2>1, <3>1, <3>4 DEF ListsCurrent
  <2> QED BY <2>2, <2>3
<1>7. ASSUME NEW q \in Reader, FillCache(q) PROVE ListsCurrent'
  <2> DEFINE v == reader[q].version
  <2>1. /\ cache' = [cache EXCEPT ![v] = reader[q].txos]
        /\ stale' = IF q \in late THEN stale \union {v} ELSE stale \ {v}
        /\ late' = late \ {q} /\ reader' = [reader EXCEPT ![q] = IdleReader]
        /\ UNCHANGED <<stored, nullified, clear>> /\ reader[q].left = {} /\ reader[q].at = "notes"
    BY <1>7 DEF FillCache, trees, disk
  <2>2. \A s \in Reader : reader'[s] = IF s = q THEN IdleReader ELSE reader[s]
    BY <2>1 DEF TypeOK
  <2>3. ASSUME NEW s \in Reader \ late', reader'[s].at # "idle", clear.at # "end"
        PROVE  ReaderCurrent(stored', nullified', reader'[s])
    <3>1. s # q /\ reader'[s] = reader[s] /\ s \notin late
      BY <2>1, <2>2, <2>3 DEF IdleReader
    <3> QED BY <2>1, <2>3, <3>1 DEF ListsCurrent
  <2>4. ASSUME clear.at # "end", NEW w \in Version \ stale', cache'[w] # None
        PROVE  Current(stored', nullified', w, cache'[w])
    <3>1. CASE w = v
      <4>1. q \notin late
        BY <2>1, <2>4, <3>1
      <4>2. ReaderCurrent(stored, nullified, reader[q]) /\ cache'[w] = reader[q].txos
        BY <2>1, <2>4, <3>1, <4>1 DEF ListsCurrent, TypeOK
      <4> QED BY <2>1, <3>1, <4>2 DEF ReaderCurrent, Current
    <3>2. CASE w # v
      <4>1. cache'[w] = cache[w] /\ w \notin stale
        BY <2>1, <2>4, <3>2 DEF TypeOK
      <4> QED BY <2>1, <2>4, <4>1 DEF ListsCurrent
    <3> QED BY <3>1, <3>2
  <2> QED BY <2>1, <2>3, <2>4 DEF ListsCurrent
<1>8. ASSUME AddLeaf \/ StartClear \/ ReadForPOIs \/ UNCHANGED vars PROVE ListsCurrent'
  <2>1. UNCHANGED <<stored, nullified, cache, reader, late, stale>>
    BY <1>8 DEF AddLeaf, StartClear, ReadForPOIs, vars, trees, disk, lists
  <2>2. clear'.at # "end" => clear.at # "end"
    BY <1>8 DEF AddLeaf, StartClear, ReadForPOIs, vars
  <2> QED BY <1>1, <2>1, <2>2
<1>9. ASSUME NEW r \in Run, RunStep(r) \/ (\E v \in Version : Call(r, v) \/ Refuse(r, v)) \/ Fail(r), ~ScanLeaves(r)
      PROVE  UNCHANGED <<stored, nullified, cache, reader, late, stale, clear>>
  BY <1>9 DEF RunStep, Call, Refuse, ReadDetails, ScanTree, GiveUp, ReadMap, Commit, Finish, Fail, trees, disk, lists
<1>10. ASSUME Nullify \/ EndClear \/ WritePOIs \/ \E r \in Run : ScanLeaves(r)
       PROVE  InvalidateCommitmentsCache(None) /\ UNCHANGED reader
  BY <1>10 DEF Nullify, EndClear, WritePOIs, ScanLeaves
<1>11. ASSUME LeaveCaches, UNCHANGED <<cache, reader>> PROVE ListsCurrent'
  <2>1. /\ \A v \in Version \ stale' : cache'[v] = None
        /\ \A q \in Reader \ late' : reader'[q].at = "idle"
    BY <1>11 DEF LeaveCaches
  <2> QED BY <2>1 DEF ListsCurrent
<1>12. CASE FailClear
  <2>1. UNCHANGED <<nullified, cache, reader>> /\ (clear.at # "end" \/ FailEndClear)
    BY <1>12 DEF FailClear, FailClearNamespace, FailEndClear, trees
  <2>2. CASE FailEndClear
    BY <1>11, <2>1, <2>2 DEF FailEndClear
  <2>3. CASE FailClearNamespace
    <3>1. PICK removed \in SUBSET {p \in Leaf : stored[p] # None} :
            /\ stored' = [p \in Leaf |-> IF p \in removed THEN None ELSE stored[p]]
            /\ IF removed = {} THEN UNCHANGED <<late, stale>> ELSE LeaveCaches
      BY <2>3 DEF FailClearNamespace
    <3>2. CASE removed = {}
      <4>1. stored' = stored
        BY <3>1, <3>2 DEF TypeOK
      <4>2. clear.at # "end"
        BY <2>3 DEF FailClearNamespace
      <4> QED BY <1>1, <2>1, <3>1, <3>2, <4>1, <4>2
    <3>3. CASE removed # {}
      BY <1>11, <2>1, <3>1, <3>3
    <3> QED BY <3>2, <3>3
  <2> QED BY <1>12, <2>2, <2>3 DEF FailClear
<1> QED BY <1>1, <1>2, <1>3, <1>4, <1>5, <1>6, <1>7, <1>8, <1>9, <1>10, <1>12 DEF Next, ClearStep, ReadStep

-----------------------------------------------------------------------------
(* The invariant and what follows from it.                                   *)

LEMMA InitIInv == Init => IInv
BY InitTypes, InitGenuine, InitCreation, InitMissed, InitLists DEF IInv

LEMMA NextIInv == IInv /\ [Next]_vars => IInv'
BY NextTypes, GenuineInductive, CreationInductive, MissedInductive, ListsInductive DEF IInv

\* The inductive invariant of the wallet: what is in memory of a run or a reader
\* is covered by what is on disk, as long as no clear or update has outrun it.
THEOREM WalletInvariant == Spec => []IInv
BY InitIInv, NextIInv, PTL DEF Spec

LEMMA IInvPassedOver == IInv => NothingPassedOver
<1> SUFFICES ASSUME IInv, ~passedOver, NEW n \in Own, n.index < details[n.version].heights[n.tree], Alone(n)
             PROVE  IsStored(n)
  BY DEF NothingPassedOver
<1>1. Covered(n.version, n.tree, details[n.version].heights[n.tree])
  BY OwnType DEF IInv, NoneMissed
<1> QED BY <1>1 DEF Covered

LEMMA IInvCache == IInv => CacheIsCurrent
<1> SUFFICES ASSUME IInv, NEW v \in Version, cache[v] # None, v \notin stale, clear.at # "end"
             PROVE  cache[v] = [p \in Found(v) |-> IsNullified(v, p)]
  BY DEF CacheIsCurrent
<1>1. Current(stored, nullified, v, cache[v])
  BY DEF IInv, ListsCurrent
<1>2. cache[v] \in List
  BY DEF IInv, TypeOK
<1>3. PICK S \in SUBSET Leaf : cache[v] \in [S -> BOOLEAN]
  BY <1>2 DEF List
<1>4. S = Found(v) /\ FoundIn(stored, v) = Found(v)
  BY <1>1, <1>3 DEF Current, Found, FoundIn
<1>5. \A p \in Found(v) : cache[v][p] = IsNullified(v, p)
  BY <1>1, <1>4 DEF Current, SpentIn, IsNullified
<1> QED BY <1>3, <1>4, <1>5

\* A note below the stored height of its tree is in the database, for any number
\* of overlapping, failing and stopped runs (abstract-wallet.ts:2852), unless a
\* run that a clear has outrun stores its heights after it or a clear has thrown
\* with notes removed and heights left.
THEOREM NoNoteIsPassedOver == Spec => []NothingPassedOver
BY WalletInvariant, IInvPassedOver, PTL

\* A cached list of notes is that of the database, spent where the nullifiers
\* say so (abstract-wallet.ts:1018), unless its reader was overtaken by an update
\* or a clear has thrown once notes were removed.
THEOREM CachedListIsCurrent == Spec => []CacheIsCurrent
BY WalletInvariant, IInvCache, PTL
=============================================================================
