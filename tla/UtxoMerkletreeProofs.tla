------------------------ MODULE UtxoMerkletreeProofs ------------------------
(* What holds of the UTXO merkletree for any number of trees, any tree size,
   any group sizes and any root history: types, and that no tree is ever
   longer than the commitments stored for it (IInv); that a recorded invalid
   root is ahead of its tree (Ahead); what the updates lock counts, beside
   rescans (LockInv); that nothing forged is written (Clean); that the root
   of a tree is the contract's (Served); and, from these, that the trees
   implement CommitmentLog.                                                  *)
EXTENDS UtxoMerkletree, FiniteSetTheorems, SequenceTheorems, TLAPS

LEMMA HeightFacts ==
  /\ Index \subseteq Height
  /\ \A i \in Index : i + 1 \in Height
  /\ 0 \in Height
  /\ Undefined \notin Height /\ Undefined \notin Index /\ Undefined \notin Leaf
BY ItemsAreCounted, UndefinedIsNoValue DEF Index, Height, Leaf

\* Counting the data of a tree gives a length
LEMMA CountIsHeight ==
  ASSUME NEW t \in Trees
  PROVE  DataCount(t) \in Height
<1> DEFINE S == {i \in Index : data[t][i] # Undefined}
<1>1. IsFiniteSet(Index) /\ Cardinality(Index) = TreeMaxItems
  BY ItemsAreCounted, FS_Interval DEF Index
<1>2. Cardinality(S) <= TreeMaxItems /\ IsFiniteSet(S)
  BY <1>1, FS_Subset
<1>3. Cardinality(S) \in Nat
  BY <1>2, FS_CardinalityType
<1> QED
  BY <1>2, <1>3, ItemsAreCounted DEF DataCount, Height

LEMMA LengthIsHeight ==
  ASSUME TypeOK, NEW t \in Trees
  PROVE  TreeLength(t) \in Height
BY CountIsHeight DEF TypeOK, TreeLength, Stored, Record

LEMMA CountedIsStored ==
  ASSUME TypeOK, NEW t \in Trees
  PROVE  CountedMetadata(t) \in Stored
BY LengthIsHeight DEF TypeOK, CountedMetadata, Stored, Record, MustCount

\* getTreeLength keeps types
LEMMA GetLengthTypes ==
  ASSUME TypeOK, NEW t \in Trees, GetTreeLength(t)
  PROVE  /\ treeLengths' \in [Trees -> Height \union {Undefined}]
         /\ metadata' \in Stored
         /\ recounted' \in SUBSET Trees
BY LengthIsHeight, CountedIsStored DEF TypeOK, GetTreeLength

LEMMA RootIsVector ==
  ASSUME TypeOK, NEW t \in Trees
  PROVE  Root(t) \in Vector
BY DEF TypeOK, Root

LEMMA QueuedLeaf ==
  ASSUME TypeOK, NEW t \in Trees, NEW i, QueuedAt(t, i)
  PROVE  i \in Index /\ writeQueue[t] \in Vector /\ writeQueue[t][i] \in Leaf
BY DEF TypeOK, QueuedAt, Vector

LEMMA NoGroupTypes == NoGroup \in Group /\ NoSnap \in Snap /\ Nothing \in Stored
                      /\ Empty \in Vector /\ NoUpdate \in Updater
BY HeightFacts DEF NoGroup, Group, NoSnap, Snap, Nothing, Stored, Empty, Vector,
                   NoUpdate, Updater, Details

LEMMA FirstSize == 1 \in 1..Len(GroupSizes)
BY SizesAreALadder

LEMMA SpendTypes ==
  ASSUME TypeOK, NEW kind \in Bounded, NEW limit, Spend(kind, limit)
  PROVE  spent' \in [Bounded -> Nat]
BY DEF TypeOK, Spend

LEMMA Kinds == {"crash", "error", "forgery", "clear", "update"} \subseteq Bounded
BY DEF Bounded

LEMMA InitTypes == Init => TypeOK
BY NoGroupTypes, FirstSize DEF Init, TypeOK, Nothing, Details, Stage, Bounded

LEMMA FinishTypes ==
  ASSUME TypeOK, NEW t \in Trees, Finish(t)
  PROVE  /\ pc' \in [Trees -> Stage] /\ size' \in [Trees -> 1..Len(GroupSizes)]
         /\ skip' \in [Trees -> BOOLEAN] /\ group' \in [Trees -> Group]
         /\ pending' \in [Trees -> SUBSET {"nodes", "data"}]
         /\ snap' \in [Trees -> Snap]
         /\ after' \in [Trees -> {"write", "retry", "dequeue"}]
BY NoGroupTypes, FirstSize DEF TypeOK, Finish, Stage
-----------------------------------------------------------------------------
LEMMA QueueLeafTypes ==
  ASSUME TypeOK, NEW t \in Trees, NEW i \in Index, NEW leaf \in Leaf, QueueLeaf(t, i, leaf)
  PROVE  TypeOK'
<1> DEFINE queue == IF writeQueue[t] = Undefined THEN Empty ELSE writeQueue[t]
<1>1. queue \in Vector /\ Queued(queue, i, leaf) \in Vector
  BY NoGroupTypes DEF TypeOK, Queued, Vector
<1>2. writeQueue' \in [Trees -> Vector \union {Undefined}]
  <2>1. \E q \in Vector : writeQueue' = [writeQueue EXCEPT ![t] = q]
    BY <1>1 DEF QueueLeaf
  <2> QED
    BY <2>1 DEF TypeOK
<1>3. spent' \in [Bounded -> Nat]
  BY SpendTypes, Kinds DEF TypeOK, QueueLeaf
<1> QED
  BY <1>2, <1>3, GetLengthTypes DEF TypeOK, QueueLeaf, local, others

LEMMA BeginTypes ==
  ASSUME TypeOK, NEW t \in Trees, NEW skipValidation \in BOOLEAN, Begin(t, skipValidation)
  PROVE  TypeOK'
<1>1. writeQueue' \in [Trees -> Vector \union {Undefined}]
  BY DEF TypeOK, Begin, Vector
<1>2. pc' \in [Trees -> Stage] /\ size' \in [Trees -> 1..Len(GroupSizes)]
      /\ skip' \in [Trees -> BOOLEAN]
  BY FirstSize DEF TypeOK, Begin, Stage
<1> QED
  BY <1>1, <1>2, GetLengthTypes DEF TypeOK, Begin, others

LEMMA NothingToProcessTypes ==
  ASSUME TypeOK, NEW t \in Trees, NothingToProcess(t)
  PROVE  TypeOK'
BY GetLengthTypes, FinishTypes DEF TypeOK, NothingToProcess, others

LEMMA TakeGroupTypes ==
  ASSUME TypeOK, NEW t \in Trees, TakeGroup(t)
  PROVE  TypeOK'
<1>1. group' \in [Trees -> Group]
  <2> DEFINE start == TreeLength(t)
             InGroup(i, end) == start <= i /\ i < end
             leaves(end) == [i \in Index |->
               IF InGroup(i, end) THEN writeQueue[t][i] ELSE Undefined]
             root(end) == [i \in Index |->
               IF InGroup(i, end) THEN writeQueue[t][i] ELSE Root(t)[i]]
  <2>1. PICK end \in Height :
          /\ \A i \in Index : InGroup(i, end) => QueuedAt(t, i)
          /\ group' = [group EXCEPT ![t] = [start |-> start, end |-> end,
                         leaves |-> leaves(end), root |-> root(end)]]
    BY DEF TakeGroup
  <2>2. leaves(end) \in Vector
    BY <2>1, QueuedLeaf DEF Vector
  <2>3. root(end) \in Vector
    BY <2>1, QueuedLeaf, RootIsVector DEF Vector
  <2>4. [start |-> start, end |-> end, leaves |-> leaves(end), root |-> root(end)] \in Group
    BY <2>2, <2>3, LengthIsHeight DEF Group
  <2> QED
    BY <2>1, <2>4 DEF TypeOK
<1>2. pc' \in [Trees -> Stage]
  BY DEF TypeOK, TakeGroup, Stage
<1> QED
  BY <1>1, <1>2, GetLengthTypes DEF TypeOK, TakeGroup, others

LEMMA AcceptedTypes ==
  ASSUME TypeOK, NEW t \in Trees, Accepted(t)
  PROVE  TypeOK'
<1>1. pc' \in [Trees -> Stage] /\ after' \in [Trees -> {"write", "retry", "dequeue"}]
  BY DEF TypeOK, Accepted, SaveThen, Stage
<1>2. invalidDetails' \in [Trees -> Details]
  BY DEF TypeOK, Accepted, Details
<1> QED
  BY <1>1, <1>2 DEF TypeOK, Accepted, disk, others, ghosts

LEMMA RejectedTypes ==
  ASSUME TypeOK, NEW t \in Trees, Rejected(t), group[t].end # 0
  PROVE  TypeOK'
<1>1. pc' \in [Trees -> Stage] /\ after' \in [Trees -> {"write", "retry", "dequeue"}]
  BY DEF TypeOK, Rejected, SaveThen, Stage
<1>2. group[t].end - 1 \in Details
  BY ItemsAreCounted DEF TypeOK, Group, Height, Details, Index
<1>3. invalidDetails' \in [Trees -> Details]
  BY <1>2 DEF TypeOK, Rejected
<1> QED
  BY <1>1, <1>3 DEF TypeOK, Rejected, disk, others, ghosts

LEMMA RetryTypes ==
  ASSUME TypeOK, NEW t \in Trees, Retry(t)
  PROVE  TypeOK'
<1>1. CASE SmallerGroup(t)
  <2>1. size[t] + 1 \in 1..Len(GroupSizes)
    BY <1>1, SizesAreALadder DEF TypeOK, SmallerGroup
  <2>2. /\ size' = [size EXCEPT ![t] = size[t] + 1]
        /\ group' = [group EXCEPT ![t] = NoGroup]
        /\ pc' = [pc EXCEPT ![t] = "loop"]
        /\ UNCHANGED <<skip, pending, snap, after>>
    BY <1>1 DEF Retry
  <2>3. size' \in [Trees -> 1..Len(GroupSizes)] /\ group' \in [Trees -> Group]
    BY <2>1, <2>2, NoGroupTypes DEF TypeOK
  <2>4. pc' \in [Trees -> Stage]
    BY <2>2 DEF TypeOK, Stage
  <2> QED
    BY <2>2, <2>3, <2>4 DEF TypeOK, Retry, memory, disk, others, ghosts
<1>2. CASE ~SmallerGroup(t)
  BY <1>2, FinishTypes DEF TypeOK, Retry, memory, disk, others, ghosts
<1> QED
  BY <1>1, <1>2

LEMMA MetaReadTypes ==
  ASSUME TypeOK, NEW t \in Trees, MetaRead(t)
  PROVE  TypeOK'
<1>1. snap' \in [Trees -> Snap]
  BY LengthIsHeight, CountedIsStored DEF TypeOK, MetaRead, Snap
<1>2. pc' \in [Trees -> Stage]
  BY DEF TypeOK, MetaRead, Stage
<1> QED
  BY <1>1, <1>2, GetLengthTypes DEF TypeOK, MetaRead, others

LEMMA MetaWriteTypes ==
  ASSUME TypeOK, NEW t \in Trees, MetaWrite(t)
  PROVE  TypeOK'
<1>1. metadata' \in Stored
  BY DEF TypeOK, MetaWrite, Stored, Snap, Record
<1>2. pc' \in [Trees -> Stage] /\ snap' \in [Trees -> Snap]
      /\ after' \in [Trees -> {"write", "retry", "dequeue"}]
  BY NoGroupTypes DEF TypeOK, MetaWrite, Stage
<1> QED
  BY <1>1, <1>2 DEF TypeOK, MetaWrite, memory, others, ghosts

LEMMA WriteTypes ==
  ASSUME TypeOK, NEW t \in Trees, Write(t)
  PROVE  TypeOK'
<1>1. cachedRoot' \in [Trees -> Vector \union {Undefined}]
  BY DEF TypeOK, Write, Group
<1>2. pc' \in [Trees -> Stage] /\ pending' \in [Trees -> SUBSET {"nodes", "data"}]
  BY DEF TypeOK, Write, Stage
<1> QED
  BY <1>1, <1>2 DEF TypeOK, Write, disk, others, ghosts

LEMMA WithGroupIsVector ==
  ASSUME TypeOK, NEW t \in Trees
  PROVE  WithGroup(t) \in Vector
BY DEF TypeOK, WithGroup, Vector, Group

LEMMA LandNodesTypes ==
  ASSUME TypeOK, NEW t \in Trees, LandNodes(t)
  PROVE  TypeOK'
<1>1. storedRoot' \in [Trees -> Vector] /\ pending' \in [Trees -> SUBSET {"nodes", "data"}]
  BY DEF TypeOK, LandNodes, Group
<1> QED
  BY <1>1 DEF TypeOK, LandNodes, memory, others, ghosts

LEMMA LandDataTypes ==
  ASSUME TypeOK, NEW t \in Trees, LandData(t)
  PROVE  TypeOK'
<1>1. data' \in [Trees -> Vector] /\ pending' \in [Trees -> SUBSET {"nodes", "data"}]
  BY WithGroupIsVector DEF TypeOK, LandData
<1> QED
  BY <1>1 DEF TypeOK, LandData, memory, others, ghosts

LEMMA LengthenTypes ==
  ASSUME TypeOK, NEW t \in Trees, Lengthen(t)
  PROVE  TypeOK'
<1>1. treeLengths' \in [Trees -> Height \union {Undefined}]
  BY DEF TypeOK, Lengthen, Group
<1>2. pc' \in [Trees -> Stage] /\ after' \in [Trees -> {"write", "retry", "dequeue"}]
  BY DEF TypeOK, Lengthen, SaveThen, Stage
<1> QED
  BY <1>1, <1>2 DEF TypeOK, Lengthen, disk, others, ghosts

LEMMA DequeueTypes ==
  ASSUME TypeOK, NEW t \in Trees, Dequeue(t), writeQueue[t] \in Vector
  PROVE  TypeOK'
<1> DEFINE rest == [i \in Index |->
      IF group[t].leaves[i] # Undefined THEN Undefined ELSE writeQueue[t][i]]
<1>1. rest \in Vector
  BY DEF TypeOK, Vector
<1>2. writeQueue' \in [Trees -> Vector \union {Undefined}]
  BY <1>1 DEF TypeOK, Dequeue
<1>3. pc' \in [Trees -> Stage] /\ group' \in [Trees -> Group]
  BY NoGroupTypes DEF TypeOK, Dequeue, Stage
<1> QED
  BY <1>2, <1>3 DEF TypeOK, Dequeue, disk, others, ghosts

LEMMA AbortTypes ==
  ASSUME TypeOK, NEW t \in Trees, Abort(t)
  PROVE  TypeOK'
<1>1. storedRoot' \in [Trees -> Vector]
  BY DEF TypeOK, Abort, Group
<1>2. data' \in [Trees -> Vector]
  BY WithGroupIsVector DEF TypeOK, Abort
<1>3. spent' \in [Bounded -> Nat]
  BY SpendTypes, Kinds DEF TypeOK, Abort
<1>4. Finish(t) /\ UNCHANGED <<memory, metadata, others, recounted>>
  BY DEF Abort
<1> QED
  BY <1>1, <1>2, <1>3, <1>4, FinishTypes DEF TypeOK, memory, others

LEMMA CrashTypes == ASSUME TypeOK, Crash PROVE TypeOK'
<1>1. treeLengths' \in [Trees -> Height \union {Undefined}]
      /\ invalidDetails' \in [Trees -> Details]
  BY DEF TypeOK, Crash, StoredLengths, StoredDetails, Stored, Record, Details
<1>2. spent' \in [Bounded -> Nat]
  BY SpendTypes, Kinds DEF TypeOK, Crash
<1>3. /\ pc' \in [Trees -> Stage] /\ size' \in [Trees -> 1..Len(GroupSizes)]
      /\ after' \in [Trees -> {"write", "retry", "dequeue"}]
  BY FirstSize DEF Crash, Stage
<1>4. /\ group' \in [Trees -> Group] /\ snap' \in [Trees -> Snap]
      /\ pending' \in [Trees -> SUBSET {"nodes", "data"}]
      /\ skip' \in [Trees -> BOOLEAN]
  BY NoGroupTypes DEF Crash
<1>5. /\ writeQueue' \in [Trees -> Vector \union {Undefined}]
      /\ cachedRoot' \in [Trees -> Vector \union {Undefined}]
  BY DEF Crash, Nothing
<1> QED
  BY <1>1, <1>2, <1>3, <1>4, <1>5, NoGroupTypes DEF TypeOK, Crash, disk
-----------------------------------------------------------------------------
Inserting == {"validate", "metaRead", "metaWrite", "retry", "write",
              "lockwait", "batch", "dequeue"}

\* The data of a tree has no holes
NoHoles(t) ==
  \A i, j \in Index : j < i /\ data[t][i] # Undefined => data[t][j] # Undefined

\* Lengths that are on their way to the stored metadata are covered already
SnapCovered(t) ==
  /\ Covers(t, snap[t].height)
  /\ \A u \in Trees : snap[t].trees[u] # Undefined => Covers(u, snap[t].trees[u].height)

\* A group fits at the end of its tree, and fills its positions
GroupFits(t) ==
  /\ \A i \in Index :
       group[t].leaves[i] # Undefined <=> group[t].start <= i /\ i < group[t].end
  /\ Covers(t, group[t].start)
  /\ pc[t] \in Inserting => group[t].start < group[t].end /\ writeQueue[t] \in Vector

GroupLanded(t) ==
  pc[t] = "batch" /\ "data" \notin pending[t] => Covers(t, group[t].end)

TreeInv(t) == NoHoles(t) /\ SnapCovered(t) /\ GroupFits(t) /\ GroupLanded(t)

IInv == TypeOK /\ StoredPrefix /\ \A t \in Trees : TreeInv(t)

\* A set of positions without holes that has n members is 0..n-1
LEMMA CountCovers ==
  ASSUME TypeOK, NEW t \in Trees, NoHoles(t)
  PROVE  Covers(t, DataCount(t))
<1> DEFINE S == {i \in Index : data[t][i] # Undefined}
<1> SUFFICES ASSUME NEW i \in Index, i < Cardinality(S), i \notin S
             PROVE  FALSE
  BY DEF Covers, DataCount
<1>1. S \subseteq 0..(i - 1)
  BY DEF NoHoles, Index
<1>2. IsFiniteSet(0..(i - 1)) /\ Cardinality(0..(i - 1)) = i
  <2>1. i \in Int /\ 0 \in Int /\ i - 1 \in Int /\ i >= 0
    BY DEF Index
  <2>2. /\ IsFiniteSet(0..(i - 1))
        /\ Cardinality(0..(i - 1)) = IF 0 > i - 1 THEN 0 ELSE (i - 1) - 0 + 1
    BY <2>1, FS_Interval
  <2> QED
    BY <2>1, <2>2
<1>3. Cardinality(S) <= i
  BY <1>1, <1>2, FS_Subset
<1>4. Cardinality(S) \in Nat
  BY <1>1, <1>2, FS_Subset, FS_CardinalityType
<1> QED
  BY <1>3, <1>4 DEF Index

LEMMA LengthCovers ==
  ASSUME IInv, NEW t \in Trees
  PROVE  Covers(t, TreeLength(t))
BY CountCovers DEF IInv, TreeInv, StoredPrefix, TreeLength

LEMMA CountedCovers ==
  ASSUME IInv, NEW t \in Trees, NEW u \in Trees, CountedMetadata(t)[u] # Undefined
  PROVE  Covers(u, CountedMetadata(t)[u].height)
BY LengthCovers DEF IInv, TypeOK, StoredPrefix, CountedMetadata, Stored

LEMMA GetLengthCovers ==
  ASSUME IInv, NEW t \in Trees, GetTreeLength(t), UNCHANGED data
  PROVE  StoredPrefix'
<1>1. ASSUME NEW u \in Trees, treeLengths'[u] # Undefined
      PROVE  Covers(u, treeLengths'[u])
  BY <1>1, LengthCovers DEF IInv, TypeOK, StoredPrefix, GetTreeLength
<1>2. ASSUME NEW u \in Trees, metadata'[u] # Undefined
      PROVE  Covers(u, metadata'[u].height)
  BY <1>2, CountedCovers DEF GetTreeLength
<1> QED
  BY <1>1, <1>2 DEF StoredPrefix, Covers

\* What a step must keep for the trees it does not process
LEMMA OtherTrees ==
  ASSUME IInv, NEW t \in Trees, NEW u \in Trees, u # t,
         \A v \in Trees, i \in Index : data[v][i] # Undefined => data'[v][i] # Undefined,
         data'[u] = data[u], snap'[u] = snap[u], group'[u] = group[u],
         pc'[u] = pc[u], pending'[u] = pending[u],
         writeQueue'[u] = writeQueue[u]
  PROVE  TreeInv(u)'
BY DEF IInv, TreeInv, NoHoles, SnapCovered, GroupFits, GroupLanded, Covers

Covered == StoredPrefix /\ \A t \in Trees : TreeInv(t)

LEMMA QueueLeafCovers ==
  ASSUME IInv, NEW t \in Trees, NEW i \in Index, NEW leaf \in Leaf, QueueLeaf(t, i, leaf)
  PROVE  Covered'
<1>1. StoredPrefix'
  BY GetLengthCovers DEF QueueLeaf
<1>2. TypeOK /\ TypeOK'
  BY QueueLeafTypes DEF IInv
<1>3. writeQueue'[t] \in Vector
  <2> DEFINE queue == IF writeQueue[t] = Undefined THEN Empty ELSE writeQueue[t]
  <2>1. queue \in Vector /\ Queued(queue, i, leaf) \in Vector
    BY <1>2, NoGroupTypes DEF TypeOK, Queued, Vector
  <2>2. \E q \in Vector : writeQueue' = [writeQueue EXCEPT ![t] = q]
    BY <2>1 DEF QueueLeaf
  <2> QED
    BY <1>2, <2>2 DEF TypeOK
<1>4. UNCHANGED <<data, pc, group, pending, snap>>
  BY DEF QueueLeaf, local
<1>5. TreeInv(t)'
  BY <1>3, <1>4 DEF IInv, TreeInv, NoHoles, SnapCovered, GroupFits, GroupLanded, Covers
<1>6. ASSUME NEW u \in Trees, u # t PROVE TreeInv(u)'
  <2>1. writeQueue'[u] = writeQueue[u]
    BY <1>2, <1>6 DEF QueueLeaf, TypeOK
  <2> QED
    BY <1>4, <1>6, <2>1, OtherTrees
<1> QED
  BY <1>1, <1>5, <1>6 DEF Covered

LEMMA BeginCovers ==
  ASSUME IInv, NEW t \in Trees, NEW skipValidation \in BOOLEAN, Begin(t, skipValidation)
  PROVE  Covered'
<1>1. StoredPrefix'
  BY GetLengthCovers DEF Begin
<1>2. TypeOK
  BY DEF IInv
<1>3. /\ UNCHANGED <<data, group, pending, snap>>
      /\ pc'[t] = "loop"
      /\ \A u \in Trees \ {t} : pc'[u] = pc[u] /\ writeQueue'[u] = writeQueue[u]
  BY <1>2 DEF Begin, TypeOK
<1>4. TreeInv(t)'
  BY <1>3 DEF IInv, TreeInv, NoHoles, SnapCovered, GroupFits, GroupLanded, Covers, Inserting
<1>5. ASSUME NEW u \in Trees, u # t PROVE TreeInv(u)'
  BY <1>3, <1>5, OtherTrees
<1> QED
  BY <1>1, <1>4, <1>5 DEF Covered

\* A tree whose processing has ended is in order
LEMMA FinishCovers ==
  ASSUME IInv, NEW t \in Trees, Finish(t), NoHoles(t)'
  PROVE  TreeInv(t)'
<1>1. /\ pc'[t] = "idle"
      /\ group'[t] = NoGroup /\ snap'[t] = NoSnap
  BY DEF IInv, TypeOK, Finish
<1>2. SnapCovered(t)'
  BY <1>1 DEF SnapCovered, Covers, NoSnap, Nothing, Index
<1>3. GroupFits(t)' /\ GroupLanded(t)'
  BY <1>1, HeightFacts DEF GroupFits, GroupLanded, Covers, NoGroup, Empty, Index, Inserting
<1> QED
  BY <1>2, <1>3 DEF TreeInv

LEMMA FinishKeepsOthers ==
  ASSUME TypeOK, NEW t \in Trees, NEW u \in Trees, u # t, Finish(t)
  PROVE  /\ snap'[u] = snap[u] /\ group'[u] = group[u]
         /\ pc'[u] = pc[u] /\ pending'[u] = pending[u]
BY DEF TypeOK, Finish

LEMMA NothingToProcessCovers ==
  ASSUME IInv, NEW t \in Trees, NothingToProcess(t)
  PROVE  Covered'
<1>1. StoredPrefix'
  BY GetLengthCovers DEF NothingToProcess
<1>2. UNCHANGED <<data, writeQueue>> /\ Finish(t) /\ TypeOK
  BY DEF NothingToProcess, IInv
<1>3. NoHoles(t)'
  BY <1>2 DEF IInv, TreeInv, NoHoles
<1>4. ASSUME NEW u \in Trees, u # t PROVE TreeInv(u)'
  BY <1>2, <1>4, OtherTrees, FinishKeepsOthers
<1> QED
  BY <1>1, <1>2, <1>3, <1>4, FinishCovers DEF Covered

LEMMA TakeGroupCovers ==
  ASSUME IInv, NEW t \in Trees, TakeGroup(t)
  PROVE  Covered'
<1>1. StoredPrefix'
  BY GetLengthCovers DEF TakeGroup
<1>2. TypeOK
  BY DEF IInv
<1>3. /\ UNCHANGED <<data, writeQueue, pending, snap>>
      /\ pc'[t] = "validate"
      /\ \A u \in Trees \ {t} : pc'[u] = pc[u] /\ group'[u] = group[u]
  BY <1>2 DEF TakeGroup, TypeOK
<1>4. PICK end \in Height :
        /\ TreeLength(t) < end
        /\ \A i \in Index : TreeLength(t) <= i /\ i < end => QueuedAt(t, i)
        /\ group'[t].start = TreeLength(t)
        /\ group'[t].end = end
        /\ group'[t].leaves = [i \in Index |->
             IF TreeLength(t) <= i /\ i < end THEN writeQueue[t][i] ELSE Undefined]
  BY <1>2 DEF TakeGroup, TypeOK
<1>5. Covers(t, TreeLength(t))
  BY LengthCovers
<1>6. writeQueue[t] \in Vector
  <2>1. TreeLength(t) \in Index
    BY <1>2, <1>4, LengthIsHeight, ItemsAreCounted DEF Height, Index
  <2>2. QueuedAt(t, TreeLength(t))
    BY <1>2, <1>4, <2>1, LengthIsHeight DEF Height
  <2> QED
    BY <1>2, <2>2, QueuedLeaf
<1>7. GroupFits(t)'
  <2>1. \A i \in Index : group'[t].leaves[i] # Undefined
          <=> group'[t].start <= i /\ i < group'[t].end
    BY <1>4 DEF QueuedAt
  <2> QED
    BY <1>3, <1>4, <1>5, <1>6, <2>1 DEF GroupFits, Covers
<1>8. TreeInv(t)'
  BY <1>3, <1>7 DEF IInv, TreeInv, NoHoles, SnapCovered, GroupLanded, Covers
<1>9. ASSUME NEW u \in Trees, u # t PROVE TreeInv(u)'
  BY <1>3, <1>9, OtherTrees
<1> QED
  BY <1>1, <1>8, <1>9 DEF Covered

\* Steps inside an insertion that touch neither the data nor what is recorded
LEMMA InsertionStepCovers ==
  ASSUME IInv, NEW t \in Trees, pc[t] \in Inserting,
         UNCHANGED <<treeLengths, metadata, data, snap, group, writeQueue>>,
         \A u \in Trees \ {t} : pc'[u] = pc[u] /\ pending'[u] = pending[u],
         pc'[t] = "batch" => "data" \in pending'[t] \/ (pc[t] = "batch" /\ "data" \notin pending[t])
  PROVE  Covered'
<1>1. StoredPrefix'
  BY DEF IInv, StoredPrefix, Covers
<1>2. TreeInv(t)'
  BY DEF IInv, TreeInv, NoHoles, SnapCovered, GroupFits, GroupLanded, Covers
<1>3. ASSUME NEW u \in Trees, u # t PROVE TreeInv(u)'
  BY <1>3, OtherTrees
<1> QED
  BY <1>1, <1>2, <1>3 DEF Covered

LEMMA AcceptedCovers ==
  ASSUME IInv, NEW t \in Trees, Accepted(t)
  PROVE  Covered'
<1>1. /\ pc[t] \in Inserting
      /\ UNCHANGED <<treeLengths, metadata, data, snap, group, writeQueue, pending>>
  BY DEF Accepted, Inserting, disk
<1>2. /\ \A u \in Trees \ {t} : pc'[u] = pc[u]
      /\ pc'[t] \in {"write", "metaRead"}
  BY DEF Accepted, SaveThen, IInv, TypeOK
<1> QED
  BY <1>1, <1>2, InsertionStepCovers

LEMMA RejectedCovers ==
  ASSUME IInv, NEW t \in Trees, Rejected(t)
  PROVE  Covered'
<1>1. /\ pc[t] \in Inserting
      /\ UNCHANGED <<treeLengths, metadata, data, snap, group, writeQueue, pending>>
  BY DEF Rejected, Inserting, disk
<1>2. /\ \A u \in Trees \ {t} : pc'[u] = pc[u]
      /\ pc'[t] \in {"retry", "metaRead"}
  BY DEF Rejected, SaveThen, IInv, TypeOK
<1> QED
  BY <1>1, <1>2, InsertionStepCovers

LEMMA RetryCovers ==
  ASSUME IInv, NEW t \in Trees, Retry(t)
  PROVE  Covered'
<1>1. UNCHANGED <<treeLengths, metadata, data, writeQueue>> /\ TypeOK
  BY DEF Retry, memory, disk, IInv
<1>2. StoredPrefix' /\ NoHoles(t)'
  BY <1>1 DEF IInv, StoredPrefix, TreeInv, NoHoles, Covers
<1>3. CASE SmallerGroup(t)
  <2>1. /\ UNCHANGED <<pending, snap>>
        /\ group'[t] = NoGroup /\ pc'[t] = "loop"
        /\ \A u \in Trees \ {t} : pc'[u] = pc[u] /\ group'[u] = group[u]
    BY <1>1, <1>3 DEF Retry, TypeOK
  <2>2. GroupFits(t)'
    BY <2>1, HeightFacts DEF GroupFits, Covers, NoGroup, Empty, Index, Inserting
  <2>3. TreeInv(t)'
    BY <1>1, <1>2, <2>1, <2>2 DEF IInv, TreeInv, SnapCovered, GroupLanded, Covers
  <2>4. ASSUME NEW u \in Trees, u # t PROVE TreeInv(u)'
    BY <1>1, <2>1, <2>4, OtherTrees
  <2> QED
    BY <1>2, <2>3, <2>4 DEF Covered
<1>4. CASE ~SmallerGroup(t)
  <2>1. Finish(t)
    BY <1>4 DEF Retry
  <2>2. ASSUME NEW u \in Trees, u # t PROVE TreeInv(u)'
    BY <1>1, <2>1, <2>2, OtherTrees, FinishKeepsOthers
  <2> QED
    BY <1>2, <2>1, <2>2, FinishCovers DEF Covered
<1> QED
  BY <1>3, <1>4

LEMMA MetaReadCovers ==
  ASSUME IInv, NEW t \in Trees, MetaRead(t)
  PROVE  Covered'
<1>1. StoredPrefix'
  BY GetLengthCovers DEF MetaRead
<1>2. TypeOK
  BY DEF IInv
<1>3. /\ UNCHANGED <<data, writeQueue, pending, group>>
      /\ pc[t] \in Inserting /\ pc'[t] = "metaWrite"
      /\ \A u \in Trees \ {t} : pc'[u] = pc[u] /\ snap'[u] = snap[u]
      /\ snap'[t] = [height |-> TreeLength(t), trees |-> CountedMetadata(t)]
  BY <1>2 DEF MetaRead, TypeOK, Inserting
<1>4. SnapCovered(t)'
  BY <1>3, LengthCovers, CountedCovers DEF SnapCovered, Covers
<1>5. TreeInv(t)'
  BY <1>3, <1>4 DEF IInv, TreeInv, NoHoles, GroupFits, GroupLanded, Covers
<1>6. ASSUME NEW u \in Trees, u # t PROVE TreeInv(u)'
  BY <1>3, <1>6, OtherTrees
<1> QED
  BY <1>1, <1>5, <1>6 DEF Covered

LEMMA MetaWriteCovers ==
  ASSUME IInv, NEW t \in Trees, MetaWrite(t)
  PROVE  Covered'
<1>1. TypeOK
  BY DEF IInv
<1>2. /\ UNCHANGED <<data, treeLengths, writeQueue, pending, group>>
      /\ pc[t] \in Inserting /\ pc'[t] = after[t] /\ after[t] # "batch"
      /\ \A u \in Trees \ {t} : pc'[u] = pc[u] /\ snap'[u] = snap[u]
      /\ snap'[t] = NoSnap
      /\ metadata' = [snap[t].trees EXCEPT ![t] =
           [height |-> snap[t].height, invalid |-> invalidDetails[t]]]
  BY <1>1 DEF MetaWrite, TypeOK, Inserting, memory
<1>3. snap[t].trees \in Stored
  BY <1>1 DEF TypeOK, Snap
<1>4. StoredPrefix'
  <2>1. ASSUME NEW u \in Trees, metadata'[u] # Undefined
        PROVE  Covers(u, metadata'[u].height)
    BY <1>2, <1>3, <2>1 DEF IInv, TreeInv, SnapCovered, Stored
  <2> QED
    BY <1>2, <2>1 DEF IInv, StoredPrefix, Covers
<1>5. SnapCovered(t)'
  BY <1>2 DEF SnapCovered, Covers, NoSnap, Nothing, Index
<1>6. TreeInv(t)'
  BY <1>2, <1>5 DEF IInv, TreeInv, NoHoles, GroupFits, GroupLanded, Covers
<1>7. ASSUME NEW u \in Trees, u # t PROVE TreeInv(u)'
  BY <1>2, <1>7, OtherTrees
<1> QED
  BY <1>4, <1>6, <1>7 DEF Covered

LEMMA WriteCovers ==
  ASSUME IInv, NEW t \in Trees, Write(t)
  PROVE  Covered'
<1>1. /\ pc[t] \in Inserting
      /\ UNCHANGED <<treeLengths, metadata, data, snap, group, writeQueue>>
  BY DEF Write, Inserting, disk
<1>2. /\ \A u \in Trees \ {t} : pc'[u] = pc[u] /\ pending'[u] = pending[u]
      /\ "data" \in pending'[t]
  BY DEF Write, IInv, TypeOK
<1> QED
  BY <1>1, <1>2, InsertionStepCovers

LEMMA LandNodesCovers ==
  ASSUME IInv, NEW t \in Trees, LandNodes(t)
  PROVE  Covered'
<1>1. /\ pc[t] = "batch" /\ pc' = pc
      /\ UNCHANGED <<treeLengths, metadata, data, snap, group, writeQueue>>
  BY DEF LandNodes, memory
<1>2. /\ \A u \in Trees \ {t} : pending'[u] = pending[u]
      /\ "data" \in pending'[t] <=> "data" \in pending[t]
  BY DEF LandNodes, IInv, TypeOK
<1>3. pc[t] \in Inserting
  BY <1>1 DEF Inserting
<1> QED
  BY <1>1, <1>2, <1>3, InsertionStepCovers

\* A group that reaches the disk adds to its tree and leaves no hole
LEMMA GroupExtends ==
  ASSUME IInv, NEW t \in Trees, data' = [data EXCEPT ![t] = WithGroup(t)]
  PROVE  /\ \A u \in Trees, i \in Index : data[u][i] # Undefined => data'[u][i] # Undefined
         /\ \A u \in Trees \ {t} : data'[u] = data[u]
         /\ NoHoles(t)'
         /\ \A i \in Index : i < group[t].end => data'[t][i] # Undefined
<1>1. /\ data'[t] = WithGroup(t)
      /\ \A u \in Trees \ {t} : data'[u] = data[u]
  BY DEF IInv, TypeOK
<1>2. \A i \in Index : data'[t][i] =
        IF group[t].leaves[i] # Undefined THEN group[t].leaves[i] ELSE data[t][i]
  BY <1>1 DEF WithGroup
<1>3. /\ \A i \in Index : group[t].leaves[i] # Undefined
           <=> group[t].start <= i /\ i < group[t].end
      /\ \A i \in Index : i < group[t].start => data[t][i] # Undefined
  BY DEF IInv, TreeInv, GroupFits, Covers
<1>4. group[t].start \in Int /\ group[t].end \in Int /\ Index \subseteq Int
  BY ItemsAreCounted DEF IInv, TypeOK, Group, Height, Index
<1>5. \A i \in Index : i < group[t].end => data'[t][i] # Undefined
  BY <1>2, <1>3, <1>4
<1>6. NoHoles(t)'
  <2> SUFFICES ASSUME NEW i \in Index, NEW j \in Index, j < i, data'[t][i] # Undefined
               PROVE  data'[t][j] # Undefined
    BY DEF NoHoles
  <2>1. CASE group[t].leaves[i] # Undefined
    BY <1>3, <1>4, <1>5, <2>1
  <2>2. CASE group[t].leaves[i] = Undefined
    <3>1. data[t][i] # Undefined
      BY <1>2, <2>2
    <3>2. data[t][j] # Undefined
      BY <3>1 DEF IInv, TreeInv, NoHoles
    <3> QED
      BY <1>2, <3>2
  <2> QED
    BY <2>1, <2>2
<1> QED
  BY <1>1, <1>2, <1>5, <1>6

LEMMA LandDataCovers ==
  ASSUME IInv, NEW t \in Trees, LandData(t)
  PROVE  Covered'
<1>1. /\ UNCHANGED <<treeLengths, metadata, pc, snap, group, writeQueue>>
      /\ data' = [data EXCEPT ![t] = WithGroup(t)]
      /\ \A u \in Trees \ {t} : pending'[u] = pending[u]
  BY DEF LandData, memory, IInv, TypeOK
<1>2. StoredPrefix'
  BY <1>1, GroupExtends DEF IInv, StoredPrefix, Covers
<1>3. TreeInv(t)'
  BY <1>1, GroupExtends DEF IInv, TreeInv, SnapCovered, GroupFits, GroupLanded, Covers
<1>4. ASSUME NEW u \in Trees, u # t PROVE TreeInv(u)'
  BY <1>1, <1>4, GroupExtends, OtherTrees
<1> QED
  BY <1>2, <1>3, <1>4 DEF Covered

LEMMA LengthenCovers ==
  ASSUME IInv, NEW t \in Trees, Lengthen(t)
  PROVE  Covered'
<1>1. TypeOK
  BY DEF IInv
<1>2. /\ UNCHANGED <<metadata, data, snap, group, writeQueue, pending>>
      /\ pc[t] = "batch" /\ pc'[t] = "metaRead" /\ pending[t] = {}
      /\ treeLengths' = [treeLengths EXCEPT ![t] = group[t].end]
      /\ \A u \in Trees \ {t} : pc'[u] = pc[u]
  BY <1>1 DEF Lengthen, SaveThen, Written, disk, TypeOK
<1>3. Covers(t, group[t].end)
  BY <1>2 DEF IInv, TreeInv, GroupLanded
<1>4. StoredPrefix'
  BY <1>1, <1>2, <1>3 DEF TypeOK, IInv, StoredPrefix, Covers
<1>5. TreeInv(t)'
  BY <1>2 DEF IInv, TreeInv, NoHoles, SnapCovered, GroupFits, GroupLanded, Covers, Inserting
<1>6. ASSUME NEW u \in Trees, u # t PROVE TreeInv(u)'
  BY <1>2, <1>6, OtherTrees
<1> QED
  BY <1>4, <1>5, <1>6 DEF Covered

LEMMA DequeueCovers ==
  ASSUME IInv, NEW t \in Trees, Dequeue(t)
  PROVE  Covered'
<1>1. TypeOK
  BY DEF IInv
<1>2. /\ UNCHANGED <<treeLengths, metadata, data, snap, pending>>
      /\ pc'[t] = "loop" /\ group'[t] = NoGroup
      /\ \A u \in Trees \ {t} : /\ pc'[u] = pc[u] /\ group'[u] = group[u]
                                /\ writeQueue'[u] = writeQueue[u]
  BY <1>1 DEF Dequeue, disk, TypeOK
<1>3. StoredPrefix'
  BY <1>2 DEF IInv, StoredPrefix, Covers
<1>4. GroupFits(t)'
  BY <1>2, HeightFacts DEF GroupFits, Covers, NoGroup, Empty, Index, Inserting
<1>5. TreeInv(t)'
  BY <1>2, <1>4 DEF IInv, TreeInv, NoHoles, SnapCovered, GroupLanded, Covers
<1>6. ASSUME NEW u \in Trees, u # t PROVE TreeInv(u)'
  BY <1>2, <1>6, OtherTrees
<1> QED
  BY <1>3, <1>5, <1>6 DEF Covered

LEMMA AbortCovers ==
  ASSUME IInv, NEW t \in Trees, Abort(t)
  PROVE  Covered'
<1>1. /\ UNCHANGED <<treeLengths, metadata, writeQueue>> /\ TypeOK
      /\ Finish(t)
      /\ data' = data \/ data' = [data EXCEPT ![t] = WithGroup(t)]
  BY DEF Abort, memory, IInv
<1>2. /\ \A u \in Trees, i \in Index : data[u][i] # Undefined => data'[u][i] # Undefined
      /\ \A u \in Trees \ {t} : data'[u] = data[u]
      /\ NoHoles(t)'
  <2>1. CASE data' = data
    BY <2>1 DEF IInv, TreeInv, NoHoles
  <2>2. CASE data' = [data EXCEPT ![t] = WithGroup(t)]
    BY <2>2, GroupExtends
  <2> QED
    BY <1>1, <2>1, <2>2
<1>3. StoredPrefix'
  BY <1>1, <1>2 DEF IInv, StoredPrefix, Covers
<1>4. ASSUME NEW u \in Trees, u # t PROVE TreeInv(u)'
  BY <1>1, <1>2, <1>4, OtherTrees, FinishKeepsOthers
<1> QED
  BY <1>1, <1>2, <1>3, <1>4, FinishCovers DEF Covered

\* After a restart everything is as after `init`, on the data of before
LEMMA FreshCovers ==
  ASSUME NEW t \in Trees, group[t] = NoGroup, snap[t] = NoSnap, pc[t] = "idle", NoHoles(t)
  PROVE  TreeInv(t)
<1>1. SnapCovered(t)
  BY DEF SnapCovered, Covers, NoSnap, Nothing, Index
<1>2. GroupFits(t) /\ GroupLanded(t)
  BY HeightFacts DEF GroupFits, GroupLanded, Covers, NoGroup, Empty, Index, Inserting
<1> QED
  BY <1>1, <1>2 DEF TreeInv

LEMMA CrashCovers == ASSUME IInv, Crash PROVE Covered'
<1>1. StoredPrefix'
  BY DEF IInv, StoredPrefix, Crash, StoredLengths, disk, Covers
<1>2. ASSUME NEW t \in Trees PROVE TreeInv(t)'
  <2>1. NoHoles(t)'
    BY DEF IInv, TreeInv, NoHoles, Crash, disk
  <2>2. group'[t] = NoGroup /\ snap'[t] = NoSnap /\ pc'[t] = "idle"
    BY DEF Crash
  <2>3. SnapCovered(t)'
    BY <2>2 DEF SnapCovered, Covers, NoSnap, Nothing, Index
  <2>4. GroupFits(t)' /\ GroupLanded(t)'
    BY <2>2, HeightFacts DEF GroupFits, GroupLanded, Covers, NoGroup, Empty, Index, Inserting
  <2> QED
    BY <2>1, <2>3, <2>4 DEF TreeInv
<1> QED
  BY <1>1, <1>2 DEF Covered
-----------------------------------------------------------------------------
LEMMA InitIInv == Init => IInv
<1> SUFFICES ASSUME Init PROVE IInv
  OBVIOUS
<1>1. TypeOK
  BY InitTypes
<1>2. StoredPrefix
  BY DEF Init, StoredPrefix, Nothing
<1>3. ASSUME NEW t \in Trees PROVE TreeInv(t)
  <2>1. NoHoles(t)
    BY DEF Init, NoHoles, Empty
  <2> QED
    BY <2>1, FreshCovers DEF Init
<1> QED
  BY <1>1, <1>2, <1>3 DEF IInv

LEMMA ProcessTreeIInv ==
  ASSUME IInv, NEW t \in Trees, ProcessTree(t)
  PROVE  IInv'
<1> TypeOK
  BY DEF IInv
<1> IInv' <=> TypeOK' /\ Covered'
  BY DEF IInv, Covered
<1>1. ASSUME NEW skipValidation \in BOOLEAN, Begin(t, skipValidation) PROVE IInv'
  BY <1>1, BeginTypes, BeginCovers
<1>2. CASE NothingToProcess(t)
  BY <1>2, NothingToProcessTypes, NothingToProcessCovers
<1>3. CASE TakeGroup(t)
  BY <1>3, TakeGroupTypes, TakeGroupCovers
<1>4. CASE Accepted(t)
  BY <1>4, AcceptedTypes, AcceptedCovers
<1>5. CASE Rejected(t)
  <2>1. group[t].end # 0
    BY <1>5, ItemsAreCounted
    DEF Rejected, IInv, TreeInv, GroupFits, Inserting, TypeOK, Group, Height
  <2> QED
    BY <1>5, <2>1, RejectedTypes, RejectedCovers
<1>6. CASE Retry(t)
  BY <1>6, RetryTypes, RetryCovers
<1>7. CASE MetaRead(t)
  BY <1>7, MetaReadTypes, MetaReadCovers
<1>8. CASE MetaWrite(t)
  BY <1>8, MetaWriteTypes, MetaWriteCovers
<1>9. CASE Write(t)
  BY <1>9, WriteTypes, WriteCovers
<1>10. CASE LandNodes(t)
  BY <1>10, LandNodesTypes, LandNodesCovers
<1>11. CASE LandData(t)
  BY <1>11, LandDataTypes, LandDataCovers
<1>12. CASE Lengthen(t)
  BY <1>12, LengthenTypes, LengthenCovers
<1>13. CASE Dequeue(t)
  <2>1. writeQueue[t] \in Vector
    BY <1>13 DEF Dequeue, IInv, TreeInv, GroupFits, Inserting
  <2> QED
    BY <1>13, <2>1, DequeueTypes, DequeueCovers
<1> QED
  BY <1>1, <1>2, <1>3, <1>4, <1>5, <1>6, <1>7, <1>8, <1>9, <1>10, <1>11, <1>12,
     <1>13 DEF ProcessTree

LEMMA NextIInv == IInv /\ [Next]_vars => IInv'
<1> SUFFICES ASSUME IInv, [Next]_vars PROVE IInv'
  OBVIOUS
<1> TypeOK
  BY DEF IInv
<1> IInv' <=> TypeOK' /\ Covered'
  BY DEF IInv, Covered
<1>1. CASE Crash
  BY <1>1, CrashTypes, CrashCovers
<1>2. ASSUME NEW t \in Trees, NEW i \in Index, NEW leaf \in Leaf, QueueLeaf(t, i, leaf)
      PROVE  IInv'
  BY <1>2, QueueLeafTypes, QueueLeafCovers
<1>3. ASSUME NEW t \in Trees, ProcessTree(t) PROVE IInv'
  BY <1>3, ProcessTreeIInv
<1>4. ASSUME NEW t \in Trees, Abort(t) PROVE IInv'
  BY <1>4, AbortTypes, AbortCovers
<1>5. CASE UNCHANGED vars
  <2> USE <1>5 DEF vars, memory, disk, local, others, ghosts
  <2>1. TypeOK'
    BY DEF TypeOK
  <2>2. StoredPrefix'
    BY DEF IInv, StoredPrefix, Covers
  <2>3. ASSUME NEW t \in Trees PROVE TreeInv(t)'
    BY DEF IInv, TreeInv, NoHoles, SnapCovered, GroupFits, GroupLanded, Covers
  <2> QED
    BY <2>1, <2>2, <2>3 DEF Covered
<1> QED
  BY <1>1, <1>2, <1>3, <1>4, <1>5 DEF Next

(* Whatever is queued, fails or crashes, the trees keep their types, their
   data has no holes, and what is on its way to the disk is covered by it.   *)
THEOREM TreeInvariant == Spec => []IInv
BY InitIInv, NextIInv, PTL DEF Spec

(* Every variable of the merkletree keeps its type.                          *)
THEOREM TreeTypes == Spec => []TypeOK
<1>1. IInv => TypeOK
  BY DEF IInv
<1> QED
  BY <1>1, TreeInvariant, PTL

(* No tree is longer than its data, neither in memory nor in the metadata from
   which a restart learns its length: for any crashes, errors and forgeries. *)
THEOREM TreesHaveTheirData == Spec => []StoredPrefix
<1>1. IInv => StoredPrefix
  BY DEF IInv
<1> QED
  BY <1>1, TreeInvariant, PTL
-----------------------------------------------------------------------------
(* The position of an invalid root stays ahead of the tree (InvalidAhead).  A
   restart reads position and length from the metadata, where a tree may write
   an older record of another tree: so every record, stored or on its way, has
   its position ahead of its length, and its length behind the tree's.        *)

Saving == {"metaRead", "metaWrite"}

\* The group of the insertion under way has been accepted
Passed(t) == \/ pc[t] \in {"write", "lockwait", "batch", "dequeue"}
             \/ pc[t] \in Saving /\ after[t] # "retry"

\* ... and counts as part of the tree
Lengthened(t) == pc[t] = "dequeue" \/ (pc[t] \in Saving /\ after[t] = "dequeue")

Measured(t) ==
  /\ pc[t] \in Inserting =>
       treeLengths[t] = IF Lengthened(t) THEN group[t].end ELSE group[t].start
  /\ pc[t] = "metaWrite" => snap[t].height = treeLengths[t]
  /\ invalidDetails[t] # Undefined =>
       /\ treeLengths[t] # Undefined /\ invalidDetails[t] >= treeLengths[t]
       /\ Passed(t) => invalidDetails[t] >= group[t].end

\* What a record says of a tree that has length n
Sound(n, record) == record # Undefined =>
  /\ n # Undefined /\ record.height <= n
  /\ record.invalid # Undefined => record.invalid >= record.height

Recorded(t) ==
  /\ Sound(treeLengths[t], metadata[t])
  /\ \A u \in Trees : Sound(treeLengths[t], snap[u].trees[t])

Ahead == \A t \in Trees : Measured(t) /\ Recorded(t)

LEMMA Positions ==
  ASSUME TypeOK, NEW t \in Trees
  PROVE  /\ group[t].start \in Int /\ group[t].end \in Int
         /\ invalidDetails[t] # Undefined => invalidDetails[t] \in Int
         /\ treeLengths[t] # Undefined => treeLengths[t] \in Int
         /\ TreeLength(t) \in Int /\ TreeLength(t) # Undefined
BY LengthIsHeight, HeightFacts, ItemsAreCounted
DEF TypeOK, Group, Details, Index, Height

\* getTreeLength makes a length known, and changes none that is known
LEMMA GetLengthKnows ==
  ASSUME TypeOK, NEW t \in Trees, GetTreeLength(t)
  PROVE  /\ treeLengths'[t] = TreeLength(t)
         /\ treeLengths[t] # Undefined => TreeLength(t) = treeLengths[t]
         /\ \A u \in Trees \ {t} : treeLengths'[u] = treeLengths[u]
         /\ metadata' = CountedMetadata(t)
BY DEF TypeOK, GetTreeLength, TreeLength

LEMMA CountedIsSound ==
  ASSUME TypeOK, Ahead, NEW t \in Trees, GetTreeLength(t)
  PROVE  /\ \A u \in Trees : Sound(treeLengths'[u], metadata'[u])
         /\ \A u, v \in Trees : Sound(treeLengths'[u], snap[v].trees[u])
<1>1. ASSUME NEW u \in Trees PROVE treeLengths[u] # Undefined => treeLengths'[u] = treeLengths[u]
  BY GetLengthKnows
<1>2. ASSUME NEW u \in Trees, NEW record, Sound(treeLengths[u], record)
      PROVE  Sound(treeLengths'[u], record)
  BY <1>1, <1>2 DEF Sound
<1>3. ASSUME NEW u \in Trees PROVE Sound(treeLengths'[u], metadata'[u])
  <2>1. Sound(treeLengths[u], metadata[u])
    BY DEF Ahead, Recorded
  <2>2. CASE metadata'[u] = metadata[u]
    BY <1>2, <2>1, <2>2
  <2>3. CASE metadata'[u] # metadata[u]
    <3>1. metadata' = CountedMetadata(t) /\ metadata \in [Trees -> Record \union {Undefined}]
      BY GetLengthKnows DEF TypeOK, Stored
    <3>2. /\ u = t /\ MustCount(t)
          /\ metadata'[t] = [height |-> TreeLength(t), invalid |-> invalidDetails[t]]
      BY <2>3, <3>1 DEF CountedMetadata
    <3>3. invalidDetails[t] = Undefined
      BY <3>2 DEF Ahead, Measured, MustCount
    <3>4. treeLengths'[t] = TreeLength(t) /\ TreeLength(t) \in Int /\ TreeLength(t) # Undefined
      BY GetLengthKnows, Positions
    <3> QED
      BY <3>2, <3>3, <3>4 DEF Sound
  <2> QED
    BY <2>2, <2>3
<1> QED
  BY <1>2, <1>3 DEF Ahead, Recorded

\* What a step leaves alone, or forgets, stays recorded soundly
LEMMA RecordedKept ==
  ASSUME Ahead, UNCHANGED <<treeLengths, metadata>>,
         \A u \in Trees : snap'[u] = snap[u] \/ snap'[u] = NoSnap
  PROVE  \A t \in Trees : Recorded(t)'
BY DEF Ahead, Recorded, Sound, NoSnap, Nothing

LEMMA RecordedCounted ==
  ASSUME TypeOK, Ahead, NEW t \in Trees, GetTreeLength(t),
         \A u \in Trees : snap'[u] = snap[u] \/ snap'[u] = NoSnap \/ snap'[u].trees = metadata'
  PROVE  \A u \in Trees : Recorded(u)'
BY CountedIsSound DEF Recorded, Sound, NoSnap, Nothing

\* A tree that a step does not process stays measured
LEMMA MeasuredOther ==
  ASSUME TypeOK, Ahead, NEW u \in Trees, treeLengths'[u] = treeLengths[u],
         invalidDetails'[u] = invalidDetails[u], pc'[u] = pc[u], after'[u] = after[u],
         group'[u] = group[u], snap'[u] = snap[u]
  PROVE  Measured(u)'
BY DEF Ahead, Measured, Lengthened, Passed

\* ... nor does one that stops being processed
LEMMA MeasuredIdle ==
  ASSUME TypeOK, Ahead, NEW t \in Trees, pc'[t] \in {"idle", "loop"},
         treeLengths[t] # Undefined => treeLengths'[t] = treeLengths[t],
         invalidDetails'[t] = invalidDetails[t]
  PROVE  Measured(t)'
BY DEF Ahead, Measured, Lengthened, Passed, Inserting, Saving

\* A tree with an insertion under way has a length
LEMMA InsertingIsKnown ==
  ASSUME TypeOK, Ahead, NEW t \in Trees, pc[t] \in Inserting
  PROVE  treeLengths[t] # Undefined
<1>1. group[t].start \in Height /\ group[t].end \in Height
  BY DEF TypeOK, Group
<1> QED
  BY <1>1, HeightFacts DEF Ahead, Measured

LEMMA QueueLeafAhead ==
  ASSUME TypeOK, Ahead, NEW t \in Trees, NEW i \in Index, NEW leaf \in Leaf, QueueLeaf(t, i, leaf)
  PROVE  Ahead'
<1>1. GetTreeLength(t) /\ UNCHANGED <<invalidDetails, pc, after, group, snap>>
  BY DEF QueueLeaf, local
<1>2. \A u \in Trees : Recorded(u)'
  BY <1>1, RecordedCounted
<1>3. ASSUME NEW u \in Trees PROVE Measured(u)'
  <2>1. treeLengths[u] # Undefined => treeLengths'[u] = treeLengths[u]
    BY <1>1, GetLengthKnows
  <2>2. pc[u] \in Inserting => treeLengths[u] # Undefined
    BY InsertingIsKnown
  <2>3. pc[u] = "metaWrite" => pc[u] \in Inserting
    BY DEF Inserting
  <2> QED
    BY <1>1, <2>1, <2>2, <2>3 DEF Ahead, Measured, Lengthened, Passed
<1> QED
  BY <1>2, <1>3 DEF Ahead

LEMMA BeginAhead ==
  ASSUME TypeOK, Ahead, NEW t \in Trees, NEW skipValidation \in BOOLEAN, Begin(t, skipValidation)
  PROVE  Ahead'
<1>1. /\ GetTreeLength(t) /\ UNCHANGED <<invalidDetails, after, group, snap>>
      /\ pc'[t] = "loop" /\ \A u \in Trees \ {t} : pc'[u] = pc[u]
  BY DEF Begin, TypeOK
<1>2. \A u \in Trees : Recorded(u)'
  BY <1>1, RecordedCounted
<1>3. Measured(t)'
  BY <1>1, GetLengthKnows, MeasuredIdle
<1>4. ASSUME NEW u \in Trees, u # t PROVE Measured(u)'
  BY <1>1, <1>4, GetLengthKnows, MeasuredOther
<1> QED
  BY <1>2, <1>3, <1>4 DEF Ahead

\* processWriteQueueForTree returns: the other trees do not notice
LEMMA FinishMeasured ==
  ASSUME TypeOK, Ahead, NEW t \in Trees, Finish(t), UNCHANGED invalidDetails,
         treeLengths[t] # Undefined => treeLengths'[t] = treeLengths[t],
         \A u \in Trees \ {t} : treeLengths'[u] = treeLengths[u]
  PROVE  \A u \in Trees : Measured(u)' /\ (snap'[u] = snap[u] \/ snap'[u] = NoSnap)
<1>1. pc'[t] = "idle" /\ snap'[t] = NoSnap
  BY DEF TypeOK, Finish
<1>2. ASSUME NEW u \in Trees, u # t
      PROVE  /\ pc'[u] = pc[u] /\ after'[u] = after[u] /\ group'[u] = group[u]
             /\ snap'[u] = snap[u] /\ invalidDetails'[u] = invalidDetails[u]
             /\ treeLengths'[u] = treeLengths[u]
  BY <1>2 DEF TypeOK, Finish
<1>3. Measured(t)'
  BY <1>1, MeasuredIdle
<1>4. ASSUME NEW u \in Trees, u # t PROVE Measured(u)'
  BY <1>2, <1>4, MeasuredOther
<1> QED
  BY <1>1, <1>2, <1>3, <1>4

LEMMA NothingToProcessAhead ==
  ASSUME TypeOK, Ahead, NEW t \in Trees, NothingToProcess(t)
  PROVE  Ahead'
<1>1. GetTreeLength(t) /\ Finish(t) /\ UNCHANGED invalidDetails
  BY DEF NothingToProcess
<1>2. \A u \in Trees : Measured(u)' /\ (snap'[u] = snap[u] \/ snap'[u] = NoSnap)
  BY <1>1, GetLengthKnows, FinishMeasured
<1>3. \A u \in Trees : Recorded(u)'
  BY <1>1, <1>2, RecordedCounted
<1> QED
  BY <1>2, <1>3 DEF Ahead

LEMMA TakeGroupAhead ==
  ASSUME TypeOK, Ahead, NEW t \in Trees, TakeGroup(t)
  PROVE  Ahead'
<1>1. /\ GetTreeLength(t) /\ UNCHANGED <<invalidDetails, after, snap>>
      /\ pc'[t] = "validate" /\ group'[t].start = TreeLength(t)
      /\ \A u \in Trees \ {t} : pc'[u] = pc[u] /\ group'[u] = group[u]
  BY DEF TakeGroup, TypeOK
<1>2. \A u \in Trees : Recorded(u)'
  BY <1>1, RecordedCounted
<1>3. treeLengths'[t] = TreeLength(t)
      /\ (treeLengths[t] # Undefined => treeLengths'[t] = treeLengths[t])
  BY <1>1, GetLengthKnows
<1>4. Measured(t)'
  BY <1>1, <1>3 DEF Ahead, Measured, Lengthened, Passed, Saving
<1>5. ASSUME NEW u \in Trees, u # t PROVE Measured(u)'
  BY <1>1, <1>5, GetLengthKnows, MeasuredOther
<1> QED
  BY <1>2, <1>4, <1>5 DEF Ahead

LEMMA MetaReadAhead ==
  ASSUME TypeOK, Ahead, NEW t \in Trees, MetaRead(t)
  PROVE  Ahead'
<1>1. /\ GetTreeLength(t) /\ UNCHANGED <<invalidDetails, after, group>>
      /\ pc[t] = "metaRead" /\ pc'[t] = "metaWrite"
      /\ snap'[t] = [height |-> TreeLength(t), trees |-> CountedMetadata(t)]
      /\ \A u \in Trees \ {t} : pc'[u] = pc[u] /\ snap'[u] = snap[u]
  BY DEF MetaRead, TypeOK
<1>2. treeLengths'[t] = TreeLength(t) /\ metadata' = CountedMetadata(t)
      /\ (treeLengths[t] # Undefined => treeLengths'[t] = treeLengths[t])
  BY <1>1, GetLengthKnows
<1>3. \A u \in Trees : Recorded(u)'
  BY <1>1, <1>2, RecordedCounted
<1>4. Measured(t)'
  <2>1. pc[t] \in Inserting /\ treeLengths[t] # Undefined
    BY <1>1, InsertingIsKnown DEF Inserting
  <2> QED
    BY <1>1, <1>2, <2>1 DEF Ahead, Measured, Lengthened, Passed, Saving
<1>5. ASSUME NEW u \in Trees, u # t PROVE Measured(u)'
  BY <1>1, <1>5, GetLengthKnows, MeasuredOther
<1> QED
  BY <1>3, <1>4, <1>5 DEF Ahead
-----------------------------------------------------------------------------
\* A step inside the insertion of a tree that is told what to show
LEMMA InsertionStepAhead ==
  ASSUME TypeOK, Ahead, NEW t \in Trees,
         UNCHANGED <<treeLengths, metadata, snap>>,
         \A u \in Trees \ {t} : /\ pc'[u] = pc[u] /\ group'[u] = group[u]
                                /\ after'[u] = after[u]
                                /\ invalidDetails'[u] = invalidDetails[u],
         Measured(t)'
  PROVE  Ahead'
<1>1. \A u \in Trees : Recorded(u)'
  BY RecordedKept
<1>2. ASSUME NEW u \in Trees, u # t PROVE Measured(u)'
  BY <1>2, MeasuredOther
<1> QED
  BY <1>1, <1>2 DEF Ahead

LEMMA AcceptedAhead ==
  ASSUME IInv, Ahead, NEW t \in Trees, Accepted(t)
  PROVE  Ahead'
<1>1. TypeOK /\ pc[t] \in Inserting /\ pc[t] = "validate"
  BY DEF IInv, Accepted, Inserting
<1>2. UNCHANGED <<treeLengths, metadata, snap, group>>
  BY DEF Accepted, disk
<1>3. \A u \in Trees \ {t} : /\ pc'[u] = pc[u] /\ after'[u] = after[u]
                             /\ invalidDetails'[u] = invalidDetails[u]
  BY <1>1 DEF Accepted, SaveThen, TypeOK
<1>4. treeLengths[t] = group[t].start
  BY <1>1 DEF Ahead, Measured, Lengthened, Saving
<1>5. Measured(t)'
  <2>1. CASE DetailsPassed(t)
    <3>1. pc'[t] = "metaRead" /\ after'[t] = "write" /\ invalidDetails'[t] = Undefined
      BY <1>1, <2>1 DEF Accepted, SaveThen, TypeOK
    <3> QED
      BY <1>2, <1>4, <3>1 DEF Measured, Lengthened, Saving
  <2>2. CASE ~DetailsPassed(t)
    <3>1. pc'[t] = "write" /\ UNCHANGED <<invalidDetails, after>>
      BY <1>1, <2>2 DEF Accepted, TypeOK
    <3>2. invalidDetails[t] # Undefined => invalidDetails[t] >= group[t].end
      BY <1>1, <2>2, Positions DEF DetailsPassed
    <3> QED
      BY <1>1, <1>2, <1>4, <3>1, <3>2 DEF Ahead, Measured, Lengthened, Saving
  <2> QED
    BY <2>1, <2>2
<1> QED
  BY <1>1, <1>2, <1>3, <1>5, InsertionStepAhead

LEMMA RejectedAhead ==
  ASSUME IInv, Ahead, NEW t \in Trees, Rejected(t)
  PROVE  Ahead'
<1> DEFINE last == group[t].end - 1
<1>1. TypeOK /\ pc[t] \in Inserting /\ pc[t] = "validate"
  BY DEF IInv, Rejected, Inserting
<1>2. UNCHANGED <<treeLengths, metadata, snap, group>>
  BY DEF Rejected, disk
<1>3. \A u \in Trees \ {t} : /\ pc'[u] = pc[u] /\ after'[u] = after[u]
                             /\ invalidDetails'[u] = invalidDetails[u]
  BY <1>1 DEF Rejected, SaveThen, TypeOK
<1>4. /\ treeLengths[t] = group[t].start /\ group[t].start < group[t].end
      /\ group[t].start \in Int /\ group[t].end \in Int
  BY <1>1, Positions DEF IInv, TreeInv, GroupFits, Ahead, Measured, Lengthened, Saving
<1>5. Measured(t)'
  <2>1. CASE invalidDetails[t] # Undefined /\ invalidDetails[t] < last
    <3>1. pc'[t] = "retry" /\ UNCHANGED <<invalidDetails, after>>
      BY <1>1, <2>1 DEF Rejected, TypeOK
    <3> QED
      BY <1>1, <1>2, <1>4, <3>1 DEF Ahead, Measured, Lengthened, Passed, Saving
  <2>2. CASE ~(invalidDetails[t] # Undefined /\ invalidDetails[t] < last)
    <3>1. pc'[t] = "metaRead" /\ after'[t] = "retry" /\ invalidDetails'[t] = last
      BY <1>1, <2>2 DEF Rejected, SaveThen, TypeOK
    <3>2. last >= treeLengths[t] /\ treeLengths[t] # Undefined
      BY <1>1, <1>4, UndefinedIsNoValue DEF TypeOK, Group, Height
    <3> QED
      BY <1>2, <1>4, <3>1, <3>2 DEF Measured, Lengthened, Passed, Saving
  <2> QED
    BY <2>1, <2>2
<1> QED
  BY <1>1, <1>2, <1>3, <1>5, InsertionStepAhead

LEMMA RetryAhead ==
  ASSUME TypeOK, Ahead, NEW t \in Trees, Retry(t)
  PROVE  Ahead'
<1>1. UNCHANGED <<treeLengths, metadata, invalidDetails>>
  BY DEF Retry, memory, disk
<1>2. CASE SmallerGroup(t)
  <2>1. /\ UNCHANGED <<snap, after>> /\ pc'[t] = "loop"
        /\ \A u \in Trees \ {t} : pc'[u] = pc[u] /\ group'[u] = group[u]
    BY <1>2 DEF Retry, TypeOK
  <2>2. Measured(t)'
    BY <1>1, <2>1, MeasuredIdle
  <2> QED
    BY <1>1, <2>1, <2>2, InsertionStepAhead
<1>3. CASE ~SmallerGroup(t)
  <2>1. Finish(t)
    BY <1>3 DEF Retry
  <2> QED
    BY <1>1, <2>1, FinishMeasured, RecordedKept DEF Ahead
<1> QED
  BY <1>2, <1>3

LEMMA WriteAhead ==
  ASSUME TypeOK, Ahead, NEW t \in Trees, Write(t)
  PROVE  Ahead'
<1>1. /\ UNCHANGED <<treeLengths, metadata, invalidDetails, snap, group, after>>
      /\ pc[t] = "write" /\ pc'[t] \in {"batch", "lockwait"}
      /\ \A u \in Trees \ {t} : pc'[u] = pc[u]
  BY DEF Write, disk, TypeOK
<1>2. Measured(t)'
  BY <1>1 DEF Ahead, Measured, Lengthened, Passed, Saving, Inserting
<1> QED
  BY <1>1, <1>2, InsertionStepAhead

LEMMA LandAhead ==
  ASSUME TypeOK, Ahead, NEW t \in Trees, LandNodes(t) \/ LandData(t)
  PROVE  Ahead'
<1>1. UNCHANGED <<treeLengths, metadata, invalidDetails, snap, group, after, pc>>
  BY DEF LandNodes, LandData, memory
<1>2. Measured(t)'
  BY <1>1, MeasuredOther
<1> QED
  BY <1>1, <1>2, InsertionStepAhead

LEMMA DequeueAhead ==
  ASSUME TypeOK, Ahead, NEW t \in Trees, Dequeue(t)
  PROVE  Ahead'
<1>1. /\ UNCHANGED <<treeLengths, metadata, invalidDetails, snap, after>>
      /\ pc'[t] = "loop"
      /\ \A u \in Trees \ {t} : pc'[u] = pc[u] /\ group'[u] = group[u]
  BY DEF Dequeue, disk, TypeOK
<1>2. Measured(t)'
  BY <1>1, MeasuredIdle
<1> QED
  BY <1>1, <1>2, InsertionStepAhead

LEMMA AbortAhead ==
  ASSUME TypeOK, Ahead, NEW t \in Trees, Abort(t)
  PROVE  Ahead'
<1>1. Finish(t) /\ UNCHANGED <<treeLengths, metadata, invalidDetails>>
  BY DEF Abort, memory
<1> QED
  BY <1>1, FinishMeasured, RecordedKept DEF Ahead

LEMMA MetaWriteAhead ==
  ASSUME TypeOK, Ahead, NEW t \in Trees, MetaWrite(t)
  PROVE  Ahead'
<1>1. /\ UNCHANGED <<treeLengths, invalidDetails, group>>
      /\ pc[t] = "metaWrite" /\ pc'[t] = after[t] /\ after'[t] = "dequeue"
      /\ snap'[t] = NoSnap
      /\ \A u \in Trees \ {t} : /\ pc'[u] = pc[u] /\ snap'[u] = snap[u]
                                /\ after'[u] = after[u]
      /\ metadata' = [snap[t].trees EXCEPT ![t] =
           [height |-> snap[t].height, invalid |-> invalidDetails[t]]]
  BY DEF MetaWrite, memory, TypeOK
<1>2. /\ pc[t] \in Inserting /\ treeLengths[t] # Undefined
      /\ snap[t].height = treeLengths[t] /\ treeLengths[t] \in Int
  BY <1>1, InsertingIsKnown, Positions DEF Inserting, Ahead, Measured
<1>3. ASSUME NEW u \in Trees PROVE Sound(treeLengths[u], metadata'[u])
  <2>1. snap[t].trees \in [Trees -> Record \union {Undefined}]
    BY DEF TypeOK, Snap, Stored
  <2>2. CASE u = t
    <3>1. metadata'[t] = [height |-> treeLengths[t], invalid |-> invalidDetails[t]]
      BY <1>1, <1>2, <2>1
    <3>2. invalidDetails[t] # Undefined => invalidDetails[t] >= treeLengths[t]
      BY DEF Ahead, Measured
    <3> QED
      BY <1>2, <2>2, <3>1, <3>2 DEF Sound
  <2>3. CASE u # t
    <3>1. metadata'[u] = snap[t].trees[u]
      BY <1>1, <2>1, <2>3
    <3> QED
      BY <3>1 DEF Ahead, Recorded
  <2> QED
    BY <2>2, <2>3
<1>4. \A u \in Trees : Recorded(u)'
  BY <1>1, <1>3 DEF Ahead, Recorded, Sound, NoSnap, Nothing
<1>5. Measured(t)'
  <2>1. after[t] \in {"write", "retry", "dequeue"}
    BY DEF TypeOK
  <2> QED
    BY <1>1, <1>2, <2>1 DEF Ahead, Measured, Lengthened, Passed, Saving
<1>6. ASSUME NEW u \in Trees, u # t PROVE Measured(u)'
  BY <1>1, <1>6, MeasuredOther
<1> QED
  BY <1>4, <1>5, <1>6 DEF Ahead

LEMMA LengthenAhead ==
  ASSUME IInv, Ahead, NEW t \in Trees, Lengthen(t)
  PROVE  Ahead'
<1>1. TypeOK /\ pc[t] = "batch" /\ pc[t] \in Inserting
  BY DEF IInv, Lengthen, Inserting
<1>2. /\ UNCHANGED <<metadata, invalidDetails, snap, group>>
      /\ pc'[t] = "metaRead" /\ after'[t] = "dequeue"
      /\ treeLengths'[t] = group[t].end
      /\ \A u \in Trees \ {t} : /\ pc'[u] = pc[u] /\ after'[u] = after[u]
                                /\ treeLengths'[u] = treeLengths[u]
  BY <1>1 DEF Lengthen, SaveThen, disk, TypeOK
<1>3. /\ treeLengths[t] = group[t].start /\ group[t].start < group[t].end
      /\ invalidDetails[t] # Undefined => invalidDetails[t] >= group[t].end
  BY <1>1 DEF IInv, TreeInv, GroupFits, Ahead, Measured, Lengthened, Passed, Saving
<1>4. /\ group[t].start \in Int /\ group[t].end \in Int
      /\ group[t].start # Undefined /\ group[t].end # Undefined
  <2>1. group[t].start \in Height /\ group[t].end \in Height
    BY <1>1 DEF TypeOK, Group
  <2> QED
    BY <2>1, HeightFacts, <1>1, Positions
<1>5. Measured(t)'
  BY <1>2, <1>3, <1>4 DEF Measured, Lengthened, Saving
<1>6. ASSUME NEW record \in Record \union {Undefined}, Sound(treeLengths[t], record)
      PROVE  Sound(treeLengths'[t], record)
  <2>1. record # Undefined => record.height \in Int
    BY DEF Record, Height
  <2> QED
    BY <1>2, <1>3, <1>4, <1>6, <2>1 DEF Sound
<1>7. \A u \in Trees : Recorded(u)'
  <2>1. /\ \A u \in Trees : metadata[u] \in Record \union {Undefined}
        /\ \A u, v \in Trees : snap[v].trees[u] \in Record \union {Undefined}
    BY <1>1 DEF TypeOK, Snap, Stored
  <2> QED
    BY <1>2, <1>6, <2>1 DEF Ahead, Recorded
<1>8. ASSUME NEW u \in Trees, u # t PROVE Measured(u)'
  BY <1>1, <1>2, <1>8, MeasuredOther
<1> QED
  BY <1>5, <1>7, <1>8 DEF Ahead

\* A restart reads what is recorded
LEMMA CrashAhead == ASSUME TypeOK, Ahead, Crash PROVE Ahead'
<1>1. ASSUME NEW t \in Trees
      PROVE  /\ pc'[t] = "idle" /\ snap'[t] = NoSnap /\ metadata'[t] = metadata[t]
             /\ treeLengths'[t] = IF metadata[t] = Undefined THEN Undefined
                                  ELSE metadata[t].height
             /\ invalidDetails'[t] = IF metadata[t] = Undefined THEN Undefined
                                     ELSE metadata[t].invalid
  BY DEF Crash, disk, StoredLengths, StoredDetails
<1>2. ASSUME NEW t \in Trees
      PROVE  /\ Sound(treeLengths[t], metadata[t])
             /\ metadata[t] # Undefined => metadata[t].height \in Int /\ metadata[t].height # Undefined
  <2>1. metadata[t] # Undefined => metadata[t].height \in Height
    BY DEF TypeOK, Stored, Record
  <2> QED
    BY <2>1, HeightFacts DEF Ahead, Recorded, Height
<1>3. ASSUME NEW t \in Trees PROVE Measured(t)'
  BY <1>1, <1>2 DEF Measured, Sound, Lengthened, Passed, Saving, Inserting
<1>4. ASSUME NEW t \in Trees PROVE Recorded(t)'
  BY <1>1, <1>2 DEF Recorded, Sound, NoSnap, Nothing
<1> QED
  BY <1>3, <1>4 DEF Ahead

LEMMA InitAhead == Init => Ahead
BY DEF Init, Ahead, Measured, Recorded, Sound, Lengthened, Passed, Saving, Inserting,
       NoSnap, Nothing

LEMMA ProcessTreeAhead ==
  ASSUME IInv, Ahead, NEW t \in Trees, ProcessTree(t)
  PROVE  Ahead'
<1> TypeOK
  BY DEF IInv
<1>1. ASSUME NEW skipValidation \in BOOLEAN, Begin(t, skipValidation) PROVE Ahead'
  BY <1>1, BeginAhead
<1>2. CASE NothingToProcess(t) \/ TakeGroup(t)
  BY <1>2, NothingToProcessAhead, TakeGroupAhead
<1>3. CASE Accepted(t) \/ Rejected(t) \/ Retry(t)
  BY <1>3, AcceptedAhead, RejectedAhead, RetryAhead
<1>4. CASE MetaRead(t) \/ MetaWrite(t)
  BY <1>4, MetaReadAhead, MetaWriteAhead
<1>5. CASE Write(t) \/ LandNodes(t) \/ LandData(t)
  BY <1>5, WriteAhead, LandAhead
<1>6. CASE Lengthen(t) \/ Dequeue(t)
  BY <1>6, LengthenAhead, DequeueAhead
<1> QED
  BY <1>1, <1>2, <1>3, <1>4, <1>5, <1>6 DEF ProcessTree

LEMMA NextAhead == IInv /\ Ahead /\ [Next]_vars => Ahead'
<1> SUFFICES ASSUME IInv, Ahead, [Next]_vars PROVE Ahead'
  OBVIOUS
<1> TypeOK
  BY DEF IInv
<1>1. CASE Crash
  BY <1>1, CrashAhead
<1>2. ASSUME NEW t \in Trees, NEW i \in Index, NEW leaf \in Leaf, QueueLeaf(t, i, leaf)
      PROVE  Ahead'
  BY <1>2, QueueLeafAhead
<1>3. ASSUME NEW t \in Trees, ProcessTree(t) \/ Abort(t) PROVE Ahead'
  BY <1>3, ProcessTreeAhead, AbortAhead
<1>4. CASE UNCHANGED vars
  BY <1>4 DEF vars, memory, disk, local, Ahead, Measured, Recorded, Lengthened, Passed
<1> QED
  BY <1>1, <1>2, <1>3, <1>4 DEF Next

LEMMA AlwaysAhead == Spec => []Ahead
BY InitAhead, NextAhead, TreeInvariant, PTL DEF Spec

(* The position of an invalid root is never one that the tree has accepted
   since, so it does not hold back lastSyncedBlock for nothing.               *)
THEOREM InvalidRootIsAhead == Spec => []InvalidAhead
<1>1. Ahead => InvalidAhead
  BY DEF Ahead, Measured, InvalidAhead
<1> QED
  BY <1>1, AlwaysAhead, PTL
-----------------------------------------------------------------------------
(* Rescans and updates beside insertions.  A tree may be cleared under an
   insertion, so StoredPrefix is lost; what remains is that the updates lock
   counts its holders, and that nothing forged gets to the disk.              *)

\* An insertion has a group, and a queue to take it from
Filled(t) == pc[t] \in Inserting => group[t].start < group[t].end /\ writeQueue[t] \in Vector

\* An update knows its place, and what to put there
Targeted ==
  /\ updater.stage # "idle" => updater.tree \in Trees /\ updater.index \in Index
  /\ updater.stage = "put" => updater.leaf \in Leaf

LockInv == TypeOK /\ LockCounted /\ Targeted /\ \A t \in Trees : Filled(t)

\* A step of one tree leaves the processing of the others alone
KeepsOthers(t) ==
  \A u \in Trees \ {t} :
    /\ pc'[u] = pc[u] /\ group'[u] = group[u] /\ writeQueue'[u] = writeQueue[u]
    /\ after'[u] = after[u] /\ skip'[u] = skip[u]

LEMMA QueueLeafKeepsOthers ==
  ASSUME TypeOK, NEW t \in Trees, NEW i \in Index, NEW leaf \in Leaf, QueueLeaf(t, i, leaf)
  PROVE  KeepsOthers(t) /\ UNCHANGED others
BY DEF KeepsOthers, QueueLeaf, local, TypeOK

LEMMA FinishKeepsProcessing ==
  ASSUME TypeOK, NEW t \in Trees, Finish(t), UNCHANGED writeQueue
  PROVE  KeepsOthers(t)
BY DEF KeepsOthers, Finish, TypeOK

LEMMA ProcessTreeKeepsOthers ==
  ASSUME TypeOK, NEW t \in Trees, ProcessTree(t) \/ Abort(t)
  PROVE  KeepsOthers(t) /\ UNCHANGED others
<1>1. ASSUME NEW skipValidation \in BOOLEAN, Begin(t, skipValidation)
      PROVE  KeepsOthers(t) /\ UNCHANGED others
  BY <1>1 DEF KeepsOthers, Begin, TypeOK
<1>2. CASE NothingToProcess(t) \/ Abort(t)
  BY <1>2, FinishKeepsProcessing DEF NothingToProcess, Abort, memory
<1>3. CASE TakeGroup(t)
  BY <1>3 DEF KeepsOthers, TakeGroup, TypeOK
<1>4. CASE Accepted(t)
  BY <1>4 DEF KeepsOthers, Accepted, SaveThen, TypeOK
<1>5. CASE Rejected(t)
  BY <1>5 DEF KeepsOthers, Rejected, SaveThen, TypeOK
<1>6. CASE Retry(t)
  <2>1. UNCHANGED writeQueue /\ UNCHANGED others
    BY <1>6 DEF Retry, memory
  <2>2. CASE SmallerGroup(t)
    BY <1>6, <2>1, <2>2 DEF KeepsOthers, Retry, TypeOK
  <2>3. CASE ~SmallerGroup(t)
    BY <1>6, <2>1, <2>3, FinishKeepsProcessing DEF Retry
  <2> QED
    BY <2>2, <2>3
<1>7. CASE MetaRead(t) \/ MetaWrite(t)
  BY <1>7 DEF KeepsOthers, MetaRead, MetaWrite, memory, TypeOK
<1>8. CASE Write(t) \/ LandNodes(t) \/ LandData(t)
  BY <1>8 DEF KeepsOthers, Write, LandNodes, LandData, memory, TypeOK
<1>9. CASE Lengthen(t) \/ Dequeue(t)
  BY <1>9 DEF KeepsOthers, Lengthen, SaveThen, Dequeue, TypeOK
<1> QED
  BY <1>1, <1>2, <1>3, <1>4, <1>5, <1>6, <1>7, <1>8, <1>9 DEF ProcessTree

LEMMA TakeGroupFills ==
  ASSUME TypeOK, NEW t \in Trees, TakeGroup(t)
  PROVE  Filled(t)'
<1>1. UNCHANGED writeQueue
  BY DEF TakeGroup
<1>2. PICK end \in Height :
        /\ TreeLength(t) < end
        /\ \A i \in Index : TreeLength(t) <= i /\ i < end => QueuedAt(t, i)
        /\ group'[t].start = TreeLength(t)
        /\ group'[t].end = end
  BY DEF TakeGroup, TypeOK
<1>3. TreeLength(t) \in Index
  BY <1>2, LengthIsHeight, ItemsAreCounted DEF Height, Index
<1>4. QueuedAt(t, TreeLength(t))
  BY <1>2, <1>3, LengthIsHeight DEF Height
<1> QED
  BY <1>1, <1>2, <1>4, QueuedLeaf DEF Filled

\* Every step of the processing of a tree leaves its insertion with a group
LEMMA ProcessTreeFills ==
  ASSUME LockInv, NEW t \in Trees, ProcessTree(t) \/ Abort(t)
  PROVE  Filled(t)'
<1> TypeOK /\ Filled(t)
  BY DEF LockInv
<1>1. ASSUME NEW skipValidation \in BOOLEAN, Begin(t, skipValidation)
      PROVE  Filled(t)'
  BY <1>1 DEF Filled, Begin, TypeOK, Inserting
<1>2. CASE NothingToProcess(t) \/ Abort(t)
  BY <1>2 DEF NothingToProcess, Abort, Finish, TypeOK, Filled, Inserting
<1>3. CASE TakeGroup(t)
  BY <1>3, TakeGroupFills
<1>4. CASE Accepted(t) \/ Rejected(t)
  BY <1>4 DEF Accepted, Rejected, Filled, Inserting
<1>5. CASE Retry(t)
  <2>1. pc'[t] = "loop" \/ pc'[t] = "idle"
    BY <1>5 DEF Retry, Finish, TypeOK
  <2> QED
    BY <2>1 DEF Filled, Inserting
<1>6. CASE MetaRead(t) \/ MetaWrite(t)
  BY <1>6 DEF MetaRead, MetaWrite, memory, Filled, Inserting
<1>7. CASE Write(t) \/ LandNodes(t) \/ LandData(t)
  BY <1>7 DEF Write, LandNodes, LandData, memory, Filled, Inserting
<1>8. CASE Lengthen(t)
  BY <1>8 DEF Lengthen, Filled, Inserting
<1>9. CASE Dequeue(t)
  BY <1>9 DEF Dequeue, TypeOK, Filled, Inserting
<1> QED
  BY <1>1, <1>2, <1>3, <1>4, <1>5, <1>6, <1>7, <1>8, <1>9 DEF ProcessTree

\* What an insertion has makes its steps well typed
LEMMA ProcessTreeTypes ==
  ASSUME LockInv, NEW t \in Trees, ProcessTree(t) \/ Abort(t)
  PROVE  TypeOK'
<1> TypeOK /\ Filled(t)
  BY DEF LockInv
<1>1. ASSUME NEW skipValidation \in BOOLEAN, Begin(t, skipValidation) PROVE TypeOK'
  BY <1>1, BeginTypes
<1>2. CASE NothingToProcess(t) \/ TakeGroup(t) \/ Accepted(t) \/ Retry(t) \/ Abort(t)
  BY <1>2, NothingToProcessTypes, TakeGroupTypes, AcceptedTypes, RetryTypes, AbortTypes
<1>3. CASE Rejected(t)
  <2>1. group[t].end # 0
    BY <1>3 DEF Rejected, Filled, Inserting, TypeOK, Group, Height
  <2> QED
    BY <1>3, <2>1, RejectedTypes
<1>4. CASE MetaRead(t) \/ MetaWrite(t) \/ Write(t) \/ LandNodes(t) \/ LandData(t) \/ Lengthen(t)
  BY <1>4, MetaReadTypes, MetaWriteTypes, WriteTypes, LandNodesTypes, LandDataTypes,
     LengthenTypes
<1>5. CASE Dequeue(t)
  <2>1. writeQueue[t] \in Vector
    BY <1>5 DEF Dequeue, Filled, Inserting
  <2> QED
    BY <1>5, <2>1, DequeueTypes
<1> QED
  BY <1>1, <1>2, <1>3, <1>4, <1>5 DEF ProcessTree
-----------------------------------------------------------------------------
\* Releasing the lock wakes waiting writes, which have their groups already
LEMMA ReleaseKeeps ==
  ASSUME LockInv, ReleaseLock, UNCHANGED <<group, writeQueue>>
  PROVE  /\ pc' \in [Trees -> Stage]
         /\ \A t \in Trees : Filled(t)'
BY DEF LockInv, TypeOK, ReleaseLock, Stage, Filled, Inserting

LEMMA ClearStepLock == ASSUME LockInv, ClearStep PROVE LockInv'
<1> USE DEF LockInv
<1>1. CASE ClearStart
  <2>1. /\ clearer = "idle" /\ clearer' = "clearing" /\ lockRefs' = lockRefs + 1
        /\ UNCHANGED <<memory, disk, pc, local, updater, recounted>>
    BY <1>1 DEF ClearStart
  <2>2. spent' \in [Bounded -> Nat]
    BY <1>1, SpendTypes, Kinds DEF ClearStart
  <2>3. TypeOK'
    BY <2>1, <2>2 DEF TypeOK, memory, disk, local
  <2>4. LockCounted'
    BY <2>1 DEF LockCounted, TypeOK
  <2> QED
    BY <2>1, <2>3, <2>4 DEF Targeted, Filled, memory, local
<1>2. CASE ClearNamespace
  <2>1. /\ clearer = "clearing" /\ clearer' = "cleared"
        /\ UNCHANGED <<memory, pc, local, updater, lockRefs, ghosts>>
        /\ data' = [t \in Trees |-> Empty] /\ storedRoot' = [t \in Trees |-> Empty]
        /\ metadata' = Nothing
    BY <1>2 DEF ClearNamespace
  <2>2. TypeOK'
    BY <2>1, NoGroupTypes DEF TypeOK, memory, local, ghosts
  <2>3. LockCounted'
    BY <2>1 DEF LockCounted
  <2> QED
    BY <2>1, <2>2, <2>3 DEF Targeted, Filled, memory, local
<1>3. CASE ClearEnd
  <2>1. /\ clearer = "cleared" /\ clearer' = "idle" /\ ReleaseLock
        /\ updater' = WokenUpdater(updater)
        /\ cachedRoot' = [t \in Trees |-> Undefined]
        /\ treeLengths' = [t \in Trees |-> Undefined]
        /\ UNCHANGED <<writeQueue, invalidDetails, disk, local, ghosts>>
    BY <1>3 DEF ClearEnd
  <2>2. pc' \in [Trees -> Stage] /\ \A t \in Trees : Filled(t)'
    BY <2>1, ReleaseKeeps DEF local
  <2>3. lockRefs >= 1 /\ lockRefs \in Nat
    BY <2>1 DEF LockCounted, TypeOK
  <2>4. /\ updater'.tree = updater.tree /\ updater'.index = updater.index
        /\ updater'.leaf = updater.leaf /\ updater' \in Updater
        /\ updater'.stage = updater.stage
             \/ (updater.stage = "waiting" /\ updater'.stage = "ready")
    BY <2>1 DEF WokenUpdater, TypeOK, Updater
  <2>5. LockCounted'
    BY <2>1, <2>3, <2>4 DEF LockCounted, ReleaseLock
  <2>6. Targeted'
    BY <2>4 DEF Targeted
  <2>7. TypeOK'
    BY <2>1, <2>2, <2>3, <2>4 DEF TypeOK, disk, local, ghosts, ReleaseLock
  <2> QED
    BY <2>2, <2>5, <2>6, <2>7
<1> QED
  BY <1>1, <1>2, <1>3 DEF ClearStep

LEMMA UpdateStepLock ==
  ASSUME LockInv, UpdateStep \/ \E t \in Trees, i \in Index : UpdateCall(t, i)
  PROVE  LockInv'
<1> USE DEF LockInv
<1> TypeOK /\ updater \in Updater
  BY DEF TypeOK
<1>1. ASSUME NEW t \in Trees, NEW i \in Index, UpdateCall(t, i) PROVE LockInv'
  <2>1. /\ updater.stage = "idle"
        /\ updater' = [stage |-> IF lockRefs = 0 THEN "ready" ELSE "waiting",
                       tree |-> t, index |-> i, leaf |-> Undefined]
        /\ UNCHANGED <<memory, disk, pc, local, clearer, lockRefs, recounted>>
    BY <1>1 DEF UpdateCall
  <2>2. spent' \in [Bounded -> Nat]
    BY <1>1, SpendTypes, Kinds DEF UpdateCall
  <2>3. updater' \in Updater
    BY <2>1 DEF Updater, Details
  <2>4. TypeOK'
    BY <2>1, <2>2, <2>3 DEF TypeOK, memory, disk, local
  <2>5. LockCounted'
    BY <2>1 DEF LockCounted
  <2>6. Targeted'
    BY <2>1 DEF Targeted
  <2> QED
    BY <2>1, <2>4, <2>5, <2>6 DEF Filled, memory, local
<1>2. CASE UpdateLock
  <2>1. /\ updater.stage = "ready" /\ updater' = [updater EXCEPT !.stage = "read"]
        /\ lockRefs' = lockRefs + 1
        /\ UNCHANGED <<memory, disk, pc, local, clearer, ghosts>>
    BY <1>2 DEF UpdateLock
  <2>2. updater' \in Updater
    BY <2>1 DEF Updater
  <2>3. TypeOK'
    BY <2>1, <2>2 DEF TypeOK, memory, disk, local, ghosts
  <2>4. LockCounted'
    BY <2>1 DEF LockCounted, TypeOK, Updater
  <2>5. Targeted'
    BY <2>1 DEF Targeted, Updater
  <2> QED
    BY <2>1, <2>3, <2>4, <2>5 DEF Filled, memory, local
<1>3. CASE UpdateRead
  <2> DEFINE leaf == data[updater.tree][updater.index]
  <2>1. updater.stage = "read" /\ UNCHANGED <<memory, disk, local, clearer, ghosts>>
    BY <1>3 DEF UpdateRead
  <2>2. updater.tree \in Trees /\ updater.index \in Index
    BY <2>1 DEF Targeted
  <2>3. leaf \in Leaf \union {Undefined}
    BY <2>2 DEF TypeOK, Vector
  <2>4. CASE leaf = Undefined
    <3>1. updater' = NoUpdate /\ ReleaseLock
      BY <1>3, <2>4 DEF UpdateRead
    <3>2. pc' \in [Trees -> Stage] /\ \A t \in Trees : Filled(t)'
      BY <2>1, <3>1, ReleaseKeeps DEF local, memory
    <3>3. lockRefs >= 1 /\ lockRefs \in Nat /\ lockRefs' = lockRefs - 1
      BY <2>1, <3>1 DEF LockCounted, TypeOK, ReleaseLock
    <3>4. TypeOK'
      BY <2>1, <3>1, <3>2, <3>3, NoGroupTypes DEF TypeOK, memory, disk, local, ghosts
    <3>5. LockCounted' /\ Targeted'
      BY <2>1, <3>1, <3>3 DEF LockCounted, Targeted, NoUpdate
    <3> QED
      BY <3>2, <3>4, <3>5
  <2>5. CASE leaf # Undefined
    <3>1. /\ updater' = [updater EXCEPT !.stage = "put", !.leaf = leaf]
          /\ UNCHANGED <<pc, lockRefs>>
      BY <1>3, <2>5 DEF UpdateRead
    <3>2. updater' \in Updater
      BY <2>3, <3>1 DEF Updater
    <3>3. TypeOK'
      BY <2>1, <3>1, <3>2 DEF TypeOK, memory, disk, local, ghosts
    <3>4. LockCounted' /\ Targeted'
      BY <2>1, <2>2, <2>3, <2>5, <3>1 DEF LockCounted, Targeted, Updater
    <3> QED
      BY <2>1, <3>1, <3>3, <3>4 DEF Filled, memory, local
  <2> QED
    BY <2>4, <2>5
<1>4. CASE UpdatePut
  <2>1. /\ updater.stage = "put" /\ updater' = NoUpdate /\ ReleaseLock
        /\ data' = [data EXCEPT ![updater.tree][updater.index] = updater.leaf]
        /\ UNCHANGED <<memory, storedRoot, metadata, local, clearer, ghosts>>
    BY <1>4 DEF UpdatePut
  <2>2. updater.tree \in Trees /\ updater.index \in Index /\ updater.leaf \in Leaf
    BY <2>1 DEF Targeted
  <2>3. data' \in [Trees -> Vector]
    <3>1. [data[updater.tree] EXCEPT ![updater.index] = updater.leaf] \in Vector
      BY <2>2 DEF TypeOK, Vector
    <3> QED
      BY <2>1, <2>2, <3>1 DEF TypeOK
  <2>4. pc' \in [Trees -> Stage] /\ \A t \in Trees : Filled(t)'
    BY <2>1, ReleaseKeeps DEF local, memory
  <2>5. lockRefs >= 1 /\ lockRefs \in Nat /\ lockRefs' = lockRefs - 1
    BY <2>1 DEF LockCounted, TypeOK, ReleaseLock
  <2>6. TypeOK'
    BY <2>1, <2>3, <2>4, <2>5, NoGroupTypes DEF TypeOK, memory, local, ghosts
  <2>7. LockCounted' /\ Targeted'
    BY <2>1, <2>5 DEF LockCounted, Targeted, NoUpdate
  <2> QED
    BY <2>4, <2>6, <2>7
<1> QED
  BY <1>1, <1>2, <1>3, <1>4 DEF UpdateStep

LEMMA NextLock == ASSUME LockInv, Next PROVE LockInv'
<1> TypeOK
  BY DEF LockInv
<1>1. ASSUME NEW t \in Trees, KeepsOthers(t), UNCHANGED others, Filled(t)'
      PROVE  LockCounted' /\ Targeted' /\ \A u \in Trees : Filled(u)'
  BY <1>1 DEF LockInv, KeepsOthers, others, LockCounted, Targeted, Filled
<1>2. ASSUME NEW t \in Trees, ProcessTree(t) \/ Abort(t) PROVE LockInv'
  BY <1>1, <1>2, ProcessTreeKeepsOthers, ProcessTreeFills, ProcessTreeTypes DEF LockInv
<1>3. ASSUME NEW t \in Trees, NEW i \in Index, NEW leaf \in Leaf, QueueLeaf(t, i, leaf)
      PROVE  LockInv'
  <2>1. KeepsOthers(t) /\ UNCHANGED others /\ TypeOK'
    BY <1>3, QueueLeafKeepsOthers, QueueLeafTypes
  <2>2. pc' = pc /\ group' = group
    BY <1>3 DEF QueueLeaf, local
  <2>3. writeQueue'[t] \in Vector
    <3> DEFINE queue == IF writeQueue[t] = Undefined THEN Empty ELSE writeQueue[t]
    <3>1. queue \in Vector /\ Queued(queue, i, leaf) \in Vector
      BY NoGroupTypes DEF TypeOK, Queued, Vector
    <3>2. \E q \in Vector : writeQueue' = [writeQueue EXCEPT ![t] = q]
      BY <1>3, <3>1 DEF QueueLeaf
    <3> QED
      BY <3>2 DEF TypeOK
  <2>4. Filled(t)'
    BY <2>2, <2>3 DEF LockInv, Filled
  <2> QED
    BY <1>1, <2>1, <2>4 DEF LockInv
<1>4. CASE Crash
  <2>1. /\ TypeOK' /\ updater' = NoUpdate /\ lockRefs' = 0 /\ clearer' = "idle"
        /\ pc' = [t \in Trees |-> "idle"]
    BY <1>4, CrashTypes DEF Crash
  <2> QED
    BY <2>1 DEF LockInv, LockCounted, Targeted, NoUpdate, Filled, Inserting
<1> QED
  BY <1>2, <1>3, <1>4 DEF Next

LEMMA InitLock == Init => LockInv
<1> SUFFICES ASSUME Init PROVE LockInv
  OBVIOUS
<1>1. TypeOK
  BY InitTypes
<1> QED
  BY <1>1 DEF Init, LockInv, LockCounted, Targeted, NoUpdate, Filled, Inserting

LEMMA StepLock == LockInv /\ [NextWithRescans]_vars => LockInv'
<1> SUFFICES ASSUME LockInv, [NextWithRescans]_vars PROVE LockInv'
  OBVIOUS
<1>1. CASE UNCHANGED vars
  BY <1>1 DEF vars, memory, disk, local, others, ghosts, LockInv, TypeOK, LockCounted,
              Targeted, Filled
<1> QED
  BY <1>1, NextLock, ClearStepLock, UpdateStepLock DEF NextWithRescans

LEMMA LockForever == Init /\ [][NextWithRescans]_vars => []LockInv
BY InitLock, StepLock, PTL

\* An insertion without rescans is one of those with rescans that has none
LEMMA SpecsHaveSteps ==
  /\ Spec => Init /\ [][NextWithRescans]_vars
  /\ SpecWithRescans => Init /\ [][NextWithRescans]_vars
<1>1. [Next]_vars => [NextWithRescans]_vars
  BY DEF NextWithRescans
<1> QED
  BY <1>1, PTL DEF Spec, SpecWithRescans

(* Beside rescans and updates, too, every variable keeps its type.            *)
THEOREM RescanTypes == SpecWithRescans => []TypeOK
<1>1. LockInv => TypeOK
  BY DEF LockInv
<1> QED
  BY <1>1, LockForever, SpecsHaveSteps, PTL

(* The updates lock counts those who hold it, through every failed update, full
   rescan and restart: a count too high would hold up all writes for good.    *)
THEOREM LockIsCounted == SpecWithRescans => []LockCounted
<1>1. LockInv => LockCounted
  BY DEF LockInv
<1> QED
  BY <1>1, LockForever, SpecsHaveSteps, PTL
-----------------------------------------------------------------------------
(* Nothing forged is written (NothingForged), as long as validation is skipped
   only for what honest sources serve.  A group is compared with the contract's
   root only once, at `validate`, so its leaves must be those of the root that
   was compared, and must stay so until they are written.                     *)

\* The sources of events serve what the contract emitted
Honest == MaxForgeries = 0

\* Every caller but quick sync lets the groups be validated
Trustworthy == ~SkipAllowed \/ Honest

GroupClean(t) ==
  /\ skip[t] => Honest
  /\ Honest => \A i \in Index :
       /\ writeQueue[t] # Undefined => writeQueue[t][i] # Forged
       /\ group[t].leaves[i] # Forged
  /\ pc[t] \in Inserting => \A i \in Index :
       group[t].leaves[i] # Undefined => group[t].root[i] = group[t].leaves[i]
  /\ Passed(t) => \A i \in Index : group[t].leaves[i] # Forged

Clean == /\ NothingForged
         /\ updater.stage = "put" => updater.leaf # Forged
         /\ \A t \in Trees : GroupClean(t)

\* A root that the contract knows has nothing forged below it
LEMMA KnownIsGenuine ==
  ASSUME NEW root, KnownRoot(root), NEW i \in Index
  PROVE  root[i] # Forged
<1>1. PICK k \in RootHistory : root = GenuineRoot(k)
  BY DEF KnownRoot
<1> QED
  BY <1>1, ForgedIsNotGenuine, UndefinedIsNoValue DEF GenuineRoot

LEMMA TakeGroupClean ==
  ASSUME TypeOK, Clean, NEW t \in Trees, TakeGroup(t)
  PROVE  GroupClean(t)'
<1>1. pc'[t] = "validate" /\ UNCHANGED <<skip, writeQueue>>
  BY DEF TakeGroup, TypeOK
<1>2. ASSUME NEW i \in Index, group'[t].leaves[i] # Undefined
      PROVE  group'[t].root[i] = group'[t].leaves[i]
  <2> DEFINE In(start, end) == start <= i /\ i < end
  <2>1. PICK end \in Height :
          /\ group'[t].leaves[i] = IF In(TreeLength(t), end) THEN writeQueue[t][i] ELSE Undefined
          /\ group'[t].root[i] = IF In(TreeLength(t), end) THEN writeQueue[t][i] ELSE Root(t)[i]
    BY DEF TakeGroup, TypeOK
  <2> QED
    BY <1>2, <2>1
<1>3. ASSUME Honest, NEW i \in Index PROVE group'[t].leaves[i] # Forged
  <2> DEFINE In(start, end) == start <= i /\ i < end
  <2>1. PICK end \in Height :
          /\ In(TreeLength(t), end) => QueuedAt(t, i)
          /\ group'[t].leaves[i] = IF In(TreeLength(t), end) THEN writeQueue[t][i] ELSE Undefined
    BY DEF TakeGroup, TypeOK
  <2> QED
    BY <1>3, <2>1, UndefinedIsNoValue DEF Clean, GroupClean, QueuedAt
<1> QED
  BY <1>1, <1>2, <1>3 DEF Clean, GroupClean, Passed, Saving

LEMMA AcceptedClean ==
  ASSUME TypeOK, Clean, NEW t \in Trees, Accepted(t)
  PROVE  GroupClean(t)'
<1>1. /\ pc[t] = "validate" /\ UNCHANGED <<group, skip, writeQueue>>
      /\ KnownRoot(group[t].root) \/ skip[t]
  BY DEF Accepted
<1>2. pc[t] \in Inserting
  BY <1>1 DEF Inserting
<1>3. \A i \in Index : group[t].leaves[i] # Undefined => group[t].root[i] = group[t].leaves[i]
  BY <1>2 DEF Clean, GroupClean
<1>4. ASSUME NEW i \in Index PROVE group[t].leaves[i] # Forged
  <2>1. CASE KnownRoot(group[t].root)
    BY <1>3, <2>1, KnownIsGenuine, UndefinedIsNoValue
  <2>2. CASE skip[t]
    BY <2>2 DEF Clean, GroupClean
  <2> QED
    BY <1>1, <2>1, <2>2
<1> QED
  BY <1>1, <1>3, <1>4 DEF Clean, GroupClean

LEMMA FinishClean ==
  ASSUME TypeOK, Clean, NEW t \in Trees, Finish(t), UNCHANGED writeQueue
  PROVE  GroupClean(t)'
<1>1. /\ pc'[t] = "idle" /\ group'[t] = NoGroup /\ ~skip'[t]
  BY DEF Finish, TypeOK
<1> QED
  BY <1>1, UndefinedIsNoValue
  DEF Clean, GroupClean, Passed, Inserting, Saving, NoGroup, Empty

LEMMA ProcessTreeClean ==
  ASSUME Trustworthy, LockInv, Clean, NEW t \in Trees, ProcessTree(t) \/ Abort(t)
  PROVE  GroupClean(t)'
<1> TypeOK /\ Filled(t) /\ GroupClean(t)
  BY DEF LockInv, Clean
<1>1. ASSUME NEW skipValidation \in BOOLEAN, Begin(t, skipValidation)
      PROVE  GroupClean(t)'
  <2>1. /\ pc'[t] = "loop" /\ group' = group
        /\ skip'[t] => SkipAllowed
        /\ writeQueue[t] # Undefined
        /\ \A i \in Index : writeQueue'[t][i] \in {Undefined, writeQueue[t][i]}
    BY <1>1 DEF Begin, TypeOK
  <2> QED
    BY <2>1, UndefinedIsNoValue DEF Trustworthy, GroupClean, Passed, Inserting, Saving
<1>2. CASE NothingToProcess(t) \/ Abort(t)
  BY <1>2, FinishClean DEF NothingToProcess, Abort, memory
<1>3. CASE TakeGroup(t)
  BY <1>3, TakeGroupClean
<1>4. CASE Accepted(t)
  BY <1>4, AcceptedClean
<1>5. CASE Rejected(t)
  <2>1. /\ pc[t] = "validate" /\ UNCHANGED <<group, skip, writeQueue>>
        /\ pc'[t] = "retry" \/ (pc'[t] = "metaRead" /\ after'[t] = "retry")
    BY <1>5 DEF Rejected, SaveThen, TypeOK
  <2> QED
    BY <2>1 DEF GroupClean, Passed, Inserting, Saving
<1>6. CASE Retry(t)
  <2>1. CASE SmallerGroup(t)
    <3>1. pc'[t] = "loop" /\ group'[t] = NoGroup /\ UNCHANGED <<skip, writeQueue>>
      BY <1>6, <2>1 DEF Retry, TypeOK, memory
    <3> QED
      BY <3>1, UndefinedIsNoValue DEF GroupClean, Passed, Inserting, Saving, NoGroup, Empty
  <2>2. CASE ~SmallerGroup(t)
    BY <1>6, <2>2, FinishClean DEF Retry, memory
  <2> QED
    BY <2>1, <2>2
<1>7. CASE MetaRead(t)
  BY <1>7 DEF MetaRead, TypeOK, GroupClean, Passed, Inserting, Saving
<1>8. CASE MetaWrite(t)
  <2>1. /\ pc[t] = "metaWrite" /\ pc'[t] = after[t] /\ after'[t] = "dequeue"
        /\ UNCHANGED <<group, skip, writeQueue>> /\ after[t] \in {"write", "retry", "dequeue"}
    BY <1>8 DEF MetaWrite, TypeOK, memory
  <2> QED
    BY <2>1 DEF GroupClean, Passed, Inserting, Saving
<1>9. CASE Write(t) \/ LandNodes(t) \/ LandData(t)
  <2>1. UNCHANGED <<group, skip, writeQueue>> /\ pc[t] \in {"write", "batch"}
        /\ pc'[t] \in {"lockwait", "batch"}
    BY <1>9 DEF Write, LandNodes, LandData, TypeOK, memory
  <2> QED
    BY <2>1 DEF GroupClean, Passed, Inserting, Saving
<1>10. CASE Lengthen(t)
  BY <1>10 DEF Lengthen, SaveThen, TypeOK, GroupClean, Passed, Inserting, Saving
<1>11. CASE Dequeue(t)
  <2>1. pc'[t] = "loop" /\ group'[t] = NoGroup /\ skip' = skip
    BY <1>11 DEF Dequeue, TypeOK
  <2>2. ASSUME Honest, NEW i \in Index, writeQueue'[t] # Undefined
        PROVE  writeQueue'[t][i] # Forged
    <3> DEFINE rest == [j \in Index |->
          IF group[t].leaves[j] # Undefined THEN Undefined ELSE writeQueue[t][j]]
    <3>1. writeQueue[t] # Undefined
      BY <1>11, UndefinedIsNoVector DEF Dequeue, Filled, Inserting
    <3>2. writeQueue'[t] = rest
      BY <1>11, <2>2 DEF Dequeue, TypeOK
    <3>3. rest[i] \in {Undefined, writeQueue[t][i]}
      OBVIOUS
    <3> QED
      BY <2>2, <3>1, <3>2, <3>3, UndefinedIsNoValue DEF GroupClean
  <2> QED
    BY <2>1, <2>2, UndefinedIsNoValue DEF GroupClean, Passed, Inserting, Saving, NoGroup, Empty
<1> QED
  BY <1>1, <1>2, <1>3, <1>4, <1>5, <1>6, <1>7, <1>8, <1>9, <1>10, <1>11 DEF ProcessTree

\* A group is written while its insertion is at `batch`, so it was accepted
LEMMA ProcessTreeNothingForged ==
  ASSUME TypeOK, Clean, NEW t \in Trees, ProcessTree(t) \/ Abort(t)
  PROVE  NothingForged'
<1>1. data' = data \/ (Passed(t) /\ data' = [data EXCEPT ![t] = WithGroup(t)])
  <2>1. CASE LandData(t)
    BY <2>1 DEF LandData, Passed
  <2>2. CASE Abort(t)
    BY <2>2 DEF Abort, Passed
  <2> QED
    BY <2>1, <2>2 DEF ProcessTree, Begin, NothingToProcess, TakeGroup, Accepted, Rejected,
       Retry, MetaRead, MetaWrite, Write, LandNodes, Lengthen, Dequeue, disk
<1>2. ASSUME NEW i \in Index, Passed(t) PROVE WithGroup(t)[i] # Forged
  BY <1>2 DEF Clean, GroupClean, NothingForged, WithGroup
<1> QED
  BY <1>1, <1>2 DEF Clean, NothingForged, TypeOK

LEMMA NextClean ==
  ASSUME Trustworthy, LockInv, Clean, Next
  PROVE  Clean'
<1> TypeOK
  BY DEF LockInv
<1>1. ASSUME NEW t \in Trees, KeepsOthers(t), UNCHANGED updater, NothingForged',
             GroupClean(t)'
      PROVE  Clean'
  BY <1>1 DEF Clean, KeepsOthers, GroupClean, Passed
<1>2. ASSUME NEW t \in Trees, ProcessTree(t) \/ Abort(t) PROVE Clean'
  BY <1>1, <1>2, ProcessTreeKeepsOthers, ProcessTreeClean, ProcessTreeNothingForged DEF others
<1>3. ASSUME NEW t \in Trees, NEW i \in Index, NEW leaf \in Leaf, QueueLeaf(t, i, leaf)
      PROVE  Clean'
  <2>1. UNCHANGED <<data, pc, local, updater>>
    BY <1>3 DEF QueueLeaf, others
  <2>2. KeepsOthers(t)
    BY <1>3, QueueLeafKeepsOthers
  <2>3. ASSUME Honest, NEW j \in Index, writeQueue'[t] # Undefined
        PROVE  writeQueue'[t][j] # Forged
    <3> DEFINE queue == IF writeQueue[t] = Undefined THEN Empty ELSE writeQueue[t]
    <3>1. leaf # Forged
      BY <1>3, <2>3 DEF QueueLeaf, Spend, Honest, TypeOK, Bounded
    <3>2. queue[j] # Forged
      BY <2>3, UndefinedIsNoValue DEF Clean, GroupClean, Empty
    <3>3. queue \in Vector
      BY NoGroupTypes DEF TypeOK
    <3>4. writeQueue'[t] \in {queue, Queued(queue, i, leaf)}
      BY <1>3 DEF QueueLeaf, TypeOK
    <3> HIDE DEF queue
    <3> QED
      BY <3>1, <3>2, <3>3, <3>4 DEF Queued, Vector
  <2>4. GroupClean(t)'
    BY <2>1, <2>3 DEF Clean, GroupClean, Passed, local
  <2> QED
    BY <1>1, <2>1, <2>2, <2>4 DEF Clean, NothingForged
<1>4. CASE Crash
  <2>1. /\ data' = data /\ updater' = NoUpdate
        /\ \A t \in Trees : /\ pc'[t] = "idle" /\ ~skip'[t] /\ group'[t] = NoGroup
                            /\ writeQueue'[t] = Undefined
    BY <1>4 DEF Crash, disk, Nothing
  <2> QED
    BY <2>1, UndefinedIsNoValue DEF NoUpdate, Clean, NothingForged, GroupClean, Passed,
                                    Inserting, Saving, NoGroup, Empty
<1> QED
  BY <1>2, <1>3, <1>4 DEF Next

\* Waking the waiting writes changes nothing about their groups
LEMMA ReleaseClean ==
  ASSUME TypeOK, Clean, ReleaseLock, UNCHANGED <<local, writeQueue>>
  PROVE  \A t \in Trees : GroupClean(t)'
BY DEF TypeOK, Clean, ReleaseLock, local, GroupClean, Passed, Inserting, Saving

LEMMA RescanClean ==
  ASSUME LockInv, Clean,
         ClearStep \/ UpdateStep \/ \E t \in Trees, i \in Index : UpdateCall(t, i)
  PROVE  Clean'
<1> TypeOK /\ Targeted
  BY DEF LockInv
<1>1. CASE ClearStart \/ UpdateLock \/ \E t \in Trees, i \in Index : UpdateCall(t, i)
  <2>1. UNCHANGED <<data, pc, local, writeQueue>>
    BY <1>1 DEF ClearStart, UpdateLock, UpdateCall, disk, memory
  <2>2. updater'.stage # "put" \/ updater' = updater
    BY <1>1 DEF ClearStart, UpdateLock, UpdateCall, TypeOK, Updater
  <2> QED
    BY <2>1, <2>2 DEF Clean, NothingForged, GroupClean, Passed, local
<1>2. CASE ClearNamespace
  <2>1. UNCHANGED <<pc, local, updater, writeQueue>> /\ data' = [t \in Trees |-> Empty]
    BY <1>2 DEF ClearNamespace, memory
  <2>2. NothingForged'
    BY <2>1, UndefinedIsNoValue DEF NothingForged, Empty
  <2> QED
    BY <2>1, <2>2 DEF Clean, GroupClean, Passed, local
<1>3. CASE ClearEnd
  <2>1. data' = data /\ UNCHANGED <<local, writeQueue>> /\ ReleaseLock
    BY <1>3 DEF ClearEnd, disk
  <2>2. updater'.stage = "put" => updater' = updater
    BY <1>3 DEF ClearEnd, WokenUpdater, TypeOK, Updater
  <2> QED
    BY <2>1, <2>2, ReleaseClean DEF Clean, NothingForged
<1>4. CASE UpdateRead
  <2> DEFINE leaf == data[updater.tree][updater.index]
  <2>1. data' = data /\ UNCHANGED <<local, writeQueue>> /\ updater.stage = "read"
    BY <1>4 DEF UpdateRead, disk, memory
  <2>2. updater.tree \in Trees /\ updater.index \in Index
    BY <2>1 DEF Targeted
  <2>3. leaf # Forged
    BY <2>2 DEF Clean, NothingForged
  <2>4. CASE leaf = Undefined
    BY <1>4, <2>1, <2>4, ReleaseClean DEF UpdateRead, NoUpdate, Clean, NothingForged
  <2>5. CASE leaf # Undefined
    <3>1. pc' = pc /\ updater'.leaf = leaf
      BY <1>4, <2>5 DEF UpdateRead, TypeOK, Updater
    <3> QED
      BY <2>1, <2>3, <3>1 DEF Clean, NothingForged, GroupClean, Passed, local
  <2> QED
    BY <2>4, <2>5
<1>5. CASE UpdatePut
  <2>1. /\ UNCHANGED <<local, writeQueue>> /\ ReleaseLock /\ updater.stage = "put" /\ updater' = NoUpdate
        /\ data' = [data EXCEPT ![updater.tree][updater.index] = updater.leaf]
    BY <1>5 DEF UpdatePut, memory
  <2>2. updater.leaf # Forged
    BY <2>1 DEF Clean
  <2>3. NothingForged'
    BY <2>1, <2>2 DEF Clean, NothingForged, TypeOK, Vector
  <2> QED
    BY <2>1, <2>3, ReleaseClean DEF Clean, NoUpdate
<1> QED
  BY <1>1, <1>2, <1>3, <1>4, <1>5 DEF ClearStep, UpdateStep

LEMMA CleanForever ==
  ASSUME Trustworthy
  PROVE  Init /\ [][NextWithRescans]_vars => []Clean
<1>1. Init => Clean
  BY UndefinedIsNoValue DEF Init, Clean, NothingForged, NoUpdate, Empty, GroupClean, Passed,
                            Inserting, Saving, NoGroup, Nothing
<1>2. LockInv /\ Clean /\ [NextWithRescans]_vars => Clean'
  <2> SUFFICES ASSUME LockInv, Clean, [NextWithRescans]_vars PROVE Clean'
    OBVIOUS
  <2>1. CASE Next
    BY <2>1, NextClean
  <2>2. CASE UNCHANGED vars
    BY <2>2 DEF vars, memory, disk, local, others, Clean, NothingForged, GroupClean, Passed
  <2> QED
    BY <2>1, <2>2, RescanClean DEF NextWithRescans
<1> QED
  BY <1>1, <1>2, LockForever, PTL

(* Nothing gets to the disk that the contract did not emit, whatever sources
   of events serve and whenever a rescan clears the database, as long as every
   group is validated.  Quick sync skips the validation
   (railgun-engine.ts:485): then, as long as the sources serve what the
   contract emitted.                                                          *)
THEOREM NoForgeryIsWritten ==
  ASSUME ~SkipAllowed \/ MaxForgeries = 0
  PROVE  SpecWithRescans => []NothingForged
<1>1. Clean => NothingForged
  BY DEF Clean
<1>2. Trustworthy
  BY DEF Trustworthy, Honest
<1> QED
  BY <1>1, <1>2, CleanForever, SpecsHaveSteps, PTL

\* Where validation is not allowed to be skipped, it is not
LEMMA NobodySkips ==
  ASSUME ~SkipAllowed
  PROVE  Spec => []\A t \in Trees : ~skip[t]
<1>1. Init => \A t \in Trees : ~skip[t]
  BY DEF Init
<1>2. TypeOK /\ (\A t \in Trees : ~skip[t]) /\ [Next]_vars => (\A t \in Trees : ~skip[t])'
  <2> SUFFICES ASSUME TypeOK, \A t \in Trees : ~skip[t], [Next]_vars,
                      NEW u \in Trees
               PROVE  ~skip'[u]
    OBVIOUS
  <2>1. ASSUME NEW t \in Trees, Finish(t) PROVE ~skip'[u]
    BY <2>1 DEF Finish, TypeOK
  <2>2. ASSUME NEW t \in Trees, ProcessTree(t) \/ Abort(t) PROVE ~skip'[u]
    <3>1. CASE NothingToProcess(t) \/ Abort(t) \/ (Retry(t) /\ ~SmallerGroup(t))
      BY <2>1, <3>1 DEF NothingToProcess, Abort, Retry
    <3>2. ASSUME NEW skipValidation \in BOOLEAN, Begin(t, skipValidation)
          PROVE  ~skip'[u]
      BY <3>2 DEF Begin, TypeOK
    <3>3. CASE \/ TakeGroup(t) \/ Accepted(t) \/ Rejected(t) \/ (Retry(t) /\ SmallerGroup(t))
               \/ MetaRead(t) \/ MetaWrite(t) \/ Write(t) \/ LandNodes(t) \/ LandData(t)
               \/ Lengthen(t) \/ Dequeue(t)
      <4>1. skip' = skip
        BY <3>3 DEF TakeGroup, Accepted, Rejected, Retry, MetaRead, MetaWrite, Write,
                    LandNodes, LandData, Lengthen, Dequeue
      <4> QED
        BY <4>1
    <3> QED
      BY <2>2, <3>1, <3>2, <3>3 DEF ProcessTree
  <2>3. CASE Crash
    BY <2>3 DEF Crash
  <2>4. CASE UNCHANGED vars
    BY <2>4 DEF vars, local
  <2>5. ASSUME NEW t \in Trees, NEW i \in Index, NEW leaf \in Leaf, QueueLeaf(t, i, leaf)
        PROVE  ~skip'[u]
    BY <2>5 DEF QueueLeaf, local
  <2> QED
    BY <2>2, <2>3, <2>4, <2>5 DEF Next
<1> QED
  BY <1>1, <1>2, TreeTypes, PTL DEF Spec
-----------------------------------------------------------------------------
(* The root a tree serves is one of the contract's (ServedRoot).  Root and
   length come from three places: caches, the nodes on disk and the metadata, and
   these are written at different times.  What holds at any time is that stored
   and cached root are the contract's for at least the tree's length.         *)

\* The root of the contract after at least n commitments, or of an empty tree
RootUpTo(root, n) == \E k \in RootHistory \union {0} : k >= n /\ root = GenuineRoot(k)

\* The length that is known of a tree
Reached(t) == IF treeLengths[t] = Undefined THEN 0 ELSE treeLengths[t]

\* The group has been accepted, and is not part of the tree yet
Entering(t) == \/ pc[t] \in {"write", "lockwait", "batch"}
               \/ pc[t] \in Saving /\ after[t] = "write"

GroupServed(t) ==
  /\ Entering(t) => RootUpTo(group[t].root, group[t].end)
  /\ pc[t] \in {"lockwait", "batch"} => cachedRoot[t] = group[t].root

TreeServed(t) ==
  /\ RootUpTo(storedRoot[t], Reached(t))
  /\ cachedRoot[t] # Undefined => RootUpTo(cachedRoot[t], Reached(t))
  /\ pc[t] = "batch" /\ "nodes" \notin pending[t] => RootUpTo(storedRoot[t], group[t].end)

Served == \A t \in Trees : GroupServed(t) /\ (t \notin recounted => TreeServed(t))

LEMMA RootUpToLess ==
  ASSUME NEW root, NEW m \in Int, NEW n \in Int, m <= n, RootUpTo(root, n)
  PROVE  RootUpTo(root, m)
BY HistoryIsLengths, ItemsAreCounted DEF RootUpTo

LEMMA EmptyRoot == RootUpTo(Empty, 0)
<1>1. \A i \in Index : ~(i < 0)
  BY DEF Index
<1>2. Empty = GenuineRoot(0)
  BY <1>1 DEF Empty, GenuineRoot
<1> QED
  BY <1>2 DEF RootUpTo

LEMMA ReachedIsNumber ==
  ASSUME TypeOK, NEW t \in Trees
  PROVE  Reached(t) \in Nat
BY HeightFacts DEF TypeOK, Reached, Height

\* Counting shows, and a known length stays what it is
LEMMA GetLengthReaches ==
  ASSUME TypeOK, Ahead, NEW t \in Trees, GetTreeLength(t), NEW u \in Trees, u \notin recounted'
  PROVE  u \notin recounted /\ Reached(u)' = Reached(u)
<1>1. u \notin recounted
  BY DEF GetTreeLength
<1>2. CASE u = t /\ treeLengths[t] = Undefined
  <2>1. metadata[t] = Undefined
    BY <1>2 DEF Ahead, Recorded, Sound
  <2>2. TreeLength(t) = 0
    BY <1>2, <2>1, LengthIsHeight DEF GetTreeLength, MustCount, Height
  <2>3. treeLengths'[t] = 0 /\ 0 # Undefined
    BY <2>2, GetLengthKnows, HeightFacts
  <2> QED
    BY <1>1, <1>2, <2>3 DEF Reached
<1>3. CASE ~(u = t /\ treeLengths[t] = Undefined)
  BY <1>1, <1>3, GetLengthKnows DEF Reached
<1> QED
  BY <1>2, <1>3

\* A step that leaves roots and groups alone, and shows no new length
LEMMA ServedKept ==
  ASSUME Served, UNCHANGED <<storedRoot, cachedRoot>>, NEW u \in Trees,
         u \notin recounted' => u \notin recounted /\ Reached(u)' = Reached(u),
         \/ /\ pc'[u] = pc[u] /\ after'[u] = after[u]
            /\ group'[u] = group[u] /\ pending'[u] = pending[u]
         \/ /\ pc'[u] \notin {"lockwait", "batch"}
            /\ Entering(u)' => Entering(u) /\ group'[u] = group[u]
  PROVE  GroupServed(u)' /\ (u \notin recounted' => TreeServed(u)')
BY DEF Served, GroupServed, TreeServed, Entering, Saving

\* What a step on tree t leaves to every other tree
LEMMA ServedOthers ==
  ASSUME TypeOK, Served, NEW t \in Trees,
         \A u \in Trees \ {t} :
           /\ pc'[u] = pc[u] /\ after'[u] = after[u]
           /\ group'[u] = group[u] /\ pending'[u] = pending[u]
           /\ storedRoot'[u] = storedRoot[u] /\ cachedRoot'[u] = cachedRoot[u]
           /\ u \notin recounted' => u \notin recounted /\ Reached(u)' = Reached(u),
         GroupServed(t)', t \notin recounted' => TreeServed(t)'
  PROVE  Served'
BY DEF Served, GroupServed, TreeServed, Entering

\* The steps of a tree that read or count its length
LEMMA CountingServed ==
  ASSUME TypeOK, Ahead, Served, NEW t \in Trees, GetTreeLength(t),
         UNCHANGED <<storedRoot, cachedRoot>>,
         \A u \in Trees \ {t} : /\ pc'[u] = pc[u] /\ after'[u] = after[u]
                                /\ group'[u] = group[u] /\ pending'[u] = pending[u],
         \/ /\ pc'[t] = pc[t] /\ after'[t] = after[t]
            /\ group'[t] = group[t] /\ pending'[t] = pending[t]
         \/ /\ pc'[t] \notin {"lockwait", "batch"}
            /\ Entering(t)' => Entering(t) /\ group'[t] = group[t]
  PROVE  Served'
BY GetLengthReaches, ServedKept DEF Served

LEMMA QueueLeafServed ==
  ASSUME TypeOK, Ahead, Served, NEW t \in Trees, NEW i \in Index, NEW leaf \in Leaf, QueueLeaf(t, i, leaf)
  PROVE  Served'
<1>1. GetTreeLength(t) /\ UNCHANGED <<storedRoot, cachedRoot, pc, after, group, pending>>
  BY DEF QueueLeaf, local
<1> QED
  BY <1>1, CountingServed

LEMMA CountingStepsServed ==
  ASSUME TypeOK, Ahead, Served, NEW t \in Trees,
         \/ \E skipValidation \in BOOLEAN : Begin(t, skipValidation)
         \/ NothingToProcess(t) \/ TakeGroup(t) \/ MetaRead(t)
  PROVE  Served'
<1>1. GetTreeLength(t) /\ UNCHANGED <<storedRoot, cachedRoot>>
  BY DEF Begin, NothingToProcess, TakeGroup, MetaRead
<1>2. \A u \in Trees \ {t} : /\ pc'[u] = pc[u] /\ after'[u] = after[u]
                             /\ group'[u] = group[u] /\ pending'[u] = pending[u]
  BY DEF Begin, NothingToProcess, Finish, TakeGroup, MetaRead, TypeOK
<1>3. pc'[t] \in {"idle", "loop", "validate"}
      \/ (pc[t] = "metaRead" /\ pc'[t] = "metaWrite" /\ UNCHANGED <<after, group>>)
  BY DEF Begin, NothingToProcess, Finish, TakeGroup, MetaRead, TypeOK
<1>4. /\ pc'[t] \notin {"lockwait", "batch"}
      /\ Entering(t)' => Entering(t) /\ group'[t] = group[t]
  BY <1>3 DEF Entering, Saving
<1> QED
  BY <1>1, <1>2, <1>4, CountingServed

\* The steps that touch neither length nor roots
LEMMA QuietServed ==
  ASSUME TypeOK, Served, NEW t \in Trees,
         UNCHANGED <<treeLengths, recounted, storedRoot, cachedRoot>>,
         \A u \in Trees \ {t} : /\ pc'[u] = pc[u] /\ after'[u] = after[u]
                                /\ group'[u] = group[u] /\ pending'[u] = pending[u],
         pc'[t] \notin {"lockwait", "batch"},
         Entering(t)' => Entering(t) /\ group'[t] = group[t]
  PROVE  Served'
<1>1. \A u \in Trees : Reached(u)' = Reached(u)
  BY DEF Reached
<1> QED
  BY <1>1, ServedKept DEF Served

LEMMA QuietStepsServed ==
  ASSUME TypeOK, Served, NEW t \in Trees, Rejected(t) \/ Retry(t) \/ MetaWrite(t) \/ Dequeue(t)
  PROVE  Served'
<1>1. UNCHANGED <<treeLengths, recounted, storedRoot, cachedRoot>>
  BY DEF Rejected, Retry, MetaWrite, Dequeue, memory, disk, ghosts
<1>2. CASE Rejected(t)
  <2>1. /\ \A u \in Trees \ {t} : /\ pc'[u] = pc[u] /\ after'[u] = after[u]
                                  /\ group'[u] = group[u] /\ pending'[u] = pending[u]
        /\ pc'[t] = "retry" \/ (pc'[t] = "metaRead" /\ after'[t] = "retry")
    BY <1>2 DEF Rejected, SaveThen, TypeOK
  <2> QED
    BY <1>1, <2>1, QuietServed DEF Entering, Saving
<1>3. CASE Retry(t)
  <2>1. /\ \A u \in Trees \ {t} : /\ pc'[u] = pc[u] /\ after'[u] = after[u]
                                  /\ group'[u] = group[u] /\ pending'[u] = pending[u]
        /\ pc'[t] \in {"idle", "loop"}
    BY <1>3 DEF Retry, Finish, TypeOK
  <2> QED
    BY <1>1, <2>1, QuietServed DEF Entering, Saving
<1>4. CASE MetaWrite(t)
  <2>1. /\ \A u \in Trees \ {t} : /\ pc'[u] = pc[u] /\ after'[u] = after[u]
                                  /\ group'[u] = group[u] /\ pending'[u] = pending[u]
        /\ pc[t] = "metaWrite" /\ pc'[t] = after[t] /\ after'[t] = "dequeue"
        /\ group' = group /\ after[t] \in {"write", "retry", "dequeue"}
    BY <1>4 DEF MetaWrite, TypeOK
  <2> QED
    BY <1>1, <2>1, QuietServed DEF Entering, Saving
<1>5. CASE Dequeue(t)
  <2>1. /\ \A u \in Trees \ {t} : /\ pc'[u] = pc[u] /\ after'[u] = after[u]
                                  /\ group'[u] = group[u] /\ pending'[u] = pending[u]
        /\ pc'[t] = "loop"
    BY <1>5 DEF Dequeue, TypeOK
  <2> QED
    BY <1>1, <2>1, QuietServed DEF Entering, Saving
<1> QED
  BY <1>2, <1>3, <1>4, <1>5

\* The contract's root of an accepted group is one for all of it
LEMMA AcceptedReaches ==
  ASSUME IInv, Clean, NEW t \in Trees, pc[t] = "validate", KnownRoot(group[t].root)
  PROVE  RootUpTo(group[t].root, group[t].end)
<1> DEFINE last == group[t].end - 1
<1>1. TypeOK /\ pc[t] \in Inserting
  BY DEF IInv, Inserting
<1>2. PICK k \in RootHistory : group[t].root = GenuineRoot(k)
  BY DEF KnownRoot
<1>3. group[t].start \in Height /\ group[t].end \in Height /\ group[t].start < group[t].end
  BY <1>1 DEF IInv, TypeOK, Group, TreeInv, GroupFits
<1>4. last \in Index /\ group[t].start <= last /\ last < group[t].end
  BY <1>3, ItemsAreCounted DEF Height, Index
<1>5. group[t].leaves[last] # Undefined
  BY <1>4 DEF IInv, TreeInv, GroupFits
<1>6. group[t].root[last] # Undefined
  BY <1>1, <1>4, <1>5 DEF Clean, GroupClean
<1>7. last < k
  BY <1>2, <1>4, <1>6 DEF GenuineRoot
<1>8. k >= group[t].end /\ k \in RootHistory \union {0}
  BY <1>3, <1>7, HistoryIsLengths DEF Height
<1> QED
  BY <1>2, <1>8 DEF RootUpTo

LEMMA AcceptedServed ==
  ASSUME IInv, Clean, Served, NEW t \in Trees, ~skip[t], Accepted(t)
  PROVE  Served'
<1>1. /\ TypeOK /\ pc[t] = "validate" /\ KnownRoot(group[t].root)
      /\ UNCHANGED <<treeLengths, recounted, storedRoot, cachedRoot, group, pending>>
  BY DEF IInv, Accepted, disk, ghosts
<1>2. RootUpTo(group[t].root, group[t].end)
  BY <1>1, AcceptedReaches
<1>3. /\ \A u \in Trees \ {t} : pc'[u] = pc[u] /\ after'[u] = after[u]
      /\ pc'[t] \in {"write", "metaRead"}
  BY <1>1 DEF Accepted, SaveThen, TypeOK
<1>4. \A u \in Trees : Reached(u)' = Reached(u)
  BY <1>1 DEF Reached
<1>5. GroupServed(t)' /\ (t \notin recounted' => TreeServed(t)')
  BY <1>1, <1>2, <1>3, <1>4 DEF Served, GroupServed, TreeServed
<1> QED
  BY <1>1, <1>3, <1>4, <1>5, ServedOthers

\* While a group is written, its root is for the tree of before as well
LEMMA EnteringRoot ==
  ASSUME IInv, Ahead, Served, NEW t \in Trees, pc[t] \in {"write", "batch"}
  PROVE  /\ RootUpTo(group[t].root, group[t].end)
         /\ RootUpTo(group[t].root, Reached(t))
<1>1. TypeOK /\ pc[t] \in Inserting /\ ~Lengthened(t)
  BY DEF IInv, Inserting, Lengthened, Saving
<1>2. treeLengths[t] = group[t].start /\ group[t].start < group[t].end
  BY <1>1 DEF IInv, TreeInv, GroupFits, Ahead, Measured
<1>3. group[t].start \in Int /\ group[t].end \in Int /\ treeLengths[t] # Undefined
  BY <1>1, Positions, InsertingIsKnown
<1>4. RootUpTo(group[t].root, group[t].end)
  BY DEF Served, GroupServed, Entering
<1> QED
  BY <1>2, <1>3, <1>4, RootUpToLess DEF Reached

LEMMA WriteServed ==
  ASSUME IInv, Ahead, Served, NEW t \in Trees, Write(t)
  PROVE  Served'
<1>1. /\ TypeOK /\ pc[t] = "write" /\ pc'[t] \in {"batch", "lockwait"}
      /\ cachedRoot'[t] = group[t].root /\ "nodes" \in pending'[t]
      /\ UNCHANGED <<treeLengths, recounted, storedRoot, group, after>>
  BY DEF IInv, TypeOK, Write, disk, ghosts
<1>2. \A u \in Trees \ {t} : /\ pc'[u] = pc[u] /\ pending'[u] = pending[u]
                             /\ cachedRoot'[u] = cachedRoot[u]
  BY <1>1 DEF Write, TypeOK
<1>3. \A u \in Trees : Reached(u)' = Reached(u)
  BY <1>1 DEF Reached
<1>4. /\ RootUpTo(group[t].root, group[t].end)
      /\ RootUpTo(group[t].root, Reached(t))
  BY <1>1, EnteringRoot
<1>5. GroupServed(t)' /\ (t \notin recounted' => TreeServed(t)')
  BY <1>1, <1>3, <1>4 DEF Served, GroupServed, TreeServed
<1> QED
  BY <1>1, <1>2, <1>3, <1>5, ServedOthers

LEMMA LandServed ==
  ASSUME IInv, Ahead, Served, NEW t \in Trees, LandNodes(t) \/ LandData(t)
  PROVE  Served'
<1>1. /\ TypeOK /\ pc[t] = "batch"
      /\ UNCHANGED <<treeLengths, recounted, cachedRoot, pc, group, after>>
      /\ \A u \in Trees \ {t} : pending'[u] = pending[u] /\ storedRoot'[u] = storedRoot[u]
  BY DEF IInv, TypeOK, LandNodes, LandData, memory, ghosts
<1>2. \/ storedRoot'[t] = group[t].root
      \/ storedRoot'[t] = storedRoot[t] /\ ("nodes" \in pending[t] => "nodes" \in pending'[t])
  BY <1>1 DEF LandNodes, LandData, TypeOK
<1>3. \A u \in Trees : Reached(u)' = Reached(u)
  BY <1>1 DEF Reached
<1>4. /\ RootUpTo(group[t].root, group[t].end)
      /\ RootUpTo(group[t].root, Reached(t))
  BY <1>1, EnteringRoot
<1>5. GroupServed(t)' /\ (t \notin recounted' => TreeServed(t)')
  BY <1>1, <1>2, <1>3, <1>4 DEF Served, GroupServed, TreeServed, Entering
<1> QED
  BY <1>1, <1>3, <1>5, ServedOthers

LEMMA LengthenServed ==
  ASSUME IInv, Ahead, Served, NEW t \in Trees, Lengthen(t)
  PROVE  Served'
<1>1. /\ TypeOK /\ pc[t] = "batch" /\ pending[t] = {} /\ pc'[t] = "metaRead"
      /\ after'[t] = "dequeue" /\ treeLengths'[t] = group[t].end
      /\ UNCHANGED <<recounted, cachedRoot, storedRoot, group, pending>>
  BY DEF IInv, TypeOK, Lengthen, SaveThen, Written, disk, ghosts
<1>2. \A u \in Trees \ {t} : /\ pc'[u] = pc[u] /\ after'[u] = after[u]
                             /\ treeLengths'[u] = treeLengths[u]
  BY <1>1 DEF Lengthen, SaveThen, TypeOK
<1>3. /\ RootUpTo(group[t].root, group[t].end) /\ cachedRoot[t] = group[t].root
      /\ t \notin recounted => RootUpTo(storedRoot[t], group[t].end)
  BY <1>1, EnteringRoot DEF Served, GroupServed, TreeServed
<1>4. Reached(t)' = group[t].end
  <2>1. group[t].end # Undefined
    BY <1>1, HeightFacts DEF TypeOK, Group
  <2> QED
    BY <1>1, <2>1 DEF Reached
<1>5. GroupServed(t)' /\ (t \notin recounted' => TreeServed(t)')
  BY <1>1, <1>3, <1>4 DEF GroupServed, TreeServed, Entering, Saving
<1> QED
  BY <1>1, <1>2, <1>5, ServedOthers DEF Reached

LEMMA AbortServed ==
  ASSUME IInv, Ahead, Served, NEW t \in Trees, Abort(t)
  PROVE  Served'
<1>1. TypeOK /\ Finish(t) /\ UNCHANGED <<treeLengths, recounted, cachedRoot>>
  BY DEF IInv, Abort, memory
<1>2. /\ pc'[t] = "idle"
      /\ \A u \in Trees \ {t} : /\ pc'[u] = pc[u] /\ after'[u] = after[u]
                                /\ group'[u] = group[u] /\ pending'[u] = pending[u]
  BY <1>1 DEF Finish, TypeOK
<1>3. /\ \A u \in Trees \ {t} : storedRoot'[u] = storedRoot[u]
      /\ \/ storedRoot'[t] = storedRoot[t]
         \/ pc[t] = "batch" /\ storedRoot'[t] = group[t].root
  BY <1>1 DEF Abort, TypeOK
<1>4. \A u \in Trees : Reached(u)' = Reached(u)
  BY <1>1 DEF Reached
<1>5. pc[t] = "batch" => RootUpTo(group[t].root, Reached(t))
  BY EnteringRoot
<1>6. GroupServed(t)' /\ (t \notin recounted' => TreeServed(t)')
  BY <1>1, <1>2, <1>3, <1>4, <1>5 DEF Served, GroupServed, TreeServed, Entering, Saving
<1> QED
  BY <1>1, <1>2, <1>3, <1>4, <1>6, ServedOthers

\* A restart knows at most the length of before
LEMMA CrashServed == ASSUME TypeOK, Ahead, Served, Crash PROVE Served'
<1>1. ASSUME NEW t \in Trees
      PROVE  /\ pc'[t] = "idle" /\ cachedRoot'[t] = Undefined
             /\ storedRoot'[t] = storedRoot[t] /\ recounted' = recounted
             /\ treeLengths'[t] = IF metadata[t] = Undefined THEN Undefined
                                  ELSE metadata[t].height
  BY DEF Crash, disk, StoredLengths, Nothing
<1>2. ASSUME NEW t \in Trees
      PROVE  Reached(t)' \in Int /\ Reached(t)' <= Reached(t)
  <2>1. CASE metadata[t] = Undefined
    BY <1>1, <2>1, ReachedIsNumber DEF Reached
  <2>2. CASE metadata[t] # Undefined
    <3>1. metadata[t].height \in Height
      BY <2>2 DEF TypeOK, Stored, Record
    <3>2. treeLengths[t] # Undefined /\ metadata[t].height <= treeLengths[t]
      BY <2>2 DEF Ahead, Recorded, Sound
    <3> QED
      BY <1>1, <2>2, <3>1, <3>2, HeightFacts DEF Reached, Height
  <2> QED
    BY <2>1, <2>2
<1>3. ASSUME NEW t \in Trees, t \notin recounted
      PROVE  RootUpTo(storedRoot[t], Reached(t)')
  BY <1>2, <1>3, ReachedIsNumber, RootUpToLess DEF Served, TreeServed
<1> QED
  BY <1>1, <1>3 DEF Served, GroupServed, TreeServed, Entering, Saving

LEMMA InitServed == Init => Served
<1> SUFFICES ASSUME Init, NEW t \in Trees PROVE GroupServed(t) /\ TreeServed(t)
  BY DEF Served
<1>1. Reached(t) = 0
  BY DEF Init, Reached, Nothing
<1> QED
  BY <1>1, EmptyRoot DEF Init, Nothing, GroupServed, TreeServed, Entering, Saving

LEMMA NextServed ==
  IInv /\ Ahead /\ Clean /\ Served /\ (\A t \in Trees : ~skip[t]) /\ [Next]_vars => Served'
<1> SUFFICES ASSUME IInv, Ahead, Clean, Served, \A t \in Trees : ~skip[t], [Next]_vars
             PROVE  Served'
  OBVIOUS
<1> TypeOK
  BY DEF IInv
<1>1. CASE Crash
  BY <1>1, CrashServed
<1>2. ASSUME NEW t \in Trees, NEW i \in Index, NEW leaf \in Leaf, QueueLeaf(t, i, leaf)
      PROVE  Served'
  BY <1>2, QueueLeafServed
<1>3. ASSUME NEW t \in Trees, ProcessTree(t) PROVE Served'
  <2>1. CASE \/ \E skipValidation \in BOOLEAN : Begin(t, skipValidation)
             \/ NothingToProcess(t) \/ TakeGroup(t) \/ MetaRead(t)
    BY <2>1, CountingStepsServed
  <2>2. CASE Rejected(t) \/ Retry(t) \/ MetaWrite(t) \/ Dequeue(t)
    BY <2>2, QuietStepsServed
  <2>3. CASE Accepted(t) \/ Write(t) \/ LandNodes(t) \/ LandData(t) \/ Lengthen(t)
    BY <2>3, AcceptedServed, WriteServed, LandServed, LengthenServed
  <2> QED
    BY <1>3, <2>1, <2>2, <2>3 DEF ProcessTree
<1>4. ASSUME NEW t \in Trees, Abort(t) PROVE Served'
  BY <1>4, AbortServed
<1>5. CASE UNCHANGED vars
  BY <1>5 DEF vars, memory, disk, local, ghosts, Served, GroupServed, TreeServed, Entering, Reached
<1> QED
  BY <1>1, <1>2, <1>3, <1>4, <1>5 DEF Next

LEMMA AlwaysServed ==
  ASSUME ~SkipAllowed
  PROVE  Spec => [](IInv /\ Ahead /\ Clean /\ Served)
<1>1. Trustworthy
  BY DEF Trustworthy
<1> QED
  BY <1>1, InitServed, NextServed, NobodySkips, CleanForever, SpecsHaveSteps, TreeInvariant,
     AlwaysAhead, PTL DEF Spec

\* Below a tree's length there is something, and nothing forged
LEMMA GenuineBelow ==
  ASSUME IInv, Clean, NEW t \in Trees, NEW i \in Index, data[t][i] # Undefined
  PROVE  data[t][i] = Genuine
BY DEF IInv, TypeOK, Vector, Leaf, Clean, NothingForged

(* Proofs are made against a root that the contract has had, for at least the
   commitments of the tree, and these are the contract's, as long as every
   group is validated: with any number of trees that write each other's
   metadata, any group sizes, failed writes, rejected groups and restarts that
   did not have to count the data.                                            *)
THEOREM RootIsTheContracts ==
  ASSUME ~SkipAllowed
  PROVE  Spec => []ServedRoot
<1>1. IInv /\ Clean /\ Served => ServedRoot
  <2> SUFFICES ASSUME IInv, Clean, Served, NEW t \in Trees \ recounted
               PROVE  /\ RootIsKnown(t)
                      /\ treeLengths[t] # Undefined =>
                           \A i \in Index : i < treeLengths[t] => data[t][i] = Genuine
    BY DEF ServedRoot
  <2>1. TypeOK /\ TreeServed(t)
    BY DEF IInv, Served
  <2>2. RootIsKnown(t)
    <3> SUFFICES ASSUME treeLengths[t] # Undefined, treeLengths[t] # 0
                 PROVE  \E k \in RootHistory : k >= treeLengths[t] /\ Root(t) = GenuineRoot(k)
      BY DEF RootIsKnown
    <3>1. RootUpTo(Root(t), treeLengths[t])
      BY <2>1 DEF TreeServed, Reached, Root
    <3>2. treeLengths[t] > 0
      BY <2>1 DEF TypeOK, Height
    <3>3. treeLengths[t] \in Int
      BY <2>1 DEF TypeOK, Height
    <3>4. PICK k \in RootHistory \union {0} : k >= treeLengths[t] /\ Root(t) = GenuineRoot(k)
      BY <3>1 DEF RootUpTo
    <3>5. k # 0
      BY <3>2, <3>3, <3>4
    <3> QED
      BY <3>4, <3>5
  <2>3. treeLengths[t] # Undefined => \A i \in Index : i < treeLengths[t] => data[t][i] = Genuine
    BY GenuineBelow DEF IInv, StoredPrefix, Covers
  <2> QED
    BY <2>2, <2>3
<1> QED
  BY <1>1, AlwaysServed, PTL
-----------------------------------------------------------------------------
(* The trees implement the log of commitments.  A log is as long as its tree,
   and the tree's length, whether cached, stored or still to be counted, is
   changed by two actions only: Lengthen, and a restart.                      *)

GenuineLog(n) == [i \in 1..n |-> Genuine]

TreeLog(t) == [i \in 1..TreeLength(t) |-> data[t][i - 1]]

LEMMA GenuineLogs ==
  ASSUME NEW m \in Nat, NEW n \in Nat
  PROVE  /\ Len(GenuineLog(m)) = m
         /\ GenuineLog(m) \o GenuineLog(n) = GenuineLog(m + n)
<1>1. ASSUME NEW k \in Nat
      PROVE  /\ GenuineLog(k) \in Seq({Genuine}) /\ Len(GenuineLog(k)) = k
             /\ \A i \in 1..k : GenuineLog(k)[i] = Genuine
  BY DEF GenuineLog
<1>2. /\ GenuineLog(m) \o GenuineLog(n) \in Seq({Genuine})
      /\ Len(GenuineLog(m) \o GenuineLog(n)) = m + n
  <2>1. /\ GenuineLog(m) \in Seq({Genuine}) /\ Len(GenuineLog(m)) = m
        /\ GenuineLog(n) \in Seq({Genuine}) /\ Len(GenuineLog(n)) = n
    BY <1>1
  <2> QED
    BY <2>1
<1>3. \A i \in 1..(m + n) : (GenuineLog(m) \o GenuineLog(n))[i] \in {Genuine}
  BY <1>2, ElementOfSeq
<1>4. m + n \in Nat
  OBVIOUS
<1>5. GenuineLog(m) \o GenuineLog(n) = GenuineLog(m + n)
  BY <1>1, <1>2, <1>3, <1>4, SeqEqual
<1> QED
  BY <1>1, <1>5

\* What a tree shows its readers is the contract's commitments in order
LEMMA TreeLogIsGenuine ==
  ASSUME IInv, Clean, NEW t \in Trees
  PROVE  TreeLog(t) = GenuineLog(TreeLength(t))
<1>1. TreeLength(t) \in Height
  BY LengthIsHeight DEF IInv
<1>2. ASSUME NEW i \in 1..TreeLength(t) PROVE data[t][i - 1] = Genuine
  <2>1. i - 1 \in Index /\ i - 1 < TreeLength(t)
    BY <1>1, ItemsAreCounted DEF Height, Index
  <2> QED
    BY <2>1, LengthCovers, GenuineBelow DEF Covers
<1> QED
  BY <1>2 DEF TreeLog, GenuineLog

\* The length of a tree is the same whether it is cached or has to be counted
LEMMA SameLength ==
  ASSUME TypeOK, Ahead, Ahead', NEW u \in Trees,
         treeLengths[u] # Undefined => treeLengths'[u] = treeLengths[u],
         treeLengths[u] = Undefined => /\ data'[u] = data[u]
                                       /\ treeLengths'[u] \in {Undefined, TreeLength(u)}
  PROVE  TreeLength(u)' = TreeLength(u)
<1>1. TreeLength(u) # Undefined
  BY Positions
<1>2. CASE treeLengths'[u] # Undefined
  BY <1>1, <1>2 DEF TreeLength
<1>3. CASE treeLengths'[u] = Undefined
  <2>1. treeLengths[u] = Undefined
    BY <1>3
  <2>2. metadata[u] = Undefined /\ metadata'[u] = Undefined
    BY <1>3, <2>1 DEF Ahead, Recorded, Sound
  <2>3. DataCount(u)' = DataCount(u)
    BY <2>1 DEF DataCount
  <2> QED
    BY <1>3, <2>1, <2>2, <2>3 DEF TreeLength
<1> QED
  BY <1>2, <1>3

\* Every step but two leaves every length as it is
LEMMA LengthsStay ==
  ASSUME IInv, Ahead, Ahead', NEW t \in Trees,
         \/ \E i \in Index, leaf \in Leaf : QueueLeaf(t, i, leaf)
         \/ ProcessTree(t) /\ ~Lengthen(t)
         \/ Abort(t)
  PROVE  \A u \in Trees : TreeLength(u)' = TreeLength(u)
<1>1. TypeOK
  BY DEF IInv
<1>2. CASE GetTreeLength(t) /\ UNCHANGED data
  <2> SUFFICES ASSUME NEW u \in Trees PROVE TreeLength(u)' = TreeLength(u)
    OBVIOUS
  <2>1. /\ treeLengths[u] # Undefined => treeLengths'[u] = treeLengths[u]
        /\ treeLengths'[u] \in {treeLengths[u], TreeLength(u)}
    BY <1>1, <1>2, GetLengthKnows
  <2> QED
    BY <1>1, <1>2, <2>1, SameLength
<1>3. CASE /\ UNCHANGED treeLengths
           /\ treeLengths[t] = Undefined => data'[t] = data[t]
           /\ \A u \in Trees \ {t} : data'[u] = data[u]
  BY <1>1, <1>3, SameLength
<1>4. CASE \E i \in Index, leaf \in Leaf : QueueLeaf(t, i, leaf)
  BY <1>2, <1>4 DEF QueueLeaf
<1>5. CASE \/ \E skipValidation \in BOOLEAN : Begin(t, skipValidation)
           \/ NothingToProcess(t) \/ TakeGroup(t) \/ MetaRead(t)
  BY <1>2, <1>5 DEF Begin, NothingToProcess, TakeGroup, MetaRead
<1>6. CASE Accepted(t) \/ Rejected(t) \/ Retry(t) \/ MetaWrite(t) \/ Write(t) \/ LandNodes(t) \/ Dequeue(t)
  <2>1. UNCHANGED <<treeLengths, data>>
    BY <1>6 DEF Accepted, Rejected, Retry, MetaWrite, Write, LandNodes, Dequeue, memory, disk
  <2> QED
    BY <1>3, <2>1
<1>7. CASE LandData(t) \/ Abort(t)
  <2>1. /\ UNCHANGED treeLengths
        /\ data' = data \/ (pc[t] = "batch" /\ data' = [data EXCEPT ![t] = WithGroup(t)])
    BY <1>1, <1>7 DEF LandData, Abort, memory, TypeOK
  <2>2. pc[t] = "batch" => treeLengths[t] # Undefined
    BY <1>1, InsertingIsKnown DEF Inserting
  <2> QED
    BY <1>1, <1>3, <2>1, <2>2 DEF TypeOK
<1> QED
  BY <1>4, <1>5, <1>6, <1>7 DEF ProcessTree

\* A group makes its tree longer by its size, and no other tree
LEMMA LengthenGrows ==
  ASSUME IInv, Ahead, Ahead', NEW t \in Trees, Lengthen(t)
  PROVE  /\ \A u \in Trees \ {t} : TreeLength(u)' = TreeLength(u)
         /\ \E n \in 1..TreeMaxItems : TreeLength(t)' = TreeLength(t) + n
<1>1. TypeOK /\ pc[t] = "batch" /\ UNCHANGED data
      /\ treeLengths' = [treeLengths EXCEPT ![t] = group[t].end]
  BY DEF IInv, Lengthen, disk
<1>2. group[t].start \in Height /\ group[t].end \in Height
  BY <1>1 DEF TypeOK, Group
<1>3. treeLengths[t] = group[t].start /\ group[t].start < group[t].end
  BY <1>1 DEF Ahead, Measured, Lengthened, Saving, Inserting, IInv, TreeInv, GroupFits
<1>4. TreeLength(t) = group[t].start /\ TreeLength(t)' = group[t].end
  BY <1>1, <1>2, <1>3, HeightFacts DEF TreeLength, TypeOK
<1>5. group[t].end - group[t].start \in 1..TreeMaxItems
      /\ group[t].end = group[t].start + (group[t].end - group[t].start)
  BY <1>2, <1>3, ItemsAreCounted DEF Height
<1>6. \A u \in Trees \ {t} : TreeLength(u)' = TreeLength(u)
  BY <1>1, SameLength DEF TypeOK
<1> QED
  BY <1>4, <1>5, <1>6

LEMMA InitIsALog == ASSUME Init PROVE Log!Init
<1>1. spent["crash"] = 0
  BY DEF Init, Bounded
<1>2. ASSUME NEW t \in Trees PROVE TreeLength(t) = 0
  <2>1. /\ treeLengths[t] = Undefined /\ metadata[t] = Undefined
        /\ {i \in Index : data[t][i] # Undefined} = {}
    BY <1>2 DEF Init, Nothing, Empty
  <2> QED
    BY <2>1, FS_EmptySet DEF TreeLength, DataCount
<1>3. ASSUME NEW t \in Trees
      PROVE  [i \in 1..TreeLength(t) |-> data[t][i - 1]] = << >>
  BY <1>2
<1> QED
  BY <1>1, <1>3 DEF Log!Init

(* What the readers of a tree see is a log: only a restart shortens it, and
   otherwise nothing is ever changed or inserted below its end, whatever
   fails, is rejected or counted again.                                       *)
LEMMA StepKeepsALog ==
  ASSUME IInv, Ahead, Clean, IInv', Ahead', Clean', [Next]_vars
  PROVE  [Log!Next]_(Log!vars)
<1> DEFINE now == [t \in Trees |-> [i \in 1..TreeLength(t) |-> data[t][i - 1]]]
           then == [t \in Trees |-> [i \in 1..TreeLength(t)' |-> data'[t][i - 1]]]
<1>1. /\ now = [t \in Trees |-> GenuineLog(TreeLength(t))]
      /\ then = [t \in Trees |-> GenuineLog(TreeLength(t)')]
  <2>1. ASSUME NEW t \in Trees PROVE TreeLog(t) = GenuineLog(TreeLength(t))
    BY TreeLogIsGenuine
  <2>2. ASSUME NEW t \in Trees PROVE TreeLog(t)' = GenuineLog(TreeLength(t)')
    <3>1. (IInv /\ Clean => TreeLog(t) = GenuineLog(TreeLength(t)))'
      BY TreeLogIsGenuine, PTL
    <3> QED
      BY <3>1 DEF GenuineLog
  <2> QED
    BY <2>1, <2>2 DEF TreeLog
<1>2. ASSUME NEW t \in Trees
      PROVE  TreeLength(t) \in 0..TreeMaxItems /\ TreeLength(t)' \in 0..TreeMaxItems
  <2>1. TreeLength(t) \in 0..TreeMaxItems
    BY LengthIsHeight DEF IInv, Height
  <2>2. (TypeOK => TreeLength(t) \in Height)'
    BY LengthIsHeight, PTL
  <2> QED
    BY <2>1, <2>2 DEF IInv, Height
<1>3. CASE /\ \A t \in Trees : TreeLength(t)' = TreeLength(t)
           /\ spent'["crash"] = spent["crash"]
  <2>1. then = now
    BY <1>1, <1>3
  <2> QED
    BY <1>3, <2>1 DEF Log!vars
<1>4. CASE Crash
  <2>1. spent'["crash"] = spent["crash"] + 1
    BY <1>4 DEF Crash, Spend, IInv, TypeOK, Bounded
  <2>2. then \in [Trees -> {GenuineLog(n) : n \in 0..TreeMaxItems}]
    BY <1>1, <1>2
  <2>3. Log!Restart
    BY <2>1, <2>2 DEF Log!Restart, Log!Logs, Log!Genuines, GenuineLog
  <2> QED
    BY <2>3 DEF Log!Next
<1>5. ASSUME NEW t \in Trees, Lengthen(t) PROVE Log!Grow(t)
  <2>1. /\ \A u \in Trees \ {t} : TreeLength(u)' = TreeLength(u)
        /\ \E n \in 1..TreeMaxItems : TreeLength(t)' = TreeLength(t) + n
    BY <1>5, LengthenGrows
  <2>2. PICK n \in 1..TreeMaxItems : TreeLength(t)' = TreeLength(t) + n
    BY <2>1
  <2>3. /\ Len(GenuineLog(TreeLength(t))) = TreeLength(t)
        /\ GenuineLog(TreeLength(t)) \o GenuineLog(n) = GenuineLog(TreeLength(t)')
    <3>1. TreeLength(t) \in Nat /\ n \in Nat
      BY <1>2, ItemsAreCounted
    <3> QED
      BY <2>2, <3>1, GenuineLogs
  <2>4. Len(now[t]) + n <= TreeMaxItems
    BY <1>1, <1>2, <2>2, <2>3
  <2>5. then = [now EXCEPT ![t] = @ \o GenuineLog(n)]
    <3>1. [u \in Trees |-> GenuineLog(TreeLength(u)')]
            = [[u \in Trees |-> GenuineLog(TreeLength(u))]
                 EXCEPT ![t] = GenuineLog(TreeLength(t)) \o GenuineLog(n)]
      BY <2>1, <2>3
    <3>2. now[t] = GenuineLog(TreeLength(t))
      BY <1>1
    <3> HIDE DEF now, then
    <3> QED
      BY <1>1, <3>1, <3>2
  <2>6. UNCHANGED spent
    BY <1>5 DEF Lengthen, ghosts
  <2> QED
    BY <2>4, <2>5, <2>6 DEF Log!Grow, Log!Genuines, GenuineLog
<1>6. ASSUME NEW t \in Trees,
             \/ \E i \in Index, leaf \in Leaf : QueueLeaf(t, i, leaf)
             \/ ProcessTree(t) /\ ~Lengthen(t)
             \/ Abort(t)
      PROVE  /\ \A u \in Trees : TreeLength(u)' = TreeLength(u)
             /\ spent'["crash"] = spent["crash"]
  <2>1. \A u \in Trees : TreeLength(u)' = TreeLength(u)
    BY <1>6, LengthsStay
  <2>2. UNCHANGED spent \/ spent' = [spent EXCEPT !["forgery"] = @ + 1]
        \/ spent' = [spent EXCEPT !["error"] = @ + 1]
    BY <1>6 DEF QueueLeaf, ProcessTree, Abort, Spend, Begin, NothingToProcess, TakeGroup,
                Accepted, Rejected, Retry, MetaRead, MetaWrite, Write, LandNodes, LandData,
                Dequeue, ghosts
  <2> QED
    BY <2>1, <2>2 DEF IInv, TypeOK, Bounded
<1>7. CASE UNCHANGED vars
  <2>1. UNCHANGED <<treeLengths, metadata, data, spent>>
    BY <1>7 DEF vars, memory, disk, ghosts
  <2> QED
    BY <1>3, <2>1 DEF TreeLength, DataCount
<1> QED
  BY <1>3, <1>4, <1>5, <1>6, <1>7 DEF Next, Log!Next, ProcessTree

(* The trees implement the log of commitments (KeepsALog): what the contract
   emitted, in its order and without gaps, grows at the end one group at a
   time, for any number of trees that overwrite each other's metadata; only a
   restart may lose or recover the end of a log.  As above, groups that quick
   sync does not validate are taken to be what the contract emitted.          *)
THEOREM TreesKeepALog ==
  ASSUME ~SkipAllowed \/ MaxForgeries = 0
  PROVE  Spec => KeepsALog
<1>0. Trustworthy
  BY DEF Trustworthy, Honest
<1>1. Spec => Init /\ [][Next]_vars /\ [](IInv /\ Ahead /\ Clean)
  BY <1>0, CleanForever, SpecsHaveSteps, TreeInvariant, AlwaysAhead, PTL DEF Spec
<1>2. Init => Log!Init
  BY InitIsALog
<1>3. (IInv /\ Ahead /\ Clean) /\ (IInv /\ Ahead /\ Clean)' /\ [Next]_vars => [Log!Next]_(Log!vars)
  BY StepKeepsALog
<1> QED
  BY <1>1, <1>2, <1>3, PTL DEF KeepsALog, Log!Spec
=============================================================================
