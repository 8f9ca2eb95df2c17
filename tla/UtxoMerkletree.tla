--------------------------- MODULE UtxoMerkletree ---------------------------
(* The UTXO merkletree: commitments arrive in a write queue per tree, and
   processWriteQueueForTree moves them into the tree a group at a time: it
   computes the root the tree would have, asks the contract whether it ever had
   that root, and only then writes nodes, data and metadata, each in a write of
   its own.  A root that the contract does not know makes the next group
   smaller, down to single queue entries.

   WriteQueueLock shows that one call at a time processes a tree, so a tree
   has one pc.  Everything between two `await`s is one step.

   The hash of a node is taken to be what it digests: a root is the vector of
   the leaves below it.  A leaf is Genuine at its position (what the contract
   emitted for it) or Forged (what a wrong event source served).  Undefined is
   the missing value of the source.                                          *)
EXTENDS Integers, Sequences, FiniteSets

CONSTANTS Trees,          \* tree numbers
          TreeMaxItems,   \* TREE_MAX_ITEMS
          GroupSizes,     \* CommitmentProcessingGroupSize, largest first
          RootHistory,    \* tree lengths whose root is in the contract's rootHistory
          Genuine, Forged, Undefined,
          SkipAllowed,    \* whether quick sync may skip the validation
          MaxCrashes, MaxErrors, MaxForgeries, MaxClears, MaxUpdates  \* bounds

ASSUME TreesAreNumbers == Trees \subseteq Nat
ASSUME ItemsAreCounted == TreeMaxItems \in Nat \ {0}
ASSUME SizesAreALadder == GroupSizes \in Seq(Nat \ {0}) /\ GroupSizes # << >>
ASSUME HistoryIsLengths == RootHistory \subseteq 1..TreeMaxItems
ASSUME UndefinedIsNoValue == Undefined \notin Nat \union {Genuine, Forged}
ASSUME ForgedIsNotGenuine == Forged # Genuine
ASSUME BoundsAreNumbers ==
  {MaxCrashes, MaxErrors, MaxForgeries, MaxClears, MaxUpdates} \subseteq Nat

Index  == 0..(TreeMaxItems - 1)
Leaf   == {Genuine, Forged}
Vector == [Index -> Leaf \union {Undefined}]
Empty  == [i \in Index |-> Undefined]

ASSUME UndefinedIsNoVector == Undefined \notin Vector

VARIABLES
  treeLengths,      \* memory: cached length of each tree
  writeQueue,       \* memory: queued leaf at each position, or no queue at all
  invalidDetails,   \* memory: invalidMerklerootDetailsByTree, the position
  cachedRoot,       \* memory: the root in cachedNodeHashes
  lockRefs,         \* memory: lockRefCount of the updates lock
  data,             \* disk: the commitments
  storedRoot,       \* disk: the root node
  metadata,         \* disk: MerkletreesMetadata, one record read and written as a whole
  pc,               \* where the processing of each tree is
  size,             \* index in GroupSizes of the current group size
  skip,             \* skipValidation
  group,            \* the group being inserted, with the root computed for it
  pending,          \* writes of the group that have not reached the disk
  snap,             \* the metadata record read and not yet written back
  after,            \* what follows once the metadata is written
  clearer,          \* where clearDataForMerkletree is
  updater,          \* where updateData is
  recounted,        \* history: trees whose length came from counting the data
  spent             \* history: crashes, errors and forgeries so far

memory == <<treeLengths, writeQueue, invalidDetails, cachedRoot>>
disk   == <<data, storedRoot, metadata>>
local  == <<size, skip, group, pending, snap, after>>
others == <<clearer, updater, lockRefs>>
ghosts == <<recounted, spent>>
vars   == <<memory, disk, pc, local, others, ghosts>>

\* what happens a bounded number of times
Bounded == {"crash", "error", "forgery", "clear", "update"}

Stage == {"idle", "loop", "validate", "metaRead", "metaWrite", "retry",
          "write", "lockwait", "batch", "dequeue"}

Height  == 0..TreeMaxItems
Details == Index \union {Undefined}
Record  == [height : Height, invalid : Details]
Stored  == [Trees -> Record \union {Undefined}]
Group   == [start : Height, end : Height, leaves : Vector, root : Vector]
Snap    == [height : Height, trees : Stored]
Updater == [stage : {"idle", "waiting", "ready", "read", "put"},
            tree : Trees \union {Undefined}, index : Details,
            leaf : Leaf \union {Undefined}]

TypeOK ==
  /\ treeLengths \in [Trees -> Height \union {Undefined}]
  /\ writeQueue \in [Trees -> Vector \union {Undefined}]
  /\ invalidDetails \in [Trees -> Details]
  /\ cachedRoot \in [Trees -> Vector \union {Undefined}]
  /\ lockRefs \in Nat
  /\ data \in [Trees -> Vector]
  /\ storedRoot \in [Trees -> Vector]
  /\ metadata \in Stored
  /\ pc \in [Trees -> Stage]
  /\ size \in [Trees -> 1..Len(GroupSizes)]
  /\ skip \in [Trees -> BOOLEAN]
  /\ group \in [Trees -> Group]
  /\ pending \in [Trees -> SUBSET {"nodes", "data"}]
  /\ snap \in [Trees -> Snap]
  /\ after \in [Trees -> {"write", "retry", "dequeue"}]
  /\ clearer \in {"idle", "clearing", "cleared"}
  /\ updater \in Updater
  /\ recounted \in SUBSET Trees
  /\ spent \in [Bounded -> Nat]

NoGroup   == [start |-> 0, end |-> 0, leaves |-> Empty, root |-> Empty]
Nothing == [t \in Trees |-> Undefined]
NoSnap    == [height |-> 0, trees |-> Nothing]
NoUpdate  == [stage |-> "idle", tree |-> Undefined, index |-> Undefined,
              leaf |-> Undefined]

\* getMetadataFromStorage
StoredLengths == [t \in Trees |->
  IF metadata[t] = Undefined THEN Undefined ELSE metadata[t].height]
StoredDetails == [t \in Trees |->
  IF metadata[t] = Undefined THEN Undefined ELSE metadata[t].invalid]

Init ==
  /\ treeLengths = Nothing /\ invalidDetails = Nothing
  /\ writeQueue = Nothing /\ cachedRoot = Nothing
  /\ data = [t \in Trees |-> Empty] /\ storedRoot = [t \in Trees |-> Empty]
  /\ metadata = Nothing
  /\ pc = [t \in Trees |-> "idle"] /\ size = [t \in Trees |-> 1]
  /\ skip = [t \in Trees |-> FALSE] /\ group = [t \in Trees |-> NoGroup]
  /\ pending = [t \in Trees |-> {}] /\ snap = [t \in Trees |-> NoSnap]
  /\ after = [t \in Trees |-> "dequeue"]
  /\ clearer = "idle" /\ updater = NoUpdate /\ lockRefs = 0
  /\ recounted = {}
  /\ spent = [kind \in Bounded |-> 0]
-----------------------------------------------------------------------------
Spend(kind, limit) == /\ spent[kind] < limit
                      /\ spent' = [spent EXCEPT ![kind] = @ + 1]

\* getTreeLengthFromDBCount
DataCount(t) == Cardinality({i \in Index : data[t][i] # Undefined})

MustCount(t) == treeLengths[t] = Undefined /\ metadata[t] = Undefined

\* what getTreeLength returns: the cached length, the stored one, or a count
TreeLength(t) == IF treeLengths[t] # Undefined THEN treeLengths[t]
                 ELSE IF metadata[t] # Undefined THEN metadata[t].height
                 ELSE DataCount(t)

\* the stored metadata after getTreeLength, which stores a length it counted
CountedMetadata(t) ==
  IF MustCount(t) /\ TreeLength(t) > 0
  THEN [metadata EXCEPT ![t] = [height  |-> TreeLength(t),
                                invalid |-> invalidDetails[t]]]
  ELSE metadata

GetTreeLength(t) ==
  /\ treeLengths' = [treeLengths EXCEPT ![t] = TreeLength(t)]
  /\ metadata' = CountedMetadata(t)
  /\ recounted' = IF MustCount(t) /\ TreeLength(t) > 0
                  THEN recounted \union {t} ELSE recounted

\* getRoot: the cached node, else the stored one
Root(t) == IF cachedRoot[t] # Undefined THEN cachedRoot[t] ELSE storedRoot[t]

\* The root of a tree that holds the first k genuine leaves and nothing else
GenuineRoot(k) == [i \in Index |-> IF i < k THEN Genuine ELSE Undefined]

\* mutant: the validator accepts what it is given
AnyRoot(root) == TRUE

\* validateMerkleroot: rootHistory(tree, root) of the contract
KnownRoot(root) == \E k \in RootHistory : root = GenuineRoot(k)
-----------------------------------------------------------------------------
\* mutant: a queued leaf is not replaced
QueuedFirst(queue, i, leaf) ==
  IF queue[i] = Undefined THEN [queue EXCEPT ![i] = leaf] ELSE queue

Queued(queue, i, leaf) == [queue EXCEPT ![i] = leaf]

\* queueLeaves with the single commitment that commitmentListener passes to it
QueueLeaf(t, i, leaf) ==
  /\ IF leaf = Forged THEN Spend("forgery", MaxForgeries) ELSE UNCHANGED spent
  /\ GetTreeLength(t)
  /\ LET queue == IF writeQueue[t] = Undefined THEN Empty ELSE writeQueue[t]
     IN writeQueue' = [writeQueue EXCEPT ![t] =
          IF TreeLength(t) <= i THEN Queued(queue, i, leaf) ELSE queue]
  /\ UNCHANGED <<invalidDetails, cachedRoot, data, storedRoot, pc, local, others>>

\* processWriteQueueForTree, up to its loop: drop what is in the tree already
Begin(t, skipValidation) ==
  /\ pc[t] = "idle"
  /\ writeQueue[t] # Undefined
  /\ skipValidation => SkipAllowed
  /\ GetTreeLength(t)
  /\ writeQueue' = [writeQueue EXCEPT ![t] =
       [i \in Index |-> IF i < TreeLength(t) THEN Undefined ELSE @[i]]]
  /\ size' = [size EXCEPT ![t] = 1]
  /\ skip' = [skip EXCEPT ![t] = skipValidation]
  /\ pc' = [pc EXCEPT ![t] = "loop"]
  /\ UNCHANGED <<invalidDetails, cachedRoot, data, storedRoot, group, pending,
                 snap, after, others, spent>>

QueuedAt(t, i) == i \in Index /\ writeQueue[t] # Undefined /\ writeQueue[t][i] # Undefined

\* processWriteQueueForTree returns and its variables are gone
Finish(t) == /\ pc' = [pc EXCEPT ![t] = "idle"]
             /\ size' = [size EXCEPT ![t] = 1]
             /\ skip' = [skip EXCEPT ![t] = FALSE]
             /\ group' = [group EXCEPT ![t] = NoGroup]
             /\ pending' = [pending EXCEPT ![t] = {}]
             /\ snap' = [snap EXCEPT ![t] = NoSnap]
             /\ after' = [after EXCEPT ![t] = "dequeue"]

NothingToProcess(t) ==
  /\ pc[t] = "loop"
  /\ ~QueuedAt(t, TreeLength(t))
  /\ GetTreeLength(t)
  /\ Finish(t)
  /\ UNCHANGED <<writeQueue, invalidDetails, cachedRoot, data, storedRoot,
                 others, spent>>

\* processWriteQueue and insertLeaves up to the validation: the group is the
\* longest run of queued leaves at the tree's end that the group size allows
TakeGroup(t) ==
  /\ pc[t] = "loop"
  /\ GetTreeLength(t)
  /\ \E end \in Height :
       LET start == TreeLength(t)
           InGroup(i) == start <= i /\ i < end
       IN /\ start < end
          /\ end - start <= GroupSizes[size[t]]
          /\ \A i \in Index : InGroup(i) => QueuedAt(t, i)
          /\ end - start = GroupSizes[size[t]] \/ ~QueuedAt(t, end)
          /\ group' = [group EXCEPT ![t] =
               [start |-> start, end |-> end,
                leaves |-> [i \in Index |->
                  IF InGroup(i) THEN writeQueue[t][i] ELSE Undefined],
                root |-> [i \in Index |->
                  IF InGroup(i) THEN writeQueue[t][i] ELSE Root(t)[i]]]]
  /\ pc' = [pc EXCEPT ![t] = "validate"]
  /\ UNCHANGED <<writeQueue, invalidDetails, cachedRoot, data, storedRoot, size,
                 skip, pending, snap, after, others, spent>>

\* updateStoredMerkletreesMetadata is about to run, then `next`
SaveThen(t, next) == /\ pc' = [pc EXCEPT ![t] = "metaRead"]
                     /\ after' = [after EXCEPT ![t] = next]

\* mutant: details at the last accepted position are kept
DetailsWellPassed(t) == invalidDetails[t] # Undefined /\ invalidDetails[t] < group[t].end - 1

DetailsPassed(t) == invalidDetails[t] # Undefined /\ invalidDetails[t] < group[t].end

\* validRootCallback: removeInvalidMerklerootDetailsIfNecessary
Accepted(t) ==
  /\ pc[t] = "validate"
  /\ KnownRoot(group[t].root) \/ skip[t]
  /\ IF DetailsPassed(t)
     THEN /\ invalidDetails' = [invalidDetails EXCEPT ![t] = Undefined]
          /\ SaveThen(t, "write")
     ELSE /\ pc' = [pc EXCEPT ![t] = "write"]
          /\ UNCHANGED <<invalidDetails, after>>
  /\ UNCHANGED <<treeLengths, writeQueue, cachedRoot, disk, size, skip, group,
                 pending, snap, others, ghosts>>

\* invalidRootCallback: updateInvalidMerklerootDetails keeps the first position
Rejected(t) ==
  /\ pc[t] = "validate"
  /\ ~KnownRoot(group[t].root) /\ ~skip[t]
  /\ LET last == group[t].end - 1
     IN IF invalidDetails[t] # Undefined /\ invalidDetails[t] < last
        THEN /\ pc' = [pc EXCEPT ![t] = "retry"]
             /\ UNCHANGED <<invalidDetails, after>>
        ELSE /\ invalidDetails' = [invalidDetails EXCEPT ![t] = last]
             /\ SaveThen(t, "retry")
  /\ UNCHANGED <<treeLengths, writeQueue, cachedRoot, disk, size, skip, group,
                 pending, snap, others, ghosts>>

SmallerGroup(t) == size[t] < Len(GroupSizes)

\* nextProcessingGroupSize, or the end of the loop when there is no smaller one
Retry(t) ==
  /\ pc[t] = "retry"
  /\ IF SmallerGroup(t)
     THEN /\ size' = [size EXCEPT ![t] = @ + 1]
          /\ group' = [group EXCEPT ![t] = NoGroup]
          /\ pc' = [pc EXCEPT ![t] = "loop"]
          /\ UNCHANGED <<skip, pending, snap, after>>
     ELSE Finish(t)
  /\ UNCHANGED <<memory, disk, others, ghosts>>

\* updateStoredMerkletreesMetadata: read the record of all trees ...
MetaRead(t) ==
  /\ pc[t] = "metaRead"
  /\ GetTreeLength(t)
  /\ snap' = [snap EXCEPT ![t] = [height |-> TreeLength(t), trees |-> CountedMetadata(t)]]
  /\ pc' = [pc EXCEPT ![t] = "metaWrite"]
  /\ UNCHANGED <<writeQueue, invalidDetails, cachedRoot, data, storedRoot, size,
                 skip, group, pending, after, others, spent>>

\* ... and write it back with this tree's part replaced
MetaWrite(t) ==
  /\ pc[t] = "metaWrite"
  /\ metadata' = [snap[t].trees EXCEPT ![t] =
       [height |-> snap[t].height, invalid |-> invalidDetails[t]]]
  /\ pc' = [pc EXCEPT ![t] = after[t]]
  /\ snap' = [snap EXCEPT ![t] = NoSnap]
  /\ after' = [after EXCEPT ![t] = "dequeue"]
  /\ UNCHANGED <<memory, data, storedRoot, size, skip, group, pending, others, ghosts>>

\* writeTreeToDB caches the nodes, then waits if someone holds the updates lock
Write(t) ==
  /\ pc[t] = "write"
  /\ cachedRoot' = [cachedRoot EXCEPT ![t] = group[t].root]
  /\ pending' = [pending EXCEPT ![t] = {"nodes", "data"}]
  /\ pc' = [pc EXCEPT ![t] = IF lockRefs = 0 THEN "batch" ELSE "lockwait"]
  /\ UNCHANGED <<treeLengths, writeQueue, invalidDetails, disk, size, skip,
                 group, snap, after, others, ghosts>>

WithGroup(t) == [i \in Index |->
  IF group[t].leaves[i] # Undefined THEN group[t].leaves[i] ELSE data[t][i]]

\* the batches of nodes and data reach the disk in any order
LandNodes(t) ==
  /\ pc[t] = "batch"
  /\ "nodes" \in pending[t]
  /\ storedRoot' = [storedRoot EXCEPT ![t] = group[t].root]
  /\ pending' = [pending EXCEPT ![t] = @ \ {"nodes"}]
  /\ UNCHANGED <<memory, data, metadata, pc, size, skip, group, snap, after,
                 others, ghosts>>

LandData(t) ==
  /\ pc[t] = "batch"
  /\ "data" \in pending[t]
  /\ data' = [data EXCEPT ![t] = WithGroup(t)]
  /\ pending' = [pending EXCEPT ![t] = @ \ {"data"}]
  /\ UNCHANGED <<memory, storedRoot, metadata, pc, size, skip, group, snap,
                 after, others, ghosts>>

\* mutant: the length does not wait for the data
NodesWritten(t) == "nodes" \notin pending[t]

Written(t) == pending[t] = {}

\* both batches are written: the tree has its new length
Lengthen(t) ==
  /\ pc[t] = "batch"
  /\ Written(t)
  /\ treeLengths' = [treeLengths EXCEPT ![t] = group[t].end]
  /\ SaveThen(t, "dequeue")
  /\ UNCHANGED <<writeQueue, invalidDetails, cachedRoot, disk, size, skip, group,
                 pending, snap, others, ghosts>>

\* the group leaves the queue, and an empty queue goes away
Dequeue(t) ==
  /\ pc[t] = "dequeue"
  /\ LET rest == [i \in Index |->
           IF group[t].leaves[i] # Undefined THEN Undefined ELSE writeQueue[t][i]]
     IN writeQueue' = [writeQueue EXCEPT ![t] = IF rest = Empty THEN Undefined ELSE rest]
  /\ group' = [group EXCEPT ![t] = NoGroup]
  /\ pc' = [pc EXCEPT ![t] = "loop"]
  /\ UNCHANGED <<treeLengths, invalidDetails, cachedRoot, disk, size, skip,
                 pending, snap, after, others, ghosts>>

\* The validator or a write throws: the loop ends with an unknown error.  Of
\* the batches in flight some may still reach the disk.
Abort(t) ==
  /\ pc[t] \in {"validate", "batch", "metaWrite"}
  /\ Spend("error", MaxErrors)
  /\ pc[t] = "batch" => pending[t] # {}
  /\ \E landed \in SUBSET pending[t] :
       /\ pc[t] = "batch" => landed # pending[t]
       /\ pc[t] # "batch" => landed = {}
       /\ storedRoot' = IF "nodes" \in landed
                        THEN [storedRoot EXCEPT ![t] = group[t].root] ELSE storedRoot
       /\ data' = IF "data" \in landed
                  THEN [data EXCEPT ![t] = WithGroup(t)] ELSE data
  /\ Finish(t)
  /\ UNCHANGED <<memory, metadata, others, recounted>>

\* The application stops at any moment and starts again on the same database:
\* a new Merkletree object, whose `init` reads the metadata
Crash ==
  /\ Spend("crash", MaxCrashes)
  /\ treeLengths' = StoredLengths /\ invalidDetails' = StoredDetails
  /\ writeQueue' = Nothing /\ cachedRoot' = Nothing
  /\ pc' = [t \in Trees |-> "idle"] /\ size' = [t \in Trees |-> 1]
  /\ skip' = [t \in Trees |-> FALSE] /\ group' = [t \in Trees |-> NoGroup]
  /\ pending' = [t \in Trees |-> {}] /\ snap' = [t \in Trees |-> NoSnap]
  /\ after' = [t \in Trees |-> "dequeue"]
  /\ clearer' = "idle" /\ updater' = NoUpdate /\ lockRefs' = 0
  /\ UNCHANGED <<disk, recounted>>

ProcessTree(t) ==
  \/ \E skipValidation \in BOOLEAN : Begin(t, skipValidation)
  \/ NothingToProcess(t) \/ TakeGroup(t) \/ Accepted(t) \/ Rejected(t)
  \/ Retry(t) \/ MetaRead(t) \/ MetaWrite(t) \/ Write(t)
  \/ LandNodes(t) \/ LandData(t) \/ Lengthen(t) \/ Dequeue(t)

Next == \/ Crash
        \/ \E t \in Trees : \/ \E i \in Index, leaf \in Leaf : QueueLeaf(t, i, leaf)
                            \/ ProcessTree(t)
                            \/ Abort(t)

Spec == Init /\ [][Next]_vars

\* The event loop runs the processing on, and scans read every event again
\* until its commitment is in the tree
FairSpec == /\ Spec
            /\ \A t \in Trees :
                 /\ WF_vars(ProcessTree(t))
                 /\ \A i \in Index : WF_vars(QueueLeaf(t, i, Genuine))
-----------------------------------------------------------------------------
(* Operations that hold the updates lock.  The lock is a reference count that
   excludes nobody but the write that waits for it to be free.               *)

\* mutant: whoever releases the lock releases it for all
ReleaseForAll ==
  /\ lockRefs' = 0
  /\ pc' = [t \in Trees |-> IF pc[t] = "lockwait" THEN "batch" ELSE pc[t]]

\* mutant: nobody is woken
ReleaseQuietly == lockRefs' = lockRefs - 1 /\ UNCHANGED pc

\* releaseUpdatesLock: when the last holder leaves, those who wait go on
ReleaseLock ==
  /\ lockRefs' = lockRefs - 1
  /\ pc' = [t \in Trees |-> IF lockRefs = 1 /\ pc[t] = "lockwait" THEN "batch" ELSE pc[t]]

WokenUpdater(u) == IF lockRefs = 1 /\ u.stage = "waiting" THEN [u EXCEPT !.stage = "ready"] ELSE u

\* clearDataForMerkletree, called by a full rescan: take the lock ...
ClearStart == /\ Spend("clear", MaxClears)
              /\ clearer = "idle"
              /\ clearer' = "clearing"
              /\ lockRefs' = lockRefs + 1
              /\ UNCHANGED <<memory, disk, pc, local, updater, recounted>>

\* ... clear the namespace of the merkletree ...
ClearNamespace == /\ clearer = "clearing"
                  /\ clearer' = "cleared"
                  /\ data' = [t \in Trees |-> Empty]
                  /\ storedRoot' = [t \in Trees |-> Empty]
                  /\ metadata' = Nothing
                  /\ UNCHANGED <<memory, pc, local, updater, lockRefs, ghosts>>

\* ... and drop the caches; queue and invalid root details stay
ClearEnd == /\ clearer = "cleared"
            /\ clearer' = "idle"
            /\ ReleaseLock
            /\ updater' = WokenUpdater(updater)
            /\ cachedRoot' = [t \in Trees |-> Undefined]
            /\ treeLengths' = [t \in Trees |-> Undefined]
            /\ UNCHANGED <<writeQueue, invalidDetails, disk, local, ghosts>>

\* updateData waits once for the lock, then takes it
UpdateCall(t, i) ==
  /\ Spend("update", MaxUpdates)
  /\ updater.stage = "idle"
  /\ updater' = [stage |-> IF lockRefs = 0 THEN "ready" ELSE "waiting",
                  tree |-> t, index |-> i, leaf |-> Undefined]
  /\ UNCHANGED <<memory, disk, pc, local, clearer, lockRefs, recounted>>

UpdateLock == /\ updater.stage = "ready"
              /\ updater' = [updater EXCEPT !.stage = "read"]
              /\ lockRefs' = lockRefs + 1
              /\ UNCHANGED <<memory, disk, pc, local, clearer, ghosts>>

\* the commitment must still be there with the same hash, else the call throws
UpdateRead ==
  /\ updater.stage = "read"
  /\ LET leaf == data[updater.tree][updater.index]
     IN IF leaf = Undefined
        THEN updater' = NoUpdate /\ ReleaseLock
        ELSE /\ updater' = [updater EXCEPT !.stage = "put", !.leaf = leaf]
             /\ UNCHANGED <<pc, lockRefs>>
  /\ UNCHANGED <<memory, disk, local, clearer, ghosts>>

UpdatePut ==
  /\ updater.stage = "put"
  /\ data' = [data EXCEPT ![updater.tree][updater.index] = updater.leaf]
  /\ updater' = NoUpdate
  /\ ReleaseLock
  /\ UNCHANGED <<memory, storedRoot, metadata, local, clearer, ghosts>>

ClearStep  == ClearStart \/ ClearNamespace \/ ClearEnd
UpdateStep == UpdateLock \/ UpdateRead \/ UpdatePut

NextWithRescans == \/ Next \/ ClearStep \/ UpdateStep
                   \/ \E t \in Trees, i \in Index : UpdateCall(t, i)

SpecWithRescans == /\ Init /\ [][NextWithRescans]_vars
                   /\ WF_vars(ClearNamespace \/ ClearEnd) /\ WF_vars(UpdateStep)
                   /\ \A t \in Trees : WF_vars(ProcessTree(t))
-----------------------------------------------------------------------------
Covers(t, height) == \A i \in Index : i < height => data[t][i] # Undefined

(* Every position below the length of a tree, in memory or in the stored
   metadata, has its commitment in the database: a group counts only once its
   batch is written, whatever fails or crashes in between, and whichever
   tree's metadata is written over another's.                                *)
StoredPrefix ==
  \A t \in Trees :
    /\ treeLengths[t] # Undefined => Covers(t, treeLengths[t])
    /\ metadata[t] # Undefined => Covers(t, metadata[t].height)

RootIsKnown(t) == treeLengths[t] \notin {Undefined, 0} =>
  \E k \in RootHistory : k >= treeLengths[t] /\ Root(t) = GenuineRoot(k)

(* The root that proofs are made against is one the contract has had, for at
   least the commitments in the tree, and those are what the contract emitted;
   unless a restart had to count the data to know the length.                *)
ServedRoot ==
  \A t \in Trees \ recounted :
    /\ RootIsKnown(t)
    /\ treeLengths[t] # Undefined =>
         \A i \in Index : i < treeLengths[t] => data[t][i] = Genuine

(* The recorded position of an invalid root is never one that has since been
   accepted into the tree: while details are recorded the engine does not move
   lastSyncedBlock, so stale ones would make it scan the same blocks forever. *)
InvalidAhead ==
  \A t \in Trees :
    invalidDetails[t] # Undefined /\ treeLengths[t] # Undefined
      => invalidDetails[t] >= treeLengths[t]

(* The trees implement the log of commitments: no step but a restart shortens
   or rewrites what a reader of a tree has seen.                             *)
Log == INSTANCE CommitmentLog
         WITH log <- [t \in Trees |-> [i \in 1..TreeLength(t) |-> data[t][i - 1]]],
              restarts <- spent["crash"]

KeepsALog == Log!Spec

(* Whatever was forged in the meantime, a tree whose events are read again and
   again gets all its commitments: rejected groups do not block it for good, nor
   does a restart that loses what waited; unless it had to count the data.   *)
EveryTreeCompletes ==
  \A t \in Trees : <>[](t \in recounted \/ treeLengths[t] = TreeMaxItems)

(* No commitment that the contract did not emit is ever written, not even when
   the database is cleared during an insertion.                              *)
NothingForged == \A t \in Trees, i \in Index : data[t][i] # Forged

(* The reference count of the updates lock is the number of its holders.     *)
LockCounted ==
  lockRefs = (IF clearer = "idle" THEN 0 ELSE 1)
           + (IF updater.stage \in {"read", "put"} THEN 1 ELSE 0)

(* A write that waits for the updates lock gets to write: the last holder
   wakes it.                                                                 *)
WriteResumes == \A t \in Trees : pc[t] = "lockwait" ~> pc[t] # "lockwait"
=============================================================================
