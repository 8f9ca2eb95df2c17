------------------------------ MODULE TxidSync ------------------------------
(* How the engine follows the list of RAILGUN transactions (V2) in its TXID
   merkletree: the sync loop with its cursor and batches, the bound a wallet
   takes from the POI nodes, the verification hashes, the rewind after a
   re-org, the snapshot at the POI launch, the lookup of transactions, and
   resets.  A wallet asks the POI nodes for the latest validated index and
   about every root; a POI node accepts its own roots.

   Indices are global, and the tree is its leaves: UtxoMerkletree and
   MerkleNodes show how leaves become nodes, WriteQueueLock how calls take
   turns.  A transaction is its place on one of two branches of the chain, which
   share the places before Fork.                                              *)
EXTENDS Integers, Sequences, FiniteSets

CONSTANTS Caller,          \* concurrent calls
          MaxTx,           \* transactions the source will have
          Fork,            \* a re-org replaces transactions from this place on
          LaunchTx,        \* first transaction of or after the POI launch block
          BatchSize,       \* getEngineTxidSyncBatchSize
          LeavesToClear,   \* numLeavesToClear
          None,
          MaxFaults, MaxReorgs, MaxResets   \* bounds

Place == 0..(MaxTx - 1)
Tx    == {tx \in [at : Place, branch : {"old", "new"}] :
            tx.at < Fork => tx.branch = "old"}
Group == [start : Nat, leaves : Seq(Tx)]

ASSUME PlacesAreNumbers == MaxTx \in Nat \ {0} /\ Fork \in Nat /\ LaunchTx \in Nat
ASSUME SizesAreNumbers == BatchSize \in Nat \ {0} /\ LeavesToClear \in Nat
ASSUME NoneIsNoValue == /\ None \notin Int /\ None \notin Tx /\ None \notin Caller
                        /\ None \notin Seq(Tx \union {None})
ASSUME BoundsAreNumbers == {MaxFaults, MaxReorgs, MaxResets} \subseteq Nat

VARIABLES
  head, branch,     \* the source: how many transactions it has, on which branch
  validated,        \* POI nodes: the latest validated index
  utxoReach,        \* transactions whose commitments are in the UTXO tree
  isPOINode,        \* what this engine is
  unbounded,        \* history: how far a wallet has queued leaves without an index
  data, length,     \* disk: leaves of the tree, and its stored length
  lookup,           \* disk: index by transaction
  snapshot,         \* disk: the leaves of the POI launch snapshot
  outdated,         \* disk: the history version is not the current one
  writeQueue,       \* memory: groups of leaves
  isScanning,       \* memory
  savedPOILaunchSnapshot,   \* memory
  locks,            \* memory: holders of the updates lock
  processing,       \* memory: who processes the write queue
  stage, call,      \* where each caller is, and its variables
  spent             \* history: faults, re-orgs, resets

source == <<head, branch, validated, utxoReach, isPOINode, unbounded>>
tree   == <<data, length>>
disk   == <<data, length, lookup, snapshot, outdated>>
queue  == <<writeQueue, processing>>
memory == <<writeQueue, isScanning, savedPOILaunchSnapshot, locks, processing>>
vars   == <<source, disk, memory, stage, call, spent>>

Inserting == {"insertLegacy", "insert"}
Writing   == {"writeLegacy", "write"}
Deleting  == {"rewindDelete", "resetDelete"}
Erasing   == {"upgradeErase", "fullErase"}
Holding   == Deleting \union Erasing   \* the updates lock
Syncing   == {"cursor", "request", "handle", "queue", "snapshot", "queueRest",
              "rewind", "loop", "end", "rewindDelete"} \union Inserting \union Writing
Owners    == Syncing \union {"resetDelete", "fullErase"}   \* of isScanning
Stage     == {"idle", "again", "upgradeVersion", "guard"}
               \union Syncing \union Holding
Fault     == {"error", "reject", "crash", "unindexed", "mishap"}
Bounded   == Fault \union {"reorg", "reset"}

\* the variables of a call
CallState == [cursor : Tx \union {None}, page : Seq(Tx),
              limit : Place \union {None}, batch : Seq(Tx), mismatch : BOOLEAN,
              start : Nat, at : Nat, position : Int, leaves : Seq(Tx)]

NoCall == [cursor |-> None, page |-> <<>>, limit |-> None, batch |-> <<>>,
           mismatch |-> FALSE, start |-> 0, at |-> 0, position |-> 0,
           leaves |-> <<>>]

TypeOK ==
  /\ head \in 0..MaxTx /\ branch \in {"old", "new"}
  /\ validated \in Place /\ utxoReach \in 0..MaxTx /\ isPOINode \in BOOLEAN
  /\ unbounded \in Nat
  /\ data \in Seq(Tx \union {None}) /\ length \in Nat
  /\ lookup \in [Tx -> Nat \union {None}]
  /\ snapshot = None \/ snapshot \in Seq(Tx \union {None})
  /\ {outdated, isScanning, savedPOILaunchSnapshot} \subseteq BOOLEAN
  /\ writeQueue \in SUBSET Group
  /\ locks \in Nat
  /\ processing \in Caller \union {None}
  /\ stage \in [Caller -> Stage]
  /\ call \in [Caller -> CallState]
  /\ spent \in [Bounded -> Nat]

\* the version is not stored yet when the application first starts
Init ==
  /\ head = 1 /\ branch = "old" /\ validated = 0 /\ utxoReach = 0
  /\ isPOINode \in BOOLEAN /\ unbounded = 0
  /\ data = <<>> /\ length = 0
  /\ lookup = [tx \in Tx |-> None] /\ snapshot = None /\ outdated = TRUE
  /\ writeQueue = {} /\ isScanning = FALSE /\ savedPOILaunchSnapshot = FALSE
  /\ locks = 0 /\ processing = None
  /\ stage = [c \in Caller |-> "idle"] /\ call = [c \in Caller |-> NoCall]
  /\ spent = [kind \in Bounded |-> 0]
-----------------------------------------------------------------------------
Count(kind) == spent' = [spent EXCEPT ![kind] = @ + 1]

Spend(kind, limit) == spent[kind] < limit /\ Count(kind)

\* mishaps are faults that the tree does not survive
Happen(fault) ==
  /\ spent["error"] + spent["reject"] + spent["crash"] + spent["unindexed"]
       + spent["mishap"] < MaxFaults
  /\ Count(fault)

Goto(c, next) == stage' = [stage EXCEPT ![c] = next]

Return(c) == Goto(c, "idle") /\ call' = [call EXCEPT ![c] = NoCall]

\* the transaction at place i of the source
Source(i) == [at |-> i, branch |-> IF i < Fork THEN "old" ELSE branch]

\* what quick sync returns after the cursor: graph ids grow with the place
Page(cursor) ==
  LET first == IF cursor = None THEN 0 ELSE cursor.at + 1
      size  == IF head < first THEN 0
               ELSE IF head - first < BatchSize THEN head - first ELSE BatchSize
  IN [k \in 1..size |-> Source(first + k - 1)]

\* the hash of tx, made of the previous hash and its nullifier, is the expected
\* one when its predecessor on its branch is the transaction before it
Follows(tx, previous) ==
  IF previous = None THEN tx.at = 0
  ELSE /\ tx.at = previous.at + 1
       /\ previous.at < Fork \/ previous.branch = tx.branch

Legacy(tx) == tx.at < LaunchTx

\* the last leaf, or nothing when it is not there
LatestTransaction == IF length \in 1..Len(data) THEN data[length] ELSE None

\* Mutant: the bound is taken for a length
IsOutOfBoundsLoosely(index, limit) == limit # None /\ index > limit + 1

\* isOutOfBounds
IsOutOfBounds(index, limit) == limit # None /\ index > limit
-----------------------------------------------------------------------------
(* syncRailgunTransactionsV2                                                  *)

\* with data of an older version, clearDataForMerkletree takes the updates lock
SyncCall(c) ==
  /\ stage[c] \in {"idle", "again"}
  /\ IF outdated THEN Goto(c, "upgradeErase") /\ locks' = locks + 1
     ELSE Goto(c, "guard") /\ UNCHANGED locks
  /\ UNCHANGED <<source, disk, queue, isScanning, savedPOILaunchSnapshot, call, spent>>

\* an error in a reset leaves isScanning set: nobody scans, and nobody may
Stuck == isScanning /\ \A c \in Caller : stage[c] \notin Owners

\* the namespace is cleared, then the caches; a sync beside it is a mishap
Erase(c) ==
  /\ stage[c] \in Erasing
  /\ data' = <<>> /\ length' = 0
  /\ lookup' = [tx \in Tx |-> None] /\ snapshot' = None
  /\ savedPOILaunchSnapshot' = FALSE
  /\ locks' = locks - 1
  /\ IF stage[c] = "fullErase"
     THEN isScanning' = FALSE /\ Goto(c, "again") /\ UNCHANGED spent
     ELSE /\ UNCHANGED isScanning /\ Goto(c, "upgradeVersion")
          /\ IF isScanning /\ ~Stuck THEN Count("mishap") ELSE UNCHANGED spent
  /\ UNCHANGED <<source, outdated, queue, call>>

UpgradeVersion(c) == /\ stage[c] = "upgradeVersion"
                     /\ outdated' = FALSE
                     /\ Goto(c, "guard")
                     /\ UNCHANGED <<source, tree, lookup, snapshot, memory, call, spent>>

Guard(c) == /\ stage[c] = "guard"
            /\ isScanning' = TRUE
            /\ Goto(c, IF isScanning THEN "idle" ELSE "cursor")
            /\ UNCHANGED <<source, disk, queue, savedPOILaunchSnapshot, locks, call, spent>>

\* getRailgunTransaction takes an error for a transaction that is not there
ReadCursor(c) ==
  /\ stage[c] = "cursor"
  /\ \E latest \in {LatestTransaction, None} :
       /\ IF latest = LatestTransaction THEN UNCHANGED spent ELSE Happen("mishap")
       /\ call' = [call EXCEPT ![c].cursor = latest]
  /\ Goto(c, "request")
  /\ UNCHANGED <<source, disk, memory>>

Request(c) ==
  /\ stage[c] = "request"
  /\ LET page == Page(call[c].cursor)
     IN /\ call' = [call EXCEPT ![c].page = page]
        /\ Goto(c, IF page = <<>> THEN "end" ELSE "handle")
  /\ UNCHANGED <<source, disk, memory, spent>>
-----------------------------------------------------------------------------
(* handleNewRailgunTransactionsV2                                             *)

\* Mutant: the length is taken for the latest index
ShouldAddBefore(limit) == limit = None \/ length < limit

\* shouldAddNewRailgunTransactions
ShouldAdd(limit) == limit = None \/ length - 1 < limit

\* the k-th transaction of the page has its commitments, and the right hash
Known(c, k) == call[c].page[k].at < utxoReach

\* Mutant: the first of a page is not compared with the tree
ExpectedInPage(c, k) ==
  IF k = 1 THEN TRUE ELSE Follows(call[c].page[k], call[c].page[k - 1])

Expected(c, k) ==
  Follows(call[c].page[k], IF k = 1 THEN call[c].cursor ELSE call[c].page[k - 1])

\* getLatestValidatedTxidIndex: a POI node has none; a wallet asks for it, and may
\* be told that there is none
LatestValidated(limit) ==
  \/ isPOINode /\ limit = None /\ UNCHANGED spent
  \/ ~isPOINode /\ limit = validated /\ UNCHANGED spent
  \/ ~isPOINode /\ limit = None /\ Happen("unindexed")

HandleNew(c) == \E limit \in Place \union {None} :
  LET page == call[c].page
  IN /\ stage[c] = "handle"
     /\ LatestValidated(limit)
     /\ IF ShouldAdd(limit)
        THEN \E n \in 0..Len(page) :
               /\ \A k \in 1..n : Known(c, k) /\ Expected(c, k)
               /\ n < Len(page) => ~(Known(c, n + 1) /\ Expected(c, n + 1))
               /\ call' = [call EXCEPT ![c].limit = limit,
                                       ![c].batch = SubSeq(page, 1, n),
                                       ![c].mismatch = n < Len(page) /\ Known(c, n + 1)]
               /\ Goto(c, "queue")
        ELSE Goto(c, "loop") /\ UNCHANGED call
     /\ UNCHANGED <<source, disk, memory>>

\* queueLeaves for the groups of txs, of which the first goes to start: a group
\* begins with a transaction that is apart, and goes on to the next such
Queued(txs, start) ==
  LET apart(k) == isPOINode \/ (~savedPOILaunchSnapshot /\ ~Legacy(txs[k]))
      ranges   == {r \in (1..Len(txs)) \X (1..Len(txs)) :
                     /\ r[1] <= r[2] /\ length <= start + r[1] - 1
                     /\ r[1] = 1 \/ apart(r[1])
                     /\ \A k \in (r[1] + 1)..r[2] : ~apart(k)
                     /\ r[2] = Len(txs) \/ apart(r[2] + 1)}
      new      == {[start |-> start + r[1] - 1, leaves |-> SubSeq(txs, r[1], r[2])] :
                     r \in ranges}
  IN {g \in writeQueue : \A h \in new : g.start # h.start} \union new

\* the lookup batch of queueRailgunTransactions
LookedUp(txs, start) ==
  [tx \in Tx |-> IF \E k \in 1..Len(txs) : txs[k] = tx
                 THEN start + (CHOOSE k \in 1..Len(txs) : txs[k] = tx) - 1
                 ELSE lookup[tx]]

\* how many leaves a wallet may have
Allowed == IF validated + 1 < unbounded THEN unbounded ELSE validated + 1

\* what is queued for a wallet that was told no index is not bounded by one
Unbounded(c) ==
  LET reach == length + Len(call[c].batch)
  IN IF ~isPOINode /\ call[c].limit = None /\ Allowed < reach THEN reach ELSE unbounded

\* flushQueue and queueRailgunTransactions.  Before the first transaction of the
\* POI launch, a wallet without a snapshot queues the legacy ones and inserts
\* them; the lookups are written when everything is queued
Queue(c) ==
  /\ stage[c] = "queue"
  /\ \E n \in 0..Len(call[c].batch) : \E m \in 0..n :
       LET batch  == SubSeq(call[c].batch, 1, n)
           legacy == SubSeq(batch, 1, m)
       IN /\ \A k \in 1..n : ~IsOutOfBounds(length + k - 1, call[c].limit)
          /\ n < Len(call[c].batch) => IsOutOfBounds(length + n, call[c].limit)
          /\ \A k \in 1..m : Legacy(batch[k])
          /\ m < n => ~Legacy(batch[m + 1])
          /\ call' = [call EXCEPT ![c].batch = batch, ![c].start = length,
                                  ![c].at = length + m]
          /\ IF call[c].batch = <<>>
             THEN /\ Goto(c, IF call[c].mismatch THEN "rewind" ELSE "loop")
                  /\ UNCHANGED <<writeQueue, lookup>>
             ELSE IF isPOINode \/ snapshot # None \/ m = n
             THEN /\ writeQueue' = Queued(batch, length)
                  /\ lookup' = LookedUp(batch, length)
                  /\ Goto(c, "insert")
             ELSE /\ writeQueue' = Queued(legacy, length)
                  /\ Goto(c, "insertLegacy")
                  /\ UNCHANGED lookup
  /\ unbounded' = Unbounded(c)
  /\ UNCHANGED <<head, branch, validated, utxoReach, isPOINode, tree, snapshot, outdated,
                 isScanning, savedPOILaunchSnapshot, locks, processing, spent>>

\* Mutant: the length is the one before the insertion
SaveSnapshotBefore(c) ==
  /\ stage[c] = "snapshot"
  /\ snapshot' = [i \in 1..call[c].at |->
                    IF i <= call[c].start /\ i <= Len(data) THEN data[i] ELSE None]
  /\ savedPOILaunchSnapshot' = TRUE
  /\ Goto(c, "queueRest")
  /\ UNCHANGED <<source, tree, lookup, outdated, queue, isScanning, locks, call, spent>>

\* savePOILaunchSnapshot: the nodes of the tree up to the leaf before
SaveSnapshot(c) ==
  /\ stage[c] = "snapshot"
  /\ snapshot' = [i \in 1..call[c].at |->
                    IF i <= length /\ i <= Len(data) THEN data[i] ELSE None]
  /\ savedPOILaunchSnapshot' = TRUE
  /\ Goto(c, "queueRest")
  /\ UNCHANGED <<source, tree, lookup, outdated, queue, isScanning, locks, call, spent>>

\* Mutant: only the rest of the batch can be looked up
QueueRestAlone(c) ==
  LET batch == call[c].batch
      rest  == SubSeq(batch, call[c].at - call[c].start + 1, Len(batch))
  IN /\ stage[c] = "queueRest"
     /\ writeQueue' = Queued(rest, call[c].at)
     /\ lookup' = LookedUp(rest, call[c].at)
     /\ Goto(c, "insert")
     /\ UNCHANGED <<source, tree, snapshot, outdated, isScanning,
                    savedPOILaunchSnapshot, locks, processing, call, spent>>

QueueRest(c) ==
  LET batch == call[c].batch
      rest  == SubSeq(batch, call[c].at - call[c].start + 1, Len(batch))
  IN /\ stage[c] = "queueRest"
     /\ writeQueue' = Queued(rest, call[c].at)
     /\ lookup' = LookedUp(batch, call[c].start)
     /\ Goto(c, "insert")
     /\ UNCHANGED <<source, tree, snapshot, outdated, isScanning,
                    savedPOILaunchSnapshot, locks, processing, call, spent>>
-----------------------------------------------------------------------------
(* updateTreesFromWriteQueue.  Groups that follow each other may be inserted at
   once; one by one they make the same tree.                                  *)

\* the POI nodes know the root of the tree with these leaves after it
Genuine(leaves) ==
  /\ length + Len(leaves) <= head
  /\ \A i \in 1..length : i <= Len(data) /\ data[i] = Source(i - 1)
  /\ \A k \in 1..Len(leaves) : leaves[k] = Source(length + k - 1)

Continue(c) == Goto(c, IF stage[c] \in {"insertLegacy", "writeLegacy"} THEN "snapshot"
                       ELSE IF call[c].mismatch THEN "rewind" ELSE "loop")

\* the group that continues the tree is validated; without one, with an
\* invalid root or an error, the update ends
Insert(c) ==
  LET waiting == {g \in writeQueue : length <= g.start}
      stop    == /\ processing' = None /\ Continue(c)
                 /\ UNCHANGED call
  IN /\ stage[c] \in Inserting
     /\ processing \in {None, c}
     /\ writeQueue' = waiting
     /\ \/ /\ \A g \in waiting : g.start # length
           /\ stop /\ UNCHANGED spent
        \/ \E g \in waiting :
             /\ g.start = length
             /\ \/ /\ isPOINode \/ Genuine(g.leaves)
                   /\ processing' = c
                   /\ call' = [call EXCEPT ![c].leaves = g.leaves,
                                           ![c].position = length]
                   /\ Goto(c, IF stage[c] = "insert" THEN "write" ELSE "writeLegacy")
                   /\ UNCHANGED spent
                \/ ~isPOINode /\ ~Genuine(g.leaves) /\ stop /\ UNCHANGED spent
                \/ ~isPOINode /\ Happen("reject") /\ stop
                \/ Happen("error") /\ stop
     /\ UNCHANGED <<source, disk, isScanning, savedPOILaunchSnapshot, locks>>

\* writeTreeToDB waits for the updates lock
Write(c) ==
  LET first == call[c].position
      n     == Len(call[c].leaves)
      size  == IF Len(data) < first + n THEN first + n ELSE Len(data)
  IN /\ stage[c] \in Writing
     /\ locks = 0
     /\ \/ /\ data' = [i \in 1..size |->
                         IF i \in (first + 1)..(first + n) THEN call[c].leaves[i - first]
                         ELSE IF i <= Len(data) THEN data[i] ELSE None]
           /\ length' = first + n
           /\ writeQueue' = {g \in writeQueue : g.start # first}
           /\ Goto(c, IF stage[c] = "write" THEN "insert" ELSE "insertLegacy")
           /\ UNCHANGED <<processing, spent>>
        \/ /\ Happen("error")
           /\ processing' = None
           /\ Continue(c)
           /\ UNCHANGED <<data, length, writeQueue>>
     /\ UNCHANGED <<source, lookup, snapshot, outdated, isScanning,
                    savedPOILaunchSnapshot, locks, call>>
-----------------------------------------------------------------------------
(* clearLeavesAfterTxidIndex                                                  *)

\* the lock is taken, the queue emptied, and the leaves from first on will go
ClearLeaves(c, first, next) ==
  /\ locks' = locks + 1
  /\ writeQueue' = {}
  /\ call' = [call EXCEPT ![c].start = first, ![c].at = first,
                          ![c].position = length - 1]
  /\ Goto(c, next)

\* clearLeavesForInvalidVerificationHash
Rewind(c) ==
  /\ stage[c] = "rewind"
  /\ ClearLeaves(c, IF length < LeavesToClear THEN 0 ELSE length - LeavesToClear,
                 "rewindDelete")
  /\ UNCHANGED <<source, disk, isScanning, savedPOILaunchSnapshot, processing, spent>>

\* resetRailgunTxidsAfterTxidIndex does not look at isScanning: a sync beside it
\* is a mishap, a flag that is stuck is not
Reset(c) == \E first \in Place :
  /\ stage[c] = "idle"
  /\ \/ ~isScanning /\ Spend("reset", MaxResets)
     \/ isScanning /\ ~Stuck /\ Happen("mishap")
     \/ Stuck /\ UNCHANGED spent
  /\ isScanning' = TRUE
  /\ ClearLeaves(c, first, "resetDelete")
  /\ UNCHANGED <<source, disk, savedPOILaunchSnapshot, processing>>

\* Mutant: an off-by-one in the place
DeleteLeafBefore(c) ==
  /\ stage[c] \in Deleting
  /\ call[c].at <= call[c].position
  /\ data' = [i \in DOMAIN data |-> IF i = call[c].at THEN None ELSE data[i]]
  /\ call' = [call EXCEPT ![c].at = @ + 1]
  /\ UNCHANGED <<source, length, lookup, snapshot, outdated, memory, stage, spent>>

DeleteLeaf(c) ==
  /\ stage[c] \in Deleting
  /\ call[c].at <= call[c].position
  /\ data' = [i \in DOMAIN data |-> IF i = call[c].at + 1 THEN None ELSE data[i]]
  /\ call' = [call EXCEPT ![c].at = @ + 1]
  /\ UNCHANGED <<source, length, lookup, snapshot, outdated, memory, stage, spent>>

\* rebuildAndWriteTree: the length is the number of leaves that are left
RebuildAndWriteTree(c) ==
  LET left == {i \in DOMAIN data : data[i] # None}
  IN /\ stage[c] \in Deleting
     /\ call[c].position < call[c].at
     /\ length' = Cardinality(left)
     /\ \E n \in 0..Len(data) : /\ left \subseteq 1..n /\ (n = 0 \/ n \in left)
                               /\ data' = SubSeq(data, 1, n)
     /\ locks' = locks - 1
     /\ IF stage[c] = "rewindDelete"
        THEN Goto(c, "loop") /\ UNCHANGED isScanning
        ELSE Goto(c, "again") /\ isScanning' = FALSE
     /\ UNCHANGED <<source, lookup, snapshot, outdated, queue,
                    savedPOILaunchSnapshot, call, spent>>

\* fullResetTXIDMerkletreesV2 and clearTXIDMerkletreeData
FullReset(c) == /\ stage[c] = "idle"
                /\ ~isScanning
                /\ Spend("reset", MaxResets)
                /\ isScanning' = TRUE
                /\ locks' = locks + 1
                /\ Goto(c, "fullErase")
                /\ UNCHANGED <<source, disk, queue, savedPOILaunchSnapshot, call>>
-----------------------------------------------------------------------------
\* a full page means that there may be more
Loop(c) ==
  /\ stage[c] = "loop"
  /\ Goto(c, IF Len(call[c].page) = BatchSize THEN "cursor" ELSE "end")
  /\ call' = [call EXCEPT ![c] = NoCall, ![c].page = call[c].page]
  /\ UNCHANGED <<source, disk, memory, spent>>

End(c) == /\ stage[c] = "end"
          /\ isScanning' = FALSE
          /\ Return(c)
          /\ UNCHANGED <<source, disk, queue, savedPOILaunchSnapshot, locks, spent>>

\* a request or an access to the database throws; performSyncRailgunTransactionsV2
\* catches it
Fail(c) == /\ stage[c] \in {"upgradeVersion", "request", "handle", "queue", "snapshot",
                            "queueRest", "end"}
           /\ Happen("error")
           /\ isScanning' = (isScanning /\ stage[c] = "upgradeVersion")
           /\ Return(c)
           /\ UNCHANGED <<source, disk, queue, savedPOILaunchSnapshot, locks>>

\* so does a clear.  The lock is released, but a reset leaves isScanning set;
\* leaves that were half deleted are a mishap
FailClear(c) ==
  /\ stage[c] \in Holding
  /\ Happen(IF stage[c] \in Deleting /\ call[c].start < call[c].at
            THEN "mishap" ELSE "error")
  /\ locks' = locks - 1
  /\ isScanning' = (isScanning /\ stage[c] # "rewindDelete")
  /\ Return(c)
  /\ UNCHANGED <<source, disk, queue, savedPOILaunchSnapshot>>

\* the application stops and starts again on the same database; leaves that were
\* half deleted are a mishap
Crash ==
  /\ Happen(IF \E c \in Caller : stage[c] \in Deleting THEN "mishap" ELSE "crash")
  /\ writeQueue' = {} /\ isScanning' = FALSE /\ savedPOILaunchSnapshot' = FALSE
  /\ locks' = 0 /\ processing' = None
  /\ stage' = [c \in Caller |-> "idle"] /\ call' = [c \in Caller |-> NoCall]
  /\ UNCHANGED <<source, disk>>
-----------------------------------------------------------------------------
(* The source, the POI nodes and the UTXO tree.                               *)

NewTransaction == /\ head < MaxTx
                  /\ head' = head + 1
                  /\ UNCHANGED <<branch, validated, utxoReach, isPOINode, unbounded,
                                 disk, memory, stage, call, spent>>

Validate == /\ ~isPOINode
            /\ validated + 1 < head
            /\ validated' = validated + 1
            /\ UNCHANGED <<head, branch, utxoReach, isPOINode, unbounded, disk,
                           memory, stage, call, spent>>

SyncUTXOs == /\ utxoReach < head
             /\ utxoReach' = utxoReach + 1
             /\ UNCHANGED <<head, branch, validated, isPOINode, unbounded, disk,
                            memory, stage, call, spent>>

\* what is validated stays; there is more to come after a re-org
Reorg == /\ branch = "old" /\ Fork < head /\ head < MaxTx
         /\ isPOINode \/ validated < Fork
         /\ Spend("reorg", MaxReorgs)
         /\ branch' = "new"
         /\ head' \in Fork..head
         /\ UNCHANGED <<validated, utxoReach, isPOINode, unbounded, disk, memory,
                        stage, call>>

SyncStep(c) ==
  \/ Erase(c) \/ UpgradeVersion(c) \/ Guard(c)
  \/ ReadCursor(c) \/ Request(c) \/ HandleNew(c)
  \/ Queue(c) \/ SaveSnapshot(c) \/ QueueRest(c) \/ Insert(c) \/ Write(c)
  \/ Rewind(c) \/ DeleteLeaf(c) \/ RebuildAndWriteTree(c) \/ Loop(c) \/ End(c)

Next == \/ NewTransaction \/ Validate \/ SyncUTXOs \/ Reorg \/ Crash
        \/ \E c \in Caller : \/ SyncCall(c) \/ SyncStep(c) \/ Reset(c)
                             \/ FullReset(c) \/ Fail(c) \/ FailClear(c)

Spec == Init /\ [][Next]_vars

\* the source, the POI nodes and the UTXO tree move on, and syncs are repeated
FairSpec == /\ Spec
            /\ WF_vars(NewTransaction) /\ WF_vars(Validate) /\ WF_vars(SyncUTXOs)
            /\ \A c \in Caller : WF_vars(SyncCall(c)) /\ WF_vars(SyncStep(c))
-----------------------------------------------------------------------------
Whole    == spent["mishap"] = 0
Changing == \E c \in Caller : stage[c] \in Holding

\* No insertion has been refused or has failed
Smooth == spent["reject"] + spent["error"] = 0

\* A wallet has queued nothing but what was validated
Indexed == unbounded = 0

(* A wallet's tree is never ahead of what POI nodes have validated, after any
   reset, error or restart, but for what it queued when it was told no index
   (nothing bounds that): an index that it is told later holds again.         *)
WithinValidated == ~isPOINode => length <= Allowed

(* Every leaf is at the place that the source gives it: none is skipped, and
   none is inserted twice.  A wallet's leaves are those of the chain, unless it
   was told no index and took what a re-org could replace.                    *)
LeavesInOrder == Whole /\ ~Changing =>
  \A i \in 1..length :
    /\ i <= Len(data) /\ data[i] # None
    /\ IF ~isPOINode /\ Indexed THEN data[i] = Source(i - 1) ELSE data[i].at = i - 1

(* Each leaf has the verification hash that the one before it leads to, so a
   POI node's roots are those of one history, re-orgs and rewinds included.
   Not after an insertion that failed: its groups stay queued, and a later one
   may continue the tree with them.                                           *)
OneHistory == Whole /\ ~Changing /\ (isPOINode => Smooth) =>
  \A i \in 1..(length - 1) : Follows(data[i + 1], data[i])

(* A transaction of the tree is found by its id, once no sync runs.  Nothing is
   said of a wallet that stops between inserting the legacy transactions and
   writing the lookups, which it then never writes, and of groups that stay
   queued after an insertion was refused: a full reset clears their lookups.  *)
LeavesAreFound ==
  Whole /\ ~Changing /\ ~isScanning /\ Smooth /\ (isPOINode \/ spent["crash"] = 0) =>
    \A i \in 1..length : lookup[data[i]] = i - 1

(* The leaves of the POI launch snapshot are those of the tree, rewinds behind
   it, re-orgs, resets and restarts included ("always same as snapshot", says
   getPOILaunchSnapshotNode), as long as no insertion is refused or fails: the
   snapshot is saved all the same, and stays what it is.  For the same reason
   it is so only if no re-org is before the launch (LaunchTx <= Fork).         *)
SnapshotIsKept == Whole /\ Smooth /\ snapshot # None =>
  \A i \in 1..Len(snapshot) :
    i <= length /\ i <= Len(data) /\ data[i] # None => snapshot[i] = data[i]

(* The tree gets every transaction, after errors, rejected roots, re-orgs,
   missing indices, resets and restarts that leave it whole; unless an error in
   a reset leaves isScanning set for good, until a restart or another reset.  *)
CatchesUp ==
  [](Whole) /\ <>[](~Stuck) => \A i \in Place :
    <>[](i < length /\ i < Len(data) /\ data[i + 1] = Source(i))
=============================================================================
