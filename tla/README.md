# RAILGUN engine: models, checks and proofs

This directory is a verification development beside the code of the RAILGUN
engine (`src/src/`, TypeScript): TLA+ modules that model its stateful parts,
configurations that check them with TLC on small instances, and proofs that
TLAPS checks for every instance. `PROJECT.json` lists components, runs,
mutants, the map from definitions to source lines, findings, hazards and
theorems. Paths below are relative to `src/src/`.

## 1. The system

The engine keeps a local copy of what the RAILGUN contracts have emitted, and
wallets that find their own notes in it.

| component | state | operations | hard because |
|---|---|---|---|
| UTXO merkletree (`merkletree/merkletree.ts`, `utxo-merkletree.ts`) | write queue, cached lengths and node hashes, invalid root details, two locks; on disk nodes, data, one metadata record, nullifiers, unshields | queue leaves, process the queue, clear, update, read roots and proofs | several async callers, unordered batches, crashes, bad event sources |
| Live subscription (`provider/batched-polling-event-subscriber.ts`) | position, timer, poll in flight, backoff | start, stop, pause, resume, poll | timers and requests overlap |
| Engine, UTXO scans (`railgun-engine.ts`, `contracts/.../railgun-smart-wallet.ts`) | `isScanning`, last synced block, history version | quick sync, slow sync, live listeners, full rescan | scans and live events race, partial failure |
| TXID merkletree (`merkletree/txid-merkletree.ts`) and its sync | as above, plus roots per index and the POI launch snapshot | queue transactions, validate, clear after an index, sync | rewinds of a tree in use |
| Networks and wallets in the engine | registries of trees, contracts, wallets | load, unload | listeners outlive what they were made for |
| Wallets (`wallet/abstract-wallet.ts`) | received notes, scanned heights per version and tree, the key of the latest run, caches | decrypt, clear, list notes | runs, readers and clears overlap; several writes that belong together; errors taken for answers |
| POI (`poi/`, and the refresh in `wallet/abstract-wallet.ts`) | statuses per list in the records of notes, sent commitments and unshields; one flag per version, one per chain | retrieve and store statuses, submit legacy events, choose and prove transactions, statuses and balance buckets | calls overlap, requests fail and are cut at 1000 records, the node verifies late, transactions depend on one another |
| Coin selection (`solutions/`), transactions (`transaction/`) | during one batch: what is left to pay, the notes already taken | choose UTXOs, build batches | many cases, boundaries, lists changed in place by callees |
| Prover, database, events, notes, keys, validation | caches and storage | | mostly conversion and cryptography |

Interaction: events reach `commitmentListener` from quick sync, slow sync or a
live subscriber. It queues each commitment in its tree and runs the queue. The
tree asks the contract (`rootHistory`) before it accepts a group. Wallets read
the tree and its nullifiers when they decrypt balances, and make proofs against
its root. Every decryption ends with a refresh of the POIs of its version.

What makes each part correct:

- Lock: calls for one tree exclude each other and are served in order; an
  exception strands nobody.
- UTXO merkletree: no length, cached or stored, counts a commitment that is not
  on disk; a served root is one the contract has had; a bad batch blocks
  nothing for good; a rescan removes what it says.
- Merkle nodes: a mix of cached nodes, stored nodes and zeros is one tree.
- Subscription: every block once, in order, and never deaf.
- Scans: one at a time; nothing gets behind the block the next scan starts from
  without being in the tree or queued; the tree catches up.
- TXID tree: never longer than what POI nodes have validated, if it is told what
  they have; every leaf at its
  place and after its predecessor; the launch snapshot is a piece of the tree;
  each transaction is found by its id; the tree catches up after a re-org.
- Wallets: no note is passed over; a cached list of notes shows what is stored
  and seen as spent; every note is found in the end.
- POI refresh: the flags belong to calls under way; a proof the node has got is
  not made again unasked; every transaction that can be proved is, and the wallet
  learns that its change can be spent.
- Coin selection: no note spent twice, every group fits a circuit, the parts of
  an output add up, and the search gives up only without notes.

## 2. Modules

| module | models | composes |
|---|---|---|
| `WriteQueueLock` | the promise chain of `processWriteQueueForTree` and the loop of `updateTreesFromWriteQueue` | implements `FifoLock` |
| `FifoLock` | abstract: a queue per tree, served in order | |
| `UtxoMerkletree` | `queueLeaves`, `processWriteQueueForTree` and what it calls, `getTreeLength`, metadata, clearing, `updateData`, the updates lock | implements `CommitmentLog`; relies on the exclusion `WriteQueueLock` shows |
| `CommitmentLog` | abstract: a log per tree that grows at its end | |
| `MerkleNodes` | `fillHashWriteGroup`, `writeTreeToDB`, `getNodeHash`, `getMerkleProof`, `verifyMerkleProof` | refines the root of `UtxoMerkletree` |
| `BatchedPollingEventSubscriber` | the class of that name | feeds the live events of `UtxoScan` |
| `UtxoScan` | `scanUTXOHistory`, `performQuickSync`, `slowSyncV2`, `getHistoricalEvents`, live listeners, `fullRescanUTXOMerkletreesAndWallets`, history version | uses the tree as `UtxoMerkletree` shows it to be |
| `TxidSync` | `syncRailgunTransactionsV2` and what it calls, `queueRailgunTransactions`, the launch snapshot, `clearLeavesAfterTxidIndex`, `rebuildAndWriteTree`, both resets | uses the tree as `UtxoMerkletree`, `MerkleNodes` and `WriteQueueLock` show it to be |
| `WalletBalances` | `decryptBalances`, `scanLeaves`, `getWalletDetailsMap`, `getCreationTreeAndPosition`, `clearDecryptedBalancesAllTXIDVersions`, `TXOs` and its cache, `updateReceiveCommitmentCreatedPOIs` | uses trees that grow as `UtxoMerkletree` and `UtxoScan` show |
| `PoiRefresh` | `refreshPOIsForTXIDVersion`, `generatePOIsForRailgunTxid` and what they call in the wallet and in `poi.ts` | follows the notes that `WalletBalances` finds and the transactions that `TxidSync` adds |
| `SpendingSolutions` | `generateValidSpendingSolutionGroups` and all it calls in `solutions/`, the change and output limit of `generateTransactions` | spends the notes that `WalletBalances` lists |
| `*Proofs` | theorems about the module they are named after | |
| `EventLoopProofs` | theorems about the two mechanisms that order what the event loop does | the lock of `WriteQueueLock` and the timers of `BatchedPollingEventSubscriber`, which share no state |
| `MC*` | values of the constants for TLC | |

Definitions whose comment says `mutant` are wrong variants of the definition
below them; no specification uses them. `PROJECT.json` names the run that
notices each.

### State and actions

The rule everywhere: what JavaScript runs between two `await`s is one step, and
everything that may run while one is awaited is interleaved.

**WriteQueueLock.** `tail[t]` is `processingWriteQueueLock[t]`, `prev[p]` the
promise `p` awaits, named by the call that made it. `Call` starts
`updateTreesFromWriteQueue` with the trees that have a queue; `Chain` stores
the promise; `Enter` goes on once the previous promise is resolved; `Leave` and
`Throw` are the `finally` block after success and failure; `Retry` is the
delayed restart.

**UtxoMerkletree.** Memory is `treeLengths`, `writeQueue`, `invalidDetails`,
`cachedRoot`, `lockRefs`; disk is `data`, `storedRoot`, and `metadata`, one
record for all trees. `QueueLeaf` is one commitment of `queueLeaves`. `Begin`,
`TakeGroup`, `Accepted`/`Rejected`, `Retry`, `Write`, `LandNodes`, `LandData`,
`Lengthen`, `MetaRead`, `MetaWrite`, `Dequeue` are the stages of
`processWriteQueueForTree` between its awaits, `Abort` a request or write that
throws, `Crash` a stop at any point followed by a new process. `getTreeLength`
is folded into the actions that call it, with its fallback that counts the
data. The hash of a root is taken to be the vector of the leaves below it, a
leaf to be `Genuine` at its position or `Forged`. `RootHistory` is the set of
lengths at which the contract had a root: it has one after each transaction,
not after each leaf.

**MerkleNodes.** Every node of one tree, in the cache and on disk; a hash is
the sequence of the leaves below it, so that two hashes are equal only if all
they hash is. The node lookups of one insertion are read in one
step; those of `getMerkleProof` are asked and answered one by one, with the
caching of an answer as a step of its own. A read that fails is answered with
zeros, like one of a node that is not there (`DbGet`; `misread` is history); for
the lookups of an insertion this is left out, since a wrong root of a group is refused. The loop over a level goes by pairs
and computes one parent too many when its end is even (`NextLevel`): that node
is kept where the tree has it and left out beyond the tree's width, where nobody
reads it. `torn` is history: the disk has lost the children of a node.

**BatchedPollingEventSubscriber.** The fields of the class, plus where the one
poll in flight is. `delivered` records what was emitted. The provider's head
does not go backwards, and a request for logs gets all of its range.

**UtxoScan.** `stage[c]` is where caller `c` is, `from`, `to` and `latest` are
its local variables, `isScanning`, `lastSyncedBlock`, `treeLength` and
`nullified` the shared state. Reading the queue and updating the tree
(`CommitmentListener`) is one step here: `UtxoMerkletree` has its interleavings,
and of its results this module keeps those that matter: some prefix of the
queue enters the tree, with or without an invalid root or an error. A block's
live events arrive in one step, quick sync data is genuine and stays
`QuickSyncLag` blocks behind, nullifiers stand for unshields, too. Only the V2
contract is scanned. `Promise.all` in `getHistoricalEvents` is the two orders of
nullifiers and transacts, but what remains of it after a failure is not
modelled. `Fail` includes an exception of the decryption, which is otherwise
abstract. `forceRescanDevOnly` is left out.

**TxidSync.** The tree is `data`, its leaves, and `length`, what is stored as
their number; groups wait in `writeQueue` with the index they start at.
`stage[c]` is where caller `c` is and `call[c]` its local variables. `SyncCall`,
`Erase`, `UpgradeVersion` and `Guard` are the beginning of
`syncRailgunTransactionsV2`; `ReadCursor`, `Request`, `HandleNew` and `Loop` go
around `performSyncRailgunTransactionsV2`; `Queue`, `SaveSnapshot` and
`QueueRest` are `queueRailgunTransactions`, split where it inserts the legacy
transactions, and `Insert` and `Write` the update of the tree. `Rewind` and
`Reset` take the updates lock, `DeleteLeaf` is one round of the loop of
`clearLeavesAfterTxidIndex`, and `RebuildAndWriteTree` what follows it.
`FullReset` goes on with `Erase`. A transaction is a place on one of two
branches of the chain; `Follows` says that its verification hash is made from
the one before. `ReadCursor` may take an error for an empty tree, as
`getRailgunTransaction` does. A wallet may be told no validated index
(`LatestValidated`, a fault `unindexed`): nothing bounds what it then queues, and
`unbounded` is history of how far that went. `Fail` is an error that
`performSyncRailgunTransactionsV2` catches or that throws before the flag is set,
`FailClear` one in a clear: it releases the lock, but a reset leaves `isScanning`
set (`Stuck`), so that every later sync returns at once; a restart or
`resetRailgunTxidsAfterTxidIndex` frees it. Faults are counted by kind, and
`mishap` is the kind that leaves the tree with holes or with transactions out of
order: a stop or an error while leaves are deleted, that failing read, and a reset
or upgrade under a running sync. Properties about the order of leaves are stated
for behaviours without a mishap (`Whole`); `WithinValidated` is stated for all.

**WalletBalances.** On disk are `stored`, the records of received notes by
position, and `details`, the map of `treeScannedHeights` and creation leaf per
version, which is one record. `run[r]` is what one call of `decryptBalances` has
in its local variables; `key` is `decryptBalancesKeyForChain`, one for all
versions. `ReadDetails`, `ScanTree`, `ScanLeaves`, `GiveUp`, `ReadMap`, `Commit` and
`Finish` are the stages of a run between its awaits, `Fail` its `catch` block.
`ClearNamespace` and `EndClear` are the two writes of a clear; either may throw
(`FailClearNamespace`, `FailEndClear`). The first, which may have removed some of the
records, leaves `isClearingBalances` set (`stuck`): `Refuse` is then all that a call
does, until a clear succeeds or the wallet is loaded again. A call of `TXOs`
is `QueryStored`, one `CheckSpent` for each record, all of them in any order, and
`FillCache`. `ReadForPOIs` and `WritePOIs` are the update of one record. A read of
the details may fail and is then taken for an empty map; a note of `Nft` may fail
to decrypt. A write of a record and the invalidation of the caches after it are
one step. `outrun`, `passedOver`, `late` and `stale` are history: `outrun` are the
runs that had read their heights before the last clear, `passedOver` says that
one of them has stored heights since, that the data of a token could not be
read or that a clear has thrown with notes removed and heights left, `late` are
readers that an update, or a clear that threw, has overtaken, `stale` the caches
they have filled or such a clear has left.

**PoiRefresh.** An item is a blinded commitment. `received` and `sent` are the
`poisPerList` of the records of notes and of sent commitments and unshield events,
`status` what the POI node has; `scanned` and `synced` are how far the wallet and
the TXID tree have got: a sent commitment is asked for once it is decrypted, an
unshield event once its txid is known too (`SpentRecords`). `DecryptAgain` is a scan
that reads leaves again, beside another or after one that failed, and replaces
their records by new ones without POIs. `call[c]` is a refresh, or a proof asked for one
transaction (`only`): its stage, the answers it has not stored yet (`got`) and the
proofs it has still to make (`todo`). `Refresh` is the guard of
`refreshPOIsForTXIDVersion`; `RetrieveReceived`, `StoreReceived`, `SubmitLegacy`,
`RetrieveSpent` and `StoreSent` are its three requests and the writes of their
answers, one by one; `Generate`, `Collect`, `Prove` and `Generated` are
`generatePOIsAllSentCommitmentsAndUnshieldEvents`; `GenerateFor` is
`generatePOIsForRailgunTxid`; `Fail` a request or access that throws, `Crash` a
restart. A proof may fail before or after the node has got it. A request and its
answer are one step, and so are the reads of a stage; the cached lists are read
as if they were current (`WalletBalances` has the cache); one step of the TXID
sync adds a transaction to its tree and its txid to the outputs. Outputs of value
zero, which the code never asks for or proves, are left out. `proofs`, `forced` and
`undone` are history; `undone` are the transactions whose record was replaced after
a call had asked for it and before it collected what to prove.

**SpendingSolutions.** The local variables of one batch for one token: `remaining`
is `remainingOutputs`, `excluded` is `excludedUTXOIDPositions`, `utxos` and `spend`
the group being put together, `treesLeft` the trees the loop still has. `TooLow`,
`Simple` and `Complex` are the three ways `generateValidSpendingSolutionGroups`
goes; `StartOutput` to `Exhausted` the loops of `createSpendingSolutionsForValue`;
`StartBatch`, `Push` and `EndBatch` those of `findNextSolutionBatch`; `PayPart`,
`PayRest` and `PaySecondary` what is done with a group; `StartUnshield` the second
use of the same code for the unshield. The code runs without concurrency, so the
model has no choice but that of wallet and request in `Init`.

## 3. Runs

| run | instance | shows |
|---|---|---|
| `write_queue_lock` | 3 calls, 2 trees | lock: exclusion, calls served in order and in the end (refinement of `FifoLock`, with its fairness) |
| `utxo_tree` | 1 tree of 4, groups 4, 2, 1, contract roots after 2 and 4, 1 forgery, 1 error, 1 crash | the tree is the contract's log, what is counted is stored, served roots are known, the invalid position is ahead, the tree completes |
| `utxo_rescan` | 1 tree of 2, 2 clears, 1 update, 1 forgery | the reference count is right, waiting writes resume, nothing forged is written |
| `merkle_nodes` | 8 leaves, roots at 1, 3, 8, 1 error (a write, or a read of a proof), 1 restart | group roots are genuine, undisturbed proofs prove the leaf asked for against the root of a tree that has it |
| `polling` | 6 blocks, batches of 2, 3 errors, 2 dropping pauses | never deaf, in order, no gap, catches up |
| `utxo_scan` | 2 callers, 4 blocks, chunks of 2, 1 error, 1 rejected root, 1 rescan | one scan, nothing out of reach, the last synced block never goes back, catches up |
| `utxo_scan_restarts` | 1 caller, old data, 2 rejected roots, 1 failed clear, 2 crashes | what waited in memory is read again after a restart |
| `utxo_scan_lost` | 1 caller, 1 error, 1 crash | finding: an insertion that failed quietly counts as synced |
| `txid_sync` | 1 caller, wallet or POI node, 4 transactions, pages of 2, fork at 2, launch at 1, 1 fault (an error, in a clear too, a refused root, a stop, no index, a mishap), 1 re-org, 1 reset | nothing ahead of validation but what was queued without an index, leaves in order and of one history, lookups and snapshot fit, catches up |
| `spending_solutions` | all wallets of 4 notes worth 0, 1, 2 or 4 in 2 trees, all requests of up to 3 outputs of 0 to 3 and an unshield of 0, 1 or 3, 2 inputs, 3 outputs | no note twice, groups fit, outputs are paid, no note is overlooked, two outputs succeed |
| `poi_refresh` | 2 calls, 1 version, 1 list, 4 items (a blocked shield, its legacy change, more change and an unshield), 2 transactions, requests of 2 and 3, any 1 of: forced refresh, proof asked for, leaves decrypted again, failure, restart | flags are held, no proof twice, every transaction that can be proved is |
| `wallet_balances` | 2 versions, 2 trees of 2 leaves, 2 runs, 1 reader, 1 NFT, any 2 of: extra call, clear, failed clear, POI update, list, failure, restart | no note passed over, the cache is current, every note is found |

Types (`TypeOK`) are proved for every instance and therefore not checked in runs
again.

**Why the bounds are enough.** What several trees do to the metadata record they
share is left to the proof (`TreesHaveTheirData`). Four positions and three group sizes give every path
down the ladder, with contract roots that exist for pairs only. Three callers
give a lock a holder, a waiter and one behind it. Six blocks in batches of two
give full, short and single-block batches. A block range of `ScanChunks` = 1 has
two blocks, because both ends count: four blocks give a full chunk, a short one
and the border case in which a block is left to the next scan; one block has a
shield and a transact, one a nullifier and nothing else. Errors, crashes,
forgeries and rescans are bounded by constants that `spent` counts; each
property was tried with the kinds of failure that could break it. In
`TxidSync` four transactions in pages of two give a full page, a short one, a
border between pages before and after the fork, a batch that the launch block
splits, one that the validated index cuts, and a rewind of as many leaves as
the re-org replaced; with one caller, what several do to each other is left to
the proofs, which allow any number. In `SpendingSolutions` values 1, 2 and 4 give
every relation of a note to an output (less, equal, more) and of sums to each
other; four notes fill two groups of two in one tree or in both, and a third
output is the first that change cannot reach. In `WalletBalances` batches are of
one leaf, so that a run commits between the leaves of a tree; the second run may
overtake the first one at each of its steps, for the same version or the other;
two events (`MaxEvents`) give each pair of disturbances, such as a clear under a
run and a failed read after it. More of them, more readers and larger trees are
left to the proofs. In `PoiRefresh` the second transaction spends the change of
the first one, which is from before the launch and has a blocked input; the
blocked shield takes one of the two places of every request, and the outputs of
both transactions just fit in one; two calls are a refresh and whatever overlaps
it; the last two items and the second transaction arrive while calls are under way.
Several versions and lists, which share one flag, are left to the proofs, as are
several failures. In `MerkleNodes` eight leaves are the least with a level
between the leaves' parents and the root; three groups are the least for a late
answer to meet a group after the one that made it stale, and roots at 1, 3 and 8 let
groups end at odd and even places, at the border of a subtree and beyond it. What needs sixteen, and is told in
section 4, was found with the invariant of the proof, which TLC was let check with
`Depth` 3 and 4. No symmetry
reduction is used; `CHECK_DEADLOCK` stays on everywhere.

**Fairness.** `WriteQueueLock`, `ProcessTree`, `ClearEnd` and the updater: the
event loop runs a continuation that is ready, and awaited database calls
return. `QueueLeaf` in `FairSpec` of `UtxoMerkletree`: the application scans
again and again, and each scan reads the events that are not in the tree. Poll
`Fire` and `Answer`: timers fire, and the provider answers or fails; errors are
bounded, so a provider that fails forever is excluded. `Mine`, `ScanCall` and
`ScanStep` in `UtxoScan`: the chain grows to the model's end and the application
calls scans repeatedly. `SyncCall`, `SyncStep`, `NewTransaction`, `Validate` and
`SyncUTXOs` in `TxidSync`: syncs are repeated (each UTXO scan ends with one),
their awaits return, the list grows to the model's end, the POI nodes validate
it and UTXO scans follow it. The steps of each run of `decryptBalances` and of a
clear in `WalletBalances`: their awaits return; and scans of the chain, which end
with `decryptBalances` of each version in turn (`railgun-engine.ts:544`), come
again and again. Readers need not go on. In `PoiRefresh`: scans find what is on
chain and the TXID sync adds it; each scan ends with a refresh
(`abstract-wallet.ts:2983`), so that one starts again and again; the awaits of a
call return; a POI node assesses shields and verifies what was submitted. No action that fails, crashes, clears
or rescans is fair.

## 4. Findings

- **A lost commitment** (`utxo_scan_lost`, `railgun-engine.ts:767`). Errors of an
  insertion other than an invalid root are swallowed, the chunk counts as
  synced, and its queue is in memory.

Other places where code and comments disagree, or that a property had to
exclude, are in the notes of the hazards.

In the UTXO tree and its scans: nodes and data are two batches with no order
between them, and the length is a third write (`merkletree.ts:526`): if the first
group's data got to disk and its nodes did not, the next process counts the data
and serves a root the contract never had. (To see it: `RootIsKnown` of every tree,
with one tree, `TreeMaxItems` 2 and one crash; `ServedRoot` exempts trees that
were `recounted`, and lengths stay covered by data all the same.) `getNodeHash` caches what it awaited, over a newer hash
(`merkletree.ts:331`). As a rule nobody is harmed: what is overwritten lies to the
right of the group, and the next group starts there and computes it again. But the
loop over a level (`merkletree.ts:671`) computes one pair too many when its end is
even, and after a failed write a smaller group takes the place of a larger one. So
in a tree of sixteen a group of one leaf stores a node full of zeros two levels up, a
proof asks the disk for it, the next group (fourteen leaves) caches the true one and
its batch fails (`:527`), after the answer to the proof has gone over it; the
next group is again of one leaf, takes the stale node with the full right half, and has a
root of no tree. The contract does not know it, so that nothing is written, but no
group of that size is accepted until a restart. `GroupRootIsGenuine` therefore
excludes a proof read beside a write when writes fail. Bad batches stay queued (`merkletree.ts:874`, whose comment
says that they are deleted; a replaced one does no harm, as `EveryTreeCompletes`
shows), nullifiers that arrive live during a scan are dropped
(`railgun-engine.ts:1722`), the last chunk may leave a block to the next scan, the
history version is cleared before `isScanning` is looked at
(`railgun-engine.ts:587`), a full rescan is not resumed after a stop and has no
`finally` (`railgun-engine.ts:1329`, `1394`), and a live insertion, which does not
set `isScanning`, may end above leaves that a rescan has just removed
(`merkletree.ts:465`).

In the TXID sync: the launch snapshot is saved although the insertion before it
was refused or failed, and is then kept (`txid-merkletree.ts:416`); a wallet that
stops between inserting legacy transactions and writing the lookups never writes
them (`:379`); a full reset leaves the write queue alone (`merkletree.ts:466`);
a failing read is taken for an empty tree (`txid-merkletree.ts:114`); a stop in
the middle of a clear leaves the old length over deleted leaves (`:510`);
`resetRailgunTxidsAfterTxidIndex` does not look at `isScanning`
(`railgun-engine.ts:1475`); neither reset has a `finally`, so that an error leaves
`isScanning` set and no sync runs (`:1456`, `:1475`; `CatchesUp` without `~Stuck` is
violated by it); a wallet that is told no validated index takes whatever the source
has (`:888`, `txid-merkletree.ts:383`); and the loop reads a full page that cannot be added
again and again (`:979`).

In the wallet (`wallet/abstract-wallet.ts`): a clear does not stop the runs that
have read their heights, and one of them stores them over the cleared ones
(`:3190`); a clear that throws leaves `isClearingBalances` set, and nothing is
decrypted until the wallet is loaded again or cleared with success (`:3195`), and one
that throws later leaves the caches (`:3205`); a run deletes the key of another one when it ends (`:2980`); the cache is
filled with a list that an update has overtaken (`:1139`); records are read,
changed and written back by three writers (`:2153`); notes of two versions at
the same position share a key (`:356`); the call for the data of an NFT that
fails hides the note for good (`:527`); and the search for the creation leaf uses
a wrong index when a tree has several batches (`:3158`).

In the refresh of POIs: `sortPOIsPerListUndefinedFirst` (`abstract-wallet.ts:1433`)
puts records that have statuses first, contrary to its name, so that 1000 notes
that no list ever accepts would keep newer ones out of every request, and with
them the proofs that depend on them; inputs without statuses are dropped before
all are said to be valid (`poi.ts:177`), which costs a proof that fails; a forced
refresh resets the flag of the one it overtakes; a scan that decrypts leaves again
takes the statuses from their records (`abstract-wallet.ts:869`, `943`), and a
refresh that has asked for them and not yet collected what to prove makes a proof
again that the node has got (`NoProofTwice` over all of `Tx` is violated by it);
the TXID sync adds a txid to a
commitment without dropping the cached lists (`railgun-engine.ts:1195`); and what
a refresh throws after a scan is caught by nobody, and the event that the scan is
complete is then not emitted (`abstract-wallet.ts:2983`).

In the live events: a subscriber made while the provider is paused is paused
before it runs, which does nothing, and is then started
(`polling-json-rpc-provider.ts:43`).

In the choice of notes: the loop over trees keeps the last solution, not the
first (`transaction-batch.ts:256`, `268`), and a tree that holds too little has
the empty one, so that a single group may be lost; and the change of an output
pays neither a third output nor the unshield. Both make a batch fail, for want
of notes, that the balance would pay for.

## 5. Proofs

All theorems are about the specifications TLC checks, for every value of the
constants that satisfies the named assumptions of the modules. None of these
excludes a case the code has: sizes are positive, commitments are numbered in
the order of their blocks, the missing value is no value and no vector, a forged
leaf is not a genuine one. A theorem that needs more says so after `ASSUME`; these
conditions are given and explained below.

- **`EventLoopProofs`, the lock.** `MutualExclusion` is not inductive: a resolved
  promise lets a call enter, so one must know that only one call of a tree
  awaits no promise. `Chained` says that the calls of a tree form a sequence in
  which each awaits the one before it and the last is the lock. Each action
  appends to the sequence or removes its head. `ServesInOrderOfArrival` is the
  safety part of the refinement `ServesInOrder`: the chain is unique, so that it
  is the queue of `FifoLock`, and each step of a call is a step of that queue
  or none.
- **`UtxoMerkletreeProofs`.** `StoredPrefix` needs that the data has no holes
  (a length may come from counting it), that a group begins at the length and
  fits, and that the metadata record read for writing back covers no more
  than what is there although other trees write theirs meanwhile (`TreeInv`).
  It holds for any number of trees, crashes, errors and forgeries, with or
  without validation. With `SpecWithRescans` it is false, because an insertion in
  flight may end above leaves that a clear has removed (the hazard at
  `merkletree.ts:465`).

  `InvalidAhead` is about two pieces of memory that are written at different
  stages, and a length that a restart takes from a record others may have
  overwritten: `Ahead` ties the invalid position to every copy of the length
  (cached, in the record, in a record about to be written back).
  `LockIsCounted` and `RescanTypes` hold beside rescans and updates, too: the
  tree under the group in flight may be gone, but the group has leaves to write
  (`Filled`). `NothingForged` needs that a group is compared with the contract
  once and written later: `Clean` says that its root is that of the leaves it
  still has. `ServedRoot` needs that a stored root is a root of the contract as far
  as the tree has got (`Served`), which a partly written group may have passed.
  `TreesKeepALog` is the refinement: a step lengthens one log by genuine leaves,
  leaves all alone, or is a restart.

  `NoForgeryIsWritten` and `TreesKeepALog` assume `~SkipAllowed \/ MaxForgeries = 0`,
  `RootIsTheContracts` assumes `~SkipAllowed`. Quick sync skips the validation
  (`railgun-engine.ts:485`): of its events nothing can be said but that they are
  as good as their source, and between groups that nobody compared there may be
  roots the contract never had. The runs validate every group, too.
- **`EventLoopProofs`, the subscriber.** `InOrder` and `NoGap` follow from `InFlight` and
  `Positioned`: everything emitted lies before the next range to be requested,
  and all of it since `base` was emitted, also while a pause resets the position
  under a request.
- **`MerkleNodesProofs`.** `GroupRootIsGenuine` is about one group, but its inputs come
  from the cache, which a late answer may have overwritten, and from a disk that a failed
  write has left with half a batch. `NodesInvariant` says of which tree each of them
  is: there is a number K of leaves such that what a lookup finds (memory over
  disk), the answers under way (`NodesOf`), the group being inserted (`GroupOf`), the
  disk before or after its batch (`DiskOf`) and a proof no write has overlapped
  (`ProofOf`) are nodes of the tree with K leaves. Exempt are nodes a proof has cached
  late that lie to the right of the next group's start (`Passed`), and the heart of the
  proof is that no group ever looks these up as left siblings and that it writes
  those it reads as right ones (`FillIsReference`: level by level, a group over such a
  memory computes the nodes of the tree it says). The induction over levels is one over sets that contain
  0 and are closed under successors (`AllLevels`); `OneTreeVerifies` says that a path of one tree's
  nodes verifies, and `ReferenceLeaf` that it ends in the leaf asked for: the proof is of
  that leaf and against the root of a tree with at least the leaves counted so far. Depth, root history, errors and restarts are unrestricted.
- **`UtxoScanProofs`.** `Exclusive` ties the stages of all callers to
  `isScanning`, which gives `OneScan` without assumptions. So does it, with `NotBehind`
  (a scan is never behind the stored block, and its chunk is no longer than the
  constant), the action property `SyncedForward`: the only write of the block is the
  scan's own, and nobody else is in one. `Reach` says for each
  stage of a scan what has been read of its chunk, and that what is behind the
  scan and behind `lastSyncedBlock` is in the tree or queued. It gives
  `CommitmentsWithinReach` and `ScanReadsItsBlocks`. These two assume that
  nothing is restarted (`MaxCrashes = 0`), no old data is cleared (`Outdated =
  FALSE`) and clearing does not throw (`MaxClearErrors = 0`): the first is
  needed because of the finding above, the others because of the hazards at
  `railgun-engine.ts:587` and `:1329`. Errors, rejected roots, live events,
  rescans, chunk sizes and callers are unrestricted. `RestartsPassNothingOver` is
  the other half: with any number of restarts both properties hold if no request or
  write fails (`MaxErrors = 0`, the case of the finding), no full rescan can be cut
  off (`MaxRescans = 0`, `railgun-engine.ts:1329`) and old data is cleared by one
  caller only (`:587`). The queue is lost with the process, so now what is behind
  `lastSyncedBlock` must be in the tree (`SyncedIn`), and is, because what could
  continue the tree waits only after a rejected root (`OnlyRefusedWait`), which
  keeps the block where it is. `NullifiersWithinReach` needs
  to know which nullifiers each stage has read, also when quick sync sets the
  block from what the tree has: `Read`, which holds as long as only scans write,
  none fails, and no rescan follows a rejected root (`Quiet`; `OnlyScansWrite` and
  `NothingLeftOver` are premises of the property itself). The last condition was
  found by the proof: a rescan leaves the queue of a rejected group
  in memory, these leaves re-enter the cleared tree, and quick sync then starts
  behind blocks whose nullifiers nobody has read. `MCUtxoScanRescan.cfg` shows it
  (`RescansReadNullifiers` is violated; it is kept beside the listed runs). The
  theorem assumes `Outdated = FALSE` and `MaxClearErrors = 0`, as the other two.

- **`TxidSyncProofs`.** `WithinValidated` bounds the length, and is not
  inductive: the length also comes from counting the leaves (`Stored` bounds
  both), from a group that was queued earlier (`Waiting`), and from what a call
  holds between reading the validated index and writing (`Held`, with `Placed`
  for the split of a batch around the snapshot). It needs no assumption about
  mishaps: resets and upgrades beside a sync, stops that leave holes, and
  reads that fail only ever make the tree shorter or the queue start earlier.
  What was queued without an index is the one exception, as the property says: each of
  these bounds is that of `Allowed`, which such a batch lifts as far as it reaches.
  `TypeOK` needs that the lock is the number of those who clear (`LockHeld`).
  The number of callers, the list, page size, fork and launch are unrestricted.

  The rest is about behaviours without a mishap (`Whole`), and where a group must
  not stay queued after a failure, without a refused or failing insertion
  (`Smooth`), as the properties say. `OrderInv` first shows that
  callers who own `isScanning` take turns (`Alone`), then that each leaf is at its
  place unless a clear is just deleting it (`Kept`), and that what a call holds was read
  from the tree as it still is (`Sent`). `HistoryInv`, for POI nodes, says that
  the queue is exactly what is left of the batch, each entry following the one
  before it (`Remaining`). Of a wallet's leaves that is known from the roots that POI
  nodes know, also when it was told no index (`LeavesContinue`); that they are those
  of the chain, and all that rests on it, is known where it always was (`Indexed`).
  In a wallet groups may be left behind because a re-org replaced what they hold, so
  `WalletInv` says that the groups cover the batch up to the first such
  transaction (`Progress`, `Good`, `Covered`). From it follows that the snapshot is
  saved when the tree has all legacy transactions (`Saved`, `Launched`) and, with
  `FoundInv`, that each leaf has its lookup or a batch under way brings it.
  `SnapshotStays` and `LeavesCanBeLookedUp` are therefore stated for wallets with
  `Indexed`; TLC checks the properties without it. `SnapshotStays` assumes `LaunchTx <= Fork`: the launch is in the past and
  re-orgs do not reach back to it. If one did, the snapshot would keep what it
  replaced, which TLC finds in the instance of `TxidSync.cfg` with the two numbers
  swapped.

- **`SpendingSolutionsProofs`.** `NoUtxoSpentTwice` and `FailsOnlyWhenExhausted` need
  to know what the list of excluded notes is (`Booked`: exactly the notes of the
  groups), that a batch is taken from the rest of one tree and is not empty
  when it becomes a group (`Batched`), and that a tree the loop has left has no
  note outside the list (`Left`). `GroupsFitTheCircuit` follows with the size of the
  batch (`Fit`). `OutputsArePaid` needs the accounts of the whole search: `Books`
  says that for each output what the groups pay of it and what remains to be paid
  add up to what was asked for, that the same holds of the unshield once it is
  being paid, and that no group pays more than its notes. `TwoOutputsSucceed`
  needs how value is spent: until the last output is being paid, what the taken
  notes are worth and what remains add up to the request (`Thrift`), so that the
  balance, which covered it, still has the rest. The sums are
  `MapThenSumSet`, which unfolds to a function recursive over finite sets; the
  lemmas about it (a new element adds its value, the order does not matter, a
  subset is worth no more) are proved by induction on the size of the set, with
  induction on the naturals in the form of sets that contain 0 and successors.
  Wallets, requests and limits are unrestricted.
- **`WalletBalancesProofs`.** `NothingPassedOver` speaks of heights on disk, but
  these come from the memory of runs: `NoneMissed` says that everything a run
  will store, its own heights, the map it read and the end of the batch it
  has written, is covered by stored notes, for every run that no clear has
  outrun. The creation leaf, which lifts the start, has no note below it
  (`CreationFirst`). `CacheIsCurrent` needs that every record is that of a note
  and marked spent only if its nullifier was seen (`Genuine`), and that the
  list of a reader no update has overtaken agrees with the database but for
  the records it has still to look at (`ListsCurrent`). A clear that throws makes no
  step of the invariant harder: what it leaves wrong is what the history names. Versions, trees, notes,
  runs, readers and the number of events are unrestricted.
- **`PoiRefreshProofs`.** `FlagsAreHeld` is inductive with `Resting` (a free place has
  no transaction, answers are held while retrieving only). `NoProofTwice` relates
  four copies of one fact: the proof was made (`proofs`), the node has it
  (`Reached`), the answers a call holds say so (`Latest`), and so do the records. `Learned`
  says when a call must know: from its request for the outputs on. This needs
  that nothing submitted is lost (`Kept`, `Unblocked`), that a call deals with its
  own version (`Planned`), that a version has one refresh unless one was forced
  (`Alone`), and the one assumption of `ProvedOnce`, that all outputs fit in a
  request: what is not asked for is taken for not proved. Records that a scan
  replaces before a call has asked for them do no harm, those it replaces after are
  exempt (`undone`). Calls, versions, lists,
  items, transactions, failures and restarts are unrestricted.

**Model-checked only.** All liveness properties (`EveryTreeCompletes`,
`WriteResumes`, `CatchesUp` of the polling and of the TXID sync, `TreeCatchesUp`,
`NotesAreFound`, `EveryTransactionIsProved`) and the liveness part of
`ServesInOrder`, because TLAPS has no rules for fairness and `ENABLED`. Every
safety property of the passing runs is a theorem.

## 6. Not modelled

Parts of the trees: how `rebuildAndWriteTree` makes the nodes anew (`TxidSync`
has what it does to leaves and length), the roots stored per index of the TXID
tree, proofs against a snapshot, nullifier and unshield lookups; a clear of a TXID
tree's namespace removes all or, when it throws, nothing; reads of nodes that fail
during an insertion. After a failed write, a smaller group and a restart the
disk may hold nodes whose children were never written (`torn` in `MerkleNodes`);
the root vector of `UtxoMerkletree` does not see that. Parts of the engine: V3
scans and V3 TXID sync, networks and wallets. Parts of the wallet: sent
commitments beside clears (a second namespace of records), blinded
commitments and railgun txids that `TXOs` adds to a record, missing leaves in a
range, several clears at once, several leaves of one block and several batches
in the search for the creation leaf, and a failed read of a nullifier, which
`getNullifierTxid` takes for a note that is not spent. Of the proofs of
innocence: what is proved and how (inputs, circuits, progress), proofs made before
a transaction is sent and their validation, balance buckets and status listings,
which are functions of one record, a clear of the wallet under a refresh, and a listener for the event of a failed proof
that itself asks for proofs (`abstract-wallet.ts:1751`). Of a transaction, everything that follows the choice of
notes: proof inputs, bound parameters, several tokens, which share nothing. Everything cryptographic (keys, notes,
proofs) and every stateless conversion (event formats, calldata, ABIs) is out of
scope: a state machine says nothing about it. These, with the generated ABIs and
typechain factories, are most of the source by lines, so the share of all lines
that the map covers stays small. `PROJECT.json` lists each
component with its status.

## 7. Plan

Done: the lock, the UTXO tree, its nodes, the subscription, the scans, the TXID
sync, the choice of notes, the wallet's notes, the refresh of POIs, and proofs of
the safety properties of each. Next, in this order:

1. **`PoiRefresh` on the cached lists of `WalletBalances`**, so that the txid a list
   does not show yet is seen to delay a proof.
2. **Proof cache and network loading** (listeners that outlive their network, the
   guard at `railgun-engine.ts:1794`).
3. **Sent commitments and clears side by side** in `WalletBalances`, **V3 scans** in
   `UtxoScan`, two callers and the stored roots in `TxidSync`.
4. **Proofs**: action properties (what a step of a sync of TXIDs or of a wallet's scan
   may never undo), that `MerkleNodes` refines the roots of `UtxoMerkletree`, and what a restart
   may lose of a tree.

Each property is checked in the one run whose instance brings out its hazards;
a fact that follows from another property, or that a proof gives for every
instance, has no run of its own.
