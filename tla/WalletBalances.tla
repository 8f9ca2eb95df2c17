--------------------------- MODULE WalletBalances ---------------------------
(* How a wallet finds its notes in the UTXO merkletrees of a chain
   (decryptBalances), forgets them to find them again (clearDecryptedBalances),
   and what its list of notes (TXOs) shows of them.

   The versions of the trees share one key that tells which run of
   decryptBalances is the latest, one record of how far the trees are scanned,
   the keys of the notes in the database, and the moments at which the caches
   are dropped.  The trees only grow here; UtxoScan and UtxoMerkletree say how.
   A note is a leaf that the wallet can decrypt as its receiver.             *)
EXTENDS Integers, FiniteSets

CONSTANTS Version, LastTree, TreeSize,
          Own,          \* the notes: [version, tree, index]
          Nft,          \* those of tokens whose data is read from the contract
          Creation,     \* per version the leaf at which the search for
                        \* creationBlockNumber ends once it is there, or None
          BatchSize,    \* CommitmentProcessingGroupSize.XXLarge
          Run,          \* calls of decryptBalances that may overlap
          Regular,      \* those of scans of the chain, again and again
          Then,         \* the version that such a scan takes after another
          Reader,       \* calls of TXOs that may overlap
          None,
          Loaded,       \* the leaves of each version when the wallet is loaded
          LeafCount,    \* bound on the leaves of each version
          MaxEvents     \* bound on calls of the other runs and of TXOs, clears,
                        \* updates of POIs, failures (of clears too) and
                        \* restarts, together

Tree == 0..LastTree
Leaf == [tree : Tree, index : 0..(TreeSize - 1)]
Record == [version : Version, spent : BOOLEAN]
Before(p, q) == p.tree < q.tree \/ (p.tree = q.tree /\ p.index < q.index)

ASSUME SizesArePositive == TreeSize \in Nat \ {0} /\ BatchSize \in Nat \ {0}
ASSUME TreesAreCounted  == LastTree \in Nat
ASSUME OwnNotes         == Own \subseteq [version : Version, tree : Tree, index : 0..(TreeSize - 1)]
ASSUME NftNotes         == Nft \subseteq Own
ASSUME CreationIsLeaf   == Creation \in [Version -> Leaf \union {None}]
ASSUME NoneIsNone       == None \notin Leaf \union Run \union Reader \union Version \union Record
ASSUME RegularRuns      == Regular \subseteq Run /\ Then \in [Version -> Version]
\* a wallet has received nothing before it was created
ASSUME OwnAfterCreation ==
  \A n \in Own : Creation[n.version] # None => ~Before(n, Creation[n.version])

VARIABLES
  length,      \* per version and tree the leaves of the UTXO merkletree
  nullified,   \* notes whose nullifier is in the merkletree
  stored,      \* on disk, per leaf: None, or version of the note and whether
               \* it has a spendtxid
  details,     \* on disk: walletDetails per version
  key,         \* decryptBalancesKeyForChain
  run,         \* what each run of decryptBalances does
  clear,       \* what clearDecryptedBalances does
  cache,       \* receiveCommitmentsCache: None, or spent or not per leaf
  reader,      \* what each call of TXOs does
  update,      \* what updateReceiveCommitmentCreatedPOIs does
  events,      \* how many there were
  \* history, for the properties
  outrun,      \* runs that had read walletDetails before the last clear
  passedOver,  \* such a run has stored its heights since, the data of a token
               \* could not be read, or a clear that failed has removed notes
  late,        \* readers that began before the last update, or before a clear
               \* that failed
  stale        \* versions whose cache such a reader has filled, or such a
               \* clear has left

trees   == <<length, nullified>>
disk    == <<stored, details>>
lists   == <<cache, reader, update, late, stale>>
vars    == <<trees, disk, key, run, clear, lists, events, outrun, passedOver>>

Position(n) == [tree |-> n.tree, index |-> n.index]
InTree(n)   == n.index < length[n.version][n.tree]

NoDetails == [heights |-> [t \in Tree |-> 0], creation |-> None]
NoMap     == [v \in Version |-> NoDetails]
IdleRun   == [at |-> "idle", version |-> None, details |-> NoDetails, latest |-> 0,
              tree |-> 0, height |-> 0, start |-> 0, map |-> NoMap]
NoNotes    == [p \in {} |-> FALSE]
IdleReader == [at |-> "idle", version |-> None, txos |-> NoNotes, left |-> {}]
NoClear    == [at |-> "idle", creation |-> [v \in Version |-> None]]
NoUpdate   == [at |-> "idle", leaf |-> None, record |-> None]

Event == events < MaxEvents /\ events' = events + 1

Init ==
  /\ length = [v \in Version |-> [t \in Tree |->
                 Cardinality({i \in 0..(TreeSize - 1) : t * TreeSize + i < Loaded[v]})]]
  /\ nullified = {}
  /\ stored = [p \in Leaf |-> None] /\ details = NoMap
  /\ key = None
  /\ run = [r \in Run |-> IdleRun]
  /\ clear = NoClear
  /\ cache = [v \in Version |-> None]
  /\ reader = [q \in Reader |-> IdleReader]
  /\ update = NoUpdate
  /\ events = 0
  /\ outrun = {} /\ passedOver = FALSE /\ late = {} /\ stale = {}

\* mutant: the cache of one version only is dropped
InvalidateOneVersion(q) ==
  /\ cache' = [cache EXCEPT ![CHOOSE v \in Version : TRUE] = None]
  /\ stale' = {}
  /\ late' = late \union {p \in Reader \ {q} : reader[p].at # "idle"}

\* invalidateCommitmentsCache: the caches of all versions are dropped.  A call
\* of TXOs that is under way, q excepted, will fill its one all the same.
InvalidateCommitmentsCache(q) ==
  /\ cache' = [v \in Version |-> None]
  /\ stale' = {}
  /\ late' = late \union {p \in Reader \ {q} : reader[p].at # "idle"}

-----------------------------------------------------------------------------
(* The merkletrees: a leaf is added at the end of the last tree; nullifiers
   arrive (nullifierListener).                                               *)

AddLeaf ==
  /\ \E v \in Version, t \in Tree :
       /\ t * TreeSize + length[v][t] < LeafCount[v] /\ length[v][t] < TreeSize
       /\ \A s \in Tree : s < t => length[v][s] = TreeSize
       /\ length' = [length EXCEPT ![v][t] = @ + 1]
  /\ UNCHANGED <<nullified, disk, key, run, clear, lists, events, outrun, passedOver>>

Nullify ==
  /\ \E n \in Own \ nullified : InTree(n) /\ nullified' = nullified \union {n}
  /\ InvalidateCommitmentsCache(None)
  /\ UNCHANGED <<length, disk, key, run, clear, reader, update, events, outrun, passedOver>>

IsLatestTree(v, t) ==
  /\ t # 0 => length[v][t] > 0
  /\ \A s \in Tree : s > t => length[v][s] = 0

\* what getCreationTreeAndPosition returns, for trees of one batch and blocks of
\* one leaf: the last leaf up to that of the creation block, but no first one
IsCreationLeaf(v, p) ==
  Creation[v] # None /\ ~Before(Creation[v], p) /\ 0 < p.index /\ p.index < length[v][p.tree]
IsCreationAnswer(v, c) ==
  IF c = None THEN \A p \in Leaf : ~IsCreationLeaf(v, p)
  ELSE IsCreationLeaf(v, c) /\ \A p \in Leaf : IsCreationLeaf(v, p) => ~Before(c, p)

-----------------------------------------------------------------------------
(* decryptBalances.                                                          *)

To(r, fields) == run' = [run EXCEPT ![r] = fields]

\* isClearingBalances
IsClearing == clear.at \in {"clearing", "stuck"}

\* scanContractHistory takes the versions in turn
IsTurn(r, v) == run[r].version # None => v = Then[run[r].version]

\* "Clearing balances... cannot scan wallet balances."
Refuse(r, v) ==
  /\ run[r].at = "idle" /\ IsClearing /\ r \in Regular /\ IsTurn(r, v)
  /\ To(r, [IdleRun EXCEPT !.version = v])
  /\ UNCHANGED <<trees, disk, key, clear, lists, events, outrun, passedOver>>

Call(r, v) ==
  /\ run[r].at = "idle" /\ ~IsClearing /\ IsTurn(r, v)
  /\ IF r \in Regular THEN UNCHANGED events ELSE Event
  /\ key' = r
  /\ To(r, [IdleRun EXCEPT !.at = "details", !.version = v])
  /\ UNCHANGED <<trees, disk, clear, lists, outrun, passedOver>>

\* getWalletDetailsMap: a failure to read the details is taken for there being none
ReadsAs(map) == \/ map = details /\ UNCHANGED events
                \/ map = NoMap /\ Event

ReadDetails(r) ==
  /\ run[r].at = "details"
  /\ \E map \in {details, NoMap}, latest \in Tree, creation \in Leaf \union {None} :
       LET v == run[r].version
           d == map[v]
       IN /\ IsLatestTree(v, latest)
          /\ IF d.creation # None THEN creation = d.creation ELSE IsCreationAnswer(v, creation)
          /\ ReadsAs(map)
          /\ To(r, [IdleRun EXCEPT !.at = "batch", !.version = v, !.latest = latest,
                       !.details = [heights |-> d.heights, creation |-> creation],
                       !.tree = IF creation = None THEN -1 ELSE creation.tree - 1])
  /\ UNCHANGED <<trees, disk, key, clear, lists, outrun, passedOver>>

StartScanHeight(d, t) ==
  IF d.creation # None /\ d.creation.tree = t /\ d.creation.index > d.heights[t]
  THEN d.creation.index ELSE d.heights[t]

Scanned(r) == run[r].at = "batch" /\ run[r].start >= run[r].height

\* on to the next tree
ScanTree(r) ==
  LET t == run[r].tree + 1
  IN /\ Scanned(r) /\ t <= run[r].latest
     /\ To(r, [run[r] EXCEPT !.tree = t, !.start = StartScanHeight(run[r].details, t),
                             !.height = length[run[r].version][t]])
     /\ UNCHANGED <<trees, disk, key, clear, lists, events, outrun, passedOver>>

BatchEnd(r) == IF run[r].start + BatchSize < run[r].height
               THEN run[r].start + BatchSize ELSE run[r].height

\* the notes of the wallet in the batch, and the leaves that are decrypted: an
\* error is taken for a leaf of another wallet, that of a failed call too
InBatch(r) == {n \in Own : /\ n.version = run[r].version /\ n.tree = run[r].tree
                           /\ run[r].start <= n.index /\ n.index < BatchEnd(r)}
Decrypted(r, failed) == {Position(n) : n \in InBatch(r) \ failed}

\* scanLeaves: a record that is there already is written anew
ScanLeaves(r) ==
  /\ run[r].at = "batch" /\ run[r].start < run[r].height
  /\ \E failed \in SUBSET (InBatch(r) \intersect Nft) :
       /\ IF failed = {} THEN UNCHANGED events ELSE Event
       /\ stored' = [p \in Leaf |-> IF p \in Decrypted(r, failed)
                                    THEN [version |-> run[r].version, spent |-> FALSE]
                                    ELSE stored[p]]
       /\ passedOver' = (passedOver \/ failed # {})
  /\ InvalidateCommitmentsCache(None)
  /\ To(r, [run[r] EXCEPT !.at = "check"])
  /\ UNCHANGED <<trees, details, key, clear, reader, update, outrun>>

Stop(r) ==
  /\ To(r, [IdleRun EXCEPT !.version = IF r \in Regular THEN run[r].version ELSE None])
  /\ outrun' = outrun \ {r}

\* "Key changed because some other decryptBalances run has started."
GiveUp(r) ==
  /\ run[r].at = "check" /\ key # r
  /\ Stop(r)
  /\ UNCHANGED <<trees, disk, key, clear, lists, events, passedOver>>

\* the map of all versions; that of its own will be replaced
ReadMap(r) ==
  /\ run[r].at = "check" /\ key = r
  /\ \E map \in {details, NoMap} :
       /\ ReadsAs(map)
       /\ To(r, [run[r] EXCEPT !.at = "commit", !.map = [map EXCEPT ![run[r].version] = NoDetails]])
  /\ UNCHANGED <<trees, disk, key, clear, lists, outrun, passedOver>>

Commit(r) ==
  LET d == [run[r].details EXCEPT !.heights[run[r].tree] = BatchEnd(r)]
  IN /\ run[r].at = "commit"
     /\ details' = [run[r].map EXCEPT ![run[r].version] = d]
     /\ To(r, [run[r] EXCEPT !.at = "batch", !.details = d, !.start = BatchEnd(r), !.map = NoMap])
     /\ passedOver' = (passedOver \/ r \in outrun)
     /\ UNCHANGED <<trees, stored, key, clear, lists, events, outrun>>

\* mutant: the loop ends before the latest tree
FinishEarly(r) ==
  /\ Scanned(r) /\ run[r].tree >= run[r].latest - 1
  /\ key' = None
  /\ Stop(r)
  /\ UNCHANGED <<trees, disk, clear, lists, events, passedOver>>

\* the key is removed, whoever's it is
Finish(r) ==
  /\ Scanned(r) /\ run[r].tree >= run[r].latest
  /\ key' = None
  /\ Stop(r)
  /\ UNCHANGED <<trees, disk, clear, lists, events, passedOver>>

Fail(r) ==
  /\ run[r].at \in {"details", "batch", "commit"}
  /\ Event
  /\ key' = None
  /\ Stop(r)
  /\ UNCHANGED <<trees, disk, clear, lists, passedOver>>

-----------------------------------------------------------------------------
(* clearDecryptedBalancesAllTXIDVersions.                                    *)

StartClear ==
  /\ \/ clear.at = "idle" /\ Event
     \/ clear.at = "stuck" /\ UNCHANGED events
  /\ \E map \in {details, NoMap} :
       clear' = [at |-> "clearing", creation |-> [v \in Version |-> map[v].creation]]
  /\ UNCHANGED <<trees, disk, key, run, lists, outrun, passedOver>>

\* mutant: the details are kept
ClearNotesOnly ==
  /\ clear.at = "clearing"
  /\ stored' = [p \in Leaf |-> None]
  /\ clear' = [clear EXCEPT !.at = "end"]
  /\ outrun' = {r \in Run : run[r].at \notin {"idle", "details"}}
  /\ passedOver' = FALSE
  /\ UNCHANGED <<trees, details, key, run, lists, events>>

\* the notes and the details are in one namespace
ClearNamespace ==
  /\ clear.at = "clearing"
  /\ stored' = [p \in Leaf |-> None] /\ details' = NoMap
  /\ clear' = [clear EXCEPT !.at = "end"]
  /\ outrun' = {r \in Run : run[r].at \notin {"idle", "details"}}
  /\ passedOver' = FALSE
  /\ UNCHANGED <<trees, key, run, lists, events>>

EndClear ==
  /\ clear.at = "end"
  /\ details' = [v \in Version |-> [NoDetails EXCEPT !.creation = clear.creation[v]]]
  /\ clear' = NoClear
  /\ InvalidateCommitmentsCache(None)
  /\ UNCHANGED <<trees, stored, key, run, reader, update, events, outrun, passedOver>>

\* an error keeps the caches, and those under way, from being dropped
LeaveCaches == /\ stale' = {v \in Version : cache[v] # None}
               /\ late' = {q \in Reader : reader[q].at # "idle"}

\* clearNamespace throws, with some of it removed perhaps: isClearingBalances
\* stays set, so that nobody scans before another clear or the next start
FailClearNamespace ==
  /\ clear.at = "clearing" /\ Event
  /\ \E removed \in SUBSET {p \in Leaf : stored[p] # None} :
       /\ stored' = [p \in Leaf |-> IF p \in removed THEN None ELSE stored[p]]
       /\ passedOver' = (passedOver \/ removed # {})
       /\ IF removed = {} THEN UNCHANGED <<late, stale>> ELSE LeaveCaches
  /\ details' \in {details, NoMap}
  /\ clear' = [NoClear EXCEPT !.at = "stuck"]
  /\ UNCHANGED <<trees, key, run, cache, reader, update, outrun>>

\* the details are not written
FailEndClear ==
  /\ clear.at = "end" /\ Event
  /\ clear' = NoClear
  /\ LeaveCaches
  /\ UNCHANGED <<trees, disk, key, run, cache, reader, update, outrun, passedOver>>

-----------------------------------------------------------------------------
(* TXOs, if there is no cache to answer with.                                *)

\* queryAllStoredReceiveCommitments, getNullifierTxid
Found(v) == {p \in Leaf : stored[p] # None /\ stored[p].version = v}
IsNullified(v, p) == \E n \in nullified : n.version = v /\ Position(n) = p

QueryStored(q, v) ==
  /\ reader[q].at = "idle" /\ cache[v] = None /\ Event
  /\ reader' = [reader EXCEPT ![q] = [at |-> "notes", version |-> v, left |-> Found(v),
                                      txos |-> [p \in Found(v) |-> stored[p].spent]]]
  /\ UNCHANGED <<trees, disk, key, run, clear, cache, update, late, stale, outrun, passedOver>>

\* a note that has become spent is written back as it was read, but spent
CheckSpent(q, p) ==
  LET v == reader[q].version
  IN /\ reader[q].at = "notes" /\ p \in reader[q].left
     /\ IF ~reader[q].txos[p] /\ IsNullified(v, p)
        THEN /\ stored' = [stored EXCEPT ![p] = [version |-> v, spent |-> TRUE]]
             /\ reader' = [reader EXCEPT ![q].left = @ \ {p}, ![q].txos[p] = TRUE]
             /\ InvalidateCommitmentsCache(q)
        ELSE /\ reader' = [reader EXCEPT ![q].left = @ \ {p}]
             /\ UNCHANGED <<stored, cache, late, stale>>
     /\ UNCHANGED <<trees, details, key, run, clear, update, events, outrun, passedOver>>

FillCache(q) ==
  /\ reader[q].at = "notes" /\ reader[q].left = {}
  /\ cache' = [cache EXCEPT ![reader[q].version] = reader[q].txos]
  /\ stale' = IF q \in late THEN stale \union {reader[q].version}
              ELSE stale \ {reader[q].version}
  /\ late' = late \ {q}
  /\ reader' = [reader EXCEPT ![q] = IdleReader]
  /\ UNCHANGED <<trees, disk, key, run, clear, update, events, outrun, passedOver>>

-----------------------------------------------------------------------------
(* updateReceiveCommitmentCreatedPOIs: a record is read and, if the POIs have
   changed, written back with the new ones.                                  *)

ReadForPOIs ==
  /\ update.at = "idle" /\ Event
  /\ \E p \in Leaf : /\ stored[p] # None
                     /\ update' = [at |-> "write", leaf |-> p, record |-> stored[p]]
  /\ UNCHANGED <<trees, disk, key, run, clear, cache, reader, late, stale, outrun, passedOver>>

WritePOIs ==
  /\ update.at = "write"
  /\ stored' = [stored EXCEPT ![update.leaf] = update.record]
  /\ update' = NoUpdate
  /\ InvalidateCommitmentsCache(None)
  /\ UNCHANGED <<trees, details, key, run, clear, reader, events, outrun, passedOver>>

-----------------------------------------------------------------------------
\* the application stops and starts again
Restart ==
  /\ Event
  /\ key' = None /\ run' = [r \in Run |-> IdleRun] /\ clear' = NoClear
  /\ cache' = [v \in Version |-> None] /\ reader' = [q \in Reader |-> IdleReader]
  /\ update' = NoUpdate
  /\ outrun' = {} /\ late' = {} /\ stale' = {}
  /\ UNCHANGED <<trees, disk, passedOver>>

RunStep(r) ==
  \/ ReadDetails(r) \/ ScanTree(r) \/ ScanLeaves(r)
  \/ GiveUp(r) \/ ReadMap(r) \/ Commit(r) \/ Finish(r)
ClearStep  == ClearNamespace \/ EndClear
FailClear  == FailClearNamespace \/ FailEndClear
ReadStep(q) == (\E p \in Leaf : CheckSpent(q, p)) \/ FillCache(q)

Next ==
  \/ AddLeaf \/ Nullify
  \/ \E r \in Run : (\E v \in Version : Call(r, v) \/ Refuse(r, v)) \/ RunStep(r) \/ Fail(r)
  \/ StartClear \/ ClearStep \/ FailClear
  \/ \E q \in Reader : (\E v \in Version : QueryStored(q, v)) \/ ReadStep(q)
  \/ ReadForPOIs \/ WritePOIs
  \/ Restart

Spec == Init /\ [][Next]_vars

\* Promises are resumed, and scans of the chain come again and again.
Fairness ==
  /\ \A r \in Run : WF_vars(RunStep(r) \/ (r \in Regular /\ \E v \in Version : Call(r, v)))
  /\ WF_vars(ClearStep)

FairSpec == Spec /\ Fairness

-----------------------------------------------------------------------------
Details == [heights : [Tree -> 0..TreeSize], creation : Leaf \union {None}]
Map     == [Version -> Details]
\* a reader's list and a cache: some leaves, spent or not
List    == UNION {[S -> BOOLEAN] : S \in SUBSET Leaf}
RunState ==
  {x \in [at : {"idle", "details", "batch", "check", "commit"}, version : Version \union {None},
          details : Details, latest : Tree, tree : Tree \union {-1}, height : 0..TreeSize,
          start : 0..TreeSize, map : Map] :
     /\ x.at # "idle" => x.version # None
     /\ x.at \in {"check", "commit"} \/ x.start < x.height => x.tree \in Tree /\ x.start < x.height}
ReaderState ==
  {x \in [at : {"idle", "notes"}, version : Version \union {None}, txos : List, left : SUBSET Leaf] :
     x.at # "idle" => x.version # None /\ x.left \subseteq DOMAIN x.txos}
UpdateState ==
  {x \in [at : {"idle", "write"}, leaf : Leaf \union {None}, record : Record \union {None}] :
     x.at # "idle" => x.leaf # None /\ x.record # None}

\* Values of the variables: no height beyond a tree's end, no record without its
\* version, no step of a run without a batch, no leaf to check that is not listed.
TypeOK ==
  /\ length \in [Version -> [Tree -> 0..TreeSize]] /\ nullified \subseteq Own
  /\ stored \in [Leaf -> Record \union {None}] /\ details \in Map
  /\ key \in Run \union {None} /\ run \in [Run -> RunState]
  /\ clear \in [at : {"idle", "clearing", "stuck", "end"},
                creation : [Version -> Leaf \union {None}]]
  /\ cache \in [Version -> List \union {None}]
  /\ reader \in [Reader -> ReaderState] /\ update \in UpdateState
  /\ events \in Nat
  /\ outrun \subseteq Run /\ passedOver \in BOOLEAN
  /\ late \subseteq Reader /\ stale \subseteq Version

\* no other note of the wallet has its record at the same key: the key of a
\* record names tree and position, not the version of the tree
Alone(n) == \A m \in Own : Position(m) = Position(n) => m = n
IsStored(n) == stored[Position(n)] # None /\ stored[Position(n)].version = n.version

\* A note below the stored height of its tree is in the database, whatever runs
\* overlapped, failed, gave up or were stopped between writing notes and
\* heights: no later run will look at its leaf again.  Not so when a run that
\* began before a clear stores its heights after it, not when the data of a
\* note's token could not be read (abstract-wallet.ts:527), and not when a clear
\* has thrown with notes removed and heights left.
NothingPassedOver ==
  ~passedOver =>
    \A n \in Own : n.index < details[n.version].heights[n.tree] /\ Alone(n) => IsStored(n)

\* A list of notes that is cached has every note of the database, and each of
\* them as spent exactly if its nullifier has been seen, through all updates by
\* scans, readers and POIs (abstract-wallet.ts:1018).  Not so when the reader
\* that filled the cache was overtaken by an update, and not after a clear that
\* threw once notes were removed, which leaves the caches as they are.
CacheIsCurrent ==
  \A v \in Version :
    cache[v] # None /\ v \notin stale /\ clear.at # "end" =>
      cache[v] = [p \in Found(v) |-> IsNullified(v, p)]

\* Every note of the trees is found in the end, and stays, by repeated runs of
\* both versions: other runs, failures, clears and restarts may disturb them,
\* but not for good.  Only a clear whose clearNamespace throws may: it leaves
\* isClearingBalances set (abstract-wallet.ts:3195), and every run returns at
\* once until the wallet is loaded again or cleared with success.
NotesAreFound ==
  <>[](\/ passedOver
       \/ clear.at = "stuck"
       \/ \A n \in Own : InTree(n) /\ Alone(n) => IsStored(n))
=============================================================================
