------------------------------ MODULE UtxoScan ------------------------------
(* How the engine follows the chain for one UTXO merkletree (V2): scans that
   read quick sync and then blocks chunk by chunk, live listeners that write
   what they get while no scan runs, the last synced block, the history version
   that clears old data, and full rescans.

   The tree is what UtxoMerkletree shows it to be: commitments enter it in
   order and without gaps, and those that cannot wait in the queue in memory.
   Nullifiers stand for unshield events too: they take the same ways, and
   neither is validated.  One block has at most one of them.                 *)
EXTENDS Integers, FiniteSets

CONSTANTS Caller,           \* concurrent calls of scans and rescans
          MaxBlock,         \* the chain of the model ends here
          Count,            \* how many commitments the chain has
          CommitmentBlock,  \* block of each commitment, by its position
          Shields,          \* positions of commitments that are shields
          Nullifiers,       \* blocks with a nullifier
          ScanChunks,       \* SCAN_CHUNKS
          QuickSyncLag,     \* how many blocks quick sync is behind the chain
          None,
          Outdated,         \* the data was written by an older version
          Listening,        \* live events are delivered
          MaxErrors, MaxRejects, MaxClearErrors, MaxCrashes, MaxRescans   \* bounds

Block    == 0..MaxBlock
Position == 0..(Count - 1)

ASSUME ChainIsFinite == MaxBlock \in Nat /\ Count \in Nat
ASSUME CommitmentsAreInOrder ==
  /\ CommitmentBlock \in [Position -> Block]
  /\ \A i, j \in Position : i <= j => CommitmentBlock[i] <= CommitmentBlock[j]
ASSUME EventsAreOnChain == Shields \subseteq Position /\ Nullifiers \subseteq Block
ASSUME ChunksAreNumbers == ScanChunks \in Nat /\ QuickSyncLag \in Nat
ASSUME NoneIsNoValue == None \notin Int
ASSUME SwitchesAreBoolean == {Outdated, Listening} \subseteq BOOLEAN
ASSUME BoundsAreNumbers ==
  {MaxErrors, MaxRejects, MaxClearErrors, MaxCrashes, MaxRescans} \subseteq Nat

VARIABLES
  head,             \* block number of the chain
  treeLength,       \* disk: commitments in the tree
  nullified,        \* disk: blocks whose nullifier is stored
  storedInvalid,    \* disk: position of the invalid root details
  lastSyncedBlock,  \* disk
  outdated,         \* disk: the history version is not the current one
  writeQueue,       \* memory: positions of queued commitments
  invalid,          \* memory: position of the invalid root details
  isScanning,       \* memory
  live,             \* memory: last block whose events the listeners got
  stage, from, to, latest, retried,   \* where each caller is in its scan
  spent             \* history: errors, rejected roots, crashes, rescans

disk   == <<treeLength, nullified, storedInvalid, lastSyncedBlock, outdated>>
tree   == <<treeLength, storedInvalid, writeQueue, invalid>>
scan   == <<stage, from, to, latest, retried>>
vars   == <<head, disk, writeQueue, invalid, isScanning, live, scan, spent>>

Clearing == {"upgradeTree", "upgradeSynced", "upgradeVersion",
             "rescanTree", "rescanSynced", "rescanEnd"}
Slow     == {"fetch", "shields", "both", "nullifiers", "transacts", "synced"}
Guarded  == {"quick", "quickCommitments", "start", "roots", "decrypt"} \union Slow
Bounded  == {"error", "reject", "clearError", "crash", "rescan"}

TypeOK ==
  /\ head \in Block
  /\ treeLength \in 0..Count
  /\ nullified \in SUBSET Nullifiers
  /\ {storedInvalid, invalid} \subseteq Position \union {None}
  /\ lastSyncedBlock \in Block \union {None}
  /\ {outdated, isScanning} \subseteq BOOLEAN
  /\ writeQueue \in SUBSET Position
  /\ live \in Block \union {None}
  /\ stage \in [Caller -> {"idle", "version", "guard"} \union Clearing \union Guarded]
  /\ from \in [Caller -> Nat] /\ to \in [Caller -> Int]
  /\ latest \in [Caller -> Block]
  /\ retried \in [Caller -> BOOLEAN]
  /\ spent \in [Bounded -> Nat]

\* what an older version may have left behind, synced up to the chain's head
OldData == /\ head \in Block /\ lastSyncedBlock = head
           /\ treeLength = Cardinality({i \in Position : CommitmentBlock[i] <= head})
           /\ nullified = {b \in Nullifiers : b <= head}

Init ==
  /\ \/ Outdated /\ OldData
     \/ head = 0 /\ treeLength = 0 /\ nullified = {} /\ lastSyncedBlock = None
  /\ storedInvalid = None /\ outdated = Outdated
  /\ writeQueue = {} /\ invalid = None /\ isScanning = FALSE /\ live = None
  /\ stage = [c \in Caller |-> "idle"]
  /\ from = [c \in Caller |-> 0] /\ to = [c \in Caller |-> 0]
  /\ latest = [c \in Caller |-> 0] /\ retried = [c \in Caller |-> FALSE]
  /\ spent = [kind \in Bounded |-> 0]
-----------------------------------------------------------------------------
Spend(kind, limit) == /\ spent[kind] < limit
                      /\ spent' = [spent EXCEPT ![kind] = @ + 1]

Goto(c, next) == stage' = [stage EXCEPT ![c] = next]

\* the call returns, and its variables are gone
Return(c) == /\ Goto(c, "idle")
             /\ from' = [from EXCEPT ![c] = 0] /\ to' = [to EXCEPT ![c] = 0]
             /\ latest' = [latest EXCEPT ![c] = 0]
             /\ retried' = [retried EXCEPT ![c] = FALSE]

\* getStartScanningBlock: the block of the last commitment in the tree
StartScanningBlock ==
  IF treeLength = 0 THEN 0 ELSE CommitmentBlock[treeLength - 1]

\* getNextStartingBlockSlowScan
NextStartingBlock ==
  IF lastSyncedBlock # None /\ lastSyncedBlock > StartScanningBlock
  THEN lastSyncedBlock ELSE StartScanningBlock

Commitments(first, last) ==
  {i \in Position : first <= CommitmentBlock[i] /\ CommitmentBlock[i] <= last}

\* removeInvalidMerklerootDetailsIfNecessary, once n commitments are in the tree
InvalidAfter(n) == IF invalid # None /\ invalid < n THEN None ELSE invalid

\* updateTreesFromWriteQueue with the queue q: what continues the tree enters
\* it, unless the contract does not know a root, or a request or write fails
Update(q, skipValidation) ==
  \E n \in treeLength..Count :
    /\ \A i \in Position : treeLength <= i /\ i < n => i \in q
    /\ treeLength' = n
    /\ writeQueue' = {i \in q : n <= i}
    /\ \/ /\ IF n \in q THEN Spend("error", MaxErrors) ELSE UNCHANGED spent
          /\ invalid' = InvalidAfter(n)
          /\ storedInvalid' = IF treeLength < n THEN InvalidAfter(n) ELSE storedInvalid
       \/ /\ n \in q /\ ~skipValidation
          /\ Spend("reject", MaxRejects)
          /\ invalid' = n /\ storedInvalid' = n

\* mutant: the commitment at the tree's end is taken to be in it
NotInTreeLate(events) == {i \in events : treeLength < i}

\* queueLeaves ignores what is in the tree already
NotInTree(events) == {i \in events : treeLength <= i}

\* commitmentListener: nothing happens without events
CommitmentListener(events, skipValidation) ==
  IF events = {} THEN UNCHANGED <<tree, spent>>
  ELSE Update(writeQueue \union NotInTree(events), skipValidation)

\* nullifierListener and unshieldListener
NullifierListener(first, last) ==
  nullified' = nullified \union {b \in Nullifiers : first <= b /\ b <= last}
-----------------------------------------------------------------------------
(* A scan: scanUTXOHistory.                                                   *)

ScanCall(c) == /\ stage[c] = "idle"
               /\ Goto(c, "version")
               /\ UNCHANGED <<head, disk, writeQueue, invalid, isScanning, live,
                              from, to, latest, retried, spent>>

\* data of an older version is to be cleared first
CheckVersion(c) == /\ stage[c] = "version"
                   /\ Goto(c, IF outdated THEN "upgradeTree" ELSE "guard")
                   /\ UNCHANGED <<head, disk, writeQueue, invalid, isScanning,
                                  live, from, to, latest, retried, spent>>

UpgradeVersion(c) == /\ stage[c] = "upgradeVersion"
                     /\ outdated' = FALSE
                     /\ Goto(c, "guard")
                     /\ UNCHANGED <<head, tree, nullified, lastSyncedBlock,
                                    isScanning, live, from, to, latest, retried, spent>>

\* mutant: scans run side by side
GuardLoosely(c) == /\ stage[c] = "guard"
                   /\ isScanning' = TRUE
                   /\ Goto(c, "quick")
                   /\ UNCHANGED <<head, disk, writeQueue, invalid, live, from, to,
                                  latest, retried, spent>>

\* isScanning is checked and set without an await in between
Guard(c) == /\ stage[c] = "guard"
            /\ isScanning' = TRUE
            /\ Goto(c, IF isScanning THEN "idle" ELSE "quick")
            /\ UNCHANGED <<head, disk, writeQueue, invalid, live, from, to,
                           latest, retried, spent>>

\* performQuickSync: nullifiers and unshields first ...
QuickNullifiers(c) ==
  /\ stage[c] = "quick"
  /\ from' = [from EXCEPT ![c] = StartScanningBlock]
  /\ to' = [to EXCEPT ![c] = head - QuickSyncLag]
  /\ NullifierListener(StartScanningBlock, head - QuickSyncLag)
  /\ Goto(c, "quickCommitments")
  /\ UNCHANGED <<head, tree, lastSyncedBlock, outdated, isScanning, live, latest,
                 retried, spent>>

\* ... then the commitments, which are not validated
QuickCommitments(c) ==
  /\ stage[c] = "quickCommitments"
  /\ CommitmentListener(Commitments(from[c], to[c]), TRUE)
  /\ Goto(c, "start")
  /\ UNCHANGED <<head, nullified, lastSyncedBlock, outdated, isScanning, live,
                 from, to, latest, retried>>

\* an error starts the quick sync again, once
QuickFail(c) == /\ stage[c] \in {"quick", "quickCommitments"}
                /\ Spend("error", MaxErrors)
                /\ Goto(c, IF retried[c] THEN "start" ELSE "quick")
                /\ retried' = [retried EXCEPT ![c] = TRUE]
                /\ UNCHANGED <<head, disk, writeQueue, invalid, isScanning, live,
                               from, to, latest>>

Start(c) == /\ stage[c] = "start"
            /\ from' = [from EXCEPT ![c] = NextStartingBlock]
            /\ latest' = [latest EXCEPT ![c] = head]
            /\ Goto(c, "fetch")
            /\ UNCHANGED <<head, disk, writeQueue, invalid, isScanning, live, to,
                           retried, spent>>

EndBlock(c) == IF from[c] + ScanChunks < latest[c] THEN from[c] + ScanChunks ELSE latest[c]

\* getHistoricalEvents: the events of the next chunk, or the end of the scan
Fetch(c) == /\ stage[c] = "fetch"
            /\ IF from[c] < latest[c]
               THEN to' = [to EXCEPT ![c] = EndBlock(c)] /\ Goto(c, "shields")
               ELSE UNCHANGED to /\ Goto(c, "roots")
            /\ UNCHANGED <<head, disk, writeQueue, invalid, isScanning, live, from,
                           latest, retried, spent>>

\* shields come first; nullifiers and transacts are then processed at once
ProcessShields(c) ==
  /\ stage[c] = "shields"
  /\ CommitmentListener(Commitments(from[c], to[c]) \intersect Shields, FALSE)
  /\ Goto(c, "both")
  /\ UNCHANGED <<head, nullified, lastSyncedBlock, outdated, isScanning, live,
                 from, to, latest, retried>>

ProcessNullifiers(c) ==
  /\ stage[c] \in {"both", "nullifiers"}
  /\ NullifierListener(from[c], to[c])
  /\ Goto(c, IF stage[c] = "both" THEN "transacts" ELSE "synced")
  /\ UNCHANGED <<head, tree, lastSyncedBlock, outdated, isScanning, live, from,
                 to, latest, retried, spent>>

ProcessTransacts(c) ==
  /\ stage[c] \in {"both", "transacts"}
  /\ CommitmentListener(Commitments(from[c], to[c]) \ Shields, FALSE)
  /\ Goto(c, IF stage[c] = "both" THEN "nullifiers" ELSE "synced")
  /\ UNCHANGED <<head, nullified, lastSyncedBlock, outdated, isScanning, live,
                 from, to, latest, retried>>

\* mutant: the next chunk starts one block late
AfterLate(c) == from[c] + ScanChunks + 2

After(c) == from[c] + ScanChunks + 1

\* mutant: the block is stored although a root was invalid
SyncedRegardless(c) == to[c]

\* with an invalid root the last synced block stays, and the next scan starts
\* from the last valid commitment
Synced(c) == IF invalid = None THEN to[c] ELSE lastSyncedBlock

SetLastSyncedBlock(c) == /\ stage[c] = "synced"
                         /\ lastSyncedBlock' = Synced(c)
                         /\ from' = [from EXCEPT ![c] = After(c)]
                         /\ Goto(c, "fetch")
                         /\ UNCHANGED <<head, tree, nullified, outdated, isScanning,
                                        live, to, latest, retried, spent>>

CheckRoots(c) == /\ stage[c] = "roots"
                 /\ Goto(c, "decrypt")
                 /\ UNCHANGED <<head, disk, writeQueue, invalid, isScanning, live,
                                from, to, latest, retried, spent>>

\* mutant: the flag is not reset
DecryptOnly(c) == /\ stage[c] = "decrypt"
                  /\ Return(c)
                  /\ UNCHANGED <<head, disk, writeQueue, invalid, isScanning, live, spent>>

\* balances are decrypted and the scan ends in its `finally` block
Decrypt(c) == /\ stage[c] = "decrypt"
              /\ isScanning' = FALSE
              /\ Return(c)
              /\ UNCHANGED <<head, disk, writeQueue, invalid, live, spent>>

\* a request, a write, the check of the roots or the decryption throws
Fail(c) == /\ stage[c] \in {"start", "fetch", "both", "nullifiers", "synced", "roots", "decrypt"}
           /\ Spend("error", MaxErrors)
           /\ isScanning' = FALSE
           /\ Return(c)
           /\ UNCHANGED <<head, disk, writeQueue, invalid, live>>
-----------------------------------------------------------------------------
(* Clearing, for a newer history version or by fullRescan...                  *)

\* clearDataForMerkletree; the queue and the details in memory stay
ClearTree(c, next) == /\ treeLength' = 0 /\ nullified' = {} /\ storedInvalid' = None
                      /\ Goto(c, next)
                      /\ UNCHANGED <<head, lastSyncedBlock, outdated, writeQueue,
                                     invalid, isScanning, live, from, to, latest,
                                     retried, spent>>

ClearSynced(c, next) == /\ lastSyncedBlock' = None
                        /\ Goto(c, next)
                        /\ UNCHANGED <<head, tree, nullified, outdated, isScanning,
                                       live, from, to, latest, retried, spent>>

Clear(c) == \/ stage[c] = "upgradeTree" /\ ClearTree(c, "upgradeSynced")
            \/ stage[c] = "upgradeSynced" /\ ClearSynced(c, "upgradeVersion")
            \/ stage[c] = "rescanTree" /\ ClearTree(c, "rescanSynced")
            \/ stage[c] = "rescanSynced" /\ ClearSynced(c, "rescanEnd")

\* a scan in progress refuses the rescan (forceRescanDevOnly is left out)
Rescan(c) == /\ stage[c] = "idle"
             /\ ~isScanning
             /\ Spend("rescan", MaxRescans)
             /\ isScanning' = TRUE
             /\ Goto(c, "rescanTree")
             /\ UNCHANGED <<head, disk, writeQueue, invalid, live, from, to, latest, retried>>

RescanEnd(c) == /\ stage[c] = "rescanEnd"
                /\ isScanning' = FALSE
                /\ Goto(c, "version")
                /\ UNCHANGED <<head, disk, writeQueue, invalid, live, from, to,
                               latest, retried, spent>>

\* the database throws while it clears: the call ends, and nothing is undone
ClearFail(c) == /\ stage[c] \in Clearing
                /\ Spend("clearError", MaxClearErrors)
                /\ Return(c)
                /\ UNCHANGED <<head, disk, writeQueue, invalid, isScanning, live>>
-----------------------------------------------------------------------------
Mine == /\ head < MaxBlock
        /\ head' = head + 1
        /\ UNCHANGED <<disk, writeQueue, invalid, isScanning, live, scan, spent>>

\* loadNetwork: the subscriber takes the chain's head as its position
Listen == /\ Listening /\ live = None
          /\ live' = head
          /\ UNCHANGED <<head, disk, writeQueue, invalid, isScanning, scan, spent>>

\* The events of the next block, dropped while a scan runs
LiveEvents ==
  /\ live # None /\ live < head
  /\ live' = live + 1
  /\ IF isScanning
     THEN UNCHANGED <<tree, nullified, spent>>
     ELSE /\ NullifierListener(live + 1, live + 1)
          /\ CommitmentListener(Commitments(live + 1, live + 1), FALSE)
  /\ UNCHANGED <<head, lastSyncedBlock, outdated, isScanning, scan>>

\* the application stops and starts again on the same database
Crash == /\ Spend("crash", MaxCrashes)
         /\ writeQueue' = {} /\ invalid' = storedInvalid
         /\ isScanning' = FALSE /\ live' = None
         /\ stage' = [c \in Caller |-> "idle"]
         /\ from' = [c \in Caller |-> 0] /\ to' = [c \in Caller |-> 0]
         /\ latest' = [c \in Caller |-> 0] /\ retried' = [c \in Caller |-> FALSE]
         /\ UNCHANGED <<head, disk>>

ScanStep(c) ==
  \/ CheckVersion(c) \/ UpgradeVersion(c) \/ Guard(c) \/ Clear(c) \/ RescanEnd(c)
  \/ QuickNullifiers(c) \/ QuickCommitments(c) \/ Start(c) \/ Fetch(c)
  \/ ProcessShields(c) \/ ProcessNullifiers(c) \/ ProcessTransacts(c)
  \/ SetLastSyncedBlock(c) \/ CheckRoots(c) \/ Decrypt(c)

Next == \/ Mine \/ Listen \/ LiveEvents \/ Crash
        \/ \E c \in Caller : \/ ScanCall(c) \/ ScanStep(c) \/ Rescan(c)
                             \/ QuickFail(c) \/ Fail(c) \/ ClearFail(c)

Spec == Init /\ [][Next]_vars

\* the application scans again and again
FairSpec == /\ Spec
            /\ WF_vars(Mine)
            /\ \A c \in Caller : WF_vars(ScanCall(c)) /\ WF_vars(ScanStep(c))
-----------------------------------------------------------------------------
\* Nobody is about to clear the rest of the data
Settled == ~outdated /\ \A c \in Caller : stage[c] # "rescanSynced"

(* Scans and rescans exclude each other, whoever calls them in which order.   *)
OneScan == \A c, d \in Caller :
  /\ stage[c] \in Guarded \union {"rescanTree", "rescanSynced", "rescanEnd"}
  /\ stage[d] \in Guarded
  => c = d

(* A scan or a rescan that is refused because one is in progress is refused
   for that reason: somebody will reset isScanning.                          *)
ScanInProgress == isScanning =>
  \E c \in Caller : stage[c] \in Guarded \union {"rescanTree", "rescanSynced", "rescanEnd"}

(* No commitment gets out of reach: one that is not in the tree is queued for
   it, or the next slow scan reads its block again.  Events dropped by busy
   listeners, invalid roots and scans that fail leave nothing behind.  (Doc of
   setLastSyncedBlock: syncing resumes there on the next load.)              *)
CommitmentsWithinReach == Settled =>
  \A i \in Position :
    treeLength <= i /\ CommitmentBlock[i] < NextStartingBlock => i \in writeQueue

\* No listener has got an event, and no step of a scan has failed
OnlyScansWrite == live = None /\ spent["crash"] = 0 /\ spent["error"] = 0

\* No root was rejected, or nobody has cleared the tree: no rescan finds
\* commitments in the queue that nullifiers of other blocks come before
NothingLeftOver == spent["reject"] = 0 \/ spent["rescan"] = 0

\* Between scans, what is behind the block the next one starts from is stored
NullifiersBehind == ~isScanning /\ Settled =>
  \A b \in Nullifiers : b < NextStartingBlock => b \in nullified

(* As long as only scans write and none fails, no nullifier is passed over
   either, in whatever order callers scan and rescan, unless a root is rejected
   and a rescan follows.                                                      *)
NullifiersWithinReach == OnlyScansWrite /\ NothingLeftOver => NullifiersBehind

(* What a full rescan is documented to do: it clears the leaves and scans anew,
   so that no nullifier stays out of reach.  It leaves the queue in memory, and
   with it the next quick sync gets past blocks that nobody has read.         *)
RescansReadNullifiers == OnlyScansWrite => NullifiersBehind

(* A scan that got to its end has every event before its latest block.       *)
ScanReadsItsBlocks == \A c \in Caller : stage[c] \in {"roots", "decrypt"} =>
  \A i \in Position : CommitmentBlock[i] < latest[c] => i < treeLength \/ i \in writeQueue

(* The last synced block never goes back, unless it is cleared: a scan starts
   where the ones before it got to, and as nobody else stores a block meanwhile,
   what it stores is never behind, whoever scans and rescans, fails, is refused
   or waits for a root to become valid.                                       *)
SyncedForward ==
  [][lastSyncedBlock # None /\ lastSyncedBlock' # None
       => lastSyncedBlock <= lastSyncedBlock']_vars

(* With a quick sync that follows the chain, the tree gets every commitment it
   can see, after errors, rejected roots and dropped events.                 *)
TreeCatchesUp == \A i \in Position :
  CommitmentBlock[i] + QuickSyncLag <= MaxBlock => <>[](i < treeLength)
=============================================================================
