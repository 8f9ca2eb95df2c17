--------------------------- MODULE TxidSyncProofs ---------------------------
(* What the engine's TXID tree keeps, for any list, batch size, number of
   concurrent syncs and resets, errors, rejected roots, re-orgs and restarts:
   a wallet never holds a transaction that is ahead of validation, those faults
   included that leave holes in the tree (TxidInv); every leaf is at its place
   (OrderInv); a POI node's tree is one history (HistoryInv); what becomes of a
   wallet's queue (WalletInv), and with it the POI launch snapshot (SnappedInv)
   and the lookups (FoundInv).                                                 *)
EXTENDS TxidSync, FiniteSetTheorems, SequenceTheorems, WellFoundedInduction, TLAPS

Holders == {c \in Caller : stage[c] \in Holding}

LockHeld == IsFiniteSet(Holders) /\ locks = Cardinality(Holders)

\* between queueing a batch and queueing what is left of it after the snapshot
Splitting == {"insertLegacy", "writeLegacy", "snapshot", "queueRest"}

Placed(at, v) ==
  /\ at \in Writing => v.position >= 0
  /\ at \in Splitting => v.start <= v.at /\ v.at <= v.start + Len(v.batch)

\* what a wallet with an index is about to queue, and what it is about to write,
\* is within most
Held(at, v, most) ==
  /\ at = "queue" => v.limit = None \/ v.limit < most
  /\ at \in Splitting => v.start + Len(v.batch) <= most
  /\ at \in Writing => v.position + Len(v.leaves) <= most

Stored == Len(data) <= Allowed /\ length <= Allowed
Waiting == \A g \in writeQueue : g.start + Len(g.leaves) <= Allowed

Calls ==
  \A c \in Caller :
    /\ Placed(stage[c], call[c])
    /\ ~isPOINode => Held(stage[c], call[c], Allowed)

Behind == ~isPOINode => Stored /\ Waiting

TxidInv == TypeOK /\ LockHeld /\ Calls /\ Behind
-----------------------------------------------------------------------------
(* Sequences of transactions.                                                 *)

LEMMA Numbers == /\ Place \subseteq Nat /\ 0 \in Place
                 /\ MaxTx \in Nat /\ Fork \in Nat /\ LaunchTx \in Nat
                 /\ BatchSize \in Nat /\ LeavesToClear \in Nat
                 /\ None \notin Int /\ None \notin Tx /\ None \notin Caller
BY PlacesAreNumbers, SizesAreNumbers, NoneIsNoValue DEF Place

LEMMA TxPlace == \A tx \in Tx : tx.at \in Nat
BY Numbers DEF Tx

LEMMA PartOf ==
  ASSUME NEW S, NEW s \in Seq(S), NEW m \in Nat, NEW n \in Nat, 1 <= m, n <= Len(s)
  PROVE  /\ SubSeq(s, m, n) \in Seq(S)
         /\ Len(SubSeq(s, m, n)) = IF m <= n THEN n - m + 1 ELSE 0
<1>1. \A i \in m..n : s[i] \in S
  BY ElementOfSeq
<1> QED
  BY <1>1, SubSeqProperties

LEMMA SourceType ==
  ASSUME TypeOK, NEW i \in Place
  PROVE  Source(i) \in Tx
BY Numbers DEF TypeOK, Source, Tx

LEMMA PageType ==
  ASSUME TypeOK, NEW cursor \in Tx \union {None}
  PROVE  Page(cursor) \in Seq(Tx)
<1> DEFINE first == IF cursor = None THEN 0 ELSE cursor.at + 1
           size  == IF head < first THEN 0
                    ELSE IF head - first < BatchSize THEN head - first ELSE BatchSize
<1>1. first \in Nat
  BY TxPlace
<1>2. head \in Nat /\ head <= MaxTx
  BY Numbers DEF TypeOK
<1>3. size \in Nat /\ \A k \in 1..size : first + k - 1 \in Place
  BY <1>1, <1>2, Numbers DEF Place
<1> HIDE DEF first, size
<1>4. \A k \in 1..size : Source(first + k - 1) \in Tx
  BY <1>3, SourceType
<1>5. [k \in 1..size |-> Source(first + k - 1)] \in [1..size -> Tx]
  BY <1>4
<1>6. [k \in 1..size |-> Source(first + k - 1)] \in Seq(Tx)
  BY <1>3, <1>5, SeqDef
<1> QED
  BY <1>6 DEF Page, first, size

LEMMA LatestType == ASSUME TypeOK PROVE LatestTransaction \in Tx \union {None}
BY ElementOfSeq DEF TypeOK, LatestTransaction

LEMMA QueuedType ==
  ASSUME TypeOK, NEW txs \in Seq(Tx), NEW start \in Nat
  PROVE  /\ Queued(txs, start) \in SUBSET Group
         /\ \A b \in Nat : start + Len(txs) <= b /\ (\A g \in writeQueue : g.start + Len(g.leaves) <= b)
              => \A g \in Queued(txs, start) : g.start + Len(g.leaves) <= b
<1>1. SUFFICES ASSUME NEW g \in Queued(txs, start), g \notin writeQueue
               PROVE  g \in Group /\ g.start + Len(g.leaves) <= start + Len(txs)
  <2>1. writeQueue \subseteq Group /\ Len(txs) \in Nat
    BY LenProperties DEF TypeOK
  <2>2. \A g \in Group : g.start \in Nat /\ Len(g.leaves) \in Nat
    BY LenProperties DEF Group
  <2> QED
    BY <1>1, <2>1, <2>2
<1>2. PICK r \in (1..Len(txs)) \X (1..Len(txs)) :
        /\ r[1] <= r[2]
        /\ g = [start |-> start + r[1] - 1, leaves |-> SubSeq(txs, r[1], r[2])]
  BY <1>1 DEF Queued
<1>3. Len(txs) \in Nat
  BY LenProperties
<1>4. r[1] \in Nat /\ r[2] \in Nat /\ 1 <= r[1] /\ r[1] <= r[2] /\ r[2] <= Len(txs)
  BY <1>2, <1>3
<1>5. /\ SubSeq(txs, r[1], r[2]) \in Seq(Tx)
      /\ Len(SubSeq(txs, r[1], r[2])) = r[2] - r[1] + 1
  BY <1>4, PartOf
<1>6. start + r[1] - 1 \in Nat
  BY <1>4
<1>7. g \in Group
  BY <1>2, <1>5, <1>6 DEF Group
<1>8. g.start = start + r[1] - 1 /\ Len(g.leaves) = r[2] - r[1] + 1
  BY <1>2, <1>5
<1> QED
  BY <1>3, <1>4, <1>7, <1>8

LEMMA LookedUpType ==
  ASSUME TypeOK, NEW txs \in Seq(Tx), NEW start \in Nat
  PROVE  LookedUp(txs, start) \in [Tx -> Nat \union {None}]
<1>1. Len(txs) \in Nat
  BY LenProperties
<1>2. \A tx \in Tx : (\E k \in 1..Len(txs) : txs[k] = tx) =>
        start + (CHOOSE k \in 1..Len(txs) : txs[k] = tx) - 1 \in Nat
  BY <1>1
<1>3. \A tx \in Tx : lookup[tx] \in Nat \union {None}
  BY DEF TypeOK
<1> QED
  BY <1>2, <1>3 DEF LookedUp
-----------------------------------------------------------------------------
(* The parts of the invariant that a step of one caller leaves alone.         *)

LEMMA LockStays ==
  ASSUME TypeOK, LockHeld, NEW c \in Caller, NEW next \in Stage, Goto(c, next),
         stage[c] \in Holding <=> next \in Holding, locks' = locks
  PROVE  LockHeld'
<1>1. Holders' = Holders
  BY DEF TypeOK, Goto, Holders
<1> QED
  BY <1>1 DEF LockHeld

LEMMA LockTaken ==
  ASSUME TypeOK, LockHeld, NEW c \in Caller, NEW next \in Holding, Goto(c, next),
         stage[c] \notin Holding, locks' = locks + 1
  PROVE  LockHeld' /\ locks' \in Nat
<1>1. Holders' = Holders \union {c} /\ c \notin Holders
  BY DEF TypeOK, Goto, Holders
<1>2. IsFiniteSet(Holders') /\ Cardinality(Holders') = Cardinality(Holders) + 1
  BY <1>1, FS_AddElement DEF LockHeld
<1> QED
  BY <1>2 DEF LockHeld, TypeOK

LEMMA LockReleased ==
  ASSUME TypeOK, LockHeld, NEW c \in Caller, NEW next \in Stage \ Holding, Goto(c, next),
         stage[c] \in Holding, locks' = locks - 1
  PROVE  LockHeld' /\ locks' \in Nat
<1>1. Holders' = Holders \ {c} /\ c \in Holders
  BY DEF TypeOK, Goto, Holders
<1>2. IsFiniteSet(Holders') /\ Cardinality(Holders') = Cardinality(Holders) - 1
  BY <1>1, FS_RemoveElement DEF LockHeld
<1>3. Cardinality(Holders') \in Nat
  BY <1>2, FS_CardinalityType
<1> QED
  BY <1>2, <1>3 DEF LockHeld

LEMMA AllowedType == ASSUME TypeOK PROVE Allowed \in Nat /\ validated < Allowed
BY Numbers DEF TypeOK, Allowed

LEMMA AllowedStays == ASSUME UNCHANGED source PROVE Allowed' = Allowed
BY DEF source, Allowed

\* How many leaves a wallet may have only grows
LEMMA HeldLonger ==
  ASSUME NEW at, NEW v \in CallState, NEW m \in Nat, NEW k \in Nat, m <= k, Held(at, v, m)
  PROVE  Held(at, v, k)
<1>1. /\ v.limit \in Place \union {None} /\ v.start \in Nat /\ v.position \in Int
      /\ v.batch \in Seq(Tx) /\ v.leaves \in Seq(Tx)
  BY DEF CallState
<1>2. Len(v.batch) \in Nat /\ Len(v.leaves) \in Nat
  BY <1>1, LenProperties
<1> DEFINE sent == v.start + Len(v.batch)
           written == v.position + Len(v.leaves)
<1>3. sent \in Int /\ written \in Int
  BY <1>1, <1>2
<1>4. v.limit # None => v.limit \in Int
  <2>1. \A i \in Place : i \in Int
    BY Numbers
  <2>2. v.limit \in Place \union {None}
    BY DEF CallState
  <2> QED
    BY <2>1, <2>2, Zenon
<1> HIDE DEF sent, written
<1>5. /\ at = "queue" => v.limit = None \/ v.limit < m
      /\ at \in Splitting => sent <= m
      /\ at \in Writing => written <= m
  BY DEF Held, sent, written
<1>6. \A n \in Int : (n <= m => n <= k) /\ (n < m => n < k)
  OBVIOUS
<1>7. /\ at = "queue" => v.limit = None \/ v.limit < k
      /\ at \in Splitting => sent <= k
      /\ at \in Writing => written <= k
  BY <1>3, <1>4, <1>5, <1>6
<1> QED
  BY <1>7 DEF Held, sent, written

LEMMA CallsGrow ==
  ASSUME TypeOK, Calls, isPOINode' = isPOINode, Allowed' \in Nat, Allowed <= Allowed',
         NEW c \in Caller, NEW next \in Stage, Goto(c, next),
         NEW v \in CallState, call' = [call EXCEPT ![c] = v],
         Placed(next, v), ~isPOINode => Held(next, v, Allowed')
  PROVE  Calls' /\ stage' \in [Caller -> Stage] /\ call' \in [Caller -> CallState]
<1>1. stage' \in [Caller -> Stage] /\ call' \in [Caller -> CallState]
  BY DEF TypeOK, Goto
<1>2. stage'[c] = next /\ call'[c] = v
  BY DEF TypeOK, Goto
<1>3. \A d \in Caller \ {c} : stage'[d] = stage[d] /\ call'[d] = call[d]
  BY DEF TypeOK, Goto
<1>4. Allowed \in Nat
  BY AllowedType
<1>5. ASSUME NEW d \in Caller
      PROVE  /\ Placed(stage'[d], call'[d])
             /\ ~isPOINode => Held(stage'[d], call'[d], Allowed')
  <2>1. CASE d = c
    BY <1>2, <2>1
  <2>2. CASE d # c
    <3>1. /\ Placed(stage[d], call[d]) /\ call[d] \in CallState
          /\ ~isPOINode => Held(stage[d], call[d], Allowed)
      BY DEF Calls, TypeOK
    <3>2. ~isPOINode => Held(stage[d], call[d], Allowed')
      BY <1>4, <3>1, HeldLonger
    <3>3. stage'[d] = stage[d] /\ call'[d] = call[d]
      BY <1>3, <2>2
    <3> QED
      BY <3>1, <3>2, <3>3
  <2> QED
    BY <2>1, <2>2
<1>6. Calls'
  BY <1>5 DEF Calls, Placed, Held
<1> QED
  BY <1>1, <1>6

LEMMA CallsStep ==
  ASSUME TypeOK, Calls, UNCHANGED source,
         NEW c \in Caller, NEW next \in Stage, Goto(c, next),
         NEW v \in CallState, call' = [call EXCEPT ![c] = v],
         Placed(next, v), ~isPOINode => Held(next, v, Allowed)
  PROVE  Calls' /\ stage' \in [Caller -> Stage] /\ call' \in [Caller -> CallState]
<1>1. Allowed' = Allowed /\ Allowed \in Nat /\ isPOINode' = isPOINode
  BY AllowedStays, AllowedType DEF source
<1>2. Allowed' \in Nat /\ Allowed <= Allowed'
  BY <1>1
<1>3. ~isPOINode => Held(next, v, Allowed')
  BY <1>1
<1> QED
  BY <1>1, <1>2, <1>3, CallsGrow

LEMMA BehindGrows ==
  ASSUME TypeOK, Behind, isPOINode' = isPOINode, UNCHANGED <<data, length, writeQueue>>,
         Allowed' \in Nat, Allowed <= Allowed'
  PROVE  Behind'
<1> SUFFICES ASSUME ~isPOINode PROVE Stored' /\ Waiting'
  BY DEF Behind
<1>1. Allowed \in Nat /\ Len(data) \in Nat /\ length \in Nat
  BY AllowedType, LenProperties DEF TypeOK
<1>2. \A n \in Int : n <= Allowed => n <= Allowed'
  BY <1>1
<1>3. Len(data) <= Allowed /\ length <= Allowed
  BY DEF Behind, Stored
<1>4. Len(data) <= Allowed' /\ length <= Allowed'
  BY <1>1, <1>2, <1>3
<1>5. Stored'
  BY <1>4, Zenon DEF Stored
<1>6. ASSUME NEW g \in writeQueue PROVE g.start + Len(g.leaves) <= Allowed'
  <2>1. g.start \in Nat /\ g.leaves \in Seq(Tx) /\ g.start + Len(g.leaves) <= Allowed
    BY DEF TypeOK, Group, Behind, Waiting
  <2>2. Len(g.leaves) \in Nat
    BY <2>1, LenProperties
  <2>3. \A i, n \in Nat : i + n \in Int
    OBVIOUS
  <2>4. g.start + Len(g.leaves) \in Int
    BY <2>1, <2>2, <2>3, Zenon
  <2> QED
    BY <1>2, <2>1, <2>4, Zenon
<1>7. Waiting'
  BY <1>6, Zenon DEF Waiting
<1> QED
  BY <1>5, <1>7

LEMMA BehindStays ==
  ASSUME Behind, UNCHANGED <<source, data, length, writeQueue>>
  PROVE  Behind'
BY AllowedStays DEF Behind, Stored, Waiting, source

LEMMA InitInv == Init => TxidInv
<1> SUFFICES ASSUME Init PROVE TxidInv
  OBVIOUS
<1>1. NoCall \in CallState
  BY EmptySeq, Numbers DEF NoCall, CallState
<1>2. data \in Seq(Tx \union {None}) /\ Len(data) = 0
  BY EmptySeq DEF Init
<1>3. TypeOK
  <2>1. /\ head \in 0..MaxTx /\ branch \in {"old", "new"}
        /\ validated \in Place /\ utxoReach \in 0..MaxTx /\ isPOINode \in BOOLEAN
        /\ unbounded \in Nat
    BY PlacesAreNumbers, Numbers DEF Init
  <2>2. /\ length \in Nat /\ lookup \in [Tx -> Nat \union {None}]
        /\ snapshot = None /\ {outdated, isScanning, savedPOILaunchSnapshot} \subseteq BOOLEAN
        /\ writeQueue \in SUBSET Group
        /\ locks \in Nat /\ processing \in Caller \union {None}
    BY DEF Init
  <2>3. /\ stage \in [Caller -> Stage] /\ call \in [Caller -> CallState]
        /\ spent \in [Bounded -> Nat]
    BY <1>1 DEF Init, Stage
  <2> QED
    BY <1>2, <2>1, <2>2, <2>3 DEF TypeOK
<1>4. Holders = {}
  BY DEF Init, Holders, Holding, Deleting, Erasing
<1>5. LockHeld
  BY <1>4, FS_EmptySet DEF Init, LockHeld
<1>6. Calls
  BY DEF Init, Calls, Placed, Held, Writing, Splitting
<1>7. Behind
  <2>1. Allowed \in Nat /\ validated < Allowed
    BY <1>3, AllowedType
  <2> QED
    BY <1>2, <2>1 DEF Init, Behind, Stored, Waiting
<1> QED
  BY <1>3, <1>5, <1>6, <1>7 DEF TxidInv

\* stages in which nothing is about to be queued or written
Quiet == Stage \ (Splitting \union Writing \union {"queue"})

LEMMA CallsOut ==
  ASSUME TypeOK, Calls, UNCHANGED source,
         NEW c \in Caller, NEW next \in Quiet, Goto(c, next),
         NEW v \in CallState, call' = [call EXCEPT ![c] = v]
  PROVE  Calls' /\ stage' \in [Caller -> Stage] /\ call' \in [Caller -> CallState]
<1>1. next \in Stage /\ Placed(next, v) /\ (~isPOINode => Held(next, v, Allowed))
  BY DEF Quiet, Placed, Held
<1> QED
  BY <1>1, CallsStep

LEMMA CallsStay ==
  ASSUME TypeOK, Calls, UNCHANGED source,
         NEW c \in Caller, NEW next \in Quiet, Goto(c, next), call' = call
  PROVE  Calls' /\ stage' \in [Caller -> Stage] /\ call' \in [Caller -> CallState]
<1>1. call[c] \in CallState /\ call' = [call EXCEPT ![c] = call[c]]
  BY DEF TypeOK
<1> QED
  BY <1>1, CallsOut

LEMMA SpentStays ==
  ASSUME TypeOK, NEW kind \in Bounded, Count(kind)
  PROVE  spent' \in [Bounded -> Nat]
BY DEF TypeOK, Count

LEMMA HappenType ==
  ASSUME TypeOK, NEW fault \in Fault, Happen(fault)
  PROVE  spent' \in [Bounded -> Nat]
BY SpentStays DEF Happen, Bounded
-----------------------------------------------------------------------------
(* One lemma per action.                                                      *)

LEMMA SyncCallInv == ASSUME TxidInv, NEW c \in Caller, SyncCall(c) PROVE TxidInv'
<1> USE DEF TxidInv
<1>1. Behind'
  BY BehindStays DEF SyncCall, disk, queue
<1>2. CASE outdated
  <2>1. /\ "upgradeErase" \in Quiet /\ "upgradeErase" \in Holding
        /\ stage[c] \notin Holding /\ Goto(c, "upgradeErase")
        /\ locks' = locks + 1 /\ UNCHANGED source /\ call' = call
    BY <1>2 DEF SyncCall, Quiet, Stage, Holding, Deleting, Erasing, Splitting, Writing
  <2>2. LockHeld' /\ locks' \in Nat
    BY <2>1, LockTaken
  <2>3. Calls' /\ stage' \in [Caller -> Stage] /\ call' \in [Caller -> CallState]
    BY <2>1, CallsStay
  <2>4. TypeOK'
    BY <2>2, <2>3 DEF TypeOK, SyncCall, source, disk, queue
  <2> QED
    BY <1>1, <2>2, <2>3, <2>4
<1>3. CASE ~outdated
  <2>1. /\ "guard" \in Quiet /\ "guard" \notin Holding /\ stage[c] \notin Holding
        /\ Goto(c, "guard") /\ locks' = locks /\ UNCHANGED source /\ call' = call
    BY <1>3 DEF SyncCall, Quiet, Stage, Holding, Deleting, Erasing, Splitting, Writing
  <2>2. LockHeld'
    BY <2>1, LockStays DEF Quiet
  <2>3. Calls' /\ stage' \in [Caller -> Stage] /\ call' \in [Caller -> CallState]
    BY <2>1, CallsStay
  <2>4. TypeOK'
    BY <2>1, <2>3 DEF TypeOK, SyncCall, source, disk, queue
  <2> QED
    BY <1>1, <2>2, <2>3, <2>4
<1> QED
  BY <1>2, <1>3

LEMMA EraseInv == ASSUME TxidInv, NEW c \in Caller, Erase(c) PROVE TxidInv'
<1> USE DEF TxidInv
<1>1. PICK next \in {"again", "upgradeVersion"} : Goto(c, next)
  BY DEF Erase
<1>2. next \in Quiet /\ next \in Stage \ Holding /\ stage[c] \in Holding
  BY <1>1 DEF Erase, Quiet, Stage, Holding, Deleting, Erasing, Splitting, Writing
<1>3. LockHeld' /\ locks' \in Nat
  BY <1>1, <1>2, LockReleased DEF Erase
<1>4. Calls' /\ stage' \in [Caller -> Stage] /\ call' \in [Caller -> CallState]
  BY <1>1, <1>2, CallsStay DEF Erase
<1>5. data' \in Seq(Tx \union {None}) /\ Len(data') = 0 /\ length' = 0
  BY EmptySeq DEF Erase
<1>6. spent' \in [Bounded -> Nat]
  BY SpentStays DEF Erase, Bounded, Fault, TypeOK
<1>7. isScanning' \in BOOLEAN
  BY DEF Erase, TypeOK
<1>8. lookup' \in [Tx -> Nat \union {None}] /\ snapshot' = None /\ savedPOILaunchSnapshot' = FALSE
  BY DEF Erase
<1>9. TypeOK'
  <2>1. UNCHANGED <<head, branch, validated, utxoReach, isPOINode, unbounded, outdated,
                    writeQueue, processing>>
    BY DEF Erase, source, queue
  <2>2. /\ {outdated', isScanning', savedPOILaunchSnapshot'} \subseteq BOOLEAN
        /\ length' \in Nat
    BY <1>5, <1>7, <1>8, <2>1 DEF TypeOK
  <2> QED
    BY <1>3, <1>4, <1>5, <1>6, <1>8, <2>1, <2>2 DEF TypeOK
<1>10. Behind'
  <2>1. Allowed' = Allowed /\ Allowed \in Nat
    BY AllowedStays, AllowedType DEF Erase
  <2> QED
    BY <1>5, <2>1 DEF Behind, Stored, Waiting, Erase, source, queue
<1> QED
  BY <1>3, <1>4, <1>9, <1>10

LEMMA UpgradeVersionInv ==
  ASSUME TxidInv, NEW c \in Caller, UpgradeVersion(c) PROVE TxidInv'
<1> USE DEF TxidInv
<1>1. /\ "guard" \in Quiet /\ "guard" \notin Holding /\ stage[c] \notin Holding
      /\ Goto(c, "guard") /\ locks' = locks /\ UNCHANGED source /\ call' = call
  BY DEF UpgradeVersion, memory, Quiet, Stage, Holding, Deleting, Erasing, Splitting, Writing
<1>2. LockHeld'
  BY <1>1, LockStays DEF Quiet
<1>3. Calls' /\ stage' \in [Caller -> Stage] /\ call' \in [Caller -> CallState]
  BY <1>1, CallsStay
<1>4. TypeOK'
  BY <1>3 DEF TypeOK, UpgradeVersion, source, tree, memory
<1>5. Behind'
  BY BehindStays DEF UpgradeVersion, tree, memory
<1> QED
  BY <1>2, <1>3, <1>4, <1>5

LEMMA GuardInv == ASSUME TxidInv, NEW c \in Caller, Guard(c) PROVE TxidInv'
<1> USE DEF TxidInv
<1>1. PICK next \in {"idle", "cursor"} : Goto(c, next)
  BY DEF Guard
<1>2. /\ next \in Quiet /\ next \notin Holding /\ stage[c] \notin Holding
      /\ locks' = locks /\ UNCHANGED source /\ call' = call
  BY DEF Guard, Quiet, Stage, Syncing, Inserting, Holding, Deleting, Erasing, Splitting, Writing
<1>3. LockHeld'
  BY <1>1, <1>2, LockStays DEF Quiet
<1>4. Calls' /\ stage' \in [Caller -> Stage] /\ call' \in [Caller -> CallState]
  BY <1>1, <1>2, CallsStay
<1>5. TypeOK'
  BY <1>4 DEF TypeOK, Guard, source, disk, queue
<1>6. Behind'
  BY BehindStays DEF Guard, disk, queue
<1> QED
  BY <1>3, <1>4, <1>5, <1>6

LEMMA ReadCursorInv == ASSUME TxidInv, NEW c \in Caller, ReadCursor(c) PROVE TxidInv'
<1> USE DEF TxidInv
<1>1. PICK latest \in {LatestTransaction, None} :
        /\ IF latest = LatestTransaction THEN UNCHANGED spent ELSE Happen("mishap")
        /\ call' = [call EXCEPT ![c].cursor = latest]
  BY DEF ReadCursor
<1> DEFINE v == [call[c] EXCEPT !.cursor = latest]
<1>2. v \in CallState /\ call' = [call EXCEPT ![c] = v]
  BY <1>1, LatestType DEF TypeOK, CallState
<1>3. /\ "request" \in Quiet /\ "request" \notin Holding /\ stage[c] \notin Holding
      /\ Goto(c, "request") /\ locks' = locks /\ UNCHANGED source
  BY DEF ReadCursor, memory, Quiet, Stage, Syncing, Holding, Deleting, Erasing, Splitting, Writing
<1> HIDE DEF v
<1>4. LockHeld'
  BY <1>3, LockStays DEF Quiet
<1>5. Calls' /\ stage' \in [Caller -> Stage] /\ call' \in [Caller -> CallState]
  BY <1>2, <1>3, CallsOut
<1>6. spent' \in [Bounded -> Nat]
  BY <1>1, HappenType DEF Fault, TypeOK
<1>7. TypeOK'
  BY <1>5, <1>6 DEF TypeOK, ReadCursor, source, disk, memory
<1>8. Behind'
  BY BehindStays DEF ReadCursor, disk, memory
<1> QED
  BY <1>4, <1>5, <1>7, <1>8

LEMMA RequestInv == ASSUME TxidInv, NEW c \in Caller, Request(c) PROVE TxidInv'
<1> USE DEF TxidInv
<1> DEFINE page == Page(call[c].cursor)
           v == [call[c] EXCEPT !.page = page]
<1>1. call[c] \in CallState /\ call[c].cursor \in Tx \union {None}
  BY DEF TypeOK, CallState
<1>2. page \in Seq(Tx)
  BY <1>1, PageType
<1>3. call' = [call EXCEPT ![c].page = page]
  BY DEF Request
<1> HIDE DEF page
<1>4. v \in CallState /\ call' = [call EXCEPT ![c] = v]
  BY <1>1, <1>2, <1>3 DEF CallState
<1>5. PICK next \in {"end", "handle"} : Goto(c, next)
  BY DEF Request
<1>6. /\ next \in Quiet /\ next \notin Holding /\ stage[c] \notin Holding
      /\ locks' = locks /\ UNCHANGED source
  BY DEF Request, memory, Quiet, Stage, Syncing, Holding, Deleting, Erasing, Splitting, Writing
<1> HIDE DEF v
<1>7. LockHeld'
  BY <1>5, <1>6, LockStays DEF Quiet
<1>8. Calls' /\ stage' \in [Caller -> Stage] /\ call' \in [Caller -> CallState]
  BY <1>4, <1>5, <1>6, CallsOut
<1>9. TypeOK'
  BY <1>8 DEF TypeOK, Request, source, disk, memory
<1>10. Behind'
  BY BehindStays DEF Request, disk, memory
<1> QED
  BY <1>7, <1>8, <1>9, <1>10

LEMMA HandleNewInv == ASSUME TxidInv, NEW c \in Caller, HandleNew(c) PROVE TxidInv'
<1> USE DEF TxidInv
<1> DEFINE page == call[c].page
<1>0. PICK limit \in Place \union {None} :
        /\ LatestValidated(limit)
        /\ IF ShouldAdd(limit)
           THEN \E n \in 0..Len(page) :
                  /\ call' = [call EXCEPT ![c].limit = limit,
                                          ![c].batch = SubSeq(page, 1, n),
                                          ![c].mismatch = n < Len(page) /\ Known(c, n + 1)]
                  /\ Goto(c, "queue")
           ELSE Goto(c, "loop") /\ UNCHANGED call
  BY DEF HandleNew
<1>1. call[c] \in CallState /\ page \in Seq(Tx) /\ Len(page) \in Nat
  BY LenProperties DEF TypeOK, CallState
<1>2. /\ limit = None \/ limit < Allowed
      /\ spent' \in [Bounded -> Nat]
  BY <1>0, AllowedType, HappenType DEF LatestValidated, Fault, TypeOK
<1>3. UNCHANGED <<source, disk, memory>> /\ stage[c] = "handle"
  BY DEF HandleNew
<1>4. Behind'
  BY <1>3, BehindStays DEF disk, memory
<1>5. CASE ShouldAdd(limit)
  <2>1. PICK n \in 0..Len(page) :
          /\ call' = [call EXCEPT ![c].limit = limit,
                                  ![c].batch = SubSeq(page, 1, n),
                                  ![c].mismatch = n < Len(page) /\ Known(c, n + 1)]
          /\ Goto(c, "queue")
    BY <1>0, <1>5
  <2> DEFINE m == n < Len(page) /\ Known(c, n + 1)
             v == [call[c] EXCEPT !.limit = limit, !.batch = SubSeq(page, 1, n),
                                  !.mismatch = m]
  <2>2. SubSeq(page, 1, n) \in Seq(Tx)
    BY <1>1, PartOf
  <2>3. m \in BOOLEAN
    OBVIOUS
  <2> HIDE DEF page
  <2>4. call' = [call EXCEPT ![c] = v]
    BY <2>1
  <2> HIDE DEF m
  <2>5. v \in CallState /\ v.limit = limit
    BY <1>0, <1>1, <2>2, <2>3 DEF CallState
  <2> HIDE DEF v
  <2>6. Placed("queue", v) /\ (~isPOINode => Held("queue", v, Allowed))
    BY <1>2, <2>5 DEF Placed, Held, Splitting, Writing
  <2>7. /\ "queue" \in Stage /\ "queue" \notin Holding /\ stage[c] \notin Holding
        /\ locks' = locks
    BY <1>3 DEF memory, Stage, Syncing, Holding, Deleting, Erasing
  <2>8. LockHeld'
    BY <2>1, <2>7, LockStays
  <2>9. Calls' /\ stage' \in [Caller -> Stage] /\ call' \in [Caller -> CallState]
    BY <1>3, <2>1, <2>4, <2>5, <2>6, <2>7, CallsStep
  <2>10. TypeOK'
    BY <1>2, <1>3, <2>9 DEF TypeOK, source, disk, memory
  <2> QED
    BY <1>4, <2>8, <2>9, <2>10
<1>6. CASE ~ShouldAdd(limit)
  <2>1. /\ "loop" \in Quiet /\ "loop" \notin Holding /\ stage[c] \notin Holding
        /\ Goto(c, "loop") /\ locks' = locks /\ call' = call
    BY <1>0, <1>3, <1>6 DEF memory, Quiet, Stage, Syncing, Holding, Deleting, Erasing, Splitting, Writing
  <2>2. LockHeld'
    BY <2>1, LockStays DEF Quiet
  <2>3. Calls' /\ stage' \in [Caller -> Stage] /\ call' \in [Caller -> CallState]
    BY <1>3, <2>1, CallsStay
  <2>4. TypeOK'
    BY <1>2, <1>3, <2>3 DEF TypeOK, source, disk, memory
  <2> QED
    BY <1>4, <2>2, <2>3, <2>4
<1> QED
  BY <1>5, <1>6

LEMMA QueueInv == ASSUME TxidInv, NEW c \in Caller, Queue(c) PROVE TxidInv'
<1> USE DEF TxidInv
<1> DEFINE whole == call[c].batch
           limit == call[c].limit
<1>1. /\ call[c] \in CallState /\ whole \in Seq(Tx) /\ Len(whole) \in Nat
      /\ limit \in Place \union {None} /\ length \in Nat /\ validated \in Nat
  BY LenProperties, Numbers DEF TypeOK, CallState
<1>2. PICK n \in 0..Len(whole) : \E m \in 0..n :
        LET batch  == SubSeq(whole, 1, n)
            legacy == SubSeq(batch, 1, m)
        IN /\ \A k \in 1..n : ~IsOutOfBounds(length + k - 1, limit)
           /\ call' = [call EXCEPT ![c].batch = batch, ![c].start = length,
                                   ![c].at = length + m]
           /\ IF whole = <<>>
              THEN /\ Goto(c, IF call[c].mismatch THEN "rewind" ELSE "loop")
                   /\ UNCHANGED <<writeQueue, lookup>>
              ELSE IF isPOINode \/ snapshot # None \/ m = n
              THEN /\ writeQueue' = Queued(batch, length)
                   /\ lookup' = LookedUp(batch, length)
                   /\ Goto(c, "insert")
              ELSE /\ writeQueue' = Queued(legacy, length)
                   /\ Goto(c, "insertLegacy")
                   /\ UNCHANGED lookup
  BY DEF Queue
<1>3. PICK m \in 0..n :
        LET batch  == SubSeq(whole, 1, n)
            legacy == SubSeq(batch, 1, m)
        IN /\ \A k \in 1..n : ~IsOutOfBounds(length + k - 1, limit)
           /\ call' = [call EXCEPT ![c].batch = batch, ![c].start = length,
                                   ![c].at = length + m]
           /\ \/ /\ \E next \in {"rewind", "loop"} : Goto(c, next)
                 /\ UNCHANGED <<writeQueue, lookup>>
              \/ /\ writeQueue' = Queued(batch, length)
                 /\ lookup' = LookedUp(batch, length)
                 /\ Goto(c, "insert")
              \/ /\ writeQueue' = Queued(legacy, length)
                 /\ Goto(c, "insertLegacy")
                 /\ UNCHANGED lookup
  BY <1>2
<1> DEFINE batch  == SubSeq(whole, 1, n)
           legacy == SubSeq(batch, 1, m)
           v == [call[c] EXCEPT !.batch = batch, !.start = length, !.at = length + m]
<1>4. n \in Nat /\ m \in Nat /\ m <= n /\ n <= Len(whole)
  BY <1>1
<1>5. batch \in Seq(Tx) /\ Len(batch) = n
  BY <1>1, <1>4, PartOf
<1>6. legacy \in Seq(Tx) /\ Len(legacy) = m
  <2> HIDE DEF batch
  <2> QED
    BY <1>4, <1>5, PartOf
<1>7. \/ /\ \E next \in {"rewind", "loop"} : Goto(c, next)
         /\ UNCHANGED <<writeQueue, lookup>>
      \/ /\ writeQueue' = Queued(batch, length)
         /\ lookup' = LookedUp(batch, length)
         /\ Goto(c, "insert")
      \/ /\ writeQueue' = Queued(legacy, length)
         /\ Goto(c, "insertLegacy")
         /\ UNCHANGED lookup
  BY <1>3
<1>8. call' = [call EXCEPT ![c].batch = batch, ![c].start = length, ![c].at = length + m]
  BY <1>3
<1> HIDE DEF legacy, batch, whole
<1>9. /\ v \in CallState /\ call' = [call EXCEPT ![c] = v]
      /\ v.batch = batch /\ v.start = length /\ v.at = length + m
  <2>1. call' = [call EXCEPT ![c] = v]
    BY <1>8
  <2>2. length + m \in Nat
    BY <1>1, <1>4
  <2>3. v \in CallState
    BY <1>1, <1>5, <2>2 DEF CallState
  <2>4. v.batch = batch /\ v.start = length /\ v.at = length + m
    BY <1>1 DEF CallState
  <2> QED
    BY <2>1, <2>3, <2>4
<1>10. /\ stage[c] = "queue" /\ unbounded' = Unbounded(c)
      /\ UNCHANGED <<head, branch, validated, utxoReach, isPOINode>>
      /\ UNCHANGED <<data, length, snapshot, outdated, isScanning,
                     savedPOILaunchSnapshot, locks, processing, spent>>
  BY DEF Queue, tree
<1>11. Allowed \in Nat
  BY AllowedType
<1>12. /\ unbounded' \in Nat /\ Allowed' \in Nat /\ Allowed <= Allowed'
       /\ ~isPOINode /\ limit = None => length + Len(whole) <= Allowed'
  <2> DEFINE reach == length + Len(whole)
             all(u) == IF validated + 1 < u THEN u ELSE validated + 1
  <2>1. reach \in Nat /\ unbounded \in Nat
    BY <1>1 DEF TypeOK
  <2>2. /\ unbounded' = IF ~isPOINode /\ limit = None /\ Allowed < reach THEN reach
                        ELSE unbounded
        /\ Allowed = all(unbounded) /\ Allowed' = all(unbounded')
    BY <1>10 DEF Unbounded, Allowed, whole
  <2> HIDE DEF reach
  <2>3. CASE ~isPOINode /\ limit = None /\ Allowed < reach
    BY <1>1, <1>11, <2>1, <2>2, <2>3 DEF reach
  <2>4. CASE ~(~isPOINode /\ limit = None /\ Allowed < reach)
    BY <1>1, <1>11, <2>1, <2>2, <2>4 DEF reach
  <2> QED
    BY <2>3, <2>4
<1>13. ~isPOINode => length + n <= Allowed'
  <2> SUFFICES ASSUME ~isPOINode PROVE length + n <= Allowed'
    OBVIOUS
  <2>1. CASE limit = None
    BY <1>1, <1>4, <1>12, <2>1
  <2>2. CASE n = 0
    BY <1>1, <1>11, <1>12, <2>2 DEF Behind, Stored
  <2>3. CASE limit # None /\ n # 0
    <3>1. ~IsOutOfBounds(length + n - 1, limit)
      BY <1>3, <1>4, <2>3
    <3>2. ~(length + n - 1 > limit)
      BY <2>3, <3>1 DEF IsOutOfBounds
    <3>3. limit \in Nat /\ limit < Allowed
      BY <1>1, <1>10, <2>3, Numbers DEF Calls, Held
    <3> HIDE DEF limit
    <3> QED
      BY <1>1, <1>4, <1>11, <1>12, <3>2, <3>3
  <2> QED
    BY <2>1, <2>2, <2>3
<1> HIDE DEF v, limit
<1>14. ASSUME NEW next \in Stage \ Holding, Goto(c, next)
       PROVE  LockHeld'
  <2>1. stage[c] \notin Holding /\ locks' = locks
    BY <1>10 DEF Holding, Deleting, Erasing
  <2> QED
    BY <1>14, <2>1, LockStays
<1>15. ASSUME writeQueue' \in SUBSET Group,
              lookup' \in [Tx -> Nat \union {None}],
              stage' \in [Caller -> Stage], call' \in [Caller -> CallState]
       PROVE  TypeOK'
  BY <1>10, <1>15, <1>12 DEF TypeOK
<1>16. ASSUME NEW txs \in Seq(Tx), Len(txs) <= n, writeQueue' = Queued(txs, length)
       PROVE  writeQueue' \in SUBSET Group /\ Behind'
  <2>1. writeQueue' \in SUBSET Group
    BY <1>1, <1>16, QueuedType
  <2>2. ASSUME ~isPOINode
        PROVE  \A g \in writeQueue' : g.start + Len(g.leaves) <= Allowed'
    <3>1. length + Len(txs) <= Allowed'
      BY <1>1, <1>4, <1>13, <1>16, <1>12, <2>2, LenProperties
    <3>2. ASSUME NEW g \in writeQueue PROVE g.start + Len(g.leaves) <= Allowed'
      <4>1. g.start \in Nat /\ Len(g.leaves) \in Nat /\ g.start + Len(g.leaves) <= Allowed
        BY <2>2, LenProperties DEF TypeOK, Group, Behind, Waiting
      <4> QED
        BY <1>11, <1>12, <4>1
    <3> QED
      BY <1>1, <1>16, <1>12, <3>1, <3>2, QueuedType
  <2>3. ~isPOINode => Len(data) <= Allowed' /\ length <= Allowed'
    <3>1. Len(data) \in Nat /\ length \in Nat
      BY LenProperties DEF TypeOK
    <3> QED
      BY <1>11, <1>12, <3>1 DEF Behind, Stored
  <2>4. Behind'
    BY <1>10, <2>2, <2>3 DEF Behind, Stored, Waiting
  <2> QED
    BY <2>1, <2>4
<1>17. ASSUME NEW next \in Stage, Goto(c, next), Placed(next, v),
              ~isPOINode => Held(next, v, Allowed')
       PROVE  Calls' /\ stage' \in [Caller -> Stage] /\ call' \in [Caller -> CallState]
  BY <1>9, <1>10, <1>12, <1>17, CallsGrow
<1>18. ASSUME NEW next \in Quiet PROVE Placed(next, v) /\ Held(next, v, Allowed')
  BY <1>18 DEF Quiet, Placed, Held
<1>19. CASE /\ \E next \in {"rewind", "loop"} : Goto(c, next)
            /\ UNCHANGED <<writeQueue, lookup>>
  <2>1. PICK next \in {"rewind", "loop"} : Goto(c, next)
    BY <1>19
  <2>2. next \in Quiet /\ next \in Stage \ Holding
    BY <2>1 DEF Quiet, Stage, Syncing, Holding, Deleting, Erasing, Splitting, Writing
  <2>3. Calls' /\ stage' \in [Caller -> Stage] /\ call' \in [Caller -> CallState]
    BY <1>17, <1>18, <2>1, <2>2
  <2>4. TypeOK' /\ LockHeld'
    BY <1>14, <1>15, <1>19, <2>1, <2>2, <2>3 DEF TypeOK
  <2>5. Behind'
    BY <1>10, <1>19, <1>12, BehindGrows
  <2> QED
    BY <2>3, <2>4, <2>5
<1>20. CASE /\ writeQueue' = Queued(batch, length)
            /\ lookup' = LookedUp(batch, length)
            /\ Goto(c, "insert")
  <2>1. "insert" \in Quiet /\ "insert" \in Stage \ Holding
    BY DEF Quiet, Stage, Syncing, Inserting, Holding, Deleting, Erasing, Splitting, Writing
  <2>2. Calls' /\ stage' \in [Caller -> Stage] /\ call' \in [Caller -> CallState]
    BY <1>20, <1>17, <1>18, <2>1
  <2>3. writeQueue' \in SUBSET Group /\ Behind'
    BY <1>4, <1>5, <1>16, <1>20
  <2>4. lookup' \in [Tx -> Nat \union {None}]
    BY <1>1, <1>5, <1>20, LookedUpType
  <2> QED
    BY <1>14, <1>15, <1>20, <2>1, <2>2, <2>3, <2>4
<1>21. CASE /\ writeQueue' = Queued(legacy, length)
            /\ Goto(c, "insertLegacy")
            /\ UNCHANGED lookup
  <2>1. "insertLegacy" \in Stage \ Holding
    BY DEF Stage, Syncing, Inserting, Holding, Deleting, Erasing
  <2>2. Placed("insertLegacy", v) /\ (~isPOINode => Held("insertLegacy", v, Allowed'))
    BY <1>1, <1>4, <1>5, <1>9, <1>13 DEF Placed, Held, Writing
  <2>3. Calls' /\ stage' \in [Caller -> Stage] /\ call' \in [Caller -> CallState]
    BY <1>21, <1>17, <2>1, <2>2
  <2>4. writeQueue' \in SUBSET Group /\ Behind'
    BY <1>4, <1>6, <1>16, <1>21
  <2>5. lookup' \in [Tx -> Nat \union {None}]
    BY <1>21 DEF TypeOK
  <2> QED
    BY <1>14, <1>15, <1>21, <2>1, <2>3, <2>4, <2>5
<1> QED
  BY <1>7, <1>19, <1>20, <1>21

LEMMA SaveSnapshotInv == ASSUME TxidInv, NEW c \in Caller, SaveSnapshot(c) PROVE TxidInv'
<1> USE DEF TxidInv
<1>1. call[c] \in CallState /\ call[c].at \in Nat /\ call' = [call EXCEPT ![c] = call[c]]
  BY DEF TypeOK, CallState, SaveSnapshot
<1>2. /\ stage[c] = "snapshot" /\ Goto(c, "queueRest") /\ UNCHANGED source /\ locks' = locks
      /\ "queueRest" \in Stage /\ "queueRest" \notin Holding /\ stage[c] \notin Holding
  BY DEF SaveSnapshot, Stage, Syncing, Holding, Deleting, Erasing
<1>3. Placed("queueRest", call[c]) /\ (~isPOINode => Held("queueRest", call[c], Allowed))
  BY <1>2 DEF Calls, Placed, Held, Splitting, Writing
<1>4. LockHeld'
  BY <1>2, LockStays
<1>5. Calls' /\ stage' \in [Caller -> Stage] /\ call' \in [Caller -> CallState]
  BY <1>1, <1>2, <1>3, CallsStep
<1>6. snapshot' \in Seq(Tx \union {None})
  <2>1. \A i \in 1..call[c].at : i <= Len(data) => data[i] \in Tx \union {None}
    BY ElementOfSeq DEF TypeOK
  <2>2. snapshot' \in [1..call[c].at -> Tx \union {None}]
    BY <2>1 DEF SaveSnapshot
  <2> QED
    BY <1>1, <2>2, SeqDef
<1>7. TypeOK'
  BY <1>5, <1>6 DEF TypeOK, SaveSnapshot, source, tree, queue
<1>8. Behind'
  BY BehindStays DEF SaveSnapshot, tree, queue
<1> QED
  BY <1>4, <1>5, <1>7, <1>8

LEMMA QueueRestInv == ASSUME TxidInv, NEW c \in Caller, QueueRest(c) PROVE TxidInv'
<1> USE DEF TxidInv
<1> DEFINE batch == call[c].batch
           start == call[c].start
           at    == call[c].at
           rest  == SubSeq(batch, at - start + 1, Len(batch))
<1>1. /\ call[c] \in CallState /\ batch \in Seq(Tx) /\ Len(batch) \in Nat
      /\ start \in Nat /\ at \in Nat /\ validated \in Nat /\ call' = [call EXCEPT ![c] = call[c]]
  BY LenProperties, Numbers DEF TypeOK, CallState, QueueRest
<1>2. /\ stage[c] = "queueRest" /\ Goto(c, "insert") /\ UNCHANGED source
      /\ UNCHANGED <<data, length, locks>>
      /\ "insert" \in Quiet /\ "insert" \notin Holding /\ stage[c] \notin Holding
  BY DEF QueueRest, tree, Quiet, Stage, Syncing, Inserting, Holding, Deleting, Erasing, Splitting, Writing
<1>3. start <= at /\ at <= start + Len(batch)
  BY <1>2 DEF Calls, Placed, Splitting
<1>4. rest \in Seq(Tx) /\ at + Len(rest) = start + Len(batch)
  <2>1. at - start + 1 \in Nat /\ 1 <= at - start + 1
    BY <1>1, <1>3
  <2>2. /\ rest \in Seq(Tx)
        /\ Len(rest) = IF at - start + 1 <= Len(batch) THEN Len(batch) - (at - start + 1) + 1 ELSE 0
    BY <1>1, <2>1, PartOf
  <2> HIDE DEF rest, batch, start, at
  <2> QED
    BY <1>1, <1>3, <2>2
<1>5. writeQueue' = Queued(rest, at) /\ lookup' = LookedUp(batch, start)
  BY DEF QueueRest
<1> HIDE DEF rest
<1>6. writeQueue' \in SUBSET Group /\ lookup' \in [Tx -> Nat \union {None}]
  BY <1>1, <1>4, <1>5, QueuedType, LookedUpType
<1>7. LockHeld'
  BY <1>2, LockStays DEF Quiet
<1>8. Calls' /\ stage' \in [Caller -> Stage] /\ call' \in [Caller -> CallState]
  BY <1>1, <1>2, CallsOut
<1>9. TypeOK'
  BY <1>6, <1>8 DEF TypeOK, QueueRest, source, tree
<1>10. Behind'
  <2>1. ASSUME ~isPOINode
        PROVE  \A g \in writeQueue' : g.start + Len(g.leaves) <= Allowed
    <3>1. /\ start + Len(batch) <= Allowed
          /\ \A g \in writeQueue : g.start + Len(g.leaves) <= Allowed
      BY <1>2, <2>1 DEF Calls, Held, Splitting, Behind, Waiting
    <3>2. Allowed \in Nat /\ at + Len(rest) <= Allowed
      BY <1>1, <1>4, <3>1, AllowedType
    <3> QED
      BY <1>1, <1>4, <1>5, <3>1, <3>2, QueuedType
  <2> QED
    BY <1>2, <2>1, AllowedStays DEF Behind, Stored, Waiting, source
<1> QED
  BY <1>7, <1>8, <1>9, <1>10

\* After an update the caller goes on with what it holds
LEMMA ContinueCalls ==
  ASSUME TxidInv, NEW c \in Caller, stage[c] \in Inserting \union Writing,
         Continue(c), UNCHANGED <<source, locks, call>>
  PROVE  /\ Calls' /\ LockHeld'
         /\ stage' \in [Caller -> Stage] /\ call' \in [Caller -> CallState]
<1> USE DEF TxidInv
<1> DEFINE next == IF stage[c] \in {"insertLegacy", "writeLegacy"} THEN "snapshot"
                     ELSE IF call[c].mismatch THEN "rewind" ELSE "loop"
<1>1. next \in {"snapshot", "rewind", "loop"} /\ Goto(c, next)
  BY DEF Continue
<1>2. next = "snapshot" => stage[c] \in Splitting
  BY DEF Splitting
<1> HIDE DEF next
<1>3. next \in Stage /\ next \notin Holding /\ stage[c] \notin Holding
  BY <1>1 DEF Stage, Syncing, Inserting, Writing, Holding, Deleting, Erasing
<1>4. Placed(next, call[c]) /\ (~isPOINode => Held(next, call[c], Allowed))
  BY <1>1, <1>2 DEF Calls, Placed, Held, Splitting, Writing
<1>5. call[c] \in CallState /\ call' = [call EXCEPT ![c] = call[c]]
  BY DEF TypeOK
<1>6. LockHeld'
  BY <1>1, <1>3, LockStays
<1> QED
  BY <1>1, <1>3, <1>4, <1>5, <1>6, CallsStep

LEMMA InsertInv == ASSUME TxidInv, NEW c \in Caller, Insert(c) PROVE TxidInv'
<1> USE DEF TxidInv
<1>1. /\ stage[c] \in Inserting /\ UNCHANGED source
      /\ UNCHANGED <<data, length, lookup, snapshot, outdated, isScanning,
                     savedPOILaunchSnapshot, locks>>
      /\ writeQueue' = {g \in writeQueue : length <= g.start}
  BY DEF Insert, disk
<1>2. \/ processing' = None /\ Continue(c) /\ UNCHANGED call /\ spent' \in [Bounded -> Nat]
      \/ \E g \in writeQueue :
           /\ g.start = length /\ processing' = c /\ UNCHANGED spent
           /\ call' = [call EXCEPT ![c].leaves = g.leaves, ![c].position = length]
           /\ Goto(c, IF stage[c] = "insert" THEN "write" ELSE "writeLegacy")
  <2>1. UNCHANGED spent => spent' \in [Bounded -> Nat]
    BY DEF TypeOK
  <2>2. \A fault \in {"reject", "error"} : Happen(fault) => spent' \in [Bounded -> Nat]
    BY HappenType DEF Fault
  <2> QED
    BY <2>1, <2>2 DEF Insert
<1>3. length \in Nat /\ writeQueue' \in SUBSET Group
  BY <1>1 DEF TypeOK
<1>4. Behind'
  BY <1>1, AllowedStays DEF Behind, Stored, Waiting, source
<1>5. ASSUME processing' \in Caller \union {None}, spent' \in [Bounded -> Nat],
             stage' \in [Caller -> Stage], call' \in [Caller -> CallState]
      PROVE  TypeOK'
  BY <1>1, <1>3, <1>5 DEF TypeOK, source
<1>6. CASE processing' = None /\ Continue(c) /\ UNCHANGED call /\ spent' \in [Bounded -> Nat]
  <2>1. /\ Calls' /\ LockHeld'
        /\ stage' \in [Caller -> Stage] /\ call' \in [Caller -> CallState]
    BY <1>1, <1>6, ContinueCalls
  <2> QED
    BY <1>4, <1>5, <1>6, <2>1
<1>7. CASE \E g \in writeQueue :
             /\ g.start = length /\ processing' = c /\ UNCHANGED spent
             /\ call' = [call EXCEPT ![c].leaves = g.leaves, ![c].position = length]
             /\ Goto(c, IF stage[c] = "insert" THEN "write" ELSE "writeLegacy")
  <2>1. PICK g \in writeQueue :
          /\ g.start = length /\ processing' = c /\ UNCHANGED spent
          /\ call' = [call EXCEPT ![c].leaves = g.leaves, ![c].position = length]
          /\ Goto(c, IF stage[c] = "insert" THEN "write" ELSE "writeLegacy")
    BY <1>7
  <2> DEFINE next == IF stage[c] = "insert" THEN "write" ELSE "writeLegacy"
             leaves == g.leaves
             v == [call[c] EXCEPT !.leaves = leaves, !.position = length]
  <2>2. leaves \in Seq(Tx) /\ call[c] \in CallState
    <3>1. g \in Group /\ call[c] \in CallState
      BY DEF TypeOK
    <3> QED
      BY <3>1 DEF Group
  <2>3. call' = [call EXCEPT ![c] = v]
    BY <2>1
  <2> HIDE DEF leaves
  <2>4. v \in CallState
    <3>1. length \in Int
      BY <1>3
    <3> QED
      BY <2>2, <3>1 DEF CallState
  <2>5. /\ v.leaves = leaves /\ v.position = length
        /\ v.start = call[c].start /\ v.at = call[c].at /\ v.batch = call[c].batch
    BY <2>2 DEF CallState
  <2>6. /\ Goto(c, next) /\ next \in Writing /\ next # "queue"
        /\ next \in Splitting => stage[c] \in Splitting
    BY <1>1, <2>1 DEF Writing, Splitting, Inserting
  <2> HIDE DEF next, v
  <2>7. next \in Stage /\ next \notin Holding /\ stage[c] \notin Holding
    BY <1>1, <2>6 DEF Stage, Syncing, Inserting, Writing, Holding, Deleting, Erasing
  <2>8. Placed(next, v)
    BY <1>3, <2>5, <2>6 DEF Calls, Placed
  <2>9. ~isPOINode => Held(next, v, Allowed)
    BY <2>1, <2>5, <2>6 DEF Calls, Held, Behind, Waiting, leaves
  <2>10. Calls' /\ stage' \in [Caller -> Stage] /\ call' \in [Caller -> CallState]
    BY <1>1, <2>3, <2>4, <2>6, <2>7, <2>8, <2>9, CallsStep
  <2>11. LockHeld'
    BY <1>1, <2>6, <2>7, LockStays
  <2>12. processing' \in Caller \union {None} /\ spent' \in [Bounded -> Nat]
    BY <2>1 DEF TypeOK
  <2> QED
    BY <1>4, <1>5, <2>10, <2>11, <2>12
<1> QED
  BY <1>2, <1>6, <1>7

LEMMA WriteInv == ASSUME TxidInv, NEW c \in Caller, Write(c) PROVE TxidInv'
<1> USE DEF TxidInv
<1> DEFINE first == call[c].position
           leaves == call[c].leaves
           n == Len(leaves)
           size == IF Len(data) < first + n THEN first + n ELSE Len(data)
           written == [i \in 1..size |->
                         IF i \in (first + 1)..(first + n) THEN leaves[i - first]
                         ELSE IF i <= Len(data) THEN data[i] ELSE None]
<1>1. /\ stage[c] \in Writing /\ UNCHANGED source
      /\ UNCHANGED <<lookup, snapshot, outdated, isScanning,
                     savedPOILaunchSnapshot, locks, call>>
  BY DEF Write
<1>2. \/ /\ data' = written /\ length' = first + n
         /\ writeQueue' = {g \in writeQueue : g.start # first}
         /\ Goto(c, IF stage[c] = "write" THEN "insert" ELSE "insertLegacy")
         /\ UNCHANGED <<processing, spent>>
      \/ /\ Happen("error") /\ processing' = None /\ Continue(c)
         /\ UNCHANGED <<data, length, writeQueue>>
  BY DEF Write
<1>3. /\ call[c] \in CallState /\ leaves \in Seq(Tx) /\ n \in Nat /\ first \in Nat
      /\ Len(data) \in Nat
  BY <1>1, LenProperties DEF TypeOK, CallState, Calls, Placed
<1>4. ASSUME data' \in Seq(Tx \union {None}), length' \in Nat, writeQueue' \in SUBSET Group,
             processing' \in Caller \union {None}, spent' \in [Bounded -> Nat],
             stage' \in [Caller -> Stage], call' \in [Caller -> CallState]
      PROVE  TypeOK'
  BY <1>1, <1>4 DEF TypeOK, source
<1>5. CASE /\ Happen("error") /\ processing' = None /\ Continue(c)
           /\ UNCHANGED <<data, length, writeQueue>>
  <2>1. /\ Calls' /\ LockHeld'
        /\ stage' \in [Caller -> Stage] /\ call' \in [Caller -> CallState]
    BY <1>1, <1>5, ContinueCalls
  <2>2. spent' \in [Bounded -> Nat]
    BY <1>5, HappenType DEF Fault
  <2>3. Behind'
    BY <1>1, <1>5, BehindStays
  <2>4. TypeOK'
    BY <1>4, <1>5, <2>1, <2>2 DEF TypeOK
  <2> QED
    BY <2>1, <2>3, <2>4
<1>6. CASE /\ data' = written /\ length' = first + n
           /\ writeQueue' = {g \in writeQueue : g.start # first}
           /\ Goto(c, IF stage[c] = "write" THEN "insert" ELSE "insertLegacy")
           /\ UNCHANGED <<processing, spent>>
  <2>1. size \in Nat
    BY <1>3
  <2>2. written \in Seq(Tx \union {None}) /\ Len(written) = size
    <3>1. \A i \in 1..n : leaves[i] \in Tx
      BY <1>3, ElementOfSeq
    <3>2. \A i \in 1..Len(data) : data[i] \in Tx \union {None}
      BY ElementOfSeq DEF TypeOK
    <3>3. ASSUME NEW i \in 1..size
          PROVE  written[i] \in Tx \union {None}
      <4>1. CASE i \in (first + 1)..(first + n)
        <5>1. i - first \in 1..n
          BY <1>3, <4>1
        <5> QED
          BY <3>1, <4>1, <5>1
      <4>2. CASE i \notin (first + 1)..(first + n)
        BY <2>1, <3>2, <4>2
      <4> QED
        BY <4>1, <4>2
    <3> HIDE DEF size
    <3>4. written \in [1..size -> Tx \union {None}]
      BY <3>3
    <3> HIDE DEF written
    <3> QED
      BY <2>1, <3>4, SeqDef, LenProperties
  <2> DEFINE next == IF stage[c] = "write" THEN "insert" ELSE "insertLegacy"
  <2>3. /\ Goto(c, next) /\ next \in Inserting
        /\ next \in Splitting => stage[c] \in Splitting
    BY <1>1, <1>6 DEF Inserting, Splitting, Writing
  <2> HIDE DEF next
  <2>4. next \in Stage /\ next \notin Holding /\ stage[c] \notin Holding /\ next # "queue"
    BY <1>1, <2>3 DEF Stage, Syncing, Inserting, Writing, Holding, Deleting, Erasing
  <2>5. Placed(next, call[c]) /\ (~isPOINode => Held(next, call[c], Allowed))
    BY <2>3, <2>4 DEF Calls, Placed, Held, Inserting, Writing
  <2>6. Calls' /\ stage' \in [Caller -> Stage] /\ call' \in [Caller -> CallState]
    <3>1. call' = [call EXCEPT ![c] = call[c]]
      BY <1>1 DEF TypeOK
    <3> QED
      BY <1>1, <1>3, <2>3, <2>4, <2>5, <3>1, CallsStep
  <2>7. LockHeld'
    BY <1>1, <2>3, <2>4, LockStays
  <2>8. TypeOK'
    <3>1. writeQueue' \in SUBSET Group /\ length' \in Nat
      BY <1>3, <1>6 DEF TypeOK
    <3> HIDE DEF written
    <3> QED
      BY <1>4, <1>6, <2>2, <2>6, <3>1 DEF TypeOK
  <2>9. Behind'
    <3>1. ASSUME ~isPOINode
          PROVE  first + n <= Allowed /\ Len(data) <= Allowed
      BY <1>1, <3>1 DEF Calls, Held, Behind, Stored
    <3>2. ~isPOINode => Len(data') <= Allowed /\ length' <= Allowed
      <4> HIDE DEF written, first, n
      <4> QED
        BY <1>6, <2>2, <3>1 DEF size
    <3> QED
      BY <1>1, <1>6, <3>2, AllowedStays DEF Behind, Stored, Waiting, source
  <2> QED
    BY <2>6, <2>7, <2>8, <2>9
<1> QED
  BY <1>2, <1>5, <1>6

\* Taking the lock for a clear: nothing is queued any more
LEMMA ClearLeavesInv ==
  ASSUME TxidInv, NEW c \in Caller, NEW first \in Nat, NEW next \in Deleting,
         stage[c] \notin Holding, ClearLeaves(c, first, next), UNCHANGED <<source, tree>>
  PROVE  /\ LockHeld' /\ Calls' /\ Behind'
         /\ locks' \in Nat /\ writeQueue' \in SUBSET Group
         /\ stage' \in [Caller -> Stage] /\ call' \in [Caller -> CallState]
<1> USE DEF TxidInv
<1> DEFINE v == [call[c] EXCEPT !.start = first, !.at = first, !.position = length - 1]
<1>1. call[c] \in CallState /\ length - 1 \in Int
  BY DEF TypeOK
<1>2. call' = [call EXCEPT ![c] = v]
  BY DEF ClearLeaves
<1>3. v \in CallState
  BY <1>1 DEF CallState
<1> HIDE DEF v
<1>4. /\ next \in Quiet /\ next \in Stage /\ next \in Holding
      /\ Goto(c, next) /\ locks' = locks + 1 /\ writeQueue' = {}
  BY DEF ClearLeaves, Quiet, Stage, Holding, Deleting, Splitting, Writing
<1>5. LockHeld' /\ locks' \in Nat
  BY <1>4, LockTaken
<1>6. Calls' /\ stage' \in [Caller -> Stage] /\ call' \in [Caller -> CallState]
  BY <1>2, <1>3, <1>4, CallsOut
<1>7. Behind'
  BY <1>4, AllowedStays DEF Behind, Stored, Waiting, source, tree
<1> QED
  BY <1>4, <1>5, <1>6, <1>7

LEMMA RewindInv == ASSUME TxidInv, NEW c \in Caller, Rewind(c) PROVE TxidInv'
<1> USE DEF TxidInv
<1> DEFINE first == IF length < LeavesToClear THEN 0 ELSE length - LeavesToClear
<1>1. first \in Nat
  BY Numbers DEF TypeOK
<1>2. ClearLeaves(c, first, "rewindDelete") /\ stage[c] = "rewind"
  BY DEF Rewind
<1> HIDE DEF first
<1>3. UNCHANGED <<source, tree, lookup, snapshot, outdated, isScanning,
                  savedPOILaunchSnapshot, processing, spent>>
  BY DEF Rewind, disk, tree
<1>4. "rewindDelete" \in Deleting /\ stage[c] \notin Holding
  BY <1>2 DEF Holding, Deleting, Erasing
<1>5. /\ LockHeld' /\ Calls' /\ Behind'
      /\ locks' \in Nat /\ writeQueue' \in SUBSET Group
      /\ stage' \in [Caller -> Stage] /\ call' \in [Caller -> CallState]
  BY <1>1, <1>2, <1>3, <1>4, ClearLeavesInv
<1>6. TypeOK'
  BY <1>3, <1>5 DEF TypeOK, source, tree
<1> QED
  BY <1>5, <1>6

LEMMA ResetInv == ASSUME TxidInv, NEW c \in Caller, Reset(c) PROVE TxidInv'
<1> USE DEF TxidInv
<1>1. PICK first \in Place : ClearLeaves(c, first, "resetDelete")
  BY DEF Reset
<1>2. UNCHANGED <<source, tree, lookup, snapshot, outdated,
                  savedPOILaunchSnapshot, processing>>
  BY DEF Reset, disk, tree
<1>3. first \in Nat /\ "resetDelete" \in Deleting /\ stage[c] \notin Holding
  BY Numbers DEF Reset, Holding, Deleting, Erasing
<1>4. /\ LockHeld' /\ Calls' /\ Behind'
      /\ locks' \in Nat /\ writeQueue' \in SUBSET Group
      /\ stage' \in [Caller -> Stage] /\ call' \in [Caller -> CallState]
  BY <1>1, <1>2, <1>3, ClearLeavesInv
<1>5. spent' \in [Bounded -> Nat] /\ isScanning' = TRUE
  BY HappenType, SpentStays DEF Reset, Spend, Fault, Bounded, TypeOK
<1>6. TypeOK'
  BY <1>2, <1>4, <1>5 DEF TypeOK, source, tree
<1> QED
  BY <1>4, <1>6

LEMMA DeleteLeafInv == ASSUME TxidInv, NEW c \in Caller, DeleteLeaf(c) PROVE TxidInv'
<1> USE DEF TxidInv
<1> DEFINE v == [call[c] EXCEPT !.at = call[c].at + 1]
<1>1. call[c] \in CallState /\ call[c].at + 1 \in Nat
  BY DEF TypeOK, CallState
<1>2. call' = [call EXCEPT ![c] = v]
  BY DEF DeleteLeaf
<1>3. v \in CallState
  BY <1>1 DEF CallState
<1> HIDE DEF v
<1>4. /\ stage[c] \in Quiet /\ Goto(c, stage[c]) /\ UNCHANGED source
      /\ UNCHANGED <<length, lookup, snapshot, outdated, spent>> /\ UNCHANGED memory
      /\ stage' = stage
  BY DEF DeleteLeaf, TypeOK, Goto, Quiet, Stage, Holding, Deleting, Splitting, Writing
<1>5. Calls' /\ stage' \in [Caller -> Stage] /\ call' \in [Caller -> CallState]
  BY <1>2, <1>3, <1>4, CallsOut
<1>6. LockHeld'
  BY <1>4, LockStays DEF memory, Quiet
<1>7. data' \in Seq(Tx \union {None}) /\ Len(data') = Len(data)
  <2>1. Len(data) \in Nat /\ DOMAIN data = 1..Len(data)
    BY LenProperties DEF TypeOK
  <2>2. \A i \in 1..Len(data) : data[i] \in Tx \union {None}
    BY ElementOfSeq DEF TypeOK
  <2>3. data' \in [1..Len(data) -> Tx \union {None}]
    BY <2>1, <2>2 DEF DeleteLeaf
  <2> QED
    BY <2>1, <2>3, SeqDef, LenProperties
<1>8. TypeOK'
  BY <1>4, <1>5, <1>7 DEF TypeOK, source, memory
<1>9. Behind'
  BY <1>4, <1>7, AllowedStays DEF Behind, Stored, Waiting, source, memory
<1> QED
  BY <1>5, <1>6, <1>8, <1>9

LEMMA RebuildAndWriteTreeInv ==
  ASSUME TxidInv, NEW c \in Caller, RebuildAndWriteTree(c) PROVE TxidInv'
<1> USE DEF TxidInv
<1> DEFINE left == {i \in DOMAIN data : data[i] # None}
<1>1. /\ stage[c] \in Deleting /\ locks' = locks - 1 /\ UNCHANGED source
      /\ UNCHANGED <<lookup, snapshot, outdated, writeQueue, processing,
                     savedPOILaunchSnapshot, call, spent>>
  BY DEF RebuildAndWriteTree, queue
<1>2. PICK next \in {"loop", "again"} : Goto(c, next)
  BY DEF RebuildAndWriteTree
<1>3. next \in Quiet /\ next \in Stage \ Holding /\ stage[c] \in Holding
  BY <1>1, <1>2 DEF Quiet, Stage, Syncing, Inserting, Holding, Deleting, Erasing,
                    Splitting, Writing
<1>4. LockHeld' /\ locks' \in Nat
  BY <1>1, <1>2, <1>3, LockReleased
<1>5. Calls' /\ stage' \in [Caller -> Stage] /\ call' \in [Caller -> CallState]
  BY <1>1, <1>2, <1>3, CallsStay
<1>6. Len(data) \in Nat /\ DOMAIN data = 1..Len(data) /\ data \in Seq(Tx \union {None})
  BY LenProperties DEF TypeOK
<1>7. data' \in Seq(Tx \union {None}) /\ Len(data') \in Nat /\ Len(data') <= Len(data)
  <2>1. PICK n \in 0..Len(data) : data' = SubSeq(data, 1, n)
    BY DEF RebuildAndWriteTree
  <2>2. n \in Nat /\ n <= Len(data) /\ 1 \in Nat /\ 1 <= 1
    BY <1>6, <2>1
  <2>3. /\ data' \in Seq(Tx \union {None})
        /\ Len(data') = IF 1 <= n THEN n - 1 + 1 ELSE 0
    BY <1>6, <2>1, <2>2, PartOf
  <2> QED
    BY <1>6, <2>2, <2>3
<1>8. length' \in Nat /\ length' <= Len(data)
  <2>1. length' = Cardinality(left) /\ left \subseteq 1..Len(data)
    BY <1>6 DEF RebuildAndWriteTree
  <2> HIDE DEF left
  <2>2. IsFiniteSet(1..Len(data)) /\ Cardinality(1..Len(data)) = Len(data)
    BY <1>6, FS_Interval
  <2>3. IsFiniteSet(left) /\ Cardinality(left) <= Cardinality(1..Len(data))
    BY <2>1, <2>2, FS_Subset
  <2>4. Cardinality(left) \in Nat
    BY <2>3, FS_CardinalityType
  <2> QED
    BY <2>1, <2>2, <2>3, <2>4
<1>9. isScanning' \in BOOLEAN
  BY DEF RebuildAndWriteTree, TypeOK
<1>10. TypeOK'
  BY <1>1, <1>4, <1>5, <1>7, <1>8, <1>9 DEF TypeOK, source
<1>11. Behind'
  <2>1. Allowed \in Nat
    BY AllowedType
  <2>2. ~isPOINode => Len(data') <= Allowed /\ length' <= Allowed
    BY <1>6, <1>7, <1>8, <2>1 DEF Behind, Stored
  <2> QED
    BY <1>1, <2>2, AllowedStays DEF Behind, Stored, Waiting, source
<1> QED
  BY <1>4, <1>5, <1>10, <1>11

LEMMA FullResetInv == ASSUME TxidInv, NEW c \in Caller, FullReset(c) PROVE TxidInv'
<1> USE DEF TxidInv
<1>1. /\ "fullErase" \in Quiet /\ "fullErase" \in Holding /\ stage[c] \notin Holding
      /\ Goto(c, "fullErase") /\ locks' = locks + 1
  BY DEF FullReset, Quiet, Stage, Holding, Deleting, Erasing, Splitting, Writing
<1>2. /\ UNCHANGED source /\ call' = call /\ isScanning' = TRUE
      /\ UNCHANGED <<data, length, lookup, snapshot, outdated, writeQueue, processing,
                     savedPOILaunchSnapshot>>
  BY DEF FullReset, disk, queue
<1>3. LockHeld' /\ locks' \in Nat
  BY <1>1, LockTaken
<1>4. Calls' /\ stage' \in [Caller -> Stage] /\ call' \in [Caller -> CallState]
  BY <1>1, <1>2, CallsStay
<1>5. spent' \in [Bounded -> Nat]
  BY SpentStays DEF FullReset, Spend, Bounded
<1>6. TypeOK'
  BY <1>2, <1>3, <1>4, <1>5 DEF TypeOK, source
<1>7. Behind'
  BY <1>2, BehindStays
<1> QED
  BY <1>3, <1>4, <1>6, <1>7

LEMMA NoCallType == NoCall \in CallState
BY EmptySeq, Numbers DEF NoCall, CallState

LEMMA LoopInv == ASSUME TxidInv, NEW c \in Caller, Loop(c) PROVE TxidInv'
<1> USE DEF TxidInv
<1> DEFINE v == [NoCall EXCEPT !.page = call[c].page]
<1>1. call[c] \in CallState
  BY DEF TypeOK
<1>2. v \in CallState
  BY <1>1, NoCallType DEF CallState
<1>3. call' = [call EXCEPT ![c] = v]
  BY DEF Loop, TypeOK, NoCall
<1> HIDE DEF v
<1>4. PICK next \in {"cursor", "end"} : Goto(c, next)
  BY DEF Loop
<1>5. /\ next \in Quiet /\ next \notin Holding /\ stage[c] \notin Holding
      /\ UNCHANGED source /\ UNCHANGED disk /\ UNCHANGED memory /\ UNCHANGED spent
  BY <1>4 DEF Loop, Quiet, Stage, Syncing, Inserting, Holding, Deleting, Erasing,
              Splitting, Writing
<1>6. LockHeld'
  BY <1>4, <1>5, LockStays DEF Quiet, memory
<1>7. Calls' /\ stage' \in [Caller -> Stage] /\ call' \in [Caller -> CallState]
  BY <1>2, <1>3, <1>4, <1>5, CallsOut
<1>8. TypeOK'
  BY <1>5, <1>7 DEF TypeOK, source, disk, memory
<1>9. Behind'
  BY <1>5, BehindStays DEF disk, memory
<1> QED
  BY <1>6, <1>7, <1>8, <1>9

\* A call that ends or throws
LEMMA ReturnInv ==
  ASSUME TxidInv, NEW c \in Caller, stage[c] \notin Holding, Return(c),
         isScanning' \in BOOLEAN, spent' \in [Bounded -> Nat],
         UNCHANGED <<source, disk, queue, savedPOILaunchSnapshot, locks>>
  PROVE  TxidInv'
<1> USE DEF TxidInv
<1>1. /\ Goto(c, "idle") /\ call' = [call EXCEPT ![c] = NoCall]
      /\ "idle" \in Quiet /\ "idle" \notin Holding
  BY DEF Return, Quiet, Stage, Holding, Deleting, Erasing, Splitting, Writing
<1>2. LockHeld'
  BY <1>1, LockStays DEF Quiet
<1>3. Calls' /\ stage' \in [Caller -> Stage] /\ call' \in [Caller -> CallState]
  BY <1>1, NoCallType, CallsOut
<1>4. UNCHANGED <<data, length, lookup, snapshot, outdated, writeQueue, processing>>
  BY DEF disk, queue
<1>5. TypeOK'
  BY <1>3, <1>4 DEF TypeOK, source
<1>6. Behind'
  BY <1>4, BehindStays
<1> QED
  BY <1>2, <1>3, <1>5, <1>6

LEMMA EndInv == ASSUME TxidInv, NEW c \in Caller, End(c) PROVE TxidInv'
<1>1. stage[c] \notin Holding /\ spent' \in [Bounded -> Nat]
  BY DEF End, Holding, Deleting, Erasing, TxidInv, TypeOK
<1> QED
  BY <1>1, ReturnInv DEF End

LEMMA FailInv == ASSUME TxidInv, NEW c \in Caller, Fail(c) PROVE TxidInv'
<1>1. stage[c] \notin Holding
  BY DEF Fail, Holding, Deleting, Erasing
<1>2. spent' \in [Bounded -> Nat] /\ isScanning' \in BOOLEAN
  BY HappenType DEF Fail, Fault, TxidInv
<1> QED
  BY <1>1, <1>2, ReturnInv DEF Fail

LEMMA FailClearInv == ASSUME TxidInv, NEW c \in Caller, FailClear(c) PROVE TxidInv'
<1> USE DEF TxidInv
<1>1. /\ Goto(c, "idle") /\ call' = [call EXCEPT ![c] = NoCall]
      /\ "idle" \in Quiet /\ "idle" \in Stage \ Holding
      /\ stage[c] \in Holding /\ locks' = locks - 1 /\ UNCHANGED source
  BY DEF FailClear, Return, Quiet, Stage, Holding, Deleting, Erasing, Splitting, Writing
<1>2. LockHeld' /\ locks' \in Nat
  BY <1>1, LockReleased
<1>3. Calls' /\ stage' \in [Caller -> Stage] /\ call' \in [Caller -> CallState]
  BY <1>1, NoCallType, CallsOut
<1>4. /\ UNCHANGED <<data, length, lookup, snapshot, outdated, writeQueue, processing>>
      /\ savedPOILaunchSnapshot' = savedPOILaunchSnapshot /\ isScanning' \in BOOLEAN
  BY DEF FailClear, disk, queue
<1>5. spent' \in [Bounded -> Nat]
  BY HappenType DEF FailClear, Fault
<1>6. TypeOK'
  BY <1>1, <1>2, <1>3, <1>4, <1>5 DEF TypeOK, source
<1>7. Behind'
  BY <1>1, <1>4, BehindStays
<1> QED
  BY <1>2, <1>3, <1>6, <1>7

LEMMA CrashInv == ASSUME TxidInv, Crash PROVE TxidInv'
<1> USE DEF TxidInv
<1>1. /\ UNCHANGED source /\ UNCHANGED <<data, length, lookup, snapshot, outdated>>
      /\ writeQueue' = {} /\ isScanning' = FALSE /\ savedPOILaunchSnapshot' = FALSE
      /\ locks' = 0 /\ processing' = None
      /\ stage' = [c \in Caller |-> "idle"] /\ call' = [c \in Caller |-> NoCall]
  BY DEF Crash, disk
<1>2. spent' \in [Bounded -> Nat]
  BY HappenType DEF Crash, Fault
<1>3. TypeOK'
  BY <1>1, <1>2, NoCallType DEF TypeOK, source, Stage
<1>4. Holders' = {}
  BY <1>1 DEF Holders, Holding, Deleting, Erasing
<1>5. LockHeld'
  BY <1>1, <1>4, FS_EmptySet DEF LockHeld
<1>6. Calls'
  BY <1>1 DEF Calls, Placed, Held, Writing, Splitting
<1>7. Behind'
  BY <1>1, AllowedStays DEF Behind, Stored, Waiting, source
<1> QED
  BY <1>3, <1>5, <1>6, <1>7
-----------------------------------------------------------------------------
LEMMA AllowedGrows ==
  ASSUME validated \in Nat, validated' \in Nat, validated <= validated',
         unbounded \in Nat, unbounded' = unbounded
  PROVE  Allowed \in Nat /\ Allowed' \in Nat /\ Allowed <= Allowed'
<1>1. \A a, b, u \in Nat : a <= b =>
        LET f == IF a + 1 < u THEN u ELSE a + 1
            g == IF b + 1 < u THEN u ELSE b + 1
        IN f \in Nat /\ g \in Nat /\ f <= g
  OBVIOUS
<1> QED
  BY <1>1 DEF Allowed

LEMMA EnvironmentInv ==
  ASSUME TxidInv, head' \in 0..MaxTx, branch' \in {"old", "new"}, validated' \in Place,
         validated <= validated', utxoReach' \in 0..MaxTx, spent' \in [Bounded -> Nat],
         UNCHANGED <<isPOINode, unbounded, disk, memory, stage, call>>
  PROVE  TxidInv'
<1> USE DEF TxidInv
<1>1. UNCHANGED <<data, length, lookup, snapshot, outdated, writeQueue, isScanning,
                  savedPOILaunchSnapshot, locks, processing>>
  BY DEF disk, memory
<1>2. TypeOK'
  BY <1>1 DEF TypeOK
<1>3. LockHeld'
  BY <1>1 DEF LockHeld, Holders
<1>4. Allowed \in Nat /\ Allowed' \in Nat /\ Allowed <= Allowed'
  <2>1. validated \in Nat /\ validated' \in Nat /\ unbounded \in Nat /\ unbounded' = unbounded
    BY Numbers DEF TypeOK
  <2> QED
    BY <2>1, AllowedGrows
<1>5. Calls'
  <2>1. ASSUME NEW c \in Caller
        PROVE  /\ Placed(stage[c], call[c])
               /\ ~isPOINode => Held(stage[c], call[c], Allowed')
    <3>1. call[c] \in CallState
      BY DEF TypeOK
    <3> QED
      BY <1>4, <3>1, HeldLonger DEF Calls
  <2> QED
    BY <2>1 DEF Calls, Placed, Held
<1>6. Behind'
  BY <1>1, <1>4, BehindGrows
<1> QED
  BY <1>2, <1>3, <1>5, <1>6

LEMMA SourceInv ==
  ASSUME TxidInv, NewTransaction \/ Validate \/ SyncUTXOs \/ Reorg
  PROVE  TxidInv'
<1>1. /\ head \in 0..MaxTx /\ branch \in {"old", "new"} /\ validated \in Place
      /\ utxoReach \in 0..MaxTx /\ spent \in [Bounded -> Nat]
  BY DEF TxidInv, TypeOK
<1>2. validated \in Nat /\ MaxTx \in Nat /\ Fork \in Nat
  BY <1>1, Numbers
<1>3. CASE NewTransaction
  BY <1>1, <1>2, <1>3, EnvironmentInv DEF NewTransaction
<1>4. CASE Validate
  <2>1. validated' \in Place
    BY <1>1, <1>2, <1>4 DEF Validate, Place
  <2> QED
    BY <1>1, <1>2, <1>4, <2>1, EnvironmentInv DEF Validate
<1>5. CASE SyncUTXOs
  BY <1>1, <1>2, <1>5, EnvironmentInv DEF SyncUTXOs
<1>6. CASE Reorg
  <2>1. spent' \in [Bounded -> Nat]
    BY <1>6, SpentStays DEF Reorg, Spend, Bounded, TxidInv
  <2>2. head' \in 0..MaxTx
    BY <1>1, <1>2, <1>6 DEF Reorg
  <2> QED
    BY <1>1, <1>2, <1>6, <2>1, <2>2, EnvironmentInv DEF Reorg
<1> QED
  BY <1>3, <1>4, <1>5, <1>6

LEMMA StutterInv == ASSUME TxidInv, UNCHANGED vars PROVE TxidInv'
<1>1. /\ UNCHANGED <<head, branch, validated, utxoReach, isPOINode, unbounded>>
      /\ UNCHANGED <<disk, memory, stage, call, spent>>
  BY DEF vars, source
<1>2. /\ head \in 0..MaxTx /\ branch \in {"old", "new"} /\ validated \in Place
      /\ utxoReach \in 0..MaxTx /\ spent \in [Bounded -> Nat] /\ validated \in Nat
  BY Numbers DEF TxidInv, TypeOK
<1> QED
  BY <1>1, <1>2, EnvironmentInv

\* Nothing that a wallet has on disk, has queued or is about to write is ahead of
\* validation or, when it was told no index, of what it queued then; and the lock counts those that clear leaves or the whole tree
THEOREM Invariant == Spec => []TxidInv
<1>1. Init => TxidInv
  BY InitInv
<1>2. TxidInv /\ [Next]_vars => TxidInv'
  <2> SUFFICES ASSUME TxidInv, [Next]_vars PROVE TxidInv'
    OBVIOUS
  <2>1. ASSUME NEW c \in Caller, SyncCall(c) PROVE TxidInv'
    BY <2>1, SyncCallInv
  <2>2. ASSUME NEW c \in Caller, SyncStep(c) PROVE TxidInv'
    <3>1. CASE Erase(c)
      BY <3>1, EraseInv
    <3>2. CASE UpgradeVersion(c)
      BY <3>2, UpgradeVersionInv
    <3>3. CASE Guard(c)
      BY <3>3, GuardInv
    <3>4. CASE ReadCursor(c)
      BY <3>4, ReadCursorInv
    <3>5. CASE Request(c)
      BY <3>5, RequestInv
    <3>6. CASE HandleNew(c)
      BY <3>6, HandleNewInv
    <3>7. CASE Queue(c)
      BY <3>7, QueueInv
    <3>8. CASE SaveSnapshot(c)
      BY <3>8, SaveSnapshotInv
    <3>9. CASE QueueRest(c)
      BY <3>9, QueueRestInv
    <3>10. CASE Insert(c)
      BY <3>10, InsertInv
    <3>11. CASE Write(c)
      BY <3>11, WriteInv
    <3>12. CASE Rewind(c)
      BY <3>12, RewindInv
    <3>13. CASE DeleteLeaf(c)
      BY <3>13, DeleteLeafInv
    <3>14. CASE RebuildAndWriteTree(c)
      BY <3>14, RebuildAndWriteTreeInv
    <3>15. CASE Loop(c)
      BY <3>15, LoopInv
    <3>16. CASE End(c)
      BY <3>16, EndInv
    <3> QED
      BY <2>2, <3>1, <3>2, <3>3, <3>4, <3>5, <3>6, <3>7, <3>8, <3>9, <3>10, <3>11,
         <3>12, <3>13, <3>14, <3>15, <3>16 DEF SyncStep
  <2>3. ASSUME NEW c \in Caller, Reset(c) \/ FullReset(c) \/ Fail(c) \/ FailClear(c)
        PROVE  TxidInv'
    BY <2>3, ResetInv, FullResetInv, FailInv, FailClearInv
  <2>4. CASE Crash
    BY <2>4, CrashInv
  <2>5. CASE NewTransaction \/ Validate \/ SyncUTXOs \/ Reorg
    BY <2>5, SourceInv
  <2>6. CASE UNCHANGED vars
    BY <2>6, StutterInv
  <2> QED
    BY <2>1, <2>2, <2>3, <2>4, <2>5, <2>6 DEF Next
<1> QED
  BY <1>1, <1>2, PTL DEF Spec

\* The variables have their types; in particular the lock's count is never
\* negative, so writeTreeToDB does not wait for a holder that is not there
THEOREM Types == Spec => []TypeOK
<1>1. TxidInv => TypeOK
  BY DEF TxidInv
<1> QED
  BY <1>1, Invariant, PTL

\* A wallet's tree is never ahead of what POI nodes have validated, whatever they
\* answer, but for what it queued when they had no index for it
THEOREM NeverAheadOfValidation == Spec => []WithinValidated
<1>1. TxidInv => WithinValidated
  BY DEF TxidInv, Behind, Stored, WithinValidated
<1> QED
  BY <1>1, Invariant, PTL
-----------------------------------------------------------------------------
(* The order of the leaves, in a tree that no mishap befalls: the calls that own
   isScanning take turns, and each has in hand what follows the tree.           *)

Active(c) == stage[c] \in Owners

Alone == /\ \A c \in Caller : Active(c) => isScanning
         /\ \A c, d \in Caller : Active(c) /\ Active(d) => c = d

Numbered(txs, start) == \A k \in 1..Len(txs) : txs[k].at = start + k - 1

\* a wallet that has queued nothing but what was validated
Backed == ~isPOINode /\ Indexed

InPlace(tx, i) == tx # None /\ tx.at = i /\ (Backed => tx = Source(i))

\* leaf i is one of those that a rewind or a reset has deleted so far
Gone(i) == \E c \in Caller : stage[c] \in Deleting /\ call[c].start < i /\ i <= call[c].at

Kept == /\ Len(data) = length
        /\ \A i \in 1..length : IF Gone(i) THEN data[i] = None ELSE InPlace(data[i], i - 1)

\* what a call at this stage holds
Sent(at, v) ==
  /\ at \in {"request", "handle"} => v.cursor = LatestTransaction
  /\ at = "handle" => Numbered(v.page, length)
  /\ at = "queue" => Numbered(v.batch, length)
  /\ at \in Splitting => ~isPOINode /\ Numbered(v.batch, v.start)
  /\ at \in Writing => /\ v.position = length
                       /\ Numbered(v.leaves, v.position)
                       /\ Backed => \A k \in 1..Len(v.leaves) :
                                       v.leaves[k] = Source(v.position + k - 1)
  /\ at \in Deleting => /\ v.start <= v.at /\ v.position = length - 1
                        /\ v.at = v.start \/ v.at <= length

Holdings == \A c \in Caller : Sent(stage[c], call[c])
QueueNumbered == \A g \in writeQueue : Numbered(g.leaves, g.start)
LookupNumbered == \A tx \in Tx : lookup[tx] \in {None, tx.at}

Ordered == Alone /\ Kept /\ Holdings /\ QueueNumbered /\ LookupNumbered

OrderInv == Whole => Ordered
-----------------------------------------------------------------------------
LEMMA MishapBreaks ==
  ASSUME TypeOK, Count("mishap")
  PROVE  ~Whole'
BY DEF TypeOK, Count, Whole, Bounded, Fault

LEMMA MishapHappens ==
  ASSUME TypeOK, Happen("mishap")
  PROVE  ~Whole'
BY MishapBreaks DEF Happen

\* Who owns isScanning

LEMMA AloneKept ==
  ASSUME TypeOK, Alone, NEW c \in Caller, NEW next \in Stage, Goto(c, next),
         Active(c), isScanning' = isScanning \/ next \notin Owners
  PROVE  Alone'
BY DEF TypeOK, Alone, Active, Goto

LEMMA NobodyOwns == ASSUME Alone, ~isScanning \/ Stuck PROVE \A c \in Caller : ~Active(c)
BY DEF Alone, Active, Stuck

LEMMA AloneTaken ==
  ASSUME TypeOK, \A d \in Caller : ~Active(d), NEW c \in Caller, NEW next \in Stage,
         Goto(c, next), isScanning' = TRUE
  PROVE  Alone'
BY DEF TypeOK, Alone, Active, Goto

LEMMA AloneOut ==
  ASSUME TypeOK, Alone, NEW c \in Caller, NEW next \in Stage \ Owners, Goto(c, next),
         ~Active(c), isScanning' = isScanning
  PROVE  Alone'
BY DEF TypeOK, Alone, Active, Goto

\* A call that does not own isScanning holds nothing
LEMMA IdleHoldsNothing ==
  ASSUME NEW at, at \notin Owners
  PROVE  /\ \A v : Sent(at, v)
         /\ at \notin Deleting /\ at \notin Writing /\ at \notin Splitting
BY DEF Owners, Syncing, Inserting, Writing, Splitting, Deleting, Sent

LEMMA NothingGone ==
  ASSUME \A c \in Caller : stage[c] \notin Deleting
  PROVE  \A i : ~Gone(i)
BY DEF Gone

LEMMA OwnerHasDeleted ==
  ASSUME Alone, NEW c \in Caller, Active(c)
  PROVE  \A i : Gone(i) <=> stage[c] \in Deleting /\ call[c].start < i /\ i <= call[c].at
BY DEF Alone, Active, Gone, Owners, Syncing, Deleting

LEMMA SourceFrame ==
  ASSUME UNCHANGED branch
  PROVE  \A i : Source(i)' = Source(i)
BY DEF Source

\* The tree stays, and so does what the others hold
LEMMA OrderStep ==
  ASSUME TypeOK, Ordered, NEW c \in Caller, NEW next \in Stage, NEW v \in CallState,
         Goto(c, next), call' = [call EXCEPT ![c] = v],
         UNCHANGED <<branch, isPOINode, data, length>>, unbounded' = 0 => unbounded = 0,
         stage[c] \notin Deleting, next \in Deleting => v.at = v.start, Sent(next, v),
         Alone', QueueNumbered', LookupNumbered'
  PROVE  Ordered'
<1>0. Backed' => Backed
  BY DEF Backed, Indexed
<1>1. stage'[c] = next /\ call'[c] = v
  BY DEF TypeOK, Goto
<1>2. \A d \in Caller : d # c => stage'[d] = stage[d] /\ call'[d] = call[d]
  BY DEF TypeOK, Goto
<1>3. LatestTransaction' = LatestTransaction
  BY DEF LatestTransaction
<1>4. \A i : Source(i)' = Source(i)
  BY SourceFrame
<1>5. \A d \in Caller : Sent(stage'[d], call'[d])
  <2> SUFFICES ASSUME NEW d \in Caller PROVE Sent(stage'[d], call'[d])
    OBVIOUS
  <2>1. CASE d = c
    BY <1>1, <2>1
  <2>2. CASE d # c
    <3>1. Sent(stage[d], call[d])
      BY DEF Ordered, Holdings
    <3> QED
      BY <1>2, <2>2, <3>1
  <2> QED
    BY <2>1, <2>2
<1>6. Holdings'
  BY <1>0, <1>3, <1>4, <1>5 DEF Holdings, Sent, Numbered
<1>7. v.at \in Nat /\ v.start \in Nat
  BY DEF CallState
<1>8. \A i \in Nat : Gone(i)' <=> Gone(i)
  <2> SUFFICES ASSUME NEW i \in Nat PROVE Gone(i)' <=> Gone(i)
    OBVIOUS
  <2>1. ~(next \in Deleting /\ v.start < i /\ i <= v.at)
    BY <1>7
  <2> QED
    BY <1>1, <1>2, <2>1 DEF Gone
<1>9. Kept'
  <2>1. length \in Nat /\ \A i \in 1..length : i \in Nat
    BY DEF TypeOK
  <2>2. \A i \in 1..length : IF Gone(i) THEN data[i] = None ELSE InPlace(data[i], i - 1)
    BY DEF Ordered, Kept
  <2>3. \A i \in 1..length : InPlace(data[i], i - 1) => InPlace(data[i], i - 1)'
    BY <1>0, <1>4 DEF InPlace
  <2> QED
    BY <1>8, <2>1, <2>2, <2>3 DEF Ordered, Kept
<1> QED
  BY <1>6, <1>9 DEF Ordered

\* The tree changes in the hands of the only call that owns isScanning
LEMMA OrderWrite ==
  ASSUME TypeOK, Ordered, NEW c \in Caller, NEW next \in Stage, NEW v \in CallState,
         Goto(c, next), call' = [call EXCEPT ![c] = v],
         UNCHANGED <<branch, isPOINode>>, unbounded' = 0 => unbounded = 0,
         \A d \in Caller : d # c => ~Active(d), Sent(next, v)',
         Len(data') = length',
         \A i \in 1..length' : IF next \in Deleting /\ v.start < i /\ i <= v.at
                               THEN data'[i] = None ELSE InPlace(data'[i], i - 1),
         Alone', QueueNumbered', LookupNumbered'
  PROVE  Ordered'
<1>0. Backed' => Backed
  BY DEF Backed, Indexed
<1>1. stage'[c] = next /\ call'[c] = v
  BY DEF TypeOK, Goto
<1>2. \A d \in Caller : d # c => stage'[d] \notin Owners
  BY DEF TypeOK, Goto, Active
<1>3. Holdings'
  <2> SUFFICES ASSUME NEW d \in Caller PROVE Sent(stage[d], call[d])'
    BY DEF Holdings
  <2>1. CASE d = c
    BY <1>1, <2>1 DEF Sent, Numbered
  <2>2. CASE d # c
    <3>1. stage'[d] \notin Owners
      BY <1>2, <2>2
    <3> QED
      BY <3>1 DEF Owners, Syncing, Inserting, Writing, Splitting, Deleting, Sent
  <2> QED
    BY <2>1, <2>2
<1>4. \A i : Gone(i)' <=> next \in Deleting /\ v.start < i /\ i <= v.at
  <2>1. \A d \in Caller : stage'[d] \in Deleting => d = c
    BY <1>2 DEF Owners, Syncing, Deleting
  <2> QED
    BY <1>1, <2>1 DEF Gone
<1>5. \A i : Source(i)' = Source(i)
  BY SourceFrame
<1>6. \A i \in 1..length' : InPlace(data'[i], i - 1) => InPlace(data[i], i - 1)'
  BY <1>0, <1>5 DEF InPlace
<1>7. Kept'
  BY <1>4, <1>6 DEF Kept
<1> QED
  BY <1>3, <1>7 DEF Ordered
-----------------------------------------------------------------------------
\* Stages at which a call holds nothing
Free == Stage \ ({"request", "handle", "queue"} \union Splitting \union Writing \union Deleting)

LEMMA FreeHoldsNothing ==
  ASSUME NEW at \in Free
  PROVE  at \in Stage /\ at \notin Deleting /\ \A v : Sent(at, v)
BY DEF Free, Sent

\* A call goes on without anything
LEMMA OrderMove ==
  ASSUME TypeOK, Ordered, NEW c \in Caller, NEW next \in Free, NEW v \in CallState,
         Goto(c, next), call' = [call EXCEPT ![c] = v],
         UNCHANGED <<branch, isPOINode, data, length>>, unbounded' = 0 => unbounded = 0,
         stage[c] \notin Deleting, Alone', QueueNumbered', LookupNumbered'
  PROVE  Ordered'
BY FreeHoldsNothing, OrderStep

LEMMA CallStays ==
  ASSUME TypeOK, NEW c \in Caller, call' = call
  PROVE  call[c] \in CallState /\ call' = [call EXCEPT ![c] = call[c]]
BY DEF TypeOK

LEMMA NumberedStays ==
  ASSUME Ordered, UNCHANGED <<writeQueue, lookup>>
  PROVE  QueueNumbered' /\ LookupNumbered'
BY DEF Ordered, QueueNumbered, LookupNumbered, Numbered

LEMMA SyncCallOrder ==
  ASSUME TypeOK, Ordered, NEW c \in Caller, SyncCall(c)
  PROVE  Ordered'
<1>1. PICK next \in {"upgradeErase", "guard"} : Goto(c, next)
  BY DEF SyncCall
<1>2. /\ next \in Free /\ next \in Stage \ Owners
      /\ ~Active(c) /\ stage[c] \notin Deleting
  BY DEF SyncCall, Active, Owners, Free, Stage, Syncing, Inserting, Writing, Splitting,
         Deleting, Holding, Erasing
<1>3. /\ UNCHANGED <<branch, isPOINode, unbounded, data, length, writeQueue, lookup>>
      /\ isScanning' = isScanning /\ call' = call
  BY DEF SyncCall, source, disk, queue
<1>4. Alone'
  BY <1>1, <1>2, <1>3, AloneOut DEF Ordered
<1> QED
  BY <1>1, <1>2, <1>3, <1>4, NumberedStays, CallStays, OrderMove

LEMMA EraseOrder ==
  ASSUME TypeOK, Ordered, Whole', NEW c \in Caller, Erase(c)
  PROVE  Ordered'
<1>1. PICK next \in {"again", "upgradeVersion"} : Goto(c, next)
  BY DEF Erase
<1>2. /\ next \in Stage \ Owners /\ next \notin Deleting
      /\ \A v : Sent(next, v)'
  BY DEF Owners, Stage, Syncing, Inserting, Writing, Splitting, Deleting, Sent
<1>3. /\ UNCHANGED <<branch, isPOINode, unbounded, writeQueue>> /\ call' = call
      /\ data' = <<>> /\ length' = 0 /\ lookup' = [tx \in Tx |-> None]
  BY DEF Erase, source, queue
<1>4. Alone' /\ \A d \in Caller : d # c => ~Active(d)
  <2>1. CASE stage[c] = "fullErase"
    <3>1. Active(c)
      BY <2>1 DEF Active, Owners
    <3>2. \A d \in Caller : d # c => ~Active(d)
      BY <3>1 DEF Ordered, Alone
    <3> QED
      BY <1>1, <1>2, <3>1, <3>2, AloneKept DEF Ordered
  <2>2. CASE stage[c] # "fullErase"
    <3>1. (~isScanning \/ Stuck) /\ isScanning' = isScanning
      BY <2>2, MishapBreaks DEF Erase
    <3>2. \A d \in Caller : ~Active(d)
      BY <3>1, NobodyOwns DEF Ordered
    <3> QED
      BY <1>1, <1>2, <3>1, <3>2, AloneOut DEF Ordered
  <2> QED
    BY <2>1, <2>2
<1>5. Len(data') = length'
  BY <1>3
<1>6. QueueNumbered'
  BY <1>3 DEF Ordered, QueueNumbered, Numbered
<1>7. LookupNumbered'
  BY <1>3 DEF LookupNumbered
<1> QED
  BY <1>1, <1>2, <1>3, <1>4, <1>5, <1>6, <1>7, CallStays, OrderWrite

LEMMA UpgradeVersionOrder ==
  ASSUME TypeOK, Ordered, NEW c \in Caller, UpgradeVersion(c)
  PROVE  Ordered'
<1>1. /\ "guard" \in Free /\ "guard" \in Stage \ Owners /\ Goto(c, "guard")
      /\ ~Active(c) /\ stage[c] \notin Deleting
  BY DEF UpgradeVersion, Active, Owners, Free, Stage, Syncing, Inserting, Writing,
         Splitting, Deleting, Holding, Erasing
<1>2. /\ UNCHANGED <<branch, isPOINode, unbounded, data, length, writeQueue, lookup>>
      /\ isScanning' = isScanning /\ call' = call
  BY DEF UpgradeVersion, source, tree, memory
<1>3. Alone'
  BY <1>1, <1>2, AloneOut DEF Ordered
<1> QED
  BY <1>1, <1>2, <1>3, NumberedStays, CallStays, OrderMove

LEMMA GuardOrder ==
  ASSUME TypeOK, Ordered, NEW c \in Caller, Guard(c)
  PROVE  Ordered'
<1>1. PICK next \in {"idle", "cursor"} :
        Goto(c, next) /\ next = IF isScanning THEN "idle" ELSE "cursor"
  BY DEF Guard
<1>2. /\ next \in Free /\ next \in Stage /\ stage[c] \notin Deleting
      /\ ~Active(c) /\ "idle" \notin Owners
  BY DEF Guard, Active, Owners, Free, Stage, Syncing, Inserting, Writing,
         Splitting, Deleting, Holding, Erasing
<1>3. /\ UNCHANGED <<branch, isPOINode, unbounded, data, length, writeQueue, lookup>>
      /\ isScanning' = TRUE /\ call' = call
  BY DEF Guard, source, disk, queue
<1>4. Alone'
  <2>1. CASE isScanning
    <3>1. next \in Stage \ Owners /\ isScanning' = isScanning
      BY <1>1, <1>2, <1>3, <2>1 DEF TypeOK
    <3> QED
      BY <1>1, <1>2, <3>1, AloneOut DEF Ordered
  <2>2. CASE ~isScanning
    BY <1>1, <1>2, <1>3, <2>2, NobodyOwns, AloneTaken DEF Ordered
  <2> QED
    BY <2>1, <2>2
<1> QED
  BY <1>1, <1>2, <1>3, <1>4, NumberedStays, CallStays, OrderMove

LEMMA ReadCursorOrder ==
  ASSUME TypeOK, Ordered, Whole', NEW c \in Caller, ReadCursor(c)
  PROVE  Ordered'
<1> DEFINE v == [call[c] EXCEPT !.cursor = LatestTransaction]
<1>1. call' = [call EXCEPT ![c].cursor = LatestTransaction]
  BY MishapHappens DEF ReadCursor
<1>2. v \in CallState /\ v.cursor = LatestTransaction /\ call' = [call EXCEPT ![c] = v]
  BY <1>1, LatestType DEF TypeOK, CallState
<1> HIDE DEF v
<1>3. /\ "request" \in Stage /\ Goto(c, "request") /\ "request" \in Owners
      /\ Active(c) /\ stage[c] \notin Deleting /\ "request" \notin Deleting
  BY DEF ReadCursor, Active, Owners, Stage, Syncing, Deleting
<1>4. /\ UNCHANGED <<branch, isPOINode, unbounded, data, length, writeQueue, lookup>>
      /\ isScanning' = isScanning
  BY DEF ReadCursor, source, disk, memory
<1>5. Sent("request", v)
  BY <1>2 DEF Sent, Splitting, Writing, Deleting
<1>6. Alone'
  BY <1>3, <1>4, AloneKept DEF Ordered
<1> QED
  BY <1>2, <1>3, <1>4, <1>5, <1>6, NumberedStays, OrderStep

\* The cursor of a call is at the end of the tree
LEMMA LatestIsLast ==
  ASSUME TypeOK, Kept, \A c \in Caller : stage[c] \notin Deleting
  PROVE  IF length = 0 THEN LatestTransaction = None
         ELSE LatestTransaction \in Tx /\ LatestTransaction.at = length - 1
              /\ LatestTransaction = data[length]
<1>1. length \in Nat /\ Len(data) = length
  BY DEF TypeOK, Kept
<1>2. CASE length = 0
  BY <1>1, <1>2 DEF LatestTransaction
<1>3. CASE length # 0
  <2>1. length \in 1..length /\ length \in 1..Len(data)
    BY <1>1, <1>3
  <2>2. LatestTransaction = data[length]
    BY <2>1 DEF LatestTransaction
  <2>3. InPlace(data[length], length - 1)
    BY <2>1, NothingGone DEF Kept
  <2>4. data[length] \in Tx
    BY <2>1, <2>3, ElementOfSeq DEF TypeOK, InPlace
  <2>5. data[length].at = length - 1
    BY <2>3 DEF InPlace, Source
  <2> QED
    BY <1>3, <2>2, <2>4, <2>5
<1> QED
  BY <1>2, <1>3

LEMMA OwnerIsNotDeleting ==
  ASSUME Alone, NEW c \in Caller, Active(c), stage[c] \notin Deleting
  PROVE  \A d \in Caller : stage[d] \notin Deleting
BY DEF Alone, Active, Owners, Syncing, Deleting

\* What quick sync returns after the last transaction of the tree
LEMMA PageNumbered ==
  ASSUME TypeOK, Kept, \A c \in Caller : stage[c] \notin Deleting
  PROVE  Numbered(Page(LatestTransaction), length)
<1> DEFINE cursor == LatestTransaction
           first == IF cursor = None THEN 0 ELSE cursor.at + 1
           size  == IF head < first THEN 0
                    ELSE IF head - first < BatchSize THEN head - first ELSE BatchSize
<1>1. length \in Nat /\ first = length
  BY LatestIsLast, Numbers DEF TypeOK
<1>2. head \in Nat /\ BatchSize \in Nat
  BY Numbers DEF TypeOK
<1>3. size \in Nat
  BY <1>1, <1>2
<1>4. Page(cursor) = [k \in 1..size |-> Source(first + k - 1)]
  BY DEF Page
<1>5. Page(cursor) \in Seq(Tx)
  BY LatestType, PageType
<1> HIDE DEF first, size, cursor
<1>6. Len(Page(cursor)) = size
  BY <1>3, <1>4, <1>5, LenProperties
<1>7. \A k \in 1..size : Page(cursor)[k].at = first + k - 1
  BY <1>4 DEF Source
<1> QED
  BY <1>1, <1>6, <1>7 DEF Numbered, cursor

LEMMA RequestOrder ==
  ASSUME TypeOK, Ordered, NEW c \in Caller, Request(c)
  PROVE  Ordered'
<1> DEFINE page == Page(call[c].cursor)
           v == [call[c] EXCEPT !.page = page]
<1>1. call[c] \in CallState /\ call[c].cursor = LatestTransaction
  BY DEF TypeOK, Ordered, Holdings, Sent, Request
<1>2. page \in Seq(Tx)
  BY <1>1, LatestType, PageType
<1>3. Active(c) /\ stage[c] \notin Deleting
  BY DEF Request, Active, Owners, Syncing, Deleting
<1>4. \A d \in Caller : stage[d] \notin Deleting
  BY <1>3, OwnerIsNotDeleting DEF Ordered
<1>5. Numbered(page, length)
  BY <1>1, <1>4, PageNumbered DEF Ordered
<1>6. call' = [call EXCEPT ![c].page = page]
  BY DEF Request
<1>7. /\ UNCHANGED <<branch, isPOINode, unbounded, data, length, writeQueue, lookup>>
      /\ isScanning' = isScanning
  BY DEF Request, source, disk, memory
<1>8. PICK next \in {"end", "handle"} : Goto(c, next)
  BY DEF Request
<1> HIDE DEF page
<1>9. /\ v \in CallState /\ call' = [call EXCEPT ![c] = v]
      /\ v.cursor = LatestTransaction /\ v.page = page
  BY <1>1, <1>2, <1>6 DEF CallState
<1> HIDE DEF v
<1>10. next \in Stage /\ next \notin Deleting
  BY DEF Stage, Syncing, Deleting
<1>11. Sent(next, v)
  BY <1>5, <1>9 DEF Sent, Splitting, Writing, Deleting
<1>12. Alone'
  BY <1>3, <1>7, <1>8, <1>10, AloneKept DEF Ordered
<1> QED
  BY <1>3, <1>7, <1>8, <1>9, <1>10, <1>11, <1>12, NumberedStays, OrderStep
-----------------------------------------------------------------------------
\* A part of numbered transactions is numbered
LEMMA PartNumbered ==
  ASSUME NEW s \in Seq(Tx), NEW start \in Nat, Numbered(s, start),
         NEW m \in Nat, NEW n \in Nat, 1 <= m, n <= Len(s)
  PROVE  Numbered(SubSeq(s, m, n), start + m - 1)
<1>1. Len(s) \in Nat
  BY LenProperties
<1>2. /\ SubSeq(s, m, n) \in Seq(Tx)
      /\ Len(SubSeq(s, m, n)) = IF m <= n THEN n - m + 1 ELSE 0
  BY PartOf
<1>3. ASSUME NEW k \in 1..Len(SubSeq(s, m, n))
      PROVE  SubSeq(s, m, n)[k].at = (start + m - 1) + k - 1
  <2>1. m <= n /\ k \in 1..(n - m + 1)
    BY <1>2, <1>3
  <2>2. SubSeq(s, m, n)[k] = s[m + k - 1]
    <3>1. \A i \in m..n : s[i] \in Tx
      BY ElementOfSeq
    <3> QED
      BY <2>1, <3>1, SubSeqProperties
  <2>3. m + k - 1 \in 1..Len(s)
    BY <1>1, <2>1
  <2>4. s[m + k - 1].at = start + (m + k - 1) - 1
    BY <2>3 DEF Numbered
  <2> QED
    BY <2>1, <2>2, <2>4
<1> QED
  BY <1>3 DEF Numbered

LEMMA QueuedNumbered ==
  ASSUME TypeOK, QueueNumbered, NEW txs \in Seq(Tx), NEW start \in Nat, Numbered(txs, start)
  PROVE  \A g \in Queued(txs, start) : Numbered(g.leaves, g.start)
<1> SUFFICES ASSUME NEW g \in Queued(txs, start), g \notin writeQueue
             PROVE  Numbered(g.leaves, g.start)
  BY DEF QueueNumbered
<1>1. PICK r \in (1..Len(txs)) \X (1..Len(txs)) :
        /\ r[1] <= r[2]
        /\ g = [start |-> start + r[1] - 1, leaves |-> SubSeq(txs, r[1], r[2])]
  BY DEF Queued
<1>2. r[1] \in Nat /\ r[2] \in Nat /\ 1 <= r[1] /\ r[2] <= Len(txs)
  BY <1>1, LenProperties
<1>3. Numbered(SubSeq(txs, r[1], r[2]), start + r[1] - 1)
  BY <1>2, PartNumbered
<1>4. g.leaves = SubSeq(txs, r[1], r[2]) /\ g.start = start + r[1] - 1
  BY <1>1
<1> QED
  BY <1>3, <1>4

LEMMA QueueStaysNumbered ==
  ASSUME TypeOK, QueueNumbered, NEW txs \in Seq(Tx), NEW start \in Nat, Numbered(txs, start),
         writeQueue' = Queued(txs, start)
  PROVE  QueueNumbered'
<1>1. \A g \in writeQueue' : Numbered(g.leaves, g.start)
  BY QueuedNumbered
<1> QED
  BY <1>1 DEF QueueNumbered, Numbered

LEMMA LookedUpNumbered ==
  ASSUME LookupNumbered, NEW txs \in Seq(Tx), NEW start \in Nat, Numbered(txs, start)
  PROVE  \A tx \in Tx : LookedUp(txs, start)[tx] \in {None, tx.at}
<1> SUFFICES ASSUME NEW tx \in Tx PROVE LookedUp(txs, start)[tx] \in {None, tx.at}
  OBVIOUS
<1>1. CASE \E k \in 1..Len(txs) : txs[k] = tx
  <2> DEFINE j == CHOOSE k \in 1..Len(txs) : txs[k] = tx
  <2>1. j \in 1..Len(txs) /\ txs[j] = tx
    BY <1>1
  <2>2. LookedUp(txs, start)[tx] = start + j - 1
    BY <1>1 DEF LookedUp
  <2> HIDE DEF j
  <2>3. tx.at = start + j - 1
    BY <2>1 DEF Numbered
  <2> QED
    BY <2>2, <2>3
<1>2. CASE ~\E k \in 1..Len(txs) : txs[k] = tx
  BY <1>2 DEF LookedUp, LookupNumbered
<1> QED
  BY <1>1, <1>2

LEMMA HandleNewOrder ==
  ASSUME TypeOK, Ordered, NEW c \in Caller, HandleNew(c)
  PROVE  Ordered'
<1> DEFINE page == call[c].page
<1>1. call[c] \in CallState /\ page \in Seq(Tx) /\ Len(page) \in Nat
  BY LenProperties DEF TypeOK, CallState
<1>2. PICK limit \in Place \union {None} :
        IF ShouldAdd(limit)
        THEN \E n \in 0..Len(page) :
               /\ call' = [call EXCEPT ![c].limit = limit,
                                       ![c].batch = SubSeq(page, 1, n),
                                       ![c].mismatch = n < Len(page) /\ Known(c, n + 1)]
               /\ Goto(c, "queue")
        ELSE Goto(c, "loop") /\ UNCHANGED call
  BY DEF HandleNew
<1>3. /\ UNCHANGED <<branch, isPOINode, unbounded, data, length, writeQueue, lookup>>
      /\ isScanning' = isScanning /\ stage[c] = "handle"
  BY DEF HandleNew, source, disk, memory
<1>4. Active(c) /\ stage[c] \notin Deleting
  BY <1>3 DEF Active, Owners, Syncing, Deleting
<1>5. Numbered(page, length) /\ length \in Nat
  BY <1>3 DEF Ordered, Holdings, Sent, TypeOK
<1>6. CASE ShouldAdd(limit)
  <2>1. PICK n \in 0..Len(page) :
          /\ call' = [call EXCEPT ![c].limit = limit,
                                  ![c].batch = SubSeq(page, 1, n),
                                  ![c].mismatch = n < Len(page) /\ Known(c, n + 1)]
          /\ Goto(c, "queue")
    BY <1>2, <1>6
  <2> DEFINE m == n < Len(page) /\ Known(c, n + 1)
             batch == SubSeq(page, 1, n)
             v == [call[c] EXCEPT !.limit = limit, !.batch = batch, !.mismatch = m]
  <2> HIDE DEF page
  <2>2. n \in Nat /\ n <= Len(page) /\ 1 \in Nat /\ 1 <= 1
    BY <1>1
  <2>3. batch \in Seq(Tx) /\ Numbered(batch, length + 1 - 1)
    BY <1>1, <1>5, <2>2, PartOf, PartNumbered
  <2>4. m \in BOOLEAN /\ call' = [call EXCEPT ![c] = v]
    BY <2>1
  <2> HIDE DEF m, batch
  <2>5. v \in CallState /\ v.batch = batch
    BY <1>1, <1>2, <2>3, <2>4 DEF CallState
  <2> HIDE DEF v
  <2>6. Numbered(batch, length)
    BY <1>5, <2>3
  <2>7. Sent("queue", v)
    BY <2>5, <2>6 DEF Sent, Splitting, Writing, Deleting
  <2>8. "queue" \in Stage /\ "queue" \notin Deleting
    BY DEF Stage, Syncing, Deleting
  <2>9. Alone'
    BY <1>3, <1>4, <2>1, <2>8, AloneKept DEF Ordered
  <2> QED
    BY <1>3, <1>4, <2>1, <2>4, <2>5, <2>7, <2>8, <2>9, NumberedStays, OrderStep
<1>7. CASE ~ShouldAdd(limit)
  <2>1. Goto(c, "loop") /\ call' = call
    BY <1>2, <1>7
  <2>2. "loop" \in Free /\ "loop" \in Stage
    BY DEF Free, Stage, Syncing, Inserting, Writing, Splitting, Deleting
  <2>3. Alone'
    BY <1>3, <1>4, <2>1, <2>2, AloneKept DEF Ordered
  <2> QED
    BY <1>3, <1>4, <2>1, <2>2, <2>3, NumberedStays, CallStays, OrderMove
<1> QED
  BY <1>6, <1>7

\* What Queue does, for one batch and its legacy transactions
LEMMA QueueDoes ==
  ASSUME TypeOK, NEW c \in Caller, Queue(c)
  PROVE  \E n \in 0..Len(call[c].batch), m \in Nat :
    LET batch  == SubSeq(call[c].batch, 1, n)
        legacy == SubSeq(batch, 1, m)
    IN /\ m <= n
       /\ \A k \in 1..n : ~IsOutOfBounds(length + k - 1, call[c].limit)
       /\ batch \in Seq(Tx) /\ Len(batch) = n
       /\ legacy \in Seq(Tx) /\ Len(legacy) = m
       /\ \A k \in 1..m : Legacy(batch[k])
       /\ m < n => ~Legacy(batch[m + 1])
       /\ call' = [call EXCEPT ![c].batch = batch, ![c].start = length, ![c].at = length + m]
       /\ \/ /\ call[c].batch = <<>>
             /\ \E next \in {"rewind", "loop"} : Goto(c, next)
             /\ UNCHANGED <<writeQueue, lookup>>
          \/ /\ isPOINode \/ snapshot # None \/ m = n
             /\ writeQueue' = Queued(batch, length)
             /\ lookup' = LookedUp(batch, length)
             /\ Goto(c, "insert")
          \/ /\ ~isPOINode /\ snapshot = None /\ m < n
             /\ writeQueue' = Queued(legacy, length)
             /\ Goto(c, "insertLegacy")
             /\ UNCHANGED lookup
<1> DEFINE whole == call[c].batch
           limit == call[c].limit
<1>1. whole \in Seq(Tx) /\ Len(whole) \in Nat
  BY LenProperties DEF TypeOK, CallState
<1>2. PICK n \in 0..Len(whole) : \E m \in 0..n :
        LET batch  == SubSeq(whole, 1, n)
            legacy == SubSeq(batch, 1, m)
        IN /\ \A k \in 1..n : ~IsOutOfBounds(length + k - 1, limit)
           /\ \A k \in 1..m : Legacy(batch[k])
           /\ m < n => ~Legacy(batch[m + 1])
           /\ call' = [call EXCEPT ![c].batch = batch, ![c].start = length,
                                   ![c].at = length + m]
           /\ IF whole = <<>>
              THEN /\ Goto(c, IF call[c].mismatch THEN "rewind" ELSE "loop")
                   /\ UNCHANGED <<writeQueue, lookup>>
              ELSE IF isPOINode \/ snapshot # None \/ m = n
              THEN /\ writeQueue' = Queued(batch, length)
                   /\ lookup' = LookedUp(batch, length)
                   /\ Goto(c, "insert")
              ELSE /\ writeQueue' = Queued(legacy, length)
                   /\ Goto(c, "insertLegacy")
                   /\ UNCHANGED lookup
  BY DEF Queue
<1> DEFINE batch == SubSeq(whole, 1, n)
<1>3. PICK m \in 0..n :
        LET legacy == SubSeq(batch, 1, m)
        IN /\ \A k \in 1..n : ~IsOutOfBounds(length + k - 1, limit)
           /\ \A k \in 1..m : Legacy(batch[k])
           /\ m < n => ~Legacy(batch[m + 1])
           /\ call' = [call EXCEPT ![c].batch = batch, ![c].start = length,
                                   ![c].at = length + m]
           /\ IF whole = <<>>
              THEN /\ Goto(c, IF call[c].mismatch THEN "rewind" ELSE "loop")
                   /\ UNCHANGED <<writeQueue, lookup>>
              ELSE IF isPOINode \/ snapshot # None \/ m = n
              THEN /\ writeQueue' = Queued(batch, length)
                   /\ lookup' = LookedUp(batch, length)
                   /\ Goto(c, "insert")
              ELSE /\ writeQueue' = Queued(legacy, length)
                   /\ Goto(c, "insertLegacy")
                   /\ UNCHANGED lookup
  BY <1>2
<1> DEFINE legacy == SubSeq(batch, 1, m)
<1>4. n \in Nat /\ m \in Nat /\ m <= n /\ n <= Len(whole)
  BY <1>1
<1>5. batch \in Seq(Tx) /\ Len(batch) = n
  BY <1>1, <1>4, PartOf
<1> HIDE DEF batch
<1>6. legacy \in Seq(Tx) /\ Len(legacy) = m
  BY <1>4, <1>5, PartOf
<1>7. \/ /\ whole = <<>>
         /\ \E next \in {"rewind", "loop"} : Goto(c, next)
         /\ UNCHANGED <<writeQueue, lookup>>
      \/ /\ isPOINode \/ snapshot # None \/ m = n
         /\ writeQueue' = Queued(batch, length)
         /\ lookup' = LookedUp(batch, length)
         /\ Goto(c, "insert")
      \/ /\ ~isPOINode /\ snapshot = None /\ m < n
         /\ writeQueue' = Queued(legacy, length)
         /\ Goto(c, "insertLegacy")
         /\ UNCHANGED lookup
  <2>1. isPOINode \/ snapshot # None \/ m = n \/ (~isPOINode /\ snapshot = None /\ m < n)
    BY <1>4
  <2> QED
    BY <1>3, <2>1
<1> HIDE DEF legacy, whole, limit
<1>8. /\ \A k \in 1..n : ~IsOutOfBounds(length + k - 1, limit)
      /\ \A k \in 1..m : Legacy(batch[k])
      /\ m < n => ~Legacy(batch[m + 1])
      /\ call' = [call EXCEPT ![c].batch = batch, ![c].start = length, ![c].at = length + m]
  BY <1>3
<1> QED
  BY <1>4, <1>5, <1>6, <1>7, <1>8 DEF legacy, whole, limit, batch

\* How far a wallet has queued leaves without an index only grows
LEMMA UnboundedGrows ==
  ASSUME TypeOK, NEW c \in Caller
  PROVE  Unbounded(c) \in Nat /\ unbounded <= Unbounded(c)
<1>1. call[c].batch \in Seq(Tx)
  BY DEF TypeOK, CallState
<1>2. Len(call[c].batch) \in Nat /\ length \in Nat
  BY <1>1, LenProperties DEF TypeOK
<1> QED
  BY <1>2, Numbers DEF TypeOK, Unbounded, Allowed

LEMMA QueueOrder ==
  ASSUME TypeOK, Ordered, NEW c \in Caller, Queue(c)
  PROVE  Ordered'
<1> DEFINE whole == call[c].batch
<1>1. /\ call[c] \in CallState /\ whole \in Seq(Tx) /\ Len(whole) \in Nat
      /\ length \in Nat
  BY LenProperties DEF TypeOK, CallState
<1>2. PICK n \in 0..Len(whole), m \in Nat :
    LET batch  == SubSeq(whole, 1, n)
        legacy == SubSeq(batch, 1, m)
    IN /\ m <= n
       /\ batch \in Seq(Tx) /\ Len(batch) = n
       /\ legacy \in Seq(Tx) /\ Len(legacy) = m
       /\ call' = [call EXCEPT ![c].batch = batch, ![c].start = length, ![c].at = length + m]
       /\ \/ /\ \E next \in {"rewind", "loop"} : Goto(c, next)
             /\ UNCHANGED <<writeQueue, lookup>>
          \/ /\ writeQueue' = Queued(batch, length)
             /\ lookup' = LookedUp(batch, length)
             /\ Goto(c, "insert")
          \/ /\ ~isPOINode
             /\ writeQueue' = Queued(legacy, length)
             /\ Goto(c, "insertLegacy")
             /\ UNCHANGED lookup
  BY QueueDoes
<1> DEFINE batch  == SubSeq(whole, 1, n)
           legacy == SubSeq(batch, 1, m)
           v == [call[c] EXCEPT !.batch = batch, !.start = length, !.at = length + m]
<1>3. n \in Nat /\ n <= Len(whole) /\ m <= n /\ 1 \in Nat /\ 1 <= 1
  BY <1>1, <1>2
<1>4. batch \in Seq(Tx) /\ Len(batch) = n /\ legacy \in Seq(Tx) /\ Len(legacy) = m
  BY <1>2
<1>5. /\ stage[c] = "queue" /\ isScanning' = isScanning
      /\ UNCHANGED <<branch, isPOINode, data, length>>
      /\ unbounded' = 0 => unbounded = 0
  BY UnboundedGrows DEF Queue, tree, TypeOK
<1>6. Active(c) /\ stage[c] \notin Deleting
  BY <1>5 DEF Active, Owners, Syncing, Deleting
<1>7. Numbered(whole, length)
  BY <1>5 DEF Ordered, Holdings, Sent
<1>8. Numbered(batch, length)
  <2>1. Numbered(batch, length + 1 - 1)
    BY <1>1, <1>3, <1>7, PartNumbered
  <2>2. length + 1 - 1 = length
    BY <1>1
  <2> QED
    BY <2>1, <2>2
<1>9. call' = [call EXCEPT ![c].batch = batch, ![c].start = length, ![c].at = length + m]
  BY <1>2
<1>10. \/ /\ \E next \in {"rewind", "loop"} : Goto(c, next)
          /\ UNCHANGED <<writeQueue, lookup>>
       \/ /\ writeQueue' = Queued(batch, length)
          /\ lookup' = LookedUp(batch, length)
          /\ Goto(c, "insert")
       \/ /\ ~isPOINode
          /\ writeQueue' = Queued(legacy, length)
          /\ Goto(c, "insertLegacy")
          /\ UNCHANGED lookup
  BY <1>2
<1> HIDE DEF whole, batch
<1>11. Numbered(legacy, length)
  <2>1. Numbered(legacy, length + 1 - 1)
    BY <1>1, <1>3, <1>4, <1>8, PartNumbered
  <2>2. length + 1 - 1 = length
    BY <1>1
  <2> QED
    BY <2>1, <2>2
<1> HIDE DEF legacy
<1>12. /\ v \in CallState /\ call' = [call EXCEPT ![c] = v]
       /\ v.batch = batch /\ v.start = length
  <2>1. length + m \in Nat
    BY <1>1, <1>2
  <2> QED
    BY <1>1, <1>4, <1>9, <2>1 DEF CallState
<1> HIDE DEF v
<1>13. /\ writeQueue' = Queued(batch, length) => QueueNumbered'
       /\ writeQueue' = Queued(legacy, length) => QueueNumbered'
  BY <1>1, <1>4, <1>8, <1>11, QueueStaysNumbered DEF Ordered
<1>14. CASE /\ \E next \in {"rewind", "loop"} : Goto(c, next)
            /\ UNCHANGED <<writeQueue, lookup>>
  <2>1. PICK next \in {"rewind", "loop"} : Goto(c, next)
    BY <1>14
  <2>2. next \in Free /\ next \in Stage
    BY DEF Free, Stage, Syncing, Inserting, Writing, Splitting, Deleting
  <2>3. Alone'
    BY <1>5, <1>6, <2>1, <2>2, AloneKept DEF Ordered
  <2> QED
    BY <1>5, <1>6, <1>12, <1>14, <2>1, <2>2, <2>3, NumberedStays, OrderMove
<1>15. CASE /\ writeQueue' = Queued(batch, length)
            /\ lookup' = LookedUp(batch, length)
            /\ Goto(c, "insert")
  <2>1. "insert" \in Free /\ "insert" \in Stage
    BY DEF Free, Stage, Syncing, Inserting, Writing, Splitting, Deleting
  <2>2. Alone'
    BY <1>5, <1>6, <1>15, <2>1, AloneKept DEF Ordered
  <2>3. LookupNumbered'
    BY <1>1, <1>4, <1>8, <1>15, LookedUpNumbered DEF Ordered, LookupNumbered
  <2> QED
    BY <1>5, <1>6, <1>12, <1>13, <1>15, <2>1, <2>2, <2>3, OrderMove
<1>16. CASE /\ ~isPOINode
            /\ writeQueue' = Queued(legacy, length)
            /\ Goto(c, "insertLegacy")
            /\ UNCHANGED lookup
  <2>1. "insertLegacy" \in Stage /\ "insertLegacy" \notin Deleting
    BY DEF Stage, Syncing, Inserting, Deleting
  <2>2. Alone'
    BY <1>5, <1>6, <1>16, <2>1, AloneKept DEF Ordered
  <2>3. Sent("insertLegacy", v)
    BY <1>8, <1>12, <1>16 DEF Sent, Writing, Deleting
  <2>4. LookupNumbered'
    BY <1>16 DEF Ordered, LookupNumbered
  <2> QED
    BY <1>5, <1>6, <1>12, <1>13, <1>16, <2>1, <2>2, <2>3, <2>4, OrderStep
<1> QED
  BY <1>10, <1>14, <1>15, <1>16
-----------------------------------------------------------------------------
LEMMA SaveSnapshotOrder ==
  ASSUME TypeOK, Ordered, NEW c \in Caller, SaveSnapshot(c)
  PROVE  Ordered'
<1>1. /\ stage[c] = "snapshot" /\ Goto(c, "queueRest") /\ call' = call
      /\ UNCHANGED <<branch, isPOINode, unbounded, data, length, writeQueue, lookup>>
      /\ isScanning' = isScanning
  BY DEF SaveSnapshot, source, tree, queue
<1>2. /\ Active(c) /\ stage[c] \notin Deleting /\ "queueRest" \notin Deleting
      /\ "queueRest" \in Stage
  BY <1>1 DEF Active, Owners, Stage, Syncing, Deleting
<1>3. Sent("queueRest", call[c])
  <2>1. Sent("snapshot", call[c])
    BY <1>1 DEF Ordered, Holdings
  <2> QED
    BY <2>1 DEF Sent, Splitting, Writing, Deleting
<1>4. Alone'
  BY <1>1, <1>2, AloneKept DEF Ordered
<1> QED
  BY <1>1, <1>2, <1>3, <1>4, NumberedStays, CallStays, OrderStep

\* What is left of a batch begins where its legacy transactions end
LEMMA RestOfBatch ==
  ASSUME TypeOK, Calls, NEW c \in Caller, stage[c] = "queueRest"
  PROVE  LET batch == call[c].batch
             start == call[c].start
             at    == call[c].at
             first == at - start + 1
             rest  == SubSeq(batch, first, Len(batch))
         IN /\ batch \in Seq(Tx) /\ start \in Nat /\ at \in Nat /\ start <= at
            /\ first \in Nat /\ 1 <= first /\ Len(batch) \in Nat
            /\ rest \in Seq(Tx)
            /\ at + Len(rest) = start + Len(batch)
<1> DEFINE batch == call[c].batch
           start == call[c].start
           at    == call[c].at
           first == at - start + 1
           rest  == SubSeq(batch, first, Len(batch))
<1>1. /\ batch \in Seq(Tx) /\ Len(batch) \in Nat /\ start \in Nat /\ at \in Nat
  BY LenProperties DEF TypeOK, CallState
<1>2. start <= at /\ at <= start + Len(batch)
  BY DEF Calls, Placed, Splitting
<1>3. first \in Nat /\ 1 <= first
  BY <1>1, <1>2
<1>4. /\ rest \in Seq(Tx)
      /\ Len(rest) = IF first <= Len(batch) THEN Len(batch) - first + 1 ELSE 0
  BY <1>1, <1>3, PartOf
<1> HIDE DEF batch, start, at, rest
<1>5. at + Len(rest) = start + Len(batch)
  BY <1>1, <1>2, <1>4
<1> QED
  BY <1>1, <1>2, <1>3, <1>4, <1>5 DEF batch, start, at, rest

LEMMA QueueRestOrder ==
  ASSUME TxidInv, Ordered, NEW c \in Caller, QueueRest(c)
  PROVE  Ordered'
<1> USE DEF TxidInv
<1> DEFINE batch == call[c].batch
           start == call[c].start
           at    == call[c].at
           first == at - start + 1
           rest  == SubSeq(batch, first, Len(batch))
<1>1. /\ stage[c] = "queueRest" /\ Goto(c, "insert") /\ call' = call
      /\ UNCHANGED <<branch, isPOINode, unbounded, data, length>> /\ isScanning' = isScanning
      /\ writeQueue' = Queued(rest, at) /\ lookup' = LookedUp(batch, start)
  BY DEF QueueRest, source, tree
<1>2. /\ batch \in Seq(Tx) /\ start \in Nat /\ at \in Nat /\ start <= at
      /\ first \in Nat /\ 1 <= first /\ Len(batch) \in Nat /\ Len(batch) <= Len(batch)
      /\ rest \in Seq(Tx)
  BY <1>1, RestOfBatch
<1>3. Numbered(batch, start)
  BY <1>1 DEF Ordered, Holdings, Sent, Splitting
<1>4. Numbered(rest, at)
  <2>1. start + first - 1 = at
    BY <1>2
  <2> HIDE DEF first, batch, at, start
  <2>2. Numbered(rest, start + first - 1)
    BY <1>2, <1>3, PartNumbered
  <2> QED
    BY <2>1, <2>2
<1> HIDE DEF rest, batch, start, at, first
<1>5. QueueNumbered'
  BY <1>1, <1>2, <1>4, QueueStaysNumbered DEF Ordered
<1>6. LookupNumbered'
  BY <1>1, <1>2, <1>3, LookedUpNumbered DEF Ordered, LookupNumbered
<1>7. Active(c) /\ stage[c] \notin Deleting /\ "insert" \in Free /\ "insert" \in Stage
  BY <1>1 DEF Active, Owners, Free, Stage, Syncing, Inserting, Writing, Splitting, Deleting
<1>8. Alone'
  BY <1>1, <1>7, AloneKept DEF Ordered
<1> QED
  BY <1>1, <1>5, <1>6, <1>7, <1>8, CallStays, OrderMove

\* The end of an update
LEMMA ContinueOrder ==
  ASSUME TypeOK, Ordered, NEW c \in Caller, stage[c] \in Inserting \union Writing,
         Continue(c), UNCHANGED <<branch, isPOINode, unbounded, data, length, lookup, isScanning, call>>,
         writeQueue' \subseteq writeQueue
  PROVE  Ordered'
<1> DEFINE next == IF stage[c] \in {"insertLegacy", "writeLegacy"} THEN "snapshot"
                     ELSE IF call[c].mismatch THEN "rewind" ELSE "loop"
<1>1. next \in {"snapshot", "rewind", "loop"} /\ Goto(c, next)
  BY DEF Continue
<1>2. next = "snapshot" => stage[c] \in Splitting
  BY DEF Splitting
<1> HIDE DEF next
<1>3. /\ next \in Stage /\ next \notin Deleting /\ Active(c) /\ stage[c] \notin Deleting
  BY <1>1 DEF Active, Owners, Stage, Syncing, Inserting, Writing, Deleting
<1>4. Sent(next, call[c])
  <2>1. Sent(stage[c], call[c])
    BY DEF Ordered, Holdings
  <2> QED
    BY <1>1, <1>2, <2>1 DEF Sent, Splitting, Writing, Deleting
<1>5. Alone'
  BY <1>1, <1>3, AloneKept DEF Ordered
<1>6. QueueNumbered' /\ LookupNumbered'
  BY DEF Ordered, QueueNumbered, LookupNumbered, Numbered
<1> QED
  BY <1>1, <1>3, <1>4, <1>5, <1>6, CallStays, OrderStep

\* What Insert does
LEMMA InsertDoes ==
  ASSUME NEW c \in Caller, Insert(c)
  PROVE  /\ stage[c] \in Inserting /\ processing \in {None, c}
         /\ UNCHANGED <<source, disk, isScanning, savedPOILaunchSnapshot, locks>>
         /\ writeQueue' = {g \in writeQueue : length <= g.start}
         /\ \/ /\ Continue(c) /\ UNCHANGED call
               /\ \/ (\A g \in writeQueue' : g.start # length) /\ UNCHANGED spent
                  \/ /\ UNCHANGED spent /\ ~isPOINode
                     /\ \E g \in writeQueue' : g.start = length /\ ~Genuine(g.leaves)
                  \/ ~isPOINode /\ Happen("reject")
                  \/ Happen("error")
            \/ \E g \in writeQueue' :
                 /\ g.start = length /\ (isPOINode \/ Genuine(g.leaves)) /\ UNCHANGED spent
                 /\ call' = [call EXCEPT ![c].leaves = g.leaves, ![c].position = length]
                 /\ Goto(c, IF stage[c] = "insert" THEN "write" ELSE "writeLegacy")
BY DEF Insert

LEMMA InsertOrder ==
  ASSUME TypeOK, Ordered, NEW c \in Caller, Insert(c)
  PROVE  Ordered'
<1>1. /\ stage[c] \in Inserting
      /\ UNCHANGED <<branch, isPOINode, unbounded, data, length, lookup, isScanning>>
      /\ writeQueue' \subseteq writeQueue
  BY InsertDoes DEF source, disk
<1>2. CASE Continue(c) /\ UNCHANGED call
  BY <1>1, <1>2, ContinueOrder
<1>3. CASE \E g \in writeQueue' :
             /\ g.start = length /\ (isPOINode \/ Genuine(g.leaves))
             /\ call' = [call EXCEPT ![c].leaves = g.leaves, ![c].position = length]
             /\ Goto(c, IF stage[c] = "insert" THEN "write" ELSE "writeLegacy")
  <2>1. PICK g \in writeQueue' :
          /\ g.start = length /\ (isPOINode \/ Genuine(g.leaves))
          /\ call' = [call EXCEPT ![c].leaves = g.leaves, ![c].position = length]
          /\ Goto(c, IF stage[c] = "insert" THEN "write" ELSE "writeLegacy")
    BY <1>3
  <2> DEFINE next == IF stage[c] = "insert" THEN "write" ELSE "writeLegacy"
             leaves == g.leaves
             v == [call[c] EXCEPT !.leaves = leaves, !.position = length]
  <2>2. /\ leaves \in Seq(Tx) /\ call[c] \in CallState /\ length \in Nat
        /\ Numbered(leaves, length)
    <3>1. g \in Group /\ g \in writeQueue
      BY <1>1 DEF TypeOK
    <3> QED
      BY <2>1, <3>1 DEF Group, TypeOK, Ordered, QueueNumbered
  <2>3. Backed => \A k \in 1..Len(leaves) : leaves[k] = Source(length + k - 1)
    BY <2>1 DEF Genuine, Backed
  <2>4. call' = [call EXCEPT ![c] = v]
    BY <2>1
  <2> HIDE DEF leaves
  <2>5. /\ v \in CallState /\ v.leaves = leaves /\ v.position = length
        /\ v.start = call[c].start /\ v.batch = call[c].batch
    <3>1. length \in Int
      BY <2>2
    <3> QED
      BY <2>2, <3>1 DEF CallState
  <2>6. /\ Goto(c, next) /\ next \in Writing /\ next \notin {"queue", "request", "handle"}
        /\ next \in Splitting => stage[c] \in Splitting
    BY <1>1, <2>1 DEF Writing, Splitting, Inserting
  <2> HIDE DEF next, v
  <2>7. /\ next \in Stage /\ next \notin Deleting /\ Active(c) /\ stage[c] \notin Deleting
    BY <1>1, <2>6 DEF Active, Owners, Stage, Syncing, Inserting, Writing, Deleting
  <2>8. Sent(next, v)
    <3>1. Sent(stage[c], call[c])
      BY DEF Ordered, Holdings
    <3>2. next \in Splitting => ~isPOINode /\ Numbered(v.batch, v.start)
      BY <2>5, <2>6, <3>1 DEF Sent
    <3> QED
      BY <2>2, <2>3, <2>5, <2>6, <2>7, <3>2 DEF Sent
  <2>9. Alone'
    BY <1>1, <2>6, <2>7, AloneKept DEF Ordered
  <2>10. QueueNumbered' /\ LookupNumbered'
    BY <1>1 DEF Ordered, QueueNumbered, LookupNumbered, Numbered
  <2> QED
    BY <1>1, <2>4, <2>5, <2>6, <2>7, <2>8, <2>9, <2>10, OrderStep
<1> QED
  BY <1>2, <1>3, InsertDoes

\* What Write leaves on disk: the tree, and the group behind it
LEMMA WriteDoes ==
  ASSUME TxidInv, Ordered, NEW c \in Caller, Write(c)
  PROVE  LET n == Len(call[c].leaves)
         IN /\ stage[c] \in Writing
            /\ UNCHANGED <<source, lookup, snapshot, outdated, isScanning,
                           savedPOILaunchSnapshot, locks, call>>
            /\ \/ /\ n \in Nat /\ length' = length + n /\ Len(data') = length + n
                  /\ \A i \in 1..length : data'[i] = data[i]
                  /\ \A k \in 1..n : data'[length + k] = call[c].leaves[k]
                  /\ writeQueue' = {g \in writeQueue : g.start # length}
                  /\ Goto(c, IF stage[c] = "write" THEN "insert" ELSE "insertLegacy")
                  /\ UNCHANGED spent
               \/ /\ Happen("error")
                  /\ Continue(c)
                  /\ UNCHANGED <<data, length, writeQueue>>
<1> USE DEF TxidInv
<1> DEFINE first == call[c].position
           leaves == call[c].leaves
           n == Len(leaves)
           size == IF Len(data) < first + n THEN first + n ELSE Len(data)
           written == [i \in 1..size |->
                         IF i \in (first + 1)..(first + n) THEN leaves[i - first]
                         ELSE IF i <= Len(data) THEN data[i] ELSE None]
<1>1. /\ stage[c] \in Writing
      /\ UNCHANGED <<source, lookup, snapshot, outdated, isScanning,
                     savedPOILaunchSnapshot, locks, call>>
  BY DEF Write
<1>2. \/ /\ data' = written /\ length' = first + n
         /\ writeQueue' = {g \in writeQueue : g.start # first}
         /\ Goto(c, IF stage[c] = "write" THEN "insert" ELSE "insertLegacy")
         /\ UNCHANGED spent
      \/ /\ Happen("error") /\ Continue(c)
         /\ UNCHANGED <<data, length, writeQueue>>
  BY DEF Write
<1>3. first = length /\ length \in Nat /\ Len(data) = length
  BY <1>1 DEF TypeOK, Ordered, Holdings, Sent, Kept
<1>4. leaves \in Seq(Tx) /\ n \in Nat /\ \A k \in 1..n : leaves[k] \in Tx
  BY LenProperties, ElementOfSeq DEF TypeOK, CallState
<1> HIDE DEF leaves, n, first
<1>5. size = length + n
  BY <1>3, <1>4
<1>6. written \in [1..(length + n) -> Tx \union {None}]
  <2>1. \A i \in 1..length : data[i] \in Tx \union {None}
    BY <1>3, ElementOfSeq DEF TypeOK
  <2>2. ASSUME NEW i \in 1..(length + n) PROVE written[i] \in Tx \union {None}
    <3>1. CASE i \in (first + 1)..(first + n)
      <4>1. i - first \in 1..n
        BY <1>3, <1>4, <3>1
      <4> QED
        BY <1>4, <1>5, <3>1, <4>1
    <3>2. CASE i \notin (first + 1)..(first + n)
      BY <1>3, <1>4, <1>5, <2>1, <3>2
    <3> QED
      BY <3>1, <3>2
  <2> QED
    BY <1>5, <2>2
<1>7. Len(written) = length + n
  <2>1. length + n \in Nat
    BY <1>3, <1>4
  <2> HIDE DEF written
  <2> QED
    BY <1>6, <2>1, SeqDef, LenProperties
<1>8. \A i \in 1..length : written[i] = data[i]
  <2> SUFFICES ASSUME NEW i \in 1..length PROVE written[i] = data[i]
    OBVIOUS
  <2>1. i \in 1..(length + n) /\ i \notin (first + 1)..(first + n) /\ i <= Len(data)
    BY <1>3, <1>4
  <2> QED
    BY <1>5, <2>1
<1>9. \A k \in 1..n : written[length + k] = leaves[k]
  <2> SUFFICES ASSUME NEW k \in 1..n PROVE written[length + k] = leaves[k]
    OBVIOUS
  <2>1. /\ length + k \in 1..(length + n) /\ length + k \in (first + 1)..(first + n)
        /\ (length + k) - first = k
    BY <1>3, <1>4
  <2>2. written[length + k] = leaves[(length + k) - first]
    BY <1>5, <2>1
  <2> QED
    BY <2>1, <2>2
<1> HIDE DEF written
<1> QED
  BY <1>1, <1>2, <1>3, <1>4, <1>7, <1>8, <1>9 DEF leaves, n

LEMMA WriteOrder ==
  ASSUME TxidInv, Ordered, NEW c \in Caller, Write(c)
  PROVE  Ordered'
<1> USE DEF TxidInv
<1> DEFINE leaves == call[c].leaves
           n == Len(leaves)
<1>1. /\ stage[c] \in Writing
      /\ UNCHANGED <<branch, isPOINode, unbounded, lookup, isScanning, call>>
  BY WriteDoes DEF source
<1>2. \/ /\ n \in Nat /\ length' = length + n /\ Len(data') = length + n
         /\ \A i \in 1..length : data'[i] = data[i]
         /\ \A k \in 1..n : data'[length + k] = leaves[k]
         /\ writeQueue' = {g \in writeQueue : g.start # length}
         /\ Goto(c, IF stage[c] = "write" THEN "insert" ELSE "insertLegacy")
      \/ Continue(c) /\ UNCHANGED <<data, length, writeQueue>>
  BY WriteDoes
<1>3. Active(c) /\ stage[c] \notin Deleting
  BY <1>1 DEF Active, Owners, Syncing, Writing, Deleting
<1>4. CASE Continue(c) /\ UNCHANGED <<data, length, writeQueue>>
  BY <1>1, <1>4, ContinueOrder
<1>5. CASE /\ n \in Nat /\ length' = length + n /\ Len(data') = length + n
           /\ \A i \in 1..length : data'[i] = data[i]
           /\ \A k \in 1..n : data'[length + k] = leaves[k]
           /\ writeQueue' = {g \in writeQueue : g.start # length}
           /\ Goto(c, IF stage[c] = "write" THEN "insert" ELSE "insertLegacy")
  <2>1. PICK next \in Inserting : /\ Goto(c, next)
                                  /\ next \in Splitting => stage[c] \in Splitting
    BY <1>1, <1>5 DEF Inserting, Splitting, Writing
  <2>11. PICK v \in CallState : v = call[c]
    BY DEF TypeOK
  <2>12. call' = [call EXCEPT ![c] = v]
    BY <1>1, <2>11 DEF TypeOK
  <2>2. next \in Stage /\ next \notin Deleting
    BY <2>1 DEF Stage, Syncing, Inserting, Deleting
  <2>3. Sent(next, v)'
    <3>1. Sent(stage[c], v)
      BY <2>11 DEF Ordered, Holdings
    <3>2. next \in Splitting => ~isPOINode /\ Numbered(v.batch, v.start)
      BY <2>1, <3>1 DEF Sent
    <3>3. next \notin {"queue", "request", "handle"} /\ next \notin Writing
      BY <2>1 DEF Inserting, Writing
    <3>4. next \in Splitting => ~isPOINode' /\ Numbered(v.batch, v.start)
      BY <1>1, <3>2
    <3> QED
      BY <2>2, <3>3, <3>4 DEF Sent
  <2>4. \A d \in Caller : d # c => ~Active(d)
    BY <1>3 DEF Ordered, Alone
  <2>5. /\ length \in Nat /\ leaves \in Seq(Tx) /\ \A k \in 1..n : leaves[k] \in Tx
    BY ElementOfSeq DEF TypeOK, CallState
  <2>6. /\ Numbered(leaves, length)
        /\ Backed => \A k \in 1..n : leaves[k] = Source(length + k - 1)
    BY <1>1 DEF Ordered, Holdings, Sent
  <2> HIDE DEF leaves, n
  <2>7. ASSUME NEW i \in 1..length' PROVE InPlace(data'[i], i - 1)
    <3>1. CASE i \in 1..length
      <4>1. \A j : ~Gone(j)
        BY <1>3, OwnerIsNotDeleting, NothingGone DEF Ordered
      <4> QED
        BY <1>5, <3>1, <4>1 DEF Ordered, Kept
    <3>2. CASE i \notin 1..length
      <4>1. i - length \in 1..n /\ i = length + (i - length)
        BY <1>5, <2>5, <3>2
      <4>2. data'[i] = leaves[i - length]
        BY <1>5, <4>1
      <4>3. leaves[i - length] \in Tx
        BY <2>5, <4>1
      <4>4. leaves[i - length].at = length + (i - length) - 1
        BY <2>6, <4>1 DEF Numbered, n
      <4>5. length + (i - length) - 1 = i - 1
        BY <2>5
      <4>6. Backed => leaves[i - length] = Source(i - 1)
        BY <2>6, <4>1, <4>5
      <4> QED
        BY <4>2, <4>3, <4>4, <4>5, <4>6, Numbers DEF InPlace
    <3> QED
      BY <3>1, <3>2
  <2>8. Alone'
    BY <1>1, <1>3, <2>1, <2>2, AloneKept DEF Ordered
  <2>9. QueueNumbered' /\ LookupNumbered'
    BY <1>1, <1>5 DEF Ordered, QueueNumbered, LookupNumbered, Numbered
  <2>10. Len(data') = length'
    BY <1>5
  <2> QED
    BY <1>1, <2>1, <2>2, <2>3, <2>4, <2>7, <2>8, <2>9, <2>10, <2>11, <2>12, OrderWrite
<1> QED
  BY <1>2, <1>4, <1>5
-----------------------------------------------------------------------------
\* The lock is taken and the queue emptied, and nothing is deleted yet
LEMMA ClearLeavesOrder ==
  ASSUME TypeOK, Ordered, NEW c \in Caller, NEW first \in Nat, NEW next \in Deleting,
         ClearLeaves(c, first, next), stage[c] \notin Deleting, Alone',
         UNCHANGED <<branch, isPOINode, unbounded, data, length, lookup>>
  PROVE  Ordered'
<1> DEFINE v == [call[c] EXCEPT !.start = first, !.at = first, !.position = length - 1]
<1>1. call[c] \in CallState /\ length - 1 \in Int
  BY DEF TypeOK
<1>2. call' = [call EXCEPT ![c] = v] /\ Goto(c, next) /\ writeQueue' = {}
  BY DEF ClearLeaves
<1>3. /\ v \in CallState
      /\ v.start = first /\ v.at = first /\ v.position = length - 1
  BY <1>1 DEF CallState
<1> HIDE DEF v
<1>4. next \in Stage
  BY DEF Stage, Holding
<1>5. Sent(next, v)
  BY <1>3 DEF Sent, Splitting, Writing, Deleting
<1>6. QueueNumbered' /\ LookupNumbered'
  BY <1>2 DEF Ordered, QueueNumbered, LookupNumbered
<1> QED
  BY <1>2, <1>3, <1>4, <1>5, <1>6, OrderStep

LEMMA RewindOrder ==
  ASSUME TypeOK, Ordered, NEW c \in Caller, Rewind(c)
  PROVE  Ordered'
<1> DEFINE first == IF length < LeavesToClear THEN 0 ELSE length - LeavesToClear
<1>1. first \in Nat
  BY Numbers DEF TypeOK
<1>2. ClearLeaves(c, first, "rewindDelete")
  BY DEF Rewind
<1> HIDE DEF first
<1>3. /\ UNCHANGED <<branch, isPOINode, unbounded, data, length, lookup>> /\ isScanning' = isScanning
      /\ stage[c] = "rewind"
  BY DEF Rewind, source, disk
<1>4. /\ "rewindDelete" \in Deleting /\ "rewindDelete" \in Stage
      /\ Active(c) /\ stage[c] \notin Deleting /\ Goto(c, "rewindDelete")
  BY <1>2, <1>3 DEF ClearLeaves, Active, Owners, Stage, Syncing, Deleting
<1>5. Alone'
  BY <1>3, <1>4, AloneKept DEF Ordered
<1> QED
  BY <1>1, <1>2, <1>3, <1>4, <1>5, ClearLeavesOrder

LEMMA ResetOrder ==
  ASSUME TypeOK, Ordered, Whole', NEW c \in Caller, Reset(c)
  PROVE  Ordered'
<1>1. PICK first \in Place : ClearLeaves(c, first, "resetDelete")
  BY DEF Reset
<1>2. UNCHANGED <<branch, isPOINode, unbounded, data, length, lookup>> /\ isScanning' = TRUE
  BY DEF Reset, source, disk
<1>3. \A d \in Caller : ~Active(d)
  BY MishapHappens, NobodyOwns DEF Reset, Ordered
<1>4. /\ first \in Nat /\ "resetDelete" \in Deleting /\ "resetDelete" \in Stage
      /\ stage[c] \notin Deleting /\ Goto(c, "resetDelete")
  BY <1>1, Numbers DEF Reset, ClearLeaves, Stage, Holding, Deleting
<1>5. Alone'
  BY <1>2, <1>3, <1>4, AloneTaken
<1> QED
  BY <1>1, <1>2, <1>4, <1>5, ClearLeavesOrder

LEMMA DeleteLeafOrder ==
  ASSUME TypeOK, Ordered, NEW c \in Caller, DeleteLeaf(c)
  PROVE  Ordered'
<1>1. PICK v \in CallState : v = [call[c] EXCEPT !.at = call[c].at + 1]
  <2>1. call[c] \in CallState /\ call[c].at \in Nat
    BY DEF TypeOK, CallState
  <2>2. call[c].at + 1 \in Nat
    BY <2>1
  <2>3. [call[c] EXCEPT !.at = call[c].at + 1] \in CallState
    BY <2>1, <2>2 DEF CallState
  <2> QED
    BY <2>3
<1>2. /\ call' = [call EXCEPT ![c] = v]
      /\ v.start = call[c].start /\ v.at = call[c].at + 1 /\ v.position = call[c].position
      /\ call[c].at \in Nat /\ call[c].start \in Nat
  BY <1>1 DEF DeleteLeaf, TypeOK, CallState
<1>3. PICK next \in Deleting : next = stage[c]
  BY DEF DeleteLeaf
<1>4. /\ Goto(c, next) /\ next \in Stage /\ Active(c)
  BY <1>3 DEF DeleteLeaf, Goto, TypeOK, Active, Owners, Syncing, Deleting
<1>5. /\ UNCHANGED <<branch, isPOINode, unbounded, length, writeQueue, lookup>>
      /\ isScanning' = isScanning
  BY DEF DeleteLeaf, source, memory
<1>6. /\ length \in Nat /\ Len(data) = length /\ DOMAIN data = 1..length
  BY LenProperties DEF TypeOK, Ordered, Kept
<1>7. /\ call[c].start <= call[c].at /\ call[c].position = length - 1
      /\ call[c].at <= length - 1
  BY <1>3 DEF Ordered, Holdings, Sent, DeleteLeaf
<1>8. data' = [i \in 1..length |-> IF i = call[c].at + 1 THEN None ELSE data[i]]
  BY <1>6 DEF DeleteLeaf
<1>9. Len(data') = length'
  <2>1. data' \in [1..length -> Tx \union {None}]
    BY <1>6, <1>8, ElementOfSeq DEF TypeOK
  <2>2. data' \in Seq(Tx \union {None})
    BY <1>6, <2>1, SeqDef
  <2> QED
    BY <1>5, <1>6, <2>1, <2>2, LenProperties
<1>10. \A d \in Caller : d # c => ~Active(d)
  BY <1>4 DEF Ordered, Alone
<1>11. Sent(next, v)'
  <2>1. /\ next \notin Splitting /\ next \notin Writing
        /\ next \notin {"queue", "request", "handle"}
    BY DEF Splitting, Writing, Deleting
  <2>2. v.start <= v.at /\ v.position = length' - 1 /\ v.at <= length'
    BY <1>2, <1>5, <1>6, <1>7
  <2> QED
    BY <2>1, <2>2 DEF Sent
<1>12. ASSUME NEW i \in 1..length'
       PROVE  IF next \in Deleting /\ v.start < i /\ i <= v.at
              THEN data'[i] = None ELSE InPlace(data'[i], i - 1)
  <2>1. i \in 1..length /\ i \in Nat
    BY <1>5, <1>6
  <2>2. Gone(i) <=> call[c].start < i /\ i <= call[c].at
    BY <1>3, <1>4, OwnerHasDeleted DEF Ordered
  <2>3. IF Gone(i) THEN data[i] = None ELSE InPlace(data[i], i - 1)
    BY <2>1 DEF Ordered, Kept
  <2>4. CASE i = call[c].at + 1
    BY <1>2, <1>7, <1>8, <2>1, <2>4
  <2>5. CASE i # call[c].at + 1
    <3>1. data'[i] = data[i]
      BY <1>8, <2>1, <2>5
    <3>2. v.start < i /\ i <= v.at <=> Gone(i)
      BY <1>2, <2>1, <2>2, <2>5
    <3> QED
      BY <2>3, <3>1, <3>2
  <2> QED
    BY <2>4, <2>5
<1>13. Alone'
  BY <1>4, <1>5, AloneKept DEF Ordered
<1> QED
  BY <1>2, <1>4, <1>5, <1>9, <1>10, <1>11, <1>12, <1>13, NumberedStays, OrderWrite

\* What RebuildAndWriteTree leaves on disk: the leaves before the deleted ones
LEMMA RebuildDoes ==
  ASSUME TypeOK, Ordered, NEW c \in Caller, RebuildAndWriteTree(c)
  PROVE  \E n \in Nat : /\ n <= length /\ length' = n
                        /\ data' = SubSeq(data, 1, n) /\ Len(data') = n
                        /\ \A i \in 1..n : /\ data'[i] = data[i]
                                           /\ InPlace(data[i], i - 1)
<1> DEFINE left == {i \in DOMAIN data : data[i] # None}
<1>1. /\ stage[c] \in Deleting /\ call[c].position < call[c].at
      /\ length' = Cardinality(left)
  BY DEF RebuildAndWriteTree
<1>2. PICK n \in 0..Len(data) : /\ left \subseteq 1..n /\ (n = 0 \/ n \in left)
                                /\ data' = SubSeq(data, 1, n)
  BY DEF RebuildAndWriteTree
<1>3. /\ length \in Nat /\ Len(data) = length /\ DOMAIN data = 1..length
      /\ call[c].start \in Nat /\ call[c].at \in Nat
  BY LenProperties DEF TypeOK, CallState, Ordered, Kept
<1>4. call[c].start <= call[c].at /\ length <= call[c].at
  <2>1. call[c].start <= call[c].at /\ call[c].position = length - 1
    BY <1>1 DEF Ordered, Holdings, Sent
  <2> QED
    BY <1>1, <1>3, <2>1
<1>5. Active(c)
  BY <1>1 DEF Active, Owners, Syncing, Deleting
<1>6. \A i \in 1..length : Gone(i) <=> call[c].start < i
  <2> SUFFICES ASSUME NEW i \in 1..length PROVE Gone(i) <=> call[c].start < i
    OBVIOUS
  <2>1. Gone(i) <=> call[c].start < i /\ i <= call[c].at
    BY <1>1, <1>5, OwnerHasDeleted DEF Ordered
  <2>2. i <= call[c].at
    BY <1>3, <1>4
  <2> QED
    BY <2>1, <2>2
<1>7. \A i \in 1..length : /\ call[c].start < i => data[i] = None
                           /\ i <= call[c].start => InPlace(data[i], i - 1)
  <2> SUFFICES ASSUME NEW i \in 1..length
               PROVE  /\ call[c].start < i => data[i] = None
                      /\ i <= call[c].start => InPlace(data[i], i - 1)
    OBVIOUS
  <2>1. IF Gone(i) THEN data[i] = None ELSE InPlace(data[i], i - 1)
    BY DEF Ordered, Kept
  <2>2. i <= call[c].start => ~(call[c].start < i)
    BY <1>3
  <2> QED
    BY <1>6, <2>1, <2>2
<1>8. \A i \in 1..length : i \in left <=> i <= call[c].start
  BY <1>3, <1>7 DEF InPlace
<1>9. n \in Nat /\ n <= length
  BY <1>2, <1>3
<1>10. left = 1..n
  <2>1. \A i \in 1..n : i \in 1..length /\ i <= n
    BY <1>3, <1>9
  <2>2. n # 0 => n \in 1..length /\ n <= call[c].start
    BY <1>2, <1>3, <1>8, <1>9
  <2>3. \A i \in 1..n : i <= call[c].start
    BY <1>3, <1>9, <2>1, <2>2
  <2>4. 1..n \subseteq left
    BY <1>8, <2>1, <2>3
  <2> QED
    BY <1>2, <2>4
<1>11. length' = n
  <2>1. Cardinality(1..n) = IF 1 > n THEN 0 ELSE n - 1 + 1
    BY <1>9, FS_Interval
  <2>2. length' = Cardinality(1..n)
    BY <1>1, <1>10
  <2> QED
    BY <1>9, <2>1, <2>2
<1> HIDE DEF left
<1>12. /\ Len(data') = n /\ \A i \in 1..n : data'[i] = data[i]
  <2>1. \A i \in 1..n : data[i] \in Tx \union {None}
    BY <1>3, <1>9, ElementOfSeq DEF TypeOK
  <2>2. /\ SubSeq(data, 1, n) \in Seq(Tx \union {None})
        /\ Len(SubSeq(data, 1, n)) = IF 1 <= n THEN n - 1 + 1 ELSE 0
    BY <1>3, <1>9, PartOf DEF TypeOK
  <2>3. ASSUME NEW i \in 1..n PROVE SubSeq(data, 1, n)[i] = data[i]
    <3>1. 1 <= n /\ i \in 1..(n - 1 + 1) /\ 1 + i - 1 = i
      BY <1>9
    <3>2. SubSeq(data, 1, n)[i] = data[1 + i - 1]
      BY <1>9, <2>1, <3>1, SubSeqProperties
    <3> QED
      BY <3>1, <3>2
  <2> QED
    BY <1>2, <1>9, <2>2, <2>3
<1>13. \A i \in 1..n : InPlace(data[i], i - 1)
  <2> SUFFICES ASSUME NEW i \in 1..n PROVE InPlace(data[i], i - 1)
    OBVIOUS
  <2>1. i \in 1..length /\ i \in left
    BY <1>3, <1>9, <1>10
  <2> QED
    BY <1>7, <1>8, <2>1
<1> QED
  BY <1>2, <1>9, <1>11, <1>12, <1>13

LEMMA RebuildAndWriteTreeOrder ==
  ASSUME TypeOK, Ordered, NEW c \in Caller, RebuildAndWriteTree(c)
  PROVE  Ordered'
<1>1. /\ stage[c] \in Deleting /\ call' = call
      /\ UNCHANGED <<branch, isPOINode, unbounded, writeQueue, lookup>>
  BY DEF RebuildAndWriteTree, source, queue
<1>2. PICK next \in {"loop", "again"} :
        /\ Goto(c, next)
        /\ isScanning' = isScanning \/ next = "again"
  BY DEF RebuildAndWriteTree
<1>3. /\ next \in Stage /\ next \notin Deleting /\ "again" \notin Owners
      /\ Active(c) /\ \A v : Sent(next, v)'
  BY <1>1 DEF Active, Owners, Stage, Syncing, Inserting, Writing, Splitting, Deleting, Sent
<1>4. Alone'
  BY <1>2, <1>3, AloneKept DEF Ordered
<1>5. \A d \in Caller : d # c => ~Active(d)
  BY <1>3 DEF Ordered, Alone
<1>6. Len(data') = length' /\ \A i \in 1..length' : InPlace(data'[i], i - 1)
  BY RebuildDoes
<1> QED
  BY <1>1, <1>2, <1>3, <1>4, <1>5, <1>6, NumberedStays, CallStays, OrderWrite

LEMMA FullResetOrder ==
  ASSUME TypeOK, Ordered, NEW c \in Caller, FullReset(c)
  PROVE  Ordered'
<1>1. /\ Goto(c, "fullErase") /\ "fullErase" \in Free /\ "fullErase" \in Stage
      /\ stage[c] \notin Deleting
  BY DEF FullReset, Free, Stage, Holding, Erasing, Writing, Splitting, Deleting
<1>2. /\ UNCHANGED <<branch, isPOINode, unbounded, data, length, writeQueue, lookup>>
      /\ ~isScanning /\ isScanning' = TRUE /\ call' = call
  BY DEF FullReset, source, disk, queue
<1>3. Alone'
  BY <1>1, <1>2, NobodyOwns, AloneTaken DEF Ordered
<1> QED
  BY <1>1, <1>2, <1>3, NumberedStays, CallStays, OrderMove

LEMMA LoopOrder ==
  ASSUME TypeOK, Ordered, NEW c \in Caller, Loop(c)
  PROVE  Ordered'
<1> DEFINE v == [NoCall EXCEPT !.page = call[c].page]
<1>1. v \in CallState /\ call' = [call EXCEPT ![c] = v]
  BY NoCallType DEF Loop, TypeOK, NoCall, CallState
<1> HIDE DEF v
<1>2. PICK next \in {"cursor", "end"} : Goto(c, next)
  BY DEF Loop
<1>3. next \in Free /\ next \in Stage /\ Active(c) /\ stage[c] \notin Deleting
  BY DEF Loop, Active, Owners, Free, Stage, Syncing, Inserting, Writing, Splitting, Deleting
<1>4. /\ UNCHANGED <<branch, isPOINode, unbounded, data, length, writeQueue, lookup>>
      /\ isScanning' = isScanning
  BY DEF Loop, source, disk, memory
<1>5. Alone'
  BY <1>2, <1>3, <1>4, AloneKept DEF Ordered
<1> QED
  BY <1>1, <1>2, <1>3, <1>4, <1>5, NumberedStays, OrderMove

\* A call that ends or throws
LEMMA ReturnOrder ==
  ASSUME TypeOK, Ordered, NEW c \in Caller, End(c) \/ Fail(c)
  PROVE  Ordered'
<1>1. /\ Goto(c, "idle") /\ call' = [call EXCEPT ![c] = NoCall]
      /\ UNCHANGED <<branch, isPOINode, unbounded, data, length, writeQueue, lookup>>
  BY DEF End, Fail, Return, source, disk, queue
<1>2. /\ "idle" \in Free /\ "idle" \in Stage /\ "idle" \notin Owners
      /\ stage[c] \notin Deleting
  BY DEF End, Fail, Owners, Free, Stage, Syncing, Inserting, Writing, Splitting, Deleting
<1>3. Alone'
  <2>1. CASE Active(c)
    BY <1>1, <1>2, <2>1, AloneKept DEF Ordered
  <2>2. CASE ~Active(c)
    <3>1. isScanning' = isScanning
      BY <2>2 DEF End, Fail, Active, Owners, Syncing, TypeOK
    <3> QED
      BY <1>1, <1>2, <2>2, <3>1, AloneOut DEF Ordered
  <2> QED
    BY <2>1, <2>2
<1> QED
  BY <1>1, <1>2, <1>3, NoCallType, NumberedStays, OrderMove

\* A clear that throws has deleted nothing, unless it is a mishap
LEMMA FailClearOrder ==
  ASSUME TypeOK, Ordered, Whole', NEW c \in Caller, FailClear(c)
  PROVE  Ordered'
<1>1. /\ Goto(c, "idle") /\ call' = [call EXCEPT ![c] = NoCall]
      /\ UNCHANGED <<branch, isPOINode, unbounded, data, length, writeQueue, lookup>>
      /\ stage[c] \in Holding
  BY DEF FailClear, Return, source, disk, queue
<1>2. /\ "idle" \in Free /\ "idle" \in Stage /\ "idle" \notin Owners
      /\ "idle" \notin Deleting /\ \A v : Sent("idle", v)'
  BY DEF Owners, Free, Stage, Syncing, Inserting, Writing, Splitting, Deleting, Sent
<1>3. Alone'
  <2>1. CASE Active(c)
    BY <1>1, <1>2, <2>1, AloneKept DEF Ordered
  <2>2. CASE ~Active(c)
    <3>1. isScanning' = isScanning
      BY <2>2 DEF FailClear, Active, Owners, Syncing, TypeOK
    <3> QED
      BY <1>1, <1>2, <2>2, <3>1, AloneOut DEF Ordered
  <2> QED
    BY <2>1, <2>2
<1>4. CASE stage[c] \notin Deleting
  BY <1>1, <1>2, <1>3, <1>4, NoCallType, NumberedStays, OrderMove
<1>5. CASE stage[c] \in Deleting
  <2>1. ~(call[c].start < call[c].at)
    BY <1>5, MishapHappens DEF FailClear
  <2>2. Active(c) /\ call[c].start \in Nat /\ call[c].at \in Nat
    BY <1>5 DEF Active, Owners, Syncing, Deleting, TypeOK, CallState
  <2>3. \A i \in Nat : ~Gone(i)
    BY <2>1, <2>2, OwnerHasDeleted DEF Ordered
  <2>4. \A d \in Caller : d # c => ~Active(d)
    BY <2>2 DEF Ordered, Alone
  <2>5. length \in Nat /\ \A i \in 1..length : i \in Nat
    BY DEF TypeOK
  <2>6. Len(data') = length' /\ \A i \in 1..length' : InPlace(data'[i], i - 1)
    BY <1>1, <2>3, <2>5 DEF Ordered, Kept
  <2> QED
    BY <1>1, <1>2, <1>3, <2>4, <2>6, NoCallType, NumberedStays, OrderWrite
<1> QED
  BY <1>4, <1>5

LEMMA CrashOrder ==
  ASSUME TypeOK, Ordered, Whole', Crash
  PROVE  Ordered'
<1>1. /\ UNCHANGED <<branch, isPOINode, unbounded, data, length, lookup>> /\ writeQueue' = {}
      /\ stage' = [c \in Caller |-> "idle"] /\ isScanning' = FALSE
  BY DEF Crash, source, disk
<1>2. \A c \in Caller : stage[c] \notin Deleting
  BY MishapHappens DEF Crash
<1>3. "idle" \notin Owners /\ "idle" \notin Deleting
  BY DEF Owners, Syncing, Inserting, Writing, Deleting
<1>4. Alone'
  BY <1>1, <1>3 DEF Alone, Active
<1>5. Holdings'
  BY <1>1 DEF Holdings, Sent, Splitting, Writing, Deleting
<1>6. Kept'
  <2>1. \A i : ~Gone(i)
    BY <1>2, NothingGone
  <2>2. \A i : ~Gone(i)'
    BY <1>1, <1>3 DEF Gone
  <2>3. \A i \in 1..length : InPlace(data[i], i - 1)' <=> InPlace(data[i], i - 1)
    BY <1>1 DEF InPlace, Source, Backed, Indexed
  <2> QED
    BY <1>1, <2>1, <2>2, <2>3 DEF Ordered, Kept
<1>7. QueueNumbered' /\ LookupNumbered'
  BY <1>1 DEF Ordered, QueueNumbered, LookupNumbered
<1> QED
  BY <1>4, <1>5, <1>6, <1>7 DEF Ordered

\* A re-org replaces nothing that a wallet has: that is validated
LEMMA SourceOrder ==
  ASSUME TxidInv, Ordered, UNCHANGED <<isPOINode, unbounded, disk, memory, stage, call>>,
         branch' = branch \/ isPOINode \/ validated < Fork
  PROVE  Ordered'
<1> USE DEF TxidInv
<1>1. /\ UNCHANGED <<isPOINode, data, length, lookup, writeQueue, isScanning, stage, call>>
      /\ Backed' <=> Backed
  BY DEF disk, memory, Backed, Indexed
<1>2. /\ length \in Nat /\ validated \in Nat /\ Fork \in Nat
      /\ Backed => ~isPOINode /\ Allowed = validated + 1
  BY Numbers DEF TypeOK, Backed, Indexed, Allowed
<1>3. ASSUME Backed, NEW i \in Int, i <= validated
      PROVE  Source(i)' = Source(i)
  BY <1>2, <1>3 DEF Source
<1>4. Alone' /\ LatestTransaction' = LatestTransaction
  BY <1>1 DEF Ordered, Alone, Active, LatestTransaction
<1>5. Kept'
  <2>1. ASSUME NEW i \in 1..length
        PROVE  InPlace(data[i], i - 1)' <=> InPlace(data[i], i - 1)
    <3>1. Backed => i - 1 \in Int /\ i - 1 <= validated
      BY <1>2 DEF Behind, Stored
    <3> QED
      BY <1>1, <1>3, <3>1 DEF InPlace
  <2>2. \A i : Gone(i)' <=> Gone(i)
    BY <1>1 DEF Gone
  <2> QED
    BY <1>1, <2>1, <2>2 DEF Ordered, Kept
<1>6. Holdings'
  <2> SUFFICES ASSUME NEW c \in Caller PROVE Sent(stage[c], call[c])'
    BY DEF Holdings
  <2>1. Sent(stage[c], call[c])
    BY DEF Ordered, Holdings
  <2>2. ASSUME Backed, stage[c] \in Writing, NEW k \in 1..Len(call[c].leaves)
        PROVE  Source(call[c].position + k - 1)' = Source(call[c].position + k - 1)
    <3>1. /\ call[c].position \in Int /\ Len(call[c].leaves) \in Nat
      BY LenProperties DEF TypeOK, CallState
    <3>2. call[c].position + Len(call[c].leaves) <= validated + 1
      BY <1>2, <2>2 DEF Calls, Held
    <3>3. /\ call[c].position + k - 1 \in Int
          /\ call[c].position + k - 1 <= validated
      BY <1>2, <3>1, <3>2
    <3>4. PICK i \in Int : i = call[c].position + k - 1
      BY <3>3
    <3>5. Source(i)' = Source(i)
      BY <1>3, <2>2, <3>3, <3>4
    <3> QED
      BY <1>1, <3>4, <3>5 DEF Source
  <2> QED
    BY <1>1, <1>4, <2>1, <2>2 DEF Sent, Numbered
<1>7. QueueNumbered' /\ LookupNumbered'
  BY <1>1 DEF Ordered, QueueNumbered, LookupNumbered, Numbered
<1> QED
  BY <1>4, <1>5, <1>6, <1>7 DEF Ordered

\* A step counts at most one of what is bounded
LEMMA SpentStep ==
  ASSUME [Next]_vars
  PROVE  spent' = spent \/ \E kind \in Bounded : Count(kind)
<1>3. \A kind \in Fault : Happen(kind) => \E k \in Bounded : Count(k)
  BY DEF Happen, Bounded
<1>4. \A kind \in Bounded : \A limit : Spend(kind, limit) => \E k \in Bounded : Count(k)
  BY DEF Spend
<1>5. ASSUME NEW c \in Caller, SyncStep(c)
      PROVE  spent' = spent \/ \E k \in Bounded : Count(k)
  <2>1. CASE Erase(c) \/ UpgradeVersion(c) \/ Guard(c) \/ ReadCursor(c) \/ Request(c) \/ HandleNew(c)
    BY <1>3, <2>1 DEF Erase, UpgradeVersion, Guard, ReadCursor, Request, HandleNew,
                      LatestValidated, Bounded, Fault
  <2>2. CASE Queue(c) \/ SaveSnapshot(c) \/ QueueRest(c) \/ Insert(c) \/ Write(c)
    <3>1. CASE Queue(c)
      BY <3>1 DEF Queue
    <3>2. CASE SaveSnapshot(c) \/ QueueRest(c)
      BY <3>2 DEF SaveSnapshot, QueueRest
    <3>3. CASE Insert(c)
      BY <1>3, <3>3, InsertDoes DEF Fault
    <3>4. CASE Write(c)
      BY <1>3, <3>4 DEF Write, Fault
    <3> QED
      BY <2>2, <3>1, <3>2, <3>3, <3>4
  <2>3. CASE Rewind(c) \/ DeleteLeaf(c) \/ RebuildAndWriteTree(c) \/ Loop(c) \/ End(c)
    BY <2>3 DEF Rewind, DeleteLeaf, RebuildAndWriteTree, Loop, End
  <2> QED
    BY <1>5, <2>1, <2>2, <2>3 DEF SyncStep
<1>6. ASSUME NEW c \in Caller,
             SyncCall(c) \/ Reset(c) \/ FullReset(c) \/ Fail(c) \/ FailClear(c)
      PROVE  spent' = spent \/ \E k \in Bounded : Count(k)
  BY <1>3, <1>4, <1>6 DEF SyncCall, Reset, FullReset, Fail, FailClear, Bounded, Fault
<1>7. CASE NewTransaction \/ Validate \/ SyncUTXOs \/ Reorg
  BY <1>4, <1>7 DEF NewTransaction, Validate, SyncUTXOs, Reorg, Bounded
<1>8. CASE Crash
  BY <1>3, <1>8 DEF Crash, Fault
<1>9. CASE UNCHANGED vars
  BY <1>9 DEF vars
<1> QED
  BY <1>5, <1>6, <1>7, <1>8, <1>9 DEF Next

\* A tree that is whole, and insertions that went well, were so before
LEMMA WholeBefore ==
  ASSUME TypeOK, [Next]_vars
  PROVE  (Whole' => Whole) /\ (Smooth' => Smooth)
<1>1. CASE \E kind \in Bounded : Count(kind)
  <2>1. PICK kind \in Bounded : Count(kind)
    BY <1>1
  <2>2. \A k \in Bounded : spent[k] \in Nat /\ spent'[k] \in Nat /\ spent[k] <= spent'[k]
    BY <2>1 DEF Count, TypeOK
  <2>3. {"mishap", "reject", "error"} \subseteq Bounded
    BY DEF Bounded, Fault
  <2> QED
    BY <2>2, <2>3 DEF Whole, Smooth
<1>2. CASE spent' = spent
  BY <1>2 DEF Whole, Smooth
<1> QED
  BY <1>1, <1>2, SpentStep

LEMMA InitOrder == Init => Ordered
<1> SUFFICES ASSUME Init PROVE Ordered
  OBVIOUS
<1>1. \A c \in Caller : stage[c] = "idle"
  BY DEF Init
<1>2. Alone /\ Holdings
  BY <1>1 DEF Alone, Active, Owners, Syncing, Inserting, Writing, Splitting, Deleting,
              Holdings, Sent
<1>3. Kept
  BY EmptySeq DEF Init, Kept
<1>4. QueueNumbered /\ LookupNumbered
  BY DEF Init, QueueNumbered, LookupNumbered
<1> QED
  BY <1>2, <1>3, <1>4 DEF Ordered

LEMMA NextOrder ==
  ASSUME TxidInv, Ordered, [Next]_vars, Whole'
  PROVE  Ordered'
<1> USE DEF TxidInv
<1>1. ASSUME NEW c \in Caller, SyncStep(c) PROVE Ordered'
  <2>1. Erase(c) \/ UpgradeVersion(c) \/ Guard(c) \/ ReadCursor(c) \/ Request(c)
          \/ HandleNew(c) \/ Queue(c) \/ SaveSnapshot(c) => Ordered'
    BY EraseOrder, UpgradeVersionOrder, GuardOrder, ReadCursorOrder, RequestOrder,
       HandleNewOrder, QueueOrder, SaveSnapshotOrder
  <2>2. QueueRest(c) \/ Insert(c) \/ Write(c) \/ Rewind(c) \/ DeleteLeaf(c)
          \/ RebuildAndWriteTree(c) \/ Loop(c) \/ End(c) => Ordered'
    BY QueueRestOrder, InsertOrder, WriteOrder, RewindOrder, DeleteLeafOrder,
       RebuildAndWriteTreeOrder, LoopOrder, ReturnOrder
  <2> QED
    BY <1>1, <2>1, <2>2 DEF SyncStep
<1>2. ASSUME NEW c \in Caller,
             SyncCall(c) \/ Reset(c) \/ FullReset(c) \/ Fail(c) \/ FailClear(c)
      PROVE  Ordered'
  BY <1>2, SyncCallOrder, ResetOrder, FullResetOrder, ReturnOrder, FailClearOrder
<1>3. CASE NewTransaction \/ Validate \/ SyncUTXOs \/ Reorg
  BY <1>3, SourceOrder DEF NewTransaction, Validate, SyncUTXOs, Reorg
<1>4. CASE Crash
  BY <1>4, CrashOrder
<1>5. CASE UNCHANGED vars
  BY <1>5, SourceOrder DEF vars, source
<1> QED
  BY <1>1, <1>2, <1>3, <1>4, <1>5 DEF Next

\* Calls that own isScanning take turns, and what they hold follows the tree
THEOREM LeavesFollow == Spec => []OrderInv
<1>1. Init => OrderInv
  BY InitOrder DEF OrderInv
<1>2. TxidInv /\ OrderInv /\ [Next]_vars => OrderInv'
  BY NextOrder, WholeBefore DEF OrderInv, TxidInv
<1> QED
  BY <1>1, <1>2, Invariant, PTL DEF Spec

\* Once nothing is being deleted, no leaf is missing
LEMMA LeavesInPlace ==
  ASSUME Ordered, ~Changing
  PROVE  Len(data) = length /\ \A i \in 1..length : InPlace(data[i], i - 1)
<1>1. \A i : ~Gone(i)
  BY NothingGone DEF Changing, Holding
<1> QED
  BY <1>1 DEF Ordered, Kept

(* Every leaf is at its place, none is missing and none is there twice: a POI
   node, or a wallet that was told no index, has some transaction of each place,
   another wallet the ones of the chain.
   For any number of calls, errors, rejected roots, re-orgs and restarts, as
   long as none of those befalls a tree that is half deleted.                 *)
THEOREM LeavesStayInOrder == Spec => []LeavesInOrder
<1>1. OrderInv /\ TypeOK => LeavesInOrder
  <2> SUFFICES ASSUME OrderInv, TypeOK, Whole, ~Changing,
                      NEW i \in 1..length
               PROVE  /\ i <= Len(data) /\ data[i] # None
                      /\ IF ~isPOINode /\ Indexed
                         THEN data[i] = Source(i - 1) ELSE data[i].at = i - 1
    BY DEF LeavesInOrder
  <2>1. Len(data) = length /\ InPlace(data[i], i - 1) /\ length \in Nat
    BY LeavesInPlace DEF OrderInv, TypeOK
  <2> QED
    BY <2>1 DEF InPlace, Backed
<1> QED
  BY <1>1, LeavesFollow, Types, PTL
-----------------------------------------------------------------------------
(* The history of a POI node.  It queues one group per transaction, and as long
   as no insertion fails the queue holds what is left of the batch in hand.     *)

Updating == Inserting \union Writing

Onward(txs, previous) ==
  \A k \in 1..Len(txs) : Follows(txs[k], IF k = 1 THEN previous ELSE txs[k - 1])

Linked == \A i \in 1..(length - 1) :
            data[i] # None /\ data[i + 1] # None => Follows(data[i + 1], data[i])

\* the batch of v is in the tree as far as done, and the rest is queued behind it
Remaining(v, done) ==
  /\ done \in Nat /\ done <= Len(v.batch) /\ length = v.start + done
  /\ writeQueue = {[start |-> v.start + k - 1, leaves |-> <<v.batch[k]>>] :
                     k \in (done + 1)..Len(v.batch)}
  /\ \A k \in (done + 1)..Len(v.batch) :
       Follows(v.batch[k], IF k = done + 1 THEN LatestTransaction ELSE v.batch[k - 1])

Pending(at, v) ==
  /\ at = "queue" => Onward(v.batch, LatestTransaction)
  /\ at \in Updating => Remaining(v, length - v.start)
  /\ at \in Writing => /\ length - v.start < Len(v.batch)
                       /\ v.leaves = <<v.batch[length - v.start + 1]>>

NothingLeft == (\A c \in Caller : stage[c] \notin Updating) => writeQueue = {}

History == Linked /\ NothingLeft /\ \A c \in Caller : Pending(stage[c], call[c])

HistoryInv == isPOINode /\ Whole /\ Smooth => History
-----------------------------------------------------------------------------
LEMMA ErrorBreaks ==
  ASSUME TypeOK, Happen("error")
  PROVE  ~Smooth'
BY DEF TypeOK, Happen, Count, Smooth, Bounded, Fault

LEMMA FailClearBreaks ==
  ASSUME TypeOK, NEW c \in Caller, FailClear(c)
  PROVE  ~Whole' \/ ~Smooth'
<1>1. Happen("mishap") \/ Happen("error")
  BY DEF FailClear
<1> QED
  BY <1>1, MishapHappens, ErrorBreaks

LEMMA IdleHasNothingPending ==
  ASSUME NEW at, at \notin {"queue"} \union Updating
  PROVE  \A v : Pending(at, v)
BY DEF Updating, Pending

\* The tree and the queue stay, and c has nothing to do with them
LEMMA HistoryAside ==
  ASSUME TypeOK, History, NEW c \in Caller, NEW next \in Stage, NEW v \in CallState,
         Goto(c, next), call' = [call EXCEPT ![c] = v],
         stage[c] \notin Updating, next \notin {"queue"} \union Updating,
         UNCHANGED <<data, length, writeQueue>>
  PROVE  History'
<1>1. stage'[c] = next /\ call'[c] = v
  BY DEF TypeOK, Goto
<1>2. \A d \in Caller : d # c => stage'[d] = stage[d] /\ call'[d] = call[d]
  BY DEF TypeOK, Goto
<1>3. LatestTransaction' = LatestTransaction
  BY DEF LatestTransaction
<1>4. \A d \in Caller : Pending(stage'[d], call'[d])
  BY <1>1, <1>2, IdleHasNothingPending DEF History
<1>5. \A d \in Caller : Pending(stage[d], call[d])'
  BY <1>3, <1>4 DEF Pending, Remaining, Onward
<1>6. Linked'
  BY DEF History, Linked
<1>7. NothingLeft'
  BY <1>1, <1>2 DEF History, NothingLeft
<1> QED
  BY <1>5, <1>6, <1>7 DEF History

\* The only call that owns isScanning goes on
LEMMA HistoryAlone ==
  ASSUME TypeOK, NEW c \in Caller, NEW next \in Stage, NEW v \in CallState,
         Goto(c, next), call' = [call EXCEPT ![c] = v],
         \A d \in Caller : d # c => ~Active(d),
         Linked', Pending(next, v)', next \notin Updating => writeQueue' = {}
  PROVE  History'
<1>1. stage'[c] = next /\ call'[c] = v
  BY DEF TypeOK, Goto
<1>2. \A d \in Caller : d # c => stage'[d] \notin Owners
  BY DEF TypeOK, Goto, Active
<1>3. \A d \in Caller : d # c => stage'[d] \notin {"queue"} \union Updating
  BY <1>2 DEF Owners, Syncing, Updating
<1>4. ASSUME NEW d \in Caller PROVE Pending(stage[d], call[d])'
  <2>1. CASE d = c
    BY <1>1, <2>1 DEF Pending, Remaining, Onward
  <2>2. CASE d # c
    BY <1>3, <2>2 DEF Pending, Updating
  <2> QED
    BY <2>1, <2>2
<1>5. NothingLeft'
  BY <1>1 DEF NothingLeft
<1> QED
  BY <1>4, <1>5 DEF History

LEMMA OwnerLeavesNothing ==
  ASSUME Alone, NothingLeft, NEW c \in Caller, Active(c), stage[c] \notin Updating
  PROVE  writeQueue = {} /\ \A d \in Caller : d # c => ~Active(d)
BY DEF Alone, NothingLeft, Active, Owners, Syncing, Updating

\* Steps that leave the tree and the queue
LEMMA AsideDoes ==
  ASSUME TypeOK, NEW c \in Caller,
         \/ SyncCall(c) \/ UpgradeVersion(c) \/ Guard(c) \/ ReadCursor(c) \/ Request(c)
         \/ Loop(c) \/ End(c) \/ FullReset(c)
  PROVE  /\ UNCHANGED <<source, data, length, writeQueue>> /\ stage[c] \notin Updating
         /\ \E next \in {"upgradeErase", "guard", "idle", "cursor", "request", "end",
                         "handle", "fullErase"} :
              Goto(c, next) /\ (next = "handle" => stage[c] = "request")
         /\ \E v \in CallState : call' = [call EXCEPT ![c] = v]
<1>1. UNCHANGED <<source, data, length, writeQueue>> /\ stage[c] \notin Updating
  BY DEF SyncCall, UpgradeVersion, Guard, ReadCursor, Request, Loop, End, FullReset, disk,
         tree, memory, queue, Updating, Inserting, Writing
<1>2. \E next \in {"upgradeErase", "guard", "idle", "cursor", "request", "end", "handle",
                   "fullErase"} : Goto(c, next) /\ (next = "handle" => stage[c] = "request")
  BY DEF SyncCall, UpgradeVersion, Guard, ReadCursor, Request, Loop, End, FullReset, Return
<1>3. \E v \in CallState : call' = [call EXCEPT ![c] = v]
  <2>1. CASE SyncCall(c) \/ UpgradeVersion(c) \/ Guard(c) \/ FullReset(c)
    <3>1. call' = call
      BY <2>1 DEF SyncCall, UpgradeVersion, Guard, FullReset
    <3> QED
      BY <3>1, CallStays
  <2>2. CASE ReadCursor(c)
    <3>1. PICK latest \in {LatestTransaction, None} : call' = [call EXCEPT ![c].cursor = latest]
      BY <2>2 DEF ReadCursor
    <3>2. [call[c] EXCEPT !.cursor = latest] \in CallState
      BY LatestType DEF TypeOK, CallState
    <3> QED
      BY <3>1, <3>2
  <2>3. CASE Request(c)
    <3>1. call[c] \in CallState /\ call[c].cursor \in Tx \union {None}
      BY DEF TypeOK, CallState
    <3> DEFINE page == Page(call[c].cursor)
    <3>2. page \in Seq(Tx) /\ call' = [call EXCEPT ![c].page = page]
      BY <2>3, <3>1, PageType DEF Request
    <3> HIDE DEF page
    <3>3. [call[c] EXCEPT !.page = page] \in CallState
      BY <3>1, <3>2 DEF CallState
    <3> QED
      BY <3>2, <3>3
  <2>4. CASE Loop(c)
    <3>1. [NoCall EXCEPT !.page = call[c].page] \in CallState
      BY NoCallType DEF TypeOK, CallState
    <3>2. call' = [call EXCEPT ![c] = [NoCall EXCEPT !.page = call[c].page]]
      BY <2>4 DEF Loop, TypeOK, NoCall
    <3> QED
      BY <3>1, <3>2
  <2>5. CASE End(c)
    BY <2>5, NoCallType DEF End, Return
  <2> QED
    BY <2>1, <2>2, <2>3, <2>4, <2>5
<1> QED
  BY <1>1, <1>2, <1>3

LEMMA AsideHistory ==
  ASSUME TypeOK, History, NEW c \in Caller,
         \/ SyncCall(c) \/ UpgradeVersion(c) \/ Guard(c) \/ ReadCursor(c) \/ Request(c)
         \/ Loop(c) \/ End(c) \/ FullReset(c)
  PROVE  History'
<1>1. UNCHANGED <<data, length, writeQueue>> /\ stage[c] \notin Updating
  BY AsideDoes
<1>2. PICK next \in {"upgradeErase", "guard", "idle", "cursor", "request", "end", "handle",
                     "fullErase"} : Goto(c, next)
  BY AsideDoes
<1>3. next \in Stage /\ next \notin {"queue"} \union Updating
  BY DEF Stage, Syncing, Holding, Erasing, Updating, Inserting, Writing
<1>4. \E v \in CallState : call' = [call EXCEPT ![c] = v]
  BY AsideDoes
<1> QED
  BY <1>1, <1>2, <1>3, <1>4, HistoryAside

LEMMA EraseHistory ==
  ASSUME TypeOK, Ordered, History, Whole', NEW c \in Caller, Erase(c)
  PROVE  History'
<1>1. PICK next \in {"again", "upgradeVersion"} : Goto(c, next)
  BY DEF Erase
<1>2. UNCHANGED <<writeQueue, call>> /\ length' = 0
  BY DEF Erase, queue
<1>3. writeQueue = {} /\ \A d \in Caller : d # c => ~Active(d)
  <2>1. CASE stage[c] = "fullErase"
    <3>1. Active(c) /\ stage[c] \notin Updating
      BY <2>1 DEF Active, Owners, Updating, Inserting, Writing
    <3> QED
      BY <3>1, OwnerLeavesNothing DEF Ordered, History
  <2>2. CASE stage[c] # "fullErase"
    <3>1. ~isScanning \/ Stuck
      BY <2>2, MishapBreaks DEF Erase
    <3>2. \A d \in Caller : ~Active(d)
      BY <3>1, NobodyOwns DEF Ordered
    <3>3. \A d \in Caller : stage[d] \notin Updating
      BY <3>2 DEF Active, Owners, Syncing, Updating
    <3> QED
      BY <3>2, <3>3 DEF History, NothingLeft
  <2> QED
    BY <2>1, <2>2
<1>4. next \in Stage /\ next \notin Updating /\ \A v : Pending(next, v)'
  BY DEF Stage, Updating, Inserting, Writing, Pending
<1>5. Linked'
  BY <1>2 DEF Linked
<1> QED
  BY <1>1, <1>2, <1>3, <1>4, <1>5, CallStays, HistoryAlone

LEMMA HandleNewHistory ==
  ASSUME TypeOK, Ordered, History, NEW c \in Caller, HandleNew(c)
  PROVE  History'
<1> DEFINE page == call[c].page
<1>1. call[c] \in CallState /\ page \in Seq(Tx) /\ Len(page) \in Nat
  BY LenProperties DEF TypeOK, CallState
<1>2. PICK limit \in Place \union {None} :
        IF ShouldAdd(limit)
        THEN \E n \in 0..Len(page) :
               /\ \A k \in 1..n : Known(c, k) /\ Expected(c, k)
               /\ call' = [call EXCEPT ![c].limit = limit,
                                       ![c].batch = SubSeq(page, 1, n),
                                       ![c].mismatch = n < Len(page) /\ Known(c, n + 1)]
               /\ Goto(c, "queue")
        ELSE Goto(c, "loop") /\ UNCHANGED call
  BY DEF HandleNew
<1>3. UNCHANGED <<data, length, writeQueue>> /\ stage[c] = "handle"
  BY DEF HandleNew, disk, memory
<1>4. Active(c) /\ stage[c] \notin Updating
  BY <1>3 DEF Active, Owners, Syncing, Updating, Inserting, Writing
<1>5. CASE ShouldAdd(limit)
  <2>1. PICK n \in 0..Len(page) :
          /\ \A k \in 1..n : Known(c, k) /\ Expected(c, k)
          /\ call' = [call EXCEPT ![c].limit = limit,
                                  ![c].batch = SubSeq(page, 1, n),
                                  ![c].mismatch = n < Len(page) /\ Known(c, n + 1)]
          /\ Goto(c, "queue")
    BY <1>2, <1>5
  <2> DEFINE m == n < Len(page) /\ Known(c, n + 1)
             batch == SubSeq(page, 1, n)
  <2>2. n \in Nat /\ n <= Len(page) /\ 1 \in Nat /\ 1 <= 1
    BY <1>1
  <2>3. batch \in Seq(Tx) /\ Len(batch) = n /\ \A k \in 1..n : batch[k] = page[k]
    <3> HIDE DEF page
    <3>1. batch \in Seq(Tx) /\ Len(batch) = IF 1 <= n THEN n - 1 + 1 ELSE 0
      BY <1>1, <2>2, PartOf
    <3>2. \A i \in 1..n : page[i] \in Tx
      BY <1>1, <2>2, ElementOfSeq
    <3>3. ASSUME NEW k \in 1..n PROVE batch[k] = page[k]
      <4>1. 1 <= n /\ k \in 1..(n - 1 + 1) /\ 1 + k - 1 = k
        BY <2>2
      <4>2. batch[k] = page[1 + k - 1]
        BY <2>2, <3>2, <4>1, SubSeqProperties
      <4> QED
        BY <4>1, <4>2
    <3> QED
      BY <2>2, <3>1, <3>3
  <2>4. call[c].cursor = LatestTransaction
    BY <1>3 DEF Ordered, Holdings, Sent
  <2>5. \A k \in 1..n :
          Follows(page[k], IF k = 1 THEN LatestTransaction ELSE page[k - 1])
    BY <2>1, <2>4 DEF Expected
  <2> HIDE DEF page, batch
  <2>6. Onward(batch, LatestTransaction)
    <3>1. ASSUME NEW k \in 1..n
          PROVE  Follows(batch[k], IF k = 1 THEN LatestTransaction ELSE batch[k - 1])
      <4>1. k # 1 => k - 1 \in 1..n
        BY <2>2
      <4> QED
        BY <2>3, <2>5, <4>1
    <3> QED
      BY <2>3, <3>1 DEF Onward
  <2>7. PICK v \in CallState : v = [call[c] EXCEPT !.limit = limit, !.batch = batch, !.mismatch = m]
    <3>1. m \in BOOLEAN
      OBVIOUS
    <3> HIDE DEF m
    <3> QED
      BY <1>1, <1>2, <2>3, <3>1 DEF CallState
  <2>8. call' = [call EXCEPT ![c] = v] /\ v.batch = batch
    BY <1>1, <2>1, <2>7 DEF batch, CallState
  <2> HIDE DEF m
  <2>9. LatestTransaction' = LatestTransaction
    BY <1>3 DEF LatestTransaction
  <2>10. Pending("queue", v)'
    BY <2>6, <2>8, <2>9 DEF Pending, Onward, Updating, Inserting, Writing
  <2>11. Linked'
    BY <1>3 DEF History, Linked
  <2>12. "queue" \in Stage
    BY DEF Stage, Syncing
  <2> QED
    BY <1>3, <1>4, <2>1, <2>8, <2>10, <2>11, <2>12, OwnerLeavesNothing, HistoryAlone
       DEF Ordered, History
<1>6. CASE ~ShouldAdd(limit)
  <2>1. Goto(c, "loop") /\ call' = call
    BY <1>2, <1>6
  <2>2. "loop" \in Stage /\ "loop" \notin {"queue"} \union Updating
    BY DEF Stage, Syncing, Updating, Inserting, Writing
  <2> QED
    BY <1>3, <1>4, <2>1, <2>2, CallStays, HistoryAside
<1> QED
  BY <1>5, <1>6
-----------------------------------------------------------------------------
\* A POI node queues every transaction by itself
LEMMA QueuedAlone ==
  ASSUME TypeOK, isPOINode, writeQueue = {}, NEW txs \in Seq(Tx)
  PROVE  Queued(txs, length) =
           {[start |-> length + k - 1, leaves |-> <<txs[k]>>] : k \in 1..Len(txs)}
<1> DEFINE single(k) == [start |-> length + k - 1, leaves |-> <<txs[k]>>]
           ranges == {r \in (1..Len(txs)) \X (1..Len(txs)) :
                        /\ r[1] <= r[2] /\ length <= length + r[1] - 1
                        /\ r[1] = 1 \/ TRUE
                        /\ \A k \in (r[1] + 1)..r[2] : ~TRUE
                        /\ r[2] = Len(txs) \/ TRUE}
           group(r) == [start |-> length + r[1] - 1, leaves |-> SubSeq(txs, r[1], r[2])]
<1>1. Len(txs) \in Nat /\ length \in Nat
  BY LenProperties DEF TypeOK
<1>2. Queued(txs, length) = {group(r) : r \in ranges}
  BY DEF Queued
<1>3. \A k \in 1..Len(txs) : SubSeq(txs, k, k) = <<txs[k]>>
  <2> SUFFICES ASSUME NEW k \in 1..Len(txs) PROVE SubSeq(txs, k, k) = <<txs[k]>>
    OBVIOUS
  <2>1. k \in Nat /\ 1 <= k /\ k <= Len(txs) /\ txs[k] \in Tx
    BY <1>1, ElementOfSeq
  <2>2. /\ SubSeq(txs, k, k) \in Seq(Tx) /\ Len(SubSeq(txs, k, k)) = 1
    BY <1>1, <2>1, PartOf
  <2>3. SubSeq(txs, k, k)[1] = txs[k]
    <3>1. \A i \in k..k : txs[i] \in Tx
      BY <2>1
    <3>2. 1 \in 1..(k - k + 1) /\ k + 1 - 1 = k
      BY <2>1
    <3>3. SubSeq(txs, k, k)[1] = txs[k + 1 - 1]
      BY <2>1, <3>1, <3>2, SubSeqProperties
    <3> QED
      BY <3>2, <3>3
  <2>4. /\ <<txs[k]>> \in Seq(Tx) /\ Len(<<txs[k]>>) = 1 /\ <<txs[k]>>[1] = txs[k]
        /\ \A i \in 1..1 : i = 1
    BY <2>1
  <2> DEFINE one == <<txs[k]>>
             part == SubSeq(txs, k, k)
  <2>5. \A i \in 1..Len(part) : part[i] = one[i]
    BY <2>2, <2>3, <2>4
  <2> HIDE DEF one, part
  <2>6. part \in Seq(Tx) /\ one \in Seq(Tx) /\ Len(part) = Len(one)
    BY <2>2, <2>4 DEF one, part
  <2>7. part = one
    BY <2>5, <2>6, SeqEqual
  <2> QED
    BY <2>7 DEF one, part
<1>4. \A r \in ranges : r[1] = r[2]
  <2> SUFFICES ASSUME NEW r \in ranges PROVE r[1] = r[2]
    OBVIOUS
  <2>1. r[1] \in Nat /\ r[2] \in Nat /\ r[1] <= r[2]
    BY <1>1
  <2>2. ~(r[1] + 1 \in (r[1] + 1)..r[2])
    OBVIOUS
  <2> QED
    BY <2>1, <2>2
<1>5. \A k \in 1..Len(txs) : <<k, k>> \in ranges
  BY <1>1
<1>6. \A r \in ranges : r[1] \in 1..Len(txs) /\ group(r) = single(r[1])
  BY <1>3, <1>4
<1>7. \A k \in 1..Len(txs) : group(<<k, k>>) = single(k)
  BY <1>3
<1> HIDE DEF ranges, group, single
<1>8. {group(r) : r \in ranges} = {single(k) : k \in 1..Len(txs)}
  BY <1>5, <1>6, <1>7
<1> QED
  BY <1>2, <1>8 DEF single

LEMMA QueueHistory ==
  ASSUME TypeOK, Ordered, isPOINode, History, NEW c \in Caller, Queue(c)
  PROVE  History'
<1> DEFINE whole == call[c].batch
<1>1. PICK n \in 0..Len(whole), m \in Nat :
    LET batch == SubSeq(whole, 1, n)
    IN /\ batch \in Seq(Tx) /\ Len(batch) = n
       /\ call' = [call EXCEPT ![c].batch = batch, ![c].start = length, ![c].at = length + m]
       /\ \/ /\ \E next \in {"rewind", "loop"} : Goto(c, next)
             /\ UNCHANGED <<writeQueue, lookup>>
          \/ /\ writeQueue' = Queued(batch, length)
             /\ Goto(c, "insert")
  BY QueueDoes
<1> DEFINE batch == SubSeq(whole, 1, n)
<1>2. call[c] \in CallState /\ whole \in Seq(Tx) /\ Len(whole) \in Nat /\ length \in Nat
  BY LenProperties DEF TypeOK, CallState
<1>3. stage[c] = "queue" /\ UNCHANGED <<data, length>>
  BY DEF Queue, tree
<1>4. Active(c) /\ stage[c] \notin Updating
  BY <1>3 DEF Active, Owners, Syncing, Updating, Inserting, Writing
<1>5. writeQueue = {} /\ \A d \in Caller : d # c => ~Active(d)
  BY <1>4, OwnerLeavesNothing DEF Ordered, History
<1>6. Onward(whole, LatestTransaction)
  BY <1>3 DEF History, Pending
<1>7. n \in Nat /\ n <= Len(whole) /\ \A k \in 1..n : batch[k] = whole[k]
  <2>1. n \in Nat /\ n <= Len(whole)
    BY <1>2
  <2> HIDE DEF whole
  <2>2. \A i \in 1..n : whole[i] \in Tx
    BY <1>2, <2>1, ElementOfSeq
  <2>3. ASSUME NEW k \in 1..n PROVE batch[k] = whole[k]
    <3>1. 1 <= n /\ k \in 1..(n - 1 + 1) /\ 1 + k - 1 = k /\ 1 \in Nat
      BY <2>1
    <3>2. batch[k] = whole[1 + k - 1]
      BY <2>1, <2>2, <3>1, SubSeqProperties
    <3> QED
      BY <3>1, <3>2
  <2> QED
    BY <2>1, <2>3
<1>8. batch \in Seq(Tx) /\ Len(batch) = n
  BY <1>1
<1>9. \A k \in 1..n : Follows(batch[k], IF k = 1 THEN LatestTransaction ELSE batch[k - 1])
  <2> SUFFICES ASSUME NEW k \in 1..n
               PROVE  Follows(batch[k], IF k = 1 THEN LatestTransaction ELSE batch[k - 1])
    OBVIOUS
  <2>1. k \in 1..Len(whole) /\ (k # 1 => k - 1 \in 1..n)
    BY <1>2, <1>7
  <2>2. Follows(whole[k], IF k = 1 THEN LatestTransaction ELSE whole[k - 1])
    BY <1>6, <2>1 DEF Onward
  <2> QED
    BY <1>7, <2>1, <2>2
<1> HIDE DEF batch
<1>10. PICK v \in CallState : /\ call' = [call EXCEPT ![c] = v]
                              /\ v.batch = batch /\ v.start = length
  <2>1. [call[c] EXCEPT !.batch = batch, !.start = length, !.at = length + m] \in CallState
    <3>1. call[c] \in CallState /\ batch \in Seq(Tx) /\ length \in Nat /\ length + m \in Nat
      BY <1>2, <1>8
    <3> QED
      BY <3>1 DEF CallState
  <2>2. call' = [call EXCEPT ![c].batch = batch, ![c].start = length, ![c].at = length + m]
    BY <1>1 DEF batch
  <2> QED
    BY <1>2, <2>1, <2>2 DEF CallState
<1> HIDE DEF whole
<1>11. LatestTransaction' = LatestTransaction /\ Linked'
  BY <1>3 DEF LatestTransaction, History, Linked
<1>12. CASE \E next \in {"rewind", "loop"} : Goto(c, next) /\ UNCHANGED writeQueue
  <2>1. PICK next \in {"rewind", "loop"} : Goto(c, next) /\ UNCHANGED writeQueue
    BY <1>12
  <2>2. next \in Stage /\ next \notin {"queue"} \union Updating
    BY DEF Stage, Syncing, Updating, Inserting, Writing
  <2>3. Pending(next, v)'
    BY <2>2 DEF Pending, Updating
  <2> QED
    BY <1>5, <1>10, <1>11, <2>1, <2>2, <2>3, HistoryAlone
<1>13. CASE writeQueue' = Queued(batch, length) /\ Goto(c, "insert")
  <2>1. writeQueue' =
          {[start |-> length + k - 1, leaves |-> <<batch[k]>>] : k \in 1..Len(batch)}
    BY <1>5, <1>8, <1>13, QueuedAlone
  <2>2. length' - v.start = 0 /\ length' = v.start + 0 /\ (0 + 1)..Len(v.batch) = 1..n
    BY <1>2, <1>3, <1>8, <1>10
  <2>3. Remaining(v, 0)'
    <3>1. writeQueue' = {[start |-> v.start + k - 1, leaves |-> <<v.batch[k]>>] :
                           k \in (0 + 1)..Len(v.batch)}
      BY <1>8, <1>10, <2>1, <2>2
    <3>2. \A k \in (0 + 1)..Len(v.batch) :
            Follows(v.batch[k],
                    IF k = 0 + 1 THEN LatestTransaction' ELSE v.batch[k - 1])
      BY <1>9, <1>10, <1>11, <2>2
    <3>3. 0 \in Nat /\ 0 <= Len(v.batch)
      BY <1>7, <1>8, <1>10
    <3> QED
      BY <2>2, <3>1, <3>2, <3>3 DEF Remaining
  <2>4. Pending("insert", v)'
    BY <2>2, <2>3 DEF Pending, Writing
  <2>5. "insert" \in Stage /\ "insert" \in Updating
    BY DEF Stage, Syncing, Updating, Inserting
  <2> QED
    BY <1>5, <1>10, <1>11, <1>13, <2>4, <2>5, HistoryAlone
<1> QED
  BY <1>1, <1>12, <1>13 DEF batch
-----------------------------------------------------------------------------
InHand(v, done) == Remaining(v, done) /\ done = length - v.start

LEMMA UpdaterHasInHand ==
  ASSUME TypeOK, History, NEW c \in Caller, stage[c] \in Updating
  PROVE  \E v \in CallState, done \in Nat : v = call[c] /\ InHand(v, done)
<1>1. call[c] \in CallState
  BY DEF TypeOK
<1>2. PICK v \in CallState : v = call[c]
  BY <1>1
<1>3. Remaining(v, length - v.start)
  BY <1>2 DEF History, Pending
<1>4. PICK done \in Nat : done = length - v.start
  BY <1>3 DEF Remaining
<1> QED
  BY <1>2, <1>3, <1>4 DEF InHand

LEMMA InsertHistory ==
  ASSUME TypeOK, Ordered, isPOINode, History, Smooth', NEW c \in Caller, Insert(c)
  PROVE  History'
<1>1. /\ stage[c] \in Inserting /\ UNCHANGED <<data, length>>
      /\ writeQueue' = {g \in writeQueue : length <= g.start}
  BY InsertDoes DEF disk
<1>2. stage[c] \in Updating /\ Active(c)
  BY <1>1 DEF Updating, Active, Owners, Syncing
<1>3. \A d \in Caller : d # c => ~Active(d)
  BY <1>2 DEF Ordered, Alone
<1>4. PICK v \in CallState, done \in Nat : v = call[c] /\ InHand(v, done)
  BY <1>2, UpdaterHasInHand
<1>5. v.start \in Nat /\ length \in Nat /\ Len(v.batch) \in Nat
  BY LenProperties DEF TypeOK, CallState
<1>6. /\ done <= Len(v.batch) /\ length = v.start + done /\ length - v.start = done
      /\ writeQueue = {[start |-> v.start + k - 1, leaves |-> <<v.batch[k]>>] :
                         k \in (done + 1)..Len(v.batch)}
  BY <1>4 DEF InHand, Remaining
<1>7. \A g \in writeQueue : \E k \in (done + 1)..Len(v.batch) :
        g.start = v.start + k - 1 /\ g.leaves = <<v.batch[k]>>
  BY <1>6
<1>8. writeQueue' = writeQueue
  <2>1. \A g \in writeQueue : length <= g.start
    <3> SUFFICES ASSUME NEW g \in writeQueue PROVE length <= g.start
      OBVIOUS
    <3>1. PICK k \in (done + 1)..Len(v.batch) : g.start = v.start + k - 1
      BY <1>7
    <3> QED
      BY <1>5, <1>6, <3>1
  <2> QED
    BY <1>1, <2>1
<1>9. LatestTransaction' = LatestTransaction /\ Linked'
  BY <1>1 DEF LatestTransaction, History, Linked
<1>10. CASE Continue(c) /\ UNCHANGED call /\ \A g \in writeQueue' : g.start # length
  <2>1. writeQueue' = {}
    <3>1. \A k \in (done + 1)..Len(v.batch) : k # done + 1
      <4> SUFFICES ASSUME NEW k \in (done + 1)..Len(v.batch) PROVE k # done + 1
        OBVIOUS
      <4> DEFINE g == [start |-> v.start + k - 1, leaves |-> <<v.batch[k]>>]
      <4>1. g \in writeQueue /\ g.start = v.start + k - 1
        BY <1>6
      <4>2. g.start # length
        BY <1>8, <1>10, <4>1
      <4> HIDE DEF g
      <4> QED
        BY <1>5, <1>6, <4>1, <4>2
    <3>2. (done + 1)..Len(v.batch) = {}
      BY <1>5, <1>6, <3>1
    <3> QED
      BY <1>6, <1>8, <3>2
  <2>2. PICK next \in {"snapshot", "rewind", "loop"} : Goto(c, next)
    BY <1>10 DEF Continue
  <2>3. next \in Stage /\ next \notin {"queue"} \union Updating
    BY DEF Stage, Syncing, Updating, Inserting, Writing
  <2>5. call[c] \in CallState /\ call' = [call EXCEPT ![c] = call[c]] /\ call' = call
    BY <1>10, CallStays
  <2>6. PICK w \in CallState : w = call[c]
    BY <2>5
  <2>7. Pending(next, w)'
    BY <2>3 DEF Pending, Updating
  <2> QED
    BY <1>3, <1>9, <2>1, <2>2, <2>3, <2>5, <2>6, <2>7, HistoryAlone
<1>11. CASE \E g \in writeQueue' :
              /\ g.start = length
              /\ call' = [call EXCEPT ![c].leaves = g.leaves, ![c].position = length]
              /\ Goto(c, IF stage[c] = "insert" THEN "write" ELSE "writeLegacy")
  <2>1. PICK g \in writeQueue :
          /\ g.start = length
          /\ call' = [call EXCEPT ![c].leaves = g.leaves, ![c].position = length]
          /\ Goto(c, IF stage[c] = "insert" THEN "write" ELSE "writeLegacy")
    BY <1>8, <1>11
  <2>2. PICK k \in (done + 1)..Len(v.batch) :
          g.start = v.start + k - 1 /\ g.leaves = <<v.batch[k]>>
    BY <1>7
  <2>3. k = done + 1 /\ done < Len(v.batch)
    <3>1. v.start \in Nat /\ Len(v.batch) \in Nat
      BY LenProperties DEF CallState
    <3>2. length = v.start + done /\ length = v.start + k - 1
      BY <1>6, <2>1, <2>2
    <3> QED
      BY <2>2, <3>1, <3>2
  <2> DEFINE leaves == g.leaves
  <2>4. leaves \in Seq(Tx)
    BY DEF TypeOK, Group
  <2> HIDE DEF leaves
  <2>5. PICK w \in CallState : /\ call' = [call EXCEPT ![c] = w]
                               /\ w.leaves = leaves /\ w.batch = v.batch /\ w.start = v.start
    <3>1. [v EXCEPT !.leaves = leaves, !.position = length] \in CallState
      <4>1. leaves \in Seq(Tx) /\ length \in Int
        BY <1>5, <2>4
      <4> QED
        BY <4>1 DEF CallState
    <3>2. call' = [call EXCEPT ![c] = [v EXCEPT !.leaves = leaves, !.position = length]]
      BY <1>4, <2>1 DEF leaves
    <3> QED
      BY <3>1, <3>2 DEF CallState
  <2>6. length' = length /\ length - w.start = done
    BY <1>1, <1>6, <2>5
  <2>7. Remaining(w, done)'
    <3>1. Remaining(w, done)
      BY <1>4, <2>5 DEF InHand, Remaining
    <3> QED
      BY <1>1, <1>8, <1>9, <3>1 DEF Remaining
  <2>8. w.leaves = <<w.batch[done + 1]>> /\ done < Len(w.batch)
    BY <2>2, <2>3, <2>5 DEF leaves
  <2>9. PICK next \in Writing : Goto(c, next)
    BY <2>1 DEF Writing
  <2>10. next \in Stage /\ next \in Updating /\ next # "queue"
    BY DEF Stage, Syncing, Updating, Writing
  <2>11. Pending(next, w)'
    <3>1. Remaining(w, length - w.start)'
      BY <2>6, <2>7
    <3> QED
      BY <2>6, <2>8, <2>10, <3>1 DEF Pending
  <2> QED
    BY <1>3, <1>9, <2>5, <2>9, <2>10, <2>11, HistoryAlone
<1> QED
  BY <1>10, <1>11, InsertDoes, ErrorBreaks
-----------------------------------------------------------------------------
LEMMA WriteHistory ==
  ASSUME TxidInv, Ordered, isPOINode, History, Smooth', NEW c \in Caller, Write(c)
  PROVE  History'
<1> USE DEF TxidInv
<1> DEFINE n == Len(call[c].leaves)
<1>1. /\ stage[c] \in Writing /\ UNCHANGED call
      /\ n \in Nat /\ length' = length + n /\ Len(data') = length + n
      /\ \A i \in 1..length : data'[i] = data[i]
      /\ \A k \in 1..n : data'[length + k] = call[c].leaves[k]
      /\ writeQueue' = {g \in writeQueue : g.start # length}
      /\ \E next \in Inserting : Goto(c, next)
  BY WriteDoes, ErrorBreaks DEF Inserting
<1>2. stage[c] \in Updating /\ Active(c) /\ \A d \in Caller : stage[d] \notin Deleting
  <2>1. stage[c] \in Updating /\ Active(c) /\ stage[c] \notin Deleting
    BY <1>1 DEF Updating, Active, Owners, Syncing, Writing, Deleting
  <2> QED
    BY <2>1, OwnerIsNotDeleting DEF Ordered
<1>3. \A d \in Caller : d # c => ~Active(d)
  BY <1>2 DEF Ordered, Alone
<1>4. PICK v \in CallState, done \in Nat : v = call[c] /\ InHand(v, done)
  BY <1>2, UpdaterHasInHand
<1>5. v.start \in Nat /\ length \in Nat /\ Len(v.batch) \in Nat /\ Len(data) = length
  BY LenProperties DEF TypeOK, CallState, Ordered, Kept
<1>6. /\ done <= Len(v.batch) /\ length = v.start + done /\ length - v.start = done
      /\ writeQueue = {[start |-> v.start + k - 1, leaves |-> <<v.batch[k]>>] :
                         k \in (done + 1)..Len(v.batch)}
      /\ \A k \in (done + 1)..Len(v.batch) :
           Follows(v.batch[k], IF k = done + 1 THEN LatestTransaction ELSE v.batch[k - 1])
  BY <1>4 DEF InHand, Remaining
<1>7. done < Len(v.batch) /\ v.leaves = <<v.batch[done + 1]>>
  <2>1. Pending(stage[c], call[c])
    BY DEF History
  <2> QED
    BY <1>1, <1>4, <1>6, <2>1 DEF Pending
<1>8. n = 1 /\ length' = length + 1 /\ data'[length + 1] = v.batch[done + 1]
  <2>1. n = 1 /\ v.leaves[1] = v.batch[done + 1] /\ 1 \in 1..1
    BY <1>4, <1>7
  <2> QED
    BY <1>1, <1>4, <2>1
<1> HIDE DEF n
<1>9. LatestTransaction' = v.batch[done + 1]
  <2>1. length' \in 1..Len(data')
    BY <1>1, <1>5, <1>8
  <2> QED
    BY <1>8, <2>1 DEF LatestTransaction
<1>10. Linked'
  <2> SUFFICES ASSUME NEW i \in 1..(length' - 1), data'[i] # None, data'[i + 1] # None
               PROVE  Follows(data'[i + 1], data'[i])
    BY DEF Linked, Follows
  <2>1. i \in 1..length /\ data'[i] = data[i]
    BY <1>1, <1>5, <1>8
  <2>2. CASE i < length
    <3>1. i \in 1..(length - 1) /\ i + 1 \in 1..length
      BY <1>5, <2>1, <2>2
    <3>2. data'[i + 1] = data[i + 1]
      BY <1>1, <3>1
    <3> QED
      BY <2>1, <3>1, <3>2 DEF History, Linked
  <2>3. CASE ~(i < length)
    <3>1. i = length /\ length # 0
      BY <1>5, <2>1, <2>3
    <3>2. LatestTransaction = data[length]
      BY <1>2, <3>1, LatestIsLast DEF Ordered
    <3>3. done + 1 \in (done + 1)..Len(v.batch)
      BY <1>5, <1>7
    <3>4. Follows(v.batch[done + 1], LatestTransaction)
      BY <1>6, <3>3
    <3> QED
      BY <1>8, <2>1, <3>1, <3>2, <3>4
  <2> QED
    BY <2>2, <2>3
<1>11. PICK next \in Inserting : Goto(c, next)
  BY <1>1
<1>12. next \in Stage /\ next \in Updating /\ next \notin Writing /\ next # "queue"
  BY DEF Stage, Syncing, Inserting, Updating, Writing
<1>13. PICK more \in Nat : more = done + 1
  OBVIOUS
<1>14. Remaining(v, more)'
  <2>1. more <= Len(v.batch) /\ length' = v.start + more
    BY <1>5, <1>6, <1>7, <1>8, <1>13
  <2>2. writeQueue' = {[start |-> v.start + k - 1, leaves |-> <<v.batch[k]>>] :
                         k \in (more + 1)..Len(v.batch)}
    <3> DEFINE group(k) == [start |-> v.start + k - 1, leaves |-> <<v.batch[k]>>]
    <3>1. \A k \in (done + 1)..Len(v.batch) :
            group(k).start # length <=> k \in (more + 1)..Len(v.batch)
      <4> SUFFICES ASSUME NEW k \in (done + 1)..Len(v.batch)
                   PROVE  group(k).start # length <=> k \in (more + 1)..Len(v.batch)
        OBVIOUS
      <4>1. group(k).start = v.start + k - 1
        OBVIOUS
      <4> HIDE DEF group
      <4> QED
        BY <1>5, <1>6, <1>13, <4>1
    <3>2. (more + 1)..Len(v.batch) \subseteq (done + 1)..Len(v.batch)
      BY <1>5, <1>13
    <3>3. writeQueue = {group(k) : k \in (done + 1)..Len(v.batch)}
      BY <1>6
    <3> HIDE DEF group
    <3>4. writeQueue' = {group(k) : k \in (more + 1)..Len(v.batch)}
      BY <1>1, <3>1, <3>2, <3>3
    <3> QED
      BY <3>4 DEF group
  <2>3. \A k \in (more + 1)..Len(v.batch) :
          Follows(v.batch[k],
                  IF k = more + 1 THEN LatestTransaction' ELSE v.batch[k - 1])
    <3> SUFFICES ASSUME NEW k \in (more + 1)..Len(v.batch)
                 PROVE  Follows(v.batch[k],
                                IF k = more + 1 THEN LatestTransaction' ELSE v.batch[k - 1])
      OBVIOUS
    <3>1. k \in (done + 1)..Len(v.batch) /\ k # done + 1 /\ (k = more + 1 => k - 1 = done + 1)
      BY <1>5, <1>13
    <3>2. Follows(v.batch[k], v.batch[k - 1])
      BY <1>6, <3>1
    <3> QED
      BY <1>9, <3>1, <3>2
  <2> QED
    BY <2>1, <2>2, <2>3 DEF Remaining, Follows
<1>15. Pending(next, v)'
  <2>1. length' - v.start = more
    BY <1>5, <1>6, <1>8, <1>13
  <2>2. Remaining(v, length - v.start)'
    BY <1>14, <2>1
  <2> QED
    BY <1>12, <2>2 DEF Pending
<1>16. call' = [call EXCEPT ![c] = v]
  BY <1>1, <1>4, CallStays
<1> QED
  BY <1>3, <1>10, <1>11, <1>12, <1>15, <1>16, HistoryAlone
-----------------------------------------------------------------------------
LEMMA ClearLeavesHistory ==
  ASSUME TypeOK, History, NEW c \in Caller, NEW first \in Nat, NEW next \in Deleting,
         ClearLeaves(c, first, next), \A d \in Caller : d # c => ~Active(d),
         UNCHANGED <<data, length>>
  PROVE  History'
<1>1. writeQueue' = {} /\ Goto(c, next)
  BY DEF ClearLeaves
<1>2. \E v \in CallState : call' = [call EXCEPT ![c] = v]
  <2>1. call[c] \in CallState /\ length - 1 \in Int
    BY DEF TypeOK
  <2>2. [call[c] EXCEPT !.start = first, !.at = first, !.position = length - 1] \in CallState
    BY <2>1 DEF CallState
  <2>3. call' = [call EXCEPT ![c] = [call[c] EXCEPT !.start = first, !.at = first,
                                                    !.position = length - 1]]
    BY DEF ClearLeaves
  <2> QED
    BY <2>2, <2>3
<1>3. next \in Stage /\ next \notin {"queue"} \union Updating
  BY DEF Deleting, Stage, Holding, Updating, Inserting, Writing
<1>4. Linked' /\ \A v : Pending(next, v)'
  BY <1>3 DEF History, Linked, Pending, Updating
<1> QED
  BY <1>1, <1>2, <1>3, <1>4, HistoryAlone

LEMMA ClearingHistory ==
  ASSUME TypeOK, Ordered, History, Whole', NEW c \in Caller, Rewind(c) \/ Reset(c)
  PROVE  History'
<1>1. CASE Rewind(c)
  <2> DEFINE first == IF length < LeavesToClear THEN 0 ELSE length - LeavesToClear
  <2>1. first \in Nat
    BY Numbers DEF TypeOK
  <2>2. /\ ClearLeaves(c, first, "rewindDelete") /\ "rewindDelete" \in Deleting
        /\ UNCHANGED <<data, length>> /\ Active(c)
    BY <1>1 DEF Rewind, disk, Deleting, Active, Owners, Syncing
  <2> HIDE DEF first
  <2>3. \A d \in Caller : d # c => ~Active(d)
    BY <2>2 DEF Ordered, Alone
  <2> QED
    BY <2>1, <2>2, <2>3, ClearLeavesHistory
<1>2. CASE Reset(c)
  <2>1. PICK first \in Place : ClearLeaves(c, first, "resetDelete")
    BY <1>2 DEF Reset
  <2>2. first \in Nat /\ "resetDelete" \in Deleting /\ UNCHANGED <<data, length>>
    BY <1>2, Numbers DEF Reset, disk, Deleting
  <2>3. ~isScanning \/ Stuck
    BY <1>2, MishapHappens DEF Reset
  <2>4. \A d \in Caller : ~Active(d)
    BY <2>3, NobodyOwns DEF Ordered
  <2> QED
    BY <2>1, <2>2, <2>4, ClearLeavesHistory
<1> QED
  BY <1>1, <1>2

\* What is left after leaves have been deleted
LEMMA DeletingLinked ==
  ASSUME TypeOK, Ordered, Linked, NEW c \in Caller, DeleteLeaf(c) \/ RebuildAndWriteTree(c)
  PROVE  Linked'
<1>1. CASE DeleteLeaf(c)
  <2> SUFFICES ASSUME NEW i \in 1..(length' - 1), data'[i] # None, data'[i + 1] # None
               PROVE  Follows(data'[i + 1], data'[i])
    BY DEF Linked, Follows
  <2>1. length' = length /\ length \in Nat /\ DOMAIN data = 1..length
    BY <1>1, LenProperties DEF DeleteLeaf, TypeOK, Ordered, Kept
  <2>2. i \in DOMAIN data /\ i + 1 \in DOMAIN data /\ i \in 1..(length - 1)
    BY <2>1
  <2>3. \A j \in DOMAIN data : data'[j] # None => data'[j] = data[j]
    BY <1>1 DEF DeleteLeaf
  <2> QED
    BY <2>2, <2>3 DEF Linked
<1>2. CASE RebuildAndWriteTree(c)
  <2>1. PICK n \in Nat : /\ n <= length /\ length' = n
                         /\ \A i \in 1..n : data'[i] = data[i]
    BY <1>2, RebuildDoes
  <2> SUFFICES ASSUME NEW i \in 1..(n - 1), data'[i] # None, data'[i + 1] # None
               PROVE  Follows(data'[i + 1], data'[i])
    BY <2>1 DEF Linked, Follows
  <2>2. i \in 1..n /\ i + 1 \in 1..n /\ i \in 1..(length - 1)
    BY <2>1 DEF TypeOK
  <2> QED
    BY <2>1, <2>2 DEF Linked
<1> QED
  BY <1>1, <1>2

LEMMA DeletingHistory ==
  ASSUME TypeOK, Ordered, History, NEW c \in Caller, DeleteLeaf(c) \/ RebuildAndWriteTree(c)
  PROVE  History'
<1>1. stage[c] \in Deleting /\ writeQueue' = writeQueue
  BY DEF DeleteLeaf, RebuildAndWriteTree, memory, queue
<1>2. Active(c) /\ stage[c] \notin Updating
  BY <1>1 DEF Active, Owners, Syncing, Deleting, Updating, Inserting, Writing
<1>3. writeQueue = {} /\ \A d \in Caller : d # c => ~Active(d)
  BY <1>2, OwnerLeavesNothing DEF Ordered, History
<1>4. CASE DeleteLeaf(c)
  <2>1. PICK next \in Deleting : next = stage[c]
    BY <1>1
  <2>2. Goto(c, next) /\ next \in Stage
    BY <1>4, <2>1 DEF DeleteLeaf, Goto, TypeOK
  <2>3. \E v \in CallState : call' = [call EXCEPT ![c] = v]
    <3>1. call[c] \in CallState /\ call[c].at + 1 \in Nat
      BY DEF TypeOK, CallState
    <3>2. [call[c] EXCEPT !.at = call[c].at + 1] \in CallState
      BY <3>1 DEF CallState
    <3>3. call' = [call EXCEPT ![c] = [call[c] EXCEPT !.at = call[c].at + 1]]
      BY <1>4 DEF DeleteLeaf, TypeOK
    <3> QED
      BY <3>2, <3>3
  <2>4. next \notin {"queue"} \union Updating
    BY DEF Deleting, Updating, Inserting, Writing
  <2>5. Linked'
    BY <1>4, DeletingLinked DEF History
  <2>6. \A v : Pending(next, v)'
    BY <2>4 DEF Pending, Updating
  <2> QED
    BY <1>1, <1>3, <2>2, <2>3, <2>5, <2>6, HistoryAlone
<1>5. CASE RebuildAndWriteTree(c)
  <2>1. PICK next \in {"loop", "again"} : Goto(c, next)
    BY <1>5 DEF RebuildAndWriteTree
  <2>2. call' = call /\ next \in Stage /\ next \notin {"queue"} \union Updating
    BY <1>5 DEF RebuildAndWriteTree, Stage, Syncing, Updating, Inserting, Writing
  <2>3. Linked'
    BY <1>5, DeletingLinked DEF History
  <2>4. \A v : Pending(next, v)'
    BY <2>2 DEF Pending, Updating
  <2> QED
    BY <1>1, <1>3, <2>1, <2>2, <2>3, <2>4, CallStays, HistoryAlone
<1> QED
  BY <1>4, <1>5
-----------------------------------------------------------------------------
LEMMA CrashHistory ==
  ASSUME History, Crash
  PROVE  History'
<1>1. /\ UNCHANGED <<data, length>> /\ writeQueue' = {}
      /\ \A c \in Caller : stage'[c] = "idle"
  BY DEF Crash, disk
<1>2. \A c \in Caller : Pending(stage[c], call[c])'
  BY <1>1 DEF Pending, Updating, Inserting, Writing
<1>3. Linked' /\ NothingLeft'
  BY <1>1 DEF History, Linked, NothingLeft
<1> QED
  BY <1>2, <1>3 DEF History

\* Nothing of it depends on what the source has
LEMMA SourceHistory ==
  ASSUME History, UNCHANGED <<disk, memory, stage, call>>
  PROVE  History'
<1>1. UNCHANGED <<data, length, writeQueue, stage, call>>
  BY DEF disk, memory
<1>2. LatestTransaction' = LatestTransaction
  BY <1>1 DEF LatestTransaction
<1>3. \A c \in Caller : Pending(stage[c], call[c])'
  BY <1>1, <1>2 DEF History, Pending, Onward, Remaining
<1>4. Linked' /\ NothingLeft'
  BY <1>1 DEF History, Linked, NothingLeft
<1> QED
  BY <1>1, <1>3, <1>4 DEF History

\* Only wallets save a snapshot
LEMMA NoSplitting ==
  ASSUME Ordered, isPOINode, NEW c \in Caller
  PROVE  ~SaveSnapshot(c) /\ ~QueueRest(c)
BY DEF Ordered, Holdings, Sent, Splitting, SaveSnapshot, QueueRest

LEMMA SameEngine ==
  ASSUME [Next]_vars
  PROVE  isPOINode' = isPOINode
<1>1. ASSUME NEW c \in Caller, SyncStep(c) PROVE isPOINode' = isPOINode
  <2>1. CASE Erase(c) \/ UpgradeVersion(c) \/ Guard(c) \/ ReadCursor(c) \/ Request(c)
               \/ HandleNew(c)
    BY <2>1 DEF Erase, UpgradeVersion, Guard, ReadCursor, Request, HandleNew, source
  <2>2. CASE Queue(c) \/ SaveSnapshot(c) \/ QueueRest(c)
    BY <2>2 DEF Queue, SaveSnapshot, QueueRest, source
  <2>3. CASE Insert(c) \/ Write(c)
    BY <2>3 DEF Insert, Write, source
  <2>4. CASE Rewind(c) \/ DeleteLeaf(c) \/ RebuildAndWriteTree(c) \/ Loop(c) \/ End(c)
    BY <2>4 DEF Rewind, DeleteLeaf, RebuildAndWriteTree, Loop, End, source
  <2> QED
    BY <1>1, <2>1, <2>2, <2>3, <2>4 DEF SyncStep
<1>2. ASSUME NEW c \in Caller,
             SyncCall(c) \/ Reset(c) \/ FullReset(c) \/ Fail(c) \/ FailClear(c)
      PROVE  isPOINode' = isPOINode
  BY <1>2 DEF SyncCall, Reset, FullReset, Fail, FailClear, source
<1>3. CASE NewTransaction \/ Validate \/ SyncUTXOs \/ Reorg \/ Crash \/ UNCHANGED vars
  BY <1>3 DEF NewTransaction, Validate, SyncUTXOs, Reorg, Crash, vars, source
<1> QED
  BY <1>1, <1>2, <1>3 DEF Next

LEMMA IndexedBefore ==
  ASSUME TypeOK, [Next]_vars, Indexed'
  PROVE  Indexed
<1>1. ASSUME NEW c \in Caller, SyncStep(c) PROVE Indexed
  <2>1. CASE Queue(c)
    BY <2>1, UnboundedGrows DEF Queue, Indexed, TypeOK
  <2>2. CASE \/ Erase(c) \/ UpgradeVersion(c) \/ Guard(c) \/ ReadCursor(c) \/ Request(c)
             \/ HandleNew(c) \/ SaveSnapshot(c) \/ QueueRest(c)
    BY <2>2 DEF Erase, UpgradeVersion, Guard, ReadCursor, Request, HandleNew, SaveSnapshot,
                QueueRest, source, Indexed
  <2>3. CASE Insert(c) \/ Write(c)
    BY <2>3 DEF Insert, Write, source, Indexed
  <2>4. CASE Rewind(c) \/ DeleteLeaf(c) \/ RebuildAndWriteTree(c) \/ Loop(c) \/ End(c)
    BY <2>4 DEF Rewind, DeleteLeaf, RebuildAndWriteTree, Loop, End, source, Indexed
  <2> QED
    BY <1>1, <2>1, <2>2, <2>3, <2>4 DEF SyncStep
<1>2. ASSUME NEW c \in Caller,
             SyncCall(c) \/ Reset(c) \/ FullReset(c) \/ Fail(c) \/ FailClear(c)
      PROVE  Indexed
  BY <1>2 DEF SyncCall, Reset, FullReset, Fail, FailClear, source, Indexed
<1>3. CASE NewTransaction \/ Validate \/ SyncUTXOs \/ Reorg \/ Crash \/ UNCHANGED vars
  BY <1>3 DEF NewTransaction, Validate, SyncUTXOs, Reorg, Crash, vars, source, Indexed
<1> QED
  BY <1>1, <1>2, <1>3 DEF Next

LEMMA NextHistory ==
  ASSUME TxidInv, Ordered, isPOINode, History, [Next]_vars, Whole', Smooth'
  PROVE  History'
<1> USE DEF TxidInv
<1>1. ASSUME NEW c \in Caller, SyncStep(c) PROVE History'
  <2>1. UpgradeVersion(c) \/ Guard(c) \/ ReadCursor(c) \/ Request(c) \/ Loop(c) \/ End(c)
          => History'
    BY AsideHistory
  <2>2. Erase(c) \/ HandleNew(c) \/ Queue(c) \/ Insert(c) \/ Write(c) => History'
    BY EraseHistory, HandleNewHistory, QueueHistory, InsertHistory, WriteHistory
  <2>3. Rewind(c) \/ DeleteLeaf(c) \/ RebuildAndWriteTree(c) => History'
    BY ClearingHistory, DeletingHistory
  <2> QED
    BY <1>1, <2>1, <2>2, <2>3, NoSplitting DEF SyncStep
<1>2. ASSUME NEW c \in Caller, SyncCall(c) \/ Reset(c) \/ FullReset(c) PROVE History'
  BY <1>2, AsideHistory, ClearingHistory
<1>3. \A c \in Caller : ~Fail(c) /\ ~FailClear(c)
  BY ErrorBreaks, FailClearBreaks DEF Fail
<1>4. CASE NewTransaction \/ Validate \/ SyncUTXOs \/ Reorg
  BY <1>4, SourceHistory DEF NewTransaction, Validate, SyncUTXOs, Reorg
<1>5. CASE Crash
  BY <1>5, CrashHistory
<1>6. CASE UNCHANGED vars
  BY <1>6, SourceHistory DEF vars
<1> QED
  BY <1>1, <1>2, <1>3, <1>4, <1>5, <1>6 DEF Next

LEMMA InitHistory == Init => History
BY DEF Init, History, Linked, NothingLeft, Pending, Updating, Inserting, Writing

(* A POI node that no insertion failed on has what is left of its batch in the
   queue, in the order of its history, and a tree of which each leaf follows
   the one before it.                                                           *)
THEOREM HistoryGoesOn == Spec => []HistoryInv
<1>1. Init => HistoryInv
  BY InitHistory DEF HistoryInv
<1>2. TxidInv /\ OrderInv /\ HistoryInv /\ [Next]_vars => HistoryInv'
  BY NextHistory, WholeBefore, SameEngine DEF HistoryInv, OrderInv, TxidInv
<1> QED
  BY <1>1, <1>2, Invariant, LeavesFollow, PTL DEF Spec

-----------------------------------------------------------------------------
(* The history of a wallet: POI nodes know the roots of what it inserts, so that
   continues the tree, on whatever branch its leaves are.                       *)

Continued ==
  /\ Linked
  /\ \A c \in Caller : stage[c] \in Writing => Onward(call[c].leaves, LatestTransaction)

LinkedInv == ~isPOINode /\ Whole => Continued

\* The tree stays, and c has nothing to write
LEMMA ContinuedAside ==
  ASSUME TypeOK, Continued, NEW c \in Caller, NEW next \in Stage \ Writing, Goto(c, next),
         \A d \in Caller : d # c => call'[d] = call[d], UNCHANGED <<data, length>>
  PROVE  Continued'
<1>1. stage'[c] = next /\ \A d \in Caller : d # c => stage'[d] = stage[d]
  BY DEF TypeOK, Goto
<1>2. LatestTransaction' = LatestTransaction
  BY DEF LatestTransaction
<1>3. ASSUME NEW d \in Caller, stage'[d] \in Writing
      PROVE  Onward(call[d].leaves, LatestTransaction)'
  <2>1. d # c
    BY <1>1, <1>3
  <2>2. call'[d] = call[d] /\ Onward(call[d].leaves, LatestTransaction)
    BY <1>1, <1>3, <2>1 DEF Continued
  <2> QED
    BY <1>2, <2>2 DEF Onward, Follows
<1>4. Linked'
  BY DEF Continued, Linked, Follows
<1> QED
  BY <1>3, <1>4 DEF Continued

LEMMA StepContinued ==
  ASSUME TypeOK, Continued, NEW c \in Caller,
         \/ SyncCall(c) \/ UpgradeVersion(c) \/ Guard(c) \/ ReadCursor(c) \/ Request(c)
         \/ HandleNew(c) \/ Queue(c) \/ SaveSnapshot(c) \/ QueueRest(c) \/ Rewind(c)
         \/ Reset(c) \/ FullReset(c) \/ Loop(c) \/ End(c) \/ Fail(c) \/ FailClear(c)
  PROVE  Continued'
<1>1. \E next \in Stage \ Writing : Goto(c, next)
  <2>1. CASE SyncCall(c) \/ UpgradeVersion(c) \/ Guard(c) \/ ReadCursor(c) \/ Request(c)
    BY <2>1 DEF SyncCall, UpgradeVersion, Guard, ReadCursor, Request, Stage, Syncing,
                Holding, Erasing, Writing
  <2>2. CASE HandleNew(c)
    BY <2>2 DEF HandleNew, Stage, Syncing, Writing
  <2>3. CASE Queue(c)
    BY <2>3 DEF Queue, Stage, Syncing, Inserting, Writing
  <2>4. CASE SaveSnapshot(c) \/ QueueRest(c) \/ Loop(c) \/ End(c) \/ Fail(c) \/ FailClear(c)
    BY <2>4 DEF SaveSnapshot, QueueRest, Loop, End, Fail, FailClear, Return, Stage, Syncing,
                Inserting, Writing
  <2>5. CASE Rewind(c) \/ Reset(c) \/ FullReset(c)
    BY <2>5 DEF Rewind, Reset, FullReset, ClearLeaves, Stage, Syncing, Holding, Deleting,
                Erasing, Writing
  <2> QED
    BY <2>1, <2>2, <2>3, <2>4, <2>5
<1>2. \A d \in Caller : d # c => call'[d] = call[d]
  <2>1. CASE SyncCall(c) \/ UpgradeVersion(c) \/ Guard(c) \/ ReadCursor(c) \/ Request(c)
    BY <2>1 DEF SyncCall, UpgradeVersion, Guard, ReadCursor, Request, TypeOK
  <2>2. CASE HandleNew(c)
    BY <2>2 DEF HandleNew, TypeOK
  <2>3. CASE Queue(c)
    BY <2>3 DEF Queue, TypeOK
  <2>4. CASE SaveSnapshot(c) \/ QueueRest(c) \/ Loop(c) \/ End(c) \/ Fail(c) \/ FailClear(c)
    BY <2>4 DEF SaveSnapshot, QueueRest, Loop, End, Fail, FailClear, Return, TypeOK
  <2>5. CASE Rewind(c) \/ Reset(c) \/ FullReset(c)
    BY <2>5 DEF Rewind, Reset, FullReset, ClearLeaves, TypeOK
  <2> QED
    BY <2>1, <2>2, <2>3, <2>4, <2>5
<1>3. UNCHANGED <<data, length>>
  BY DEF SyncCall, UpgradeVersion, Guard, ReadCursor, Request, HandleNew, Queue, SaveSnapshot,
         QueueRest, Rewind, Reset, FullReset, Loop, End, Fail, FailClear, disk, tree
<1> QED
  BY <1>1, <1>2, <1>3, ContinuedAside

\* What POI nodes know follows what is in the tree
LEMMA GenuineFollows ==
  ASSUME TypeOK, Ordered, \A c \in Caller : stage[c] \notin Deleting,
         NEW leaves \in Seq(Tx), Genuine(leaves)
  PROVE  Onward(leaves, LatestTransaction)
<1>1. length \in Nat /\ Len(data) = length /\ Len(leaves) \in Nat /\ Fork \in Nat
  BY LenProperties, Numbers DEF TypeOK, Ordered, Kept
<1>2. ASSUME NEW i \in Nat, i = 0 \/ Source(i - 1) # None
      PROVE  Follows(Source(i), IF i = 0 THEN None ELSE Source(i - 1))
  <2>1. Source(i).at = i /\ Source(i - 1).at = i - 1
    BY DEF Source
  <2>2. i - 1 < Fork \/ Source(i - 1).branch = Source(i).branch
    BY <1>1 DEF Source
  <2> QED
    BY <1>2, <2>1, <2>2 DEF Follows
<1>3. /\ LatestTransaction = IF length = 0 THEN None ELSE Source(length - 1)
      /\ length = 0 \/ Source(length - 1) # None
  BY <1>1, LatestIsLast, Numbers DEF Ordered, Genuine
<1> SUFFICES ASSUME NEW k \in 1..Len(leaves)
             PROVE  Follows(leaves[k], IF k = 1 THEN LatestTransaction ELSE leaves[k - 1])
  BY DEF Onward
<1>4. leaves[k] = Source(length + k - 1) /\ length + k - 1 \in Nat
  BY <1>1 DEF Genuine
<1>5. CASE k = 1
  <2>1. length + k - 1 = length
    BY <1>1, <1>5
  <2> QED
    BY <1>1, <1>2, <1>3, <1>4, <1>5, <2>1
<1>6. CASE k # 1
  <2>1. /\ k - 1 \in 1..Len(leaves) /\ length + (k - 1) - 1 = (length + k - 1) - 1
        /\ length + k - 1 # 0
    BY <1>1, <1>6
  <2>2. leaves[k - 1] = Source((length + k - 1) - 1)
    BY <2>1 DEF Genuine
  <2>3. leaves[k - 1] # None
    BY <2>1, ElementOfSeq, Numbers
  <2> QED
    BY <1>2, <1>4, <1>6, <2>1, <2>2, <2>3
<1> QED
  BY <1>5, <1>6

LEMMA InsertContinued ==
  ASSUME TypeOK, Ordered, ~isPOINode, Continued, NEW c \in Caller, Insert(c)
  PROVE  Continued'
<1>1. /\ stage[c] \in Inserting /\ UNCHANGED <<data, length>>
      /\ writeQueue' \subseteq writeQueue
  BY InsertDoes DEF disk
<1>2. Active(c) /\ stage[c] \notin Deleting
  BY <1>1 DEF Active, Owners, Syncing, Inserting, Deleting
<1>3. /\ \A d \in Caller : d # c => ~Active(d)
      /\ \A d \in Caller : stage[d] \notin Deleting
  BY <1>2, OwnerIsNotDeleting DEF Ordered, Alone
<1>4. CASE Continue(c) /\ UNCHANGED call
  <2>1. \E next \in Stage \ Writing : Goto(c, next)
    BY <1>4 DEF Continue, Stage, Syncing, Writing
  <2> QED
    BY <1>1, <1>4, <2>1, ContinuedAside
<1>5. CASE \E g \in writeQueue' :
             /\ Genuine(g.leaves)
             /\ call' = [call EXCEPT ![c].leaves = g.leaves, ![c].position = length]
             /\ Goto(c, IF stage[c] = "insert" THEN "write" ELSE "writeLegacy")
  <2>1. PICK g \in writeQueue :
          /\ Genuine(g.leaves)
          /\ call' = [call EXCEPT ![c].leaves = g.leaves, ![c].position = length]
          /\ Goto(c, IF stage[c] = "insert" THEN "write" ELSE "writeLegacy")
    BY <1>1, <1>5
  <2>2. PICK leaves \in Seq(Tx) : leaves = g.leaves
    BY DEF TypeOK, Group
  <2>3. Onward(leaves, LatestTransaction)
    BY <1>3, <2>1, <2>2, GenuineFollows
  <2>4. LatestTransaction' = LatestTransaction /\ call'[c].leaves = leaves
    BY <1>1, <2>1, <2>2 DEF LatestTransaction, TypeOK, CallState
  <2>5. \A d \in Caller : stage'[d] \in Writing => d = c
    BY <1>3, <2>1 DEF TypeOK, Goto, Active, Owners, Syncing
  <2>6. Onward(call[c].leaves, LatestTransaction)'
    BY <2>3, <2>4 DEF Onward, Follows
  <2>7. Linked'
    BY <1>1 DEF Continued, Linked, Follows
  <2> QED
    BY <2>5, <2>6, <2>7 DEF Continued
<1> QED
  BY <1>4, <1>5, InsertDoes

LEMMA WriteContinued ==
  ASSUME TxidInv, Ordered, Continued, NEW c \in Caller, Write(c)
  PROVE  Continued'
<1> USE DEF TxidInv
<1>1. PICK leaves \in Seq(Tx) : leaves = call[c].leaves
  BY DEF TypeOK, CallState
<1>2. /\ stage[c] \in Writing /\ UNCHANGED call
      /\ \/ /\ length' = length + Len(leaves)
            /\ \A i \in 1..length : data'[i] = data[i]
            /\ \A k \in 1..Len(leaves) : data'[length + k] = leaves[k]
            /\ \E next \in Inserting : Goto(c, next)
         \/ Continue(c) /\ UNCHANGED <<data, length>>
  BY <1>1, WriteDoes DEF Inserting
<1>3. Active(c) /\ stage[c] \notin Deleting
  BY <1>2 DEF Active, Owners, Syncing, Writing, Deleting
<1>4. /\ \A d \in Caller : d # c => ~Active(d)
      /\ \A d \in Caller : stage[d] \notin Deleting
  BY <1>3, OwnerIsNotDeleting DEF Ordered, Alone
<1>5. length \in Nat /\ Len(leaves) \in Nat
  BY <1>1, LenProperties DEF TypeOK
<1>6. CASE Continue(c) /\ UNCHANGED <<data, length>>
  <2>1. \E next \in Stage \ Writing : Goto(c, next)
    BY <1>6 DEF Continue, Stage, Syncing, Writing
  <2> QED
    BY <1>2, <1>6, <2>1, ContinuedAside
<1>7. CASE /\ length' = length + Len(leaves)
           /\ \A i \in 1..length : data'[i] = data[i]
           /\ \A k \in 1..Len(leaves) : data'[length + k] = leaves[k]
           /\ \E next \in Inserting : Goto(c, next)
  <2>1. Linked'
    <3> SUFFICES ASSUME NEW i \in 1..(length' - 1), data'[i] # None, data'[i + 1] # None
                 PROVE  Follows(data'[i + 1], data'[i])
      BY DEF Linked, Follows
    <3>1. CASE i < length
      <4>1. i \in 1..(length - 1) /\ i \in 1..length /\ i + 1 \in 1..length
        BY <1>5, <1>7, <3>1
      <4>2. data'[i] = data[i] /\ data'[i + 1] = data[i + 1]
        BY <1>7, <4>1
      <4> QED
        BY <4>1, <4>2 DEF Continued, Linked
    <3>2. CASE ~(i < length)
      <4>1. PICK k \in 1..Len(leaves) : i + 1 = length + k /\ (k = 1 <=> i = length)
        <5>1. i + 1 - length \in 1..Len(leaves)
          BY <1>5, <1>7, <3>2
        <5> QED
          BY <1>5, <5>1
      <4>2. Follows(leaves[k], IF k = 1 THEN LatestTransaction ELSE leaves[k - 1])
        BY <1>1, <1>2 DEF Continued, Onward
      <4>3. data'[i + 1] = leaves[k]
        BY <1>7, <4>1
      <4>4. CASE k = 1
        <5>1. i \in 1..length /\ length # 0 /\ i = length
          BY <1>5, <1>7, <4>1, <4>4
        <5>2. data'[i] = data[length] /\ LatestTransaction = data[length]
          BY <1>4, <1>7, <5>1, LatestIsLast DEF Ordered
        <5> QED
          BY <4>2, <4>3, <4>4, <5>2
      <4>5. CASE k # 1
        <5>1. k - 1 \in 1..Len(leaves) /\ i = length + (k - 1)
          BY <1>5, <1>7, <4>1, <4>5
        <5>2. data'[i] = leaves[k - 1]
          BY <1>7, <5>1
        <5> QED
          BY <4>2, <4>3, <4>5, <5>2
      <4> QED
        BY <4>4, <4>5
    <3> QED
      BY <3>1, <3>2
  <2>2. \A d \in Caller : stage'[d] \notin Writing
    BY <1>4, <1>7 DEF TypeOK, Goto, Active, Owners, Syncing, Inserting, Writing
  <2> QED
    BY <2>1, <2>2 DEF Continued
<1> QED
  BY <1>2, <1>6, <1>7

LEMMA EraseAlone ==
  ASSUME TypeOK, Ordered, Whole', NEW c \in Caller, Erase(c)
  PROVE  /\ \A d \in Caller : d # c => ~Active(d)
         /\ \A d \in Caller : stage[d] \notin Updating
<1>1. CASE stage[c] = "fullErase"
  <2>1. Active(c) /\ stage[c] \notin Updating
    BY <1>1 DEF Active, Owners, Updating, Inserting, Writing
  <2> QED
    BY <2>1 DEF Ordered, Alone, Active, Owners, Syncing, Updating
<1>2. CASE stage[c] # "fullErase"
  <2>1. ~isScanning \/ Stuck
    BY <1>2, MishapBreaks DEF Erase
  <2>2. \A d \in Caller : ~Active(d)
    BY <2>1, NobodyOwns DEF Ordered
  <2> QED
    BY <2>2 DEF Active, Owners, Syncing, Updating
<1> QED
  BY <1>1, <1>2

\* Leaves go when nobody writes
LEMMA ClearContinued ==
  ASSUME TypeOK, Ordered, Whole', Continued, NEW c \in Caller,
         Erase(c) \/ DeleteLeaf(c) \/ RebuildAndWriteTree(c)
  PROVE  Continued'
<1>1. \A d \in Caller : d # c => ~Active(d)
  <2>1. CASE Erase(c)
    BY <2>1, EraseAlone
  <2>2. CASE DeleteLeaf(c) \/ RebuildAndWriteTree(c)
    BY <2>2 DEF DeleteLeaf, RebuildAndWriteTree, Ordered, Alone, Active, Owners, Syncing,
                Deleting
  <2> QED
    BY <2>1, <2>2
<1>2. stage'[c] \notin Writing /\ \A d \in Caller : d # c => stage'[d] = stage[d]
  BY DEF Erase, DeleteLeaf, RebuildAndWriteTree, Goto, TypeOK, Deleting, Writing
<1>3. \A d \in Caller : stage'[d] \notin Writing
  BY <1>1, <1>2 DEF Active, Owners, Syncing
<1>4. Linked'
  <2>1. CASE Erase(c)
    BY <2>1 DEF Erase, Linked
  <2>2. CASE DeleteLeaf(c) \/ RebuildAndWriteTree(c)
    BY <2>2, DeletingLinked DEF Continued
  <2> QED
    BY <2>1, <2>2
<1> QED
  BY <1>3, <1>4 DEF Continued

LEMMA SourceContinued ==
  ASSUME Continued, UNCHANGED <<data, length>>,
         \/ UNCHANGED <<stage, call>>
         \/ \A c \in Caller : stage'[c] = "idle"
  PROVE  Continued'
<1>1. LatestTransaction' = LatestTransaction
  BY DEF LatestTransaction
<1>2. ASSUME NEW c \in Caller, stage'[c] \in Writing
      PROVE  Onward(call[c].leaves, LatestTransaction)'
  <2>1. UNCHANGED <<stage, call>>
    BY <1>2 DEF Writing
  <2>2. Onward(call[c].leaves, LatestTransaction)
    BY <1>2, <2>1 DEF Continued
  <2> QED
    BY <1>1, <2>1, <2>2 DEF Onward, Follows
<1>3. Linked'
  BY DEF Continued, Linked, Follows
<1> QED
  BY <1>2, <1>3 DEF Continued

LEMMA NextContinued ==
  ASSUME TxidInv, Ordered, ~isPOINode, Continued, [Next]_vars, Whole'
  PROVE  Continued'
<1>1. TypeOK
  BY DEF TxidInv
<1>2. ASSUME NEW c \in Caller, SyncStep(c) PROVE Continued'
  <2>1. UpgradeVersion(c) \/ Guard(c) \/ ReadCursor(c) \/ Request(c) \/ HandleNew(c)
          \/ Queue(c) \/ SaveSnapshot(c) \/ QueueRest(c) \/ Rewind(c) \/ Loop(c) \/ End(c)
          => Continued'
    BY <1>1, StepContinued
  <2>2. Insert(c) \/ Write(c) => Continued'
    BY <1>1, InsertContinued, WriteContinued
  <2>3. Erase(c) \/ DeleteLeaf(c) \/ RebuildAndWriteTree(c) => Continued'
    BY <1>1, ClearContinued
  <2> QED
    BY <1>2, <2>1, <2>2, <2>3 DEF SyncStep
<1>3. ASSUME NEW c \in Caller,
             SyncCall(c) \/ Reset(c) \/ FullReset(c) \/ Fail(c) \/ FailClear(c)
      PROVE  Continued'
  BY <1>1, <1>3, StepContinued
<1>4. CASE NewTransaction \/ Validate \/ SyncUTXOs \/ Reorg \/ Crash
  BY <1>4, SourceContinued DEF NewTransaction, Validate, SyncUTXOs, Reorg, Crash, disk
<1>5. CASE UNCHANGED vars
  BY <1>5, SourceContinued DEF vars, disk
<1> QED
  BY <1>2, <1>3, <1>4, <1>5 DEF Next

\* A wallet's leaves follow each other, and so does what it is about to write
THEOREM LeavesContinue == Spec => []LinkedInv
<1>1. Init => LinkedInv
  BY DEF Init, LinkedInv, Continued, Linked, Writing
<1>2. TxidInv /\ OrderInv /\ LinkedInv /\ [Next]_vars => LinkedInv'
  BY NextContinued, WholeBefore, SameEngine DEF LinkedInv, OrderInv, TxidInv
<1> QED
  BY <1>1, <1>2, Invariant, LeavesFollow, PTL DEF Spec

(* Each leaf has the verification hash that the one before it leads to
   (railgun-txid-merkletree and the sync loop of railgun-engine): what is in a
   tree, a wallet's or a POI node's, is one history, re-orgs and rewinds included. *)
THEOREM OneHistoryIsKept == Spec => []OneHistory
<1>1. TypeOK /\ OrderInv /\ HistoryInv /\ LinkedInv => OneHistory
  <2> SUFFICES ASSUME TypeOK, OrderInv, HistoryInv, LinkedInv, Whole, ~Changing,
                      isPOINode => Smooth, NEW i \in 1..(length - 1)
               PROVE  Follows(data[i + 1], data[i])
    BY DEF OneHistory
  <2>1. InPlace(data[i], i - 1) /\ InPlace(data[i + 1], (i + 1) - 1)
    <3>1. length \in Nat
      BY DEF TypeOK
    <3>2. i \in 1..length /\ i + 1 \in 1..length
      BY <3>1
    <3> QED
      BY <3>2, LeavesInPlace DEF OrderInv
  <2>2. data[i] # None /\ data[i + 1] # None
    BY <2>1 DEF InPlace
  <2>3. Linked
    BY DEF HistoryInv, History, LinkedInv, Continued
  <2> QED
    BY <2>2, <2>3 DEF Linked
<1> QED
  BY <1>1, Types, LeavesFollow, HistoryGoesOn, LeavesContinue, PTL
-----------------------------------------------------------------------------
(* What becomes of a wallet's queue.  A group with a transaction that a re-org
   has replaced is stale: POI nodes never know a root with it, and it stays until
   the queue is emptied.  Every other group of a batch is inserted, in the end,
   if no insertion fails.                                                       *)

Stale(tx) == branch = "new" /\ Fork <= tx.at /\ tx.branch = "old"

Good(g) == isPOINode \/ \A k \in 1..Len(g.leaves) : ~Stale(g.leaves[k])

Past(txs) == branch = "old" => \A k \in 1..Len(txs) : txs[k].branch = "old"

Even(txs) == \A k, l \in 1..Len(txs) :
               Fork <= txs[k].at /\ Fork <= txs[l].at => txs[k].branch = txs[l].branch

Legacies == {"insertLegacy", "writeLegacy"}

Goal(at, v) == IF at \in Legacies THEN v.at ELSE v.start + Len(v.batch)

Ahead(g) == g \in writeQueue /\ Good(g) /\ length <= g.start

After(g) == g.start + Len(g.leaves)

Covered(j) == \E g \in writeQueue : Ahead(g) /\ g.start <= j /\ j < After(g)

StaleLegacy(v) == \E k \in 1..(v.at - v.start) : Stale(v.batch[k])

\* the groups that are left of a batch cover it up to the first that is stale
Progress(at, v) ==
  /\ length <= Goal(at, v)
  /\ \A g \in writeQueue : Ahead(g) =>
       After(g) <= Goal(at, v) /\ \A j \in length..g.start : Covered(j)
  /\ \A g, h \in writeQueue :
       Ahead(g) /\ Ahead(h) => g = h \/ After(g) <= h.start \/ After(h) <= g.start
  /\ at \in Legacies => StaleLegacy(v) \/ \A j \in length..(v.at - 1) : Covered(j)

InWallet(at, v) ==
  /\ at = "handle" => Even(v.page) /\ Past(v.page)
  /\ at \in {"queue"} \union Splitting => Even(v.batch) /\ Past(v.batch)
  /\ at \in Updating => Progress(at, v)
  /\ at \in Writing => \E g \in writeQueue : /\ Good(g) /\ g.leaves = v.leaves
                                             /\ g.start = length
  /\ at \in {"snapshot", "queueRest"} => length = v.at \/ (length < v.at /\ StaleLegacy(v))

NothingGood == (\A c \in Caller : stage[c] \notin Updating) =>
                  \A g \in writeQueue : ~Good(g)

OneEach == \A g, h \in writeQueue : g.start = h.start => g = h

Wallet == /\ validated < head
          /\ OneEach /\ \A g \in writeQueue : Past(g.leaves) /\ Len(g.leaves) # 0
          /\ NothingGood
          /\ \A c \in Caller : InWallet(stage[c], call[c])

WalletInv == Backed /\ Whole /\ Smooth => Wallet

\* the launch snapshot, when all of it is before any re-org
Launched(at, v) ==
  /\ at \in Updating /\ snapshot = None => Goal(at, v) <= LaunchTx
  /\ at \in Legacies \union {"snapshot"} => snapshot = None
  /\ at = "queueRest" => snapshot # None
  /\ at = "snapshot" => v.at <= LaunchTx

Saved == IF snapshot = None THEN length <= LaunchTx
         ELSE /\ Len(snapshot) <= LaunchTx
              /\ \A i \in 1..Len(snapshot) : snapshot[i] = Source(i - 1)

Snapped == Saved /\ \A c \in Caller : Launched(stage[c], call[c])

SnappedInv == Whole /\ Smooth => IF isPOINode THEN snapshot = None
                                  ELSE Indexed => Snapped

\* who looks for a transaction finds it, now or when the batch is queued
Found(tx) == lookup[tx] # None
               \/ \E c \in Caller : /\ stage[c] \in Splitting
                                    /\ \E k \in 1..Len(call[c].batch) : call[c].batch[k] = tx

AllFound == /\ \A i \in 1..length : data[i] # None => Found(data[i])
            /\ \A g \in writeQueue : Good(g) =>
                 \A k \in 1..Len(g.leaves) : Found(g.leaves[k])

FoundInv ==
  Whole /\ Smooth /\ (isPOINode \/ (Indexed /\ spent["crash"] = 0)) => AllFound
-----------------------------------------------------------------------------
LEMMA LeastOf ==
  ASSUME NEW S \in SUBSET Nat, S # {}
  PROVE  \E n \in S : \A m \in S : n <= m
<1> DEFINE R == OpToRel(<, Nat)
<1>1. IsWellFoundedOn(R, Nat)
  BY NatLessThanWellFounded
<1>2. \A m, n \in Nat : <<m, n>> \in R <=> m < n
  BY DEF OpToRel
<1> HIDE DEF R
<1>3. PICK n \in S : \A m \in S : ~ (<<m, n>> \in R)
  BY <1>1, WFMin
<1>4. ASSUME NEW m \in S PROVE n <= m
  <2>1. m \in Nat /\ n \in Nat /\ ~(m < n)
    BY <1>2, <1>3
  <2> QED
    BY <2>1
<1> QED
  BY <1>3, <1>4

\* r is a range of txs that makes a group: see Queued
Apart(txs, k) == isPOINode \/ (~savedPOILaunchSnapshot /\ ~Legacy(txs[k]))

IsRange(txs, m, n) ==
  /\ m \in 1..Len(txs) /\ n \in 1..Len(txs) /\ m <= n
  /\ m = 1 \/ Apart(txs, m)
  /\ \A k \in (m + 1)..n : ~Apart(txs, k)
  /\ n = Len(txs) \/ Apart(txs, n + 1)

LEMMA QueuedRanges ==
  ASSUME TypeOK, NEW txs \in Seq(Tx), NEW start \in Nat, length <= start
  PROVE  /\ \A g \in Queued(txs, start) :
              \/ g \in writeQueue /\ \A m, n \in Nat : IsRange(txs, m, n) => g.start # start + m - 1
              \/ \E m, n \in Nat :
                   /\ IsRange(txs, m, n)
                   /\ g = [start |-> start + m - 1, leaves |-> SubSeq(txs, m, n)]
         /\ \A m, n \in Nat : IsRange(txs, m, n) =>
              [start |-> start + m - 1, leaves |-> SubSeq(txs, m, n)] \in Queued(txs, start)
<1> DEFINE ranges == {r \in (1..Len(txs)) \X (1..Len(txs)) :
                        /\ r[1] <= r[2] /\ length <= start + r[1] - 1
                        /\ r[1] = 1 \/ Apart(txs, r[1])
                        /\ \A k \in (r[1] + 1)..r[2] : ~Apart(txs, k)
                        /\ r[2] = Len(txs) \/ Apart(txs, r[2] + 1)}
           group(m, n) == [start |-> start + m - 1, leaves |-> SubSeq(txs, m, n)]
           new == {group(r[1], r[2]) : r \in ranges}
<1>1. Queued(txs, start) = {g \in writeQueue : \A h \in new : g.start # h.start} \union new
  BY DEF Queued, Apart
<1>2. ASSUME NEW m \in Nat, NEW n \in Nat, IsRange(txs, m, n) PROVE <<m, n>> \in ranges
  <2>1. Len(txs) \in Nat /\ length \in Nat /\ m \in 1..Len(txs)
    BY <1>2, LenProperties DEF TypeOK, IsRange
  <2>2. length <= start + m - 1
    BY <2>1
  <2> QED
    BY <1>2, <2>2 DEF IsRange
<1>3. \A r \in ranges : /\ r[1] \in Nat /\ r[2] \in Nat
                        /\ IsRange(txs, r[1], r[2])
  BY LenProperties DEF IsRange
<1> HIDE DEF ranges
<1>4. \A m, n \in Nat : IsRange(txs, m, n) => group(m, n) \in new
  <2> SUFFICES ASSUME NEW m \in Nat, NEW n \in Nat, IsRange(txs, m, n) PROVE group(m, n) \in new
    OBVIOUS
  <2>1. <<m, n>> \in ranges /\ <<m, n>>[1] = m /\ <<m, n>>[2] = n
    BY <1>2
  <2> QED
    BY <2>1
<1>5. \A g \in new : \E m, n \in Nat : IsRange(txs, m, n) /\ g = group(m, n)
  BY <1>3
<1> HIDE DEF new
<1>6. \A m, n : group(m, n).start = start + m - 1
  OBVIOUS
<1>7. ASSUME NEW g \in writeQueue, \A h \in new : g.start # h.start,
             NEW m \in Nat, NEW n \in Nat, IsRange(txs, m, n)
      PROVE  g.start # start + m - 1
  BY <1>4, <1>6, <1>7
<1> HIDE DEF group
<1>8. \A g \in Queued(txs, start) :
         \/ g \in writeQueue /\ \A m, n \in Nat : IsRange(txs, m, n) => g.start # start + m - 1
         \/ \E m, n \in Nat : IsRange(txs, m, n) /\ g = group(m, n)
  BY <1>1, <1>5, <1>7
<1>9. \A m, n \in Nat : IsRange(txs, m, n) => group(m, n) \in Queued(txs, start)
  BY <1>1, <1>4
<1> QED
  BY <1>8, <1>9 DEF group

\* Every transaction is in a range, and no two ranges meet
LEMMA RangesCover ==
  ASSUME NEW txs \in Seq(Tx), NEW k \in 1..Len(txs)
  PROVE  \E m, n \in Nat : IsRange(txs, m, n) /\ m <= k /\ k <= n
<1>1. Len(txs) \in Nat /\ k \in Nat
  BY LenProperties
<1> DEFINE Back == {i \in Nat : i < k /\ (k - i = 1 \/ Apart(txs, k - i))}
           Forth == {i \in Nat : k <= i /\ i <= Len(txs) /\ (i = Len(txs) \/ Apart(txs, i + 1))}
<1>2. PICK b \in Back : \A i \in Back : b <= i
  <2>1. k - 1 \in Back
    BY <1>1
  <2>2. Back \in SUBSET Nat /\ Back # {}
    BY <2>1
  <2> HIDE DEF Back
  <2> QED
    BY <2>2, LeastOf
<1>3. PICK n \in Forth : \A i \in Forth : n <= i
  <2>1. Len(txs) \in Forth
    BY <1>1
  <2>2. Forth \in SUBSET Nat /\ Forth # {}
    BY <2>1
  <2> HIDE DEF Forth
  <2> QED
    BY <2>2, LeastOf
<1>4. PICK m \in 1..Len(txs) : m = k - b
  BY <1>1, <1>2
<1>5. /\ b \in Nat /\ m <= k /\ (m = 1 \/ Apart(txs, m))
      /\ n \in 1..Len(txs) /\ k <= n /\ (n = Len(txs) \/ Apart(txs, n + 1))
  BY <1>1, <1>2, <1>3, <1>4
<1>6. ASSUME NEW i \in (m + 1)..n PROVE ~Apart(txs, i)
  <2>1. CASE i <= k
    <3>1. k - i \in Nat /\ k - i < b /\ k - i < k /\ k - (k - i) = i
      BY <1>1, <1>4, <1>5, <1>6, <2>1
    <3>2. k - i \notin Back
      <4>1. ~(b <= k - i)
        BY <1>5, <3>1
      <4> HIDE DEF Back
      <4> QED
        BY <1>2, <4>1
    <3> QED
      BY <3>1, <3>2
  <2>2. CASE ~(i <= k)
    <3>1. i - 1 \in Nat /\ k <= i - 1 /\ i - 1 < n /\ i - 1 <= Len(txs) /\ (i - 1) + 1 = i
      BY <1>1, <1>4, <1>5, <1>6, <2>2
    <3>2. i - 1 \notin Forth
      <4>1. ~(n <= i - 1)
        BY <1>5, <3>1
      <4> HIDE DEF Forth
      <4> QED
        BY <1>3, <4>1
    <3> QED
      BY <3>1, <3>2
  <2> QED
    BY <2>1, <2>2
<1> QED
  BY <1>1, <1>5, <1>6 DEF IsRange

LEMMA RangesApart ==
  ASSUME NEW txs \in Seq(Tx), NEW m \in Nat, NEW n \in Nat, NEW i \in Nat, NEW j \in Nat,
         IsRange(txs, m, n), IsRange(txs, i, j)
  PROVE  (m = i /\ n = j) \/ n < i \/ j < m
<1>1. /\ Len(txs) \in Nat /\ m \in Nat /\ n \in Nat /\ i \in Nat /\ j \in Nat
      /\ m <= n /\ i <= j /\ n <= Len(txs) /\ j <= Len(txs) /\ 1 <= m /\ 1 <= i
  BY LenProperties DEF IsRange
<1>2. ~(m < i /\ i <= n)
  <2> SUFFICES ASSUME m < i, i <= n PROVE FALSE
    OBVIOUS
  <2>1. i \in (m + 1)..n /\ i # 1
    BY <1>1
  <2> QED
    BY <2>1 DEF IsRange
<1>3. ~(i < m /\ m <= j)
  <2> SUFFICES ASSUME i < m, m <= j PROVE FALSE
    OBVIOUS
  <2>1. m \in (i + 1)..j /\ m # 1
    BY <1>1
  <2> QED
    BY <2>1 DEF IsRange
<1>4. ASSUME m = i, n < j PROVE FALSE
  <2>1. n + 1 \in (i + 1)..j /\ n # Len(txs)
    BY <1>1, <1>4
  <2> QED
    BY <2>1 DEF IsRange
<1>5. ASSUME m = i, j < n PROVE FALSE
  <2>1. j + 1 \in (m + 1)..n /\ j # Len(txs)
    BY <1>1, <1>5
  <2> QED
    BY <2>1 DEF IsRange
<1> QED
  BY <1>1, <1>2, <1>3, <1>4, <1>5
-----------------------------------------------------------------------------
LEMMA PartIs ==
  ASSUME NEW S, NEW s \in Seq(S), NEW m \in Nat, NEW n \in Nat, 1 <= m, m <= n, n <= Len(s)
  PROVE  /\ SubSeq(s, m, n) \in Seq(S) /\ Len(SubSeq(s, m, n)) = n - m + 1
         /\ \A k \in 1..(n - m + 1) : SubSeq(s, m, n)[k] = s[m + k - 1]
<1>1. \A i \in m..n : s[i] \in S
  BY ElementOfSeq
<1> QED
  BY <1>1, PartOf, SubSeqProperties

LEMMA PrefixIs ==
  ASSUME NEW S, NEW s \in Seq(S), NEW n \in Nat, n <= Len(s)
  PROVE  /\ SubSeq(s, 1, n) \in Seq(S) /\ Len(SubSeq(s, 1, n)) = n
         /\ \A k \in 1..n : SubSeq(s, 1, n)[k] = s[k]
<1>1. SubSeq(s, 1, n) \in Seq(S) /\ Len(SubSeq(s, 1, n)) = n
  BY PartOf
<1>2. ASSUME NEW k \in 1..n PROVE SubSeq(s, 1, n)[k] = s[k]
  <2>1. 1 \in Nat /\ 1 <= 1 /\ 1 <= n /\ k \in 1..(n - 1 + 1) /\ 1 + k - 1 = k
    OBVIOUS
  <2>2. SubSeq(s, 1, n)[k] = s[1 + k - 1]
    BY <2>1, PartIs
  <2> QED
    BY <2>1, <2>2
<1> QED
  BY <1>1, <1>2

\* The group that range m..n of txs makes
Chunk(txs, start, m, n) == [start |-> start + m - 1, leaves |-> SubSeq(txs, m, n)]

ChunkOf(g, txs, start, m, n) ==
  /\ m \in Nat /\ n \in Nat /\ 1 <= m /\ m <= n /\ n <= Len(txs)
  /\ g.start = start + m - 1 /\ g.start \in Nat
  /\ Len(g.leaves) = n - m + 1 /\ After(g) = start + n
  /\ \A k \in 1..(n - m + 1) : g.leaves[k] = txs[m + k - 1]
  /\ ~isPOINode => (Good(g) <=> \A i \in m..n : ~Stale(txs[i]))

LEMMA ChunkIs ==
  ASSUME NEW txs \in Seq(Tx), NEW start \in Nat, NEW m \in Nat, NEW n \in Nat,
         IsRange(txs, m, n)
  PROVE  ChunkOf(Chunk(txs, start, m, n), txs, start, m, n)
<1> DEFINE g == Chunk(txs, start, m, n)
<1>1. 1 <= m /\ m <= n /\ n <= Len(txs)
  BY LenProperties DEF IsRange
<1>2. g.start = start + m - 1 /\ g.leaves = SubSeq(txs, m, n)
  BY DEF Chunk
<1>3. /\ Len(g.leaves) = n - m + 1
      /\ \A k \in 1..(n - m + 1) : g.leaves[k] = txs[m + k - 1]
  BY <1>1, <1>2, PartIs
<1>4. ~isPOINode => (Good(g) <=> \A k \in 1..(n - m + 1) : ~Stale(txs[m + k - 1]))
  BY <1>3 DEF Good
<1>5. (\A k \in 1..(n - m + 1) : ~Stale(txs[m + k - 1])) <=> \A i \in m..n : ~Stale(txs[i])
  <2>1. \A k \in 1..(n - m + 1) : m + k - 1 \in m..n
    BY <1>1
  <2>2. \A i \in m..n : i - m + 1 \in 1..(n - m + 1) /\ m + (i - m + 1) - 1 = i
    BY <1>1
  <2> QED
    BY <2>1, <2>2
<1>6. After(g) = g.start + Len(g.leaves)
  BY DEF After
<1> HIDE DEF g
<1>7. start + m - 1 \in Nat /\ (start + m - 1) + (n - m + 1) = start + n
  BY <1>1
<1>8. g.start \in Nat /\ After(g) = start + n
  BY <1>2, <1>3, <1>6, <1>7
<1> QED
  BY <1>1, <1>2, <1>3, <1>4, <1>5, <1>8 DEF g, ChunkOf

LEMMA StaleGoesOn ==
  ASSUME TypeOK, NEW txs \in Seq(Tx), NEW start \in Nat, Numbered(txs, start), Even(txs),
         NEW k \in 1..Len(txs), NEW l \in 1..Len(txs), k <= l, Stale(txs[k])
  PROVE  Stale(txs[l])
<1>1. Len(txs) \in Nat /\ Fork \in Nat
  BY LenProperties, Numbers
<1>2. txs[k].at = start + k - 1 /\ txs[l].at = start + l - 1
  BY DEF Numbered
<1>3. Fork <= txs[k].at /\ Fork <= txs[l].at
  BY <1>1, <1>2 DEF Stale
<1>4. txs[l].branch = txs[k].branch
  BY <1>3 DEF Even
<1> QED
  BY <1>3, <1>4 DEF Stale

\* Two groups of Queued do not begin at the same place
LEMMA QueuedOneEach ==
  ASSUME TypeOK, NEW txs \in Seq(Tx), NEW start \in Nat, length <= start,
         OneEach, NEW g \in Queued(txs, start), NEW h \in Queued(txs, start),
         g.start = h.start
  PROVE  g = h
<1>1. \A f \in Queued(txs, start) :
         \/ f \in writeQueue /\ \A m, n \in Nat : IsRange(txs, m, n) => f.start # start + m - 1
         \/ \E m, n \in Nat : IsRange(txs, m, n) /\ f = Chunk(txs, start, m, n)
  BY QueuedRanges DEF Chunk
<1>2. ASSUME NEW f \in Queued(txs, start), NEW e \in Queued(txs, start), f.start = e.start,
             f \notin writeQueue
      PROVE  f = e
  <2>1. PICK m, n \in Nat : IsRange(txs, m, n) /\ f = Chunk(txs, start, m, n)
    BY <1>1, <1>2
  <2>2. ChunkOf(f, txs, start, m, n)
    BY <2>1, ChunkIs
  <2>3. PICK i, j \in Nat : IsRange(txs, i, j) /\ e = Chunk(txs, start, i, j)
    BY <1>1, <1>2, <2>1, <2>2 DEF ChunkOf
  <2>4. ChunkOf(e, txs, start, i, j)
    BY <2>3, ChunkIs
  <2>5. m = i
    <3>1. f.start = start + m - 1 /\ e.start = start + i - 1
      BY <2>2, <2>4 DEF ChunkOf
    <3>2. start + m - 1 = start + i - 1
      BY <1>2, <3>1
    <3> QED
      BY <3>2
  <2>6. m <= n /\ i <= j
    BY <2>2, <2>4 DEF ChunkOf
  <2>7. (m = i /\ n = j) \/ n < i \/ j < m
    BY <2>1, <2>3, RangesApart
  <2>8. n = j
    BY <2>5, <2>6, <2>7
  <2> QED
    BY <2>1, <2>3, <2>5, <2>8
<1>3. CASE g \in writeQueue /\ h \in writeQueue
  BY <1>3 DEF OneEach
<1> QED
  BY <1>2, <1>3

\* The groups of Queued come from the queue or from txs, and so do their leaves
LEMMA QueuedLeaves ==
  ASSUME TypeOK, NEW txs \in Seq(Tx), NEW start \in Nat, length <= start,
         NEW g \in Queued(txs, start), g \notin writeQueue
  PROVE  /\ Len(g.leaves) \in Nat \ {0}
         /\ \A k \in 1..Len(g.leaves) : \E l \in 1..Len(txs) : g.leaves[k] = txs[l]
<1>1. PICK m, n \in Nat : IsRange(txs, m, n) /\ g = Chunk(txs, start, m, n)
  BY QueuedRanges DEF Chunk
<1>2. ChunkOf(g, txs, start, m, n)
  BY <1>1, ChunkIs
<1>3. /\ 1 <= m /\ m <= n /\ n <= Len(txs)
      /\ Len(g.leaves) = n - m + 1
      /\ \A k \in 1..(n - m + 1) : g.leaves[k] = txs[m + k - 1]
  BY <1>2 DEF ChunkOf
<1>4. Len(g.leaves) \in Nat \ {0}
  BY <1>3
<1>5. \A k \in 1..(n - m + 1) : m + k - 1 \in 1..Len(txs)
  BY <1>3, LenProperties
<1> QED
  BY <1>3, <1>4, <1>5

LEMMA QueuedGood ==
  ASSUME TypeOK, ~isPOINode, NEW txs \in Seq(Tx), NEW start \in Nat, length <= start,
         Numbered(txs, start), Even(txs), \A g \in writeQueue : ~Good(g),
         NEW Q, Q = Queued(txs, start)
  PROVE  /\ \A g \in Q : Good(g) =>
              /\ start <= g.start /\ After(g) <= start + Len(txs)
              /\ \A j \in start..g.start :
                   \E h \in Q : Good(h) /\ start <= h.start /\ h.start <= j /\ j < After(h)
         /\ \A g, h \in Q : Good(g) /\ Good(h) =>
              g = h \/ After(g) <= h.start \/ After(h) <= g.start
         /\ (\A k \in 1..Len(txs) : ~Stale(txs[k])) =>
              \A j \in start..(start + Len(txs) - 1) :
                \E h \in Q : Good(h) /\ start <= h.start /\ h.start <= j /\ j < After(h)
<1>1. Len(txs) \in Nat
  BY LenProperties
<1>2. ASSUME NEW g \in Q, Good(g)
      PROVE  \E m, n \in Nat : IsRange(txs, m, n) /\ g = Chunk(txs, start, m, n)
  BY <1>2, QueuedRanges DEF Chunk
<1>3. ASSUME NEW j \in start..(start + Len(txs) - 1)
      PROVE  \E i, e \in Nat : \E h \in Q :
               /\ IsRange(txs, i, e) /\ h = Chunk(txs, start, i, e)
               /\ i <= j - start + 1 /\ j - start + 1 <= e
               /\ start <= h.start /\ h.start <= j /\ j < After(h)
  <2>1. j - start + 1 \in 1..Len(txs)
    BY <1>1, <1>3
  <2>2. PICK i, e \in Nat : /\ IsRange(txs, i, e)
                                    /\ i <= j - start + 1 /\ j - start + 1 <= e
    BY <2>1, RangesCover
  <2>3. PICK h \in Q : h = Chunk(txs, start, i, e)
    BY <2>2, QueuedRanges DEF Chunk
  <2>4. h.start = start + i - 1 /\ After(h) = start + e /\ 1 <= i
    <3>1. ChunkOf(h, txs, start, i, e)
      BY <2>2, <2>3, ChunkIs
    <3> QED
      BY <3>1 DEF ChunkOf
  <2>5. start <= h.start /\ h.start <= j /\ j < After(h)
    BY <1>3, <2>2, <2>4
  <2> QED
    BY <2>2, <2>3, <2>5
<1>4. ASSUME NEW g \in Q, Good(g)
      PROVE  /\ start <= g.start /\ After(g) <= start + Len(txs)
             /\ \A j \in start..g.start :
                  \E h \in Q : Good(h) /\ start <= h.start /\ h.start <= j /\ j < After(h)
  <2>1. PICK m, n \in Nat : IsRange(txs, m, n) /\ g = Chunk(txs, start, m, n)
    BY <1>2, <1>4
  <2>2. /\ m \in Nat /\ n \in Nat /\ 1 <= m /\ m <= n /\ n <= Len(txs)
        /\ g.start = start + m - 1 /\ After(g) = start + n
        /\ \A i \in m..n : ~Stale(txs[i])
    <3>1. ChunkOf(g, txs, start, m, n)
      BY <2>1, ChunkIs
    <3> QED
      BY <1>4, <3>1 DEF ChunkOf
  <2>3. ASSUME NEW j \in start..g.start
        PROVE  \E h \in Q : Good(h) /\ start <= h.start /\ h.start <= j /\ j < After(h)
    <3>1. j \in start..(start + Len(txs) - 1) /\ j - start + 1 <= m
      BY <1>1, <2>2, <2>3
    <3>2. PICK i, e \in Nat : \E h \in Q :
               /\ IsRange(txs, i, e) /\ h = Chunk(txs, start, i, e)
               /\ i <= j - start + 1 /\ j - start + 1 <= e
               /\ start <= h.start /\ h.start <= j /\ j < After(h)
      BY <1>3, <3>1
    <3>3. PICK h \in Q : /\ IsRange(txs, i, e) /\ h = Chunk(txs, start, i, e)
                         /\ i <= j - start + 1 /\ j - start + 1 <= e
                         /\ start <= h.start /\ h.start <= j /\ j < After(h)
      BY <3>2
    <3>4. /\ 1 <= i /\ i <= e
          /\ Good(h) <=> \A l \in i..e : ~Stale(txs[l])
      <4>1. ChunkOf(h, txs, start, i, e)
        BY <3>3, ChunkIs
      <4> QED
        BY <4>1 DEF ChunkOf
    <3>5. i <= m
      BY <2>2, <2>3, <3>1, <3>3, <3>4
    <3>6. ASSUME NEW l \in i..e PROVE ~Stale(txs[l])
      <4>1. CASE i = m /\ e = n
        BY <2>2, <3>6, <4>1
      <4>2. CASE ~(i = m /\ e = n)
        <5>1. e < m
          BY <2>1, <2>2, <3>3, <3>4, <3>5, <4>2, RangesApart
        <5>2. l \in 1..Len(txs) /\ l <= m /\ m \in m..n
          BY <1>1, <2>2, <3>4, <3>6, <5>1
        <5> QED
          BY <2>2, <5>2, StaleGoesOn
      <4> QED
        BY <4>1, <4>2
    <3> QED
      BY <3>3, <3>4, <3>6
  <2> QED
    BY <2>2, <2>3
<1>5. ASSUME NEW g \in Q, NEW h \in Q, Good(g), Good(h)
      PROVE  g = h \/ After(g) <= h.start \/ After(h) <= g.start
  <2>1. PICK m, n \in Nat : IsRange(txs, m, n) /\ g = Chunk(txs, start, m, n)
    BY <1>2, <1>5
  <2>2. PICK i, e \in Nat : IsRange(txs, i, e) /\ h = Chunk(txs, start, i, e)
    BY <1>2, <1>5
  <2>3. /\ m \in Nat /\ n \in Nat /\ i \in Nat /\ e \in Nat
        /\ g.start = start + m - 1 /\ After(g) = start + n
        /\ h.start = start + i - 1 /\ After(h) = start + e
    <3>1. ChunkOf(g, txs, start, m, n) /\ ChunkOf(h, txs, start, i, e)
      BY <2>1, <2>2, ChunkIs
    <3> QED
      BY <3>1 DEF ChunkOf
  <2>4. (m = i /\ n = e) \/ n < i \/ e < m
    BY <2>1, <2>2, RangesApart
  <2> QED
    BY <2>1, <2>2, <2>3, <2>4
<1>6. ASSUME \A k \in 1..Len(txs) : ~Stale(txs[k]),
             NEW j \in start..(start + Len(txs) - 1)
      PROVE  \E h \in Q : Good(h) /\ start <= h.start /\ h.start <= j /\ j < After(h)
  <2>1. PICK i, e \in Nat : \E h \in Q :
             /\ IsRange(txs, i, e) /\ h = Chunk(txs, start, i, e)
             /\ start <= h.start /\ h.start <= j /\ j < After(h)
    BY <1>3, <1>6
  <2>2. PICK h \in Q : /\ IsRange(txs, i, e) /\ h = Chunk(txs, start, i, e)
                       /\ start <= h.start /\ h.start <= j /\ j < After(h)
    BY <2>1
  <2>3. /\ 1 <= i /\ e <= Len(txs)
        /\ Good(h) <=> \A l \in i..e : ~Stale(txs[l])
    <3>1. ChunkOf(h, txs, start, i, e)
      BY <2>2, ChunkIs
    <3> QED
      BY <3>1 DEF ChunkOf
  <2>4. \A l \in i..e : l \in 1..Len(txs)
    BY <1>1, <2>3
  <2> QED
    BY <1>6, <2>2, <2>3, <2>4
<1> QED
  BY <1>4, <1>5, <1>6
-----------------------------------------------------------------------------
LEMMA StaleFrame ==
  ASSUME UNCHANGED <<branch, isPOINode>>
  PROVE  /\ \A tx : Stale(tx)' <=> Stale(tx)
         /\ \A g : Good(g)' <=> Good(g)
         /\ \A txs : Past(txs)' <=> Past(txs)
<1>1. \A tx : Stale(tx)' <=> Stale(tx)
  BY DEF Stale
<1>2. \A g : Good(g)' <=> Good(g)
  BY <1>1 DEF Good
<1>3. \A txs : Past(txs)' <=> Past(txs)
  BY DEF Past
<1> QED
  BY <1>1, <1>2, <1>3

LEMMA InWalletFrame ==
  ASSUME UNCHANGED <<branch, isPOINode, length, writeQueue>>
  PROVE  \A at, v : InWallet(at, v)' <=> InWallet(at, v)
<1>1. \A g : Ahead(g)' <=> Ahead(g)
  BY StaleFrame DEF Ahead
<1>2. \A j : Covered(j)' <=> Covered(j)
  BY <1>1 DEF Covered
<1>3. \A v : StaleLegacy(v)' <=> StaleLegacy(v)
  BY StaleFrame DEF StaleLegacy
<1>4. \A at, v : Progress(at, v)' <=> Progress(at, v)
  BY <1>1, <1>2, <1>3 DEF Progress
<1> QED
  BY <1>3, <1>4, StaleFrame DEF InWallet

\* Stages at which something is said of a call
Busy == {"handle", "queue"} \union Splitting \union Updating

LEMMA NotBusy ==
  ASSUME NEW at, at \notin Busy
  PROVE  \A v : InWallet(at, v)
BY DEF Busy, Splitting, Updating, InWallet

LEMMA BusyOwns == Busy \subseteq Owners
BY DEF Busy, Splitting, Updating, Inserting, Writing, Owners, Syncing

\* The only call that owns isScanning goes on
LEMMA WalletAlone ==
  ASSUME TypeOK, NEW c \in Caller, NEW next \in Stage, NEW v \in CallState,
         Goto(c, next), call' = [call EXCEPT ![c] = v],
         \A d \in Caller : d # c => ~Active(d),
         validated' < head', OneEach',
         \A g \in writeQueue' : Past(g.leaves)' /\ Len(g.leaves) # 0,
         InWallet(next, v)', next \notin Updating => \A g \in writeQueue' : ~Good(g)'
  PROVE  Wallet'
<1>1. stage'[c] = next /\ call'[c] = v
  BY DEF TypeOK, Goto
<1>2. \A d \in Caller : d # c => stage'[d] \notin Busy
  BY BusyOwns DEF TypeOK, Goto, Active
<1>3. ASSUME NEW d \in Caller PROVE InWallet(stage[d], call[d])'
  <2>1. CASE d = c
    <3>1. stage'[d] = next /\ call'[d] = v
      BY <1>1, <2>1
    <3> QED
      BY <3>1 DEF InWallet, Progress, StaleLegacy, Goal
  <2>2. CASE d # c
    <3>1. stage'[d] \notin Busy
      BY <1>2, <2>2
    <3> QED
      BY <3>1 DEF Busy, Splitting, Updating, InWallet
  <2> QED
    BY <2>1, <2>2
<1>4. NothingGood'
  BY <1>1 DEF NothingGood
<1> QED
  BY <1>3, <1>4 DEF Wallet

\* The tree and the queue stay, and c is not busy
LEMMA WalletAside ==
  ASSUME TypeOK, Wallet, NEW c \in Caller, NEW next \in Stage \ Busy, NEW v \in CallState,
         Goto(c, next), call' = [call EXCEPT ![c] = v], stage[c] \notin Updating,
         UNCHANGED <<branch, isPOINode, head, validated, length, writeQueue>>
  PROVE  Wallet'
<1>1. stage'[c] = next /\ call'[c] = v
  BY DEF TypeOK, Goto
<1>2. \A d \in Caller : d # c => stage'[d] = stage[d] /\ call'[d] = call[d]
  BY DEF TypeOK, Goto
<1>3. \A d \in Caller : InWallet(stage'[d], call'[d])
  <2> SUFFICES ASSUME NEW d \in Caller PROVE InWallet(stage'[d], call'[d])
    OBVIOUS
  <2>1. CASE d = c
    BY <1>1, <2>1, NotBusy
  <2>2. CASE d # c
    BY <1>2, <2>2 DEF Wallet
  <2> QED
    BY <2>1, <2>2
<1>4. ASSUME NEW d \in Caller PROVE InWallet(stage[d], call[d])'
  <2>1. PICK at : at = stage'[d]
    OBVIOUS
  <2>2. PICK w : w = call'[d]
    OBVIOUS
  <2>3. InWallet(at, w)'
    BY <1>3, <2>1, <2>2, InWalletFrame
  <2> QED
    BY <2>1, <2>2, <2>3 DEF InWallet, Progress, StaleLegacy, Goal
<1>5. OneEach' /\ validated' < head'
  BY DEF Wallet, OneEach
<1>6. \A g \in writeQueue' : Past(g.leaves)' /\ Len(g.leaves) # 0
  BY StaleFrame DEF Wallet
<1>7. NothingGood'
  <2>1. (\A d \in Caller : stage'[d] \notin Updating) => \A d \in Caller : stage[d] \notin Updating
    BY <1>2
  <2> QED
    BY <2>1, StaleFrame DEF Wallet, NothingGood
<1> QED
  BY <1>4, <1>5, <1>6, <1>7 DEF Wallet

LEMMA OwnerLeavesNoGood ==
  ASSUME Alone, NothingGood, NEW c \in Caller, Active(c), stage[c] \notin Updating
  PROVE  /\ \A g \in writeQueue : ~Good(g)
         /\ \A d \in Caller : d # c => ~Active(d)
BY DEF Alone, NothingGood, Active, Owners, Syncing, Updating

\* The queue stays in the hands of the only owner, who is not inserting
LEMMA QueueStaysBad ==
  ASSUME Wallet, UNCHANGED <<branch, isPOINode, head, validated, writeQueue>>,
         \A g \in writeQueue : ~Good(g)
  PROVE  /\ validated' < head' /\ OneEach'
         /\ \A g \in writeQueue' : Past(g.leaves)' /\ Len(g.leaves) # 0
         /\ \A g \in writeQueue' : ~Good(g)'
BY StaleFrame DEF Wallet, OneEach

LEMMA AsideWallet ==
  ASSUME TypeOK, Wallet, NEW c \in Caller,
         \/ SyncCall(c) \/ UpgradeVersion(c) \/ Guard(c) \/ ReadCursor(c)
         \/ Loop(c) \/ End(c) \/ FullReset(c)
  PROVE  Wallet'
<1>1. UNCHANGED <<branch, isPOINode, head, validated, length, writeQueue>>
      /\ stage[c] \notin Updating /\ stage[c] # "request"
  <2>1. stage[c] # "request"
    BY DEF SyncCall, UpgradeVersion, Guard, ReadCursor, Loop, End, FullReset
  <2> QED
    BY <2>1, AsideDoes DEF source
<1>2. PICK next \in {"upgradeErase", "guard", "idle", "cursor", "request", "end",
                     "fullErase"} : Goto(c, next)
  BY <1>1, AsideDoes
<1>3. next \in Stage \ Busy
  BY DEF Stage, Syncing, Holding, Erasing, Busy, Splitting, Updating, Inserting, Writing
<1>4. \E v \in CallState : call' = [call EXCEPT ![c] = v]
  BY AsideDoes
<1> QED
  BY <1>1, <1>2, <1>3, <1>4, WalletAside

\* All of a page is from the branch that the source is on
LEMMA PageIsEven ==
  ASSUME TypeOK, NEW cursor \in Tx \union {None}
  PROVE  Even(Page(cursor)) /\ Past(Page(cursor))
<1> DEFINE first == IF cursor = None THEN 0 ELSE cursor.at + 1
           size  == IF head < first THEN 0
                    ELSE IF head - first < BatchSize THEN head - first ELSE BatchSize
<1>1. first \in Nat /\ head \in Nat /\ BatchSize \in Nat /\ Fork \in Nat
  BY TxPlace, Numbers DEF TypeOK
<1>2. size \in Nat
  BY <1>1
<1>3. Page(cursor) = [k \in 1..size |-> Source(first + k - 1)]
  BY DEF Page
<1>4. Page(cursor) \in Seq(Tx)
  BY PageType
<1> HIDE DEF first, size
<1>5. Len(Page(cursor)) = size
  BY <1>2, <1>3, <1>4, LenProperties
<1>6. ASSUME NEW k \in 1..size
      PROVE  /\ Fork <= Page(cursor)[k].at => Page(cursor)[k].branch = branch
             /\ branch = "old" => Page(cursor)[k].branch = "old"
  <2>1. Page(cursor)[k] = Source(first + k - 1) /\ first + k - 1 \in Int
    BY <1>1, <1>2, <1>3
  <2> QED
    BY <1>1, <2>1 DEF Source
<1> HIDE DEF Page
<1> QED
  BY <1>5, <1>6 DEF Even, Past

LEMMA RequestWallet ==
  ASSUME TypeOK, Ordered, Wallet, NEW c \in Caller, Request(c)
  PROVE  Wallet'
<1>1. /\ UNCHANGED <<branch, isPOINode, head, validated, length, writeQueue>>
      /\ stage[c] = "request"
  BY DEF Request, source, disk, memory
<1>2. Active(c) /\ stage[c] \notin Updating
  BY <1>1 DEF Active, Owners, Syncing, Updating, Inserting, Writing
<1>3. /\ \A g \in writeQueue : ~Good(g)
      /\ \A d \in Caller : d # c => ~Active(d)
  BY <1>2, OwnerLeavesNoGood DEF Ordered, Wallet
<1> DEFINE page == Page(call[c].cursor)
<1>4. call[c] \in CallState /\ call[c].cursor \in Tx \union {None}
  BY DEF TypeOK, CallState
<1>5. page \in Seq(Tx) /\ Even(page) /\ Past(page)
  BY <1>4, PageType, PageIsEven
<1>6. call' = [call EXCEPT ![c].page = page] /\ \E next \in {"end", "handle"} : Goto(c, next)
  BY DEF Request
<1> HIDE DEF page
<1>7. PICK v \in CallState : call' = [call EXCEPT ![c] = v] /\ v.page = page
  <2>1. [call[c] EXCEPT !.page = page] \in CallState
    BY <1>4, <1>5 DEF CallState
  <2> QED
    BY <1>4, <1>6, <2>1 DEF CallState
<1>8. PICK next \in {"end", "handle"} : Goto(c, next)
  BY <1>6
<1>9. next \in Stage /\ next \notin Busy \ {"handle"}
  BY DEF Stage, Syncing, Busy, Splitting, Updating, Inserting, Writing
<1>10. InWallet(next, v)
  BY <1>5, <1>7, <1>9 DEF InWallet, Busy, Splitting, Updating, Inserting, Writing
<1>11. InWallet(next, v)'
  BY <1>1, <1>10, InWalletFrame
<1> QED
  BY <1>1, <1>3, <1>7, <1>8, <1>9, <1>11, QueueStaysBad, WalletAlone

LEMMA PrefixIsEven ==
  ASSUME NEW s \in Seq(Tx), NEW n \in Nat, n <= Len(s), Even(s), Past(s)
  PROVE  Even(SubSeq(s, 1, n)) /\ Past(SubSeq(s, 1, n))
<1>1. /\ Len(SubSeq(s, 1, n)) = n
      /\ \A k \in 1..n : SubSeq(s, 1, n)[k] = s[k] /\ k \in 1..Len(s)
  BY PrefixIs, LenProperties
<1> QED
  BY <1>1 DEF Even, Past

LEMMA HandleNewWallet ==
  ASSUME TypeOK, Ordered, Wallet, NEW c \in Caller, HandleNew(c)
  PROVE  Wallet'
<1> DEFINE page == call[c].page
<1>1. call[c] \in CallState /\ page \in Seq(Tx) /\ Len(page) \in Nat
  BY LenProperties DEF TypeOK, CallState
<1>2. PICK limit \in Place \union {None} :
        IF ShouldAdd(limit)
        THEN \E n \in 0..Len(page) :
               /\ call' = [call EXCEPT ![c].limit = limit,
                                       ![c].batch = SubSeq(page, 1, n),
                                       ![c].mismatch = n < Len(page) /\ Known(c, n + 1)]
               /\ Goto(c, "queue")
        ELSE Goto(c, "loop") /\ UNCHANGED call
  BY DEF HandleNew
<1>3. /\ UNCHANGED <<branch, isPOINode, head, validated, length, writeQueue>>
      /\ stage[c] = "handle"
  BY DEF HandleNew, source, disk, memory
<1>4. Active(c) /\ stage[c] \notin Updating
  BY <1>3 DEF Active, Owners, Syncing, Updating, Inserting, Writing
<1>5. /\ \A g \in writeQueue : ~Good(g)
      /\ \A d \in Caller : d # c => ~Active(d)
  BY <1>4, OwnerLeavesNoGood DEF Ordered, Wallet
<1>6. CASE ShouldAdd(limit)
  <2>1. PICK n \in 0..Len(page) :
          /\ call' = [call EXCEPT ![c].limit = limit,
                                  ![c].batch = SubSeq(page, 1, n),
                                  ![c].mismatch = n < Len(page) /\ Known(c, n + 1)]
          /\ Goto(c, "queue")
    BY <1>2, <1>6
  <2> DEFINE m == n < Len(page) /\ Known(c, n + 1)
             batch == SubSeq(page, 1, n)
  <2>2. n \in Nat /\ n <= Len(page)
    BY <1>1
  <2>3. Even(page) /\ Past(page)
    BY <1>3 DEF Wallet, InWallet
  <2> HIDE DEF page
  <2>4. batch \in Seq(Tx) /\ Even(batch) /\ Past(batch)
    BY <1>1, <2>2, <2>3, PrefixIs, PrefixIsEven
  <2>5. PICK v \in CallState : v = [call[c] EXCEPT !.limit = limit, !.batch = batch, !.mismatch = m]
    <3>1. m \in BOOLEAN
      OBVIOUS
    <3> HIDE DEF m, batch
    <3> QED
      BY <1>1, <1>2, <2>4, <3>1 DEF CallState
  <2>6. call' = [call EXCEPT ![c] = v] /\ v.batch = batch
    BY <1>1, <2>1, <2>5 DEF CallState
  <2> HIDE DEF m, batch
  <2>7. "queue" \in Stage /\ "queue" \notin Updating /\ "queue" \notin Splitting
    BY DEF Stage, Syncing, Updating, Splitting, Inserting, Writing
  <2>8. InWallet("queue", v)
    BY <2>4, <2>6, <2>7 DEF InWallet, Updating
  <2>9. InWallet("queue", v)'
    BY <1>3, <2>8, InWalletFrame
  <2> QED
    BY <1>3, <1>5, <2>1, <2>6, <2>7, <2>9, QueueStaysBad, WalletAlone
<1>7. CASE ~ShouldAdd(limit)
  <2>1. Goto(c, "loop") /\ call' = call
    BY <1>2, <1>7
  <2>2. "loop" \in Stage \ Busy
    BY DEF Stage, Syncing, Busy, Splitting, Updating, Inserting, Writing
  <2> QED
    BY <1>3, <1>4, <2>1, <2>2, CallStays, WalletAside
<1> QED
  BY <1>6, <1>7
-----------------------------------------------------------------------------
\* What is said of every group holds for the new ones too
LEMMA NewQueue ==
  ASSUME TypeOK, Wallet, NEW txs \in Seq(Tx), NEW start \in Nat, length <= start, Past(txs),
         writeQueue' = Queued(txs, start), UNCHANGED <<branch, isPOINode, head, validated>>
  PROVE  /\ validated' < head' /\ OneEach'
         /\ \A g \in writeQueue' : Past(g.leaves)' /\ Len(g.leaves) # 0
<1>1. OneEach'
  <2>1. \A g, h \in Queued(txs, start) : g.start = h.start => g = h
    BY QueuedOneEach DEF Wallet
  <2> QED
    BY <2>1 DEF OneEach
<1>2. ASSUME NEW g \in Queued(txs, start) PROVE Past(g.leaves) /\ Len(g.leaves) # 0
  <2>1. CASE g \in writeQueue
    BY <2>1 DEF Wallet
  <2>2. CASE g \notin writeQueue
    <3>1. /\ Len(g.leaves) \in Nat \ {0}
          /\ \A k \in 1..Len(g.leaves) : \E l \in 1..Len(txs) : g.leaves[k] = txs[l]
      BY <2>2, QueuedLeaves
    <3> QED
      BY <3>1 DEF Past
  <2> QED
    BY <2>1, <2>2
<1>3. \A g \in writeQueue' : Past(g.leaves)' /\ Len(g.leaves) # 0
  BY <1>2, StaleFrame
<1> QED
  BY <1>1, <1>3 DEF Wallet

\* A queue in which nothing is good has nothing to go on with
LEMMA NothingGoesOn ==
  ASSUME \A g \in writeQueue' : ~Good(g)', NEW at, at \notin Legacies, NEW v,
         (length <= Goal(at, v))'
  PROVE  Progress(at, v)'
BY DEF Progress, Ahead

\* A batch that is queued behind the tree
LEMMA QueuedGoesOn ==
  ASSUME TypeOK, ~isPOINode, NEW txs \in Seq(Tx), Numbered(txs, length), Even(txs),
         \A g \in writeQueue : ~Good(g),
         writeQueue' = Queued(txs, length), UNCHANGED <<branch, isPOINode, length>>,
         NEW at, NEW v, Goal(at, v) = length + Len(txs),
         at \in Legacies => StaleLegacy(v) \/ \A k \in 1..Len(txs) : ~Stale(txs[k])
  PROVE  Progress(at, v)'
<1>1. length \in Nat /\ length <= length /\ Len(txs) \in Nat
  BY LenProperties DEF TypeOK
<1> DEFINE Q == Queued(txs, length)
           Good4(j) == \E h \in Q : Good(h) /\ length <= h.start /\ h.start <= j /\ j < After(h)
<1>2. /\ \A g \in Q : Good(g) =>
           /\ length <= g.start /\ After(g) <= length + Len(txs)
           /\ \A j \in length..g.start : Good4(j)
      /\ \A g, h \in Q : Good(g) /\ Good(h) =>
           g = h \/ After(g) <= h.start \/ After(h) <= g.start
      /\ (\A k \in 1..Len(txs) : ~Stale(txs[k])) =>
           \A j \in length..(length + Len(txs) - 1) : Good4(j)
  BY <1>1, QueuedGood
<1>3. \A g : Good(g)' <=> Good(g)
  BY StaleFrame
<1>4. \A g : Ahead(g)' <=> g \in Q /\ Good(g) /\ length <= g.start
  BY <1>3 DEF Ahead
<1>5. \A j : Good4(j) => Covered(j)'
  BY <1>4 DEF Covered
<1>6. Goal(at, v)' = length + Len(txs)
  BY DEF Goal
<1>7. StaleLegacy(v)' <=> StaleLegacy(v)
  BY StaleFrame DEF StaleLegacy
<1>8. at \in Legacies => v.at = length + Len(txs)
  BY DEF Goal
<1> HIDE DEF Q, Good4
<1>9. writeQueue' = Q
  BY DEF Q
<1>10. length' <= Goal(at, v)'
  BY <1>1, <1>6
<1>11. \A g \in writeQueue' : Ahead(g)' =>
         After(g) <= Goal(at, v)' /\ \A j \in length'..g.start : Covered(j)'
  BY <1>2, <1>4, <1>5, <1>6
<1>12. \A g, h \in writeQueue' :
         Ahead(g)' /\ Ahead(h)' => g = h \/ After(g) <= h.start \/ After(h) <= g.start
  BY <1>2, <1>4
<1>13. at \in Legacies => StaleLegacy(v)' \/ \A j \in length'..(v.at - 1) : Covered(j)'
  <2>1. CASE StaleLegacy(v)
    BY <1>7, <2>1
  <2>2. CASE at \in Legacies /\ ~StaleLegacy(v)
    <3>1. v.at - 1 = length + Len(txs) - 1 /\ length' = length
      BY <1>1, <1>8, <2>2
    <3>2. \A j \in length..(length + Len(txs) - 1) : Good4(j)
      BY <1>2, <2>2
    <3> QED
      BY <1>5, <3>1, <3>2
  <2> QED
    BY <2>1, <2>2
<1> QED
  BY <1>10, <1>11, <1>12, <1>13 DEF Progress, After

LEMMA QueueWallet ==
  ASSUME TypeOK, Ordered, ~isPOINode, Wallet, NEW c \in Caller, Queue(c)
  PROVE  Wallet'
<1> DEFINE whole == call[c].batch
<1>1. PICK n \in 0..Len(whole), m \in Nat :
    LET batch  == SubSeq(whole, 1, n)
        legacy == SubSeq(batch, 1, m)
    IN /\ m <= n
       /\ batch \in Seq(Tx) /\ Len(batch) = n /\ legacy \in Seq(Tx) /\ Len(legacy) = m
       /\ call' = [call EXCEPT ![c].batch = batch, ![c].start = length, ![c].at = length + m]
       /\ \/ /\ \E next \in {"rewind", "loop"} : Goto(c, next)
             /\ UNCHANGED <<writeQueue, lookup>>
          \/ writeQueue' = Queued(batch, length) /\ Goto(c, "insert")
          \/ writeQueue' = Queued(legacy, length) /\ Goto(c, "insertLegacy")
  BY QueueDoes
<1> DEFINE batch  == SubSeq(whole, 1, n)
           legacy == SubSeq(batch, 1, m)
<1>2. call[c] \in CallState /\ whole \in Seq(Tx) /\ Len(whole) \in Nat /\ length \in Nat
  BY LenProperties DEF TypeOK, CallState
<1>3. /\ UNCHANGED <<branch, isPOINode, head, validated, length>>
      /\ stage[c] = "queue"
  BY DEF Queue, tree
<1>4. Active(c) /\ stage[c] \notin Updating
  BY <1>3 DEF Active, Owners, Syncing, Updating, Inserting, Writing
<1>5. /\ \A g \in writeQueue : ~Good(g)
      /\ \A d \in Caller : d # c => ~Active(d)
  BY <1>4, OwnerLeavesNoGood DEF Ordered, Wallet
<1>6. Even(whole) /\ Past(whole) /\ Numbered(whole, length)
  BY <1>3 DEF Wallet, InWallet, Ordered, Holdings, Sent
<1>7. n \in Nat /\ n <= Len(whole) /\ m <= n
  BY <1>1, <1>2
<1> HIDE DEF whole
<1>8. batch \in Seq(Tx) /\ Len(batch) = n /\ Even(batch) /\ Past(batch) /\ Numbered(batch, length)
  <2>1. /\ batch \in Seq(Tx) /\ Len(batch) = n
        /\ \A k \in 1..n : batch[k] = whole[k]
    BY <1>2, <1>7, PrefixIs
  <2>2. Even(batch) /\ Past(batch)
    BY <1>2, <1>6, <1>7, PrefixIsEven
  <2>3. 1..n \subseteq 1..Len(whole)
    BY <1>2, <1>7
  <2> HIDE DEF batch
  <2> QED
    BY <1>6, <2>1, <2>2, <2>3 DEF Numbered
<1>9. PICK v \in CallState : /\ call' = [call EXCEPT ![c] = v]
                             /\ v.batch = batch /\ v.start = length /\ v.at = length + m
  <2>1. batch \in Seq(Tx) /\ length \in Nat /\ length + m \in Nat
    BY <1>2, <1>8
  <2>2. call' = [call EXCEPT ![c].batch = batch, ![c].start = length, ![c].at = length + m]
    BY <1>1 DEF batch
  <2> HIDE DEF batch
  <2>3. [call[c] EXCEPT !.batch = batch, !.start = length, !.at = length + m] \in CallState
    BY <1>2, <2>1 DEF CallState
  <2> QED
    BY <1>2, <2>2, <2>3 DEF CallState
<1> HIDE DEF batch
<1>10. legacy \in Seq(Tx) /\ Len(legacy) = m /\ Even(legacy) /\ Past(legacy)
       /\ Numbered(legacy, length) /\ \A k \in 1..m : legacy[k] = batch[k]
  BY <1>7, <1>8, PrefixIs, PrefixIsEven DEF Numbered
<1> HIDE DEF legacy
<1>11. CASE (\E next \in {"rewind", "loop"} : Goto(c, next)) /\ UNCHANGED writeQueue
  <2>1. PICK next \in {"rewind", "loop"} : Goto(c, next)
    BY <1>11
  <2>2. next \in Stage \ Busy
    BY DEF Stage, Syncing, Busy, Splitting, Updating, Inserting, Writing
  <2> QED
    BY <1>3, <1>4, <1>9, <1>11, <2>1, <2>2, WalletAside
<1>12. CASE writeQueue' = Queued(batch, length) /\ Goto(c, "insert")
  <2>1. "insert" \in Stage /\ "insert" \in Updating /\ "insert" \notin Splitting
        /\ "insert" \notin Legacies /\ "insert" \notin Writing
    BY DEF Stage, Syncing, Updating, Splitting, Inserting, Writing, Legacies
  <2>2. Goal("insert", v) = length + Len(batch)
    BY <1>9, <2>1 DEF Goal
  <2>3. Progress("insert", v)'
    BY <1>3, <1>5, <1>8, <1>12, <2>1, <2>2, QueuedGoesOn
  <2>4. InWallet("insert", v)'
    BY <2>1, <2>3 DEF InWallet
  <2>5. /\ validated' < head' /\ OneEach'
        /\ \A g \in writeQueue' : Past(g.leaves)' /\ Len(g.leaves) # 0
    BY <1>2, <1>3, <1>8, <1>12, NewQueue
  <2> QED
    BY <1>5, <1>9, <1>12, <2>1, <2>4, <2>5, WalletAlone
<1>13. CASE writeQueue' = Queued(legacy, length) /\ Goto(c, "insertLegacy")
  <2>1. "insertLegacy" \in Stage /\ "insertLegacy" \in Updating
        /\ "insertLegacy" \in Legacies /\ "insertLegacy" \notin Writing
    BY DEF Stage, Syncing, Updating, Inserting, Writing, Legacies
  <2>2. Goal("insertLegacy", v) = length + Len(legacy)
    BY <1>9, <1>10, <2>1 DEF Goal
  <2>3. StaleLegacy(v) \/ \A k \in 1..Len(legacy) : ~Stale(legacy[k])
    <3>1. v.at - v.start = m
      BY <1>2, <1>9
    <3> QED
      BY <1>9, <1>10, <3>1 DEF StaleLegacy
  <2>4. Progress("insertLegacy", v)'
    BY <1>3, <1>5, <1>10, <1>13, <2>1, <2>2, <2>3, QueuedGoesOn
  <2>5. Even(v.batch)' /\ Past(v.batch)'
    BY <1>3, <1>8, <1>9, StaleFrame DEF Even
  <2>6. InWallet("insertLegacy", v)'
    BY <2>1, <2>4, <2>5 DEF InWallet
  <2>7. /\ validated' < head' /\ OneEach'
        /\ \A g \in writeQueue' : Past(g.leaves)' /\ Len(g.leaves) # 0
    BY <1>2, <1>3, <1>10, <1>13, NewQueue
  <2> QED
    BY <1>5, <1>9, <1>13, <2>1, <2>6, <2>7, WalletAlone
<1> QED
  BY <1>1, <1>11, <1>12, <1>13 DEF batch, legacy
-----------------------------------------------------------------------------
LEMMA SaveSnapshotWallet ==
  ASSUME TypeOK, Ordered, Wallet, NEW c \in Caller, SaveSnapshot(c)
  PROVE  Wallet'
<1>1. /\ UNCHANGED <<branch, isPOINode, head, validated, length, writeQueue>>
      /\ stage[c] = "snapshot" /\ Goto(c, "queueRest") /\ call' = call
  BY DEF SaveSnapshot, source, tree, queue
<1>2. /\ Active(c) /\ stage[c] \notin Updating /\ "queueRest" \in Stage
      /\ "queueRest" \notin Updating /\ "queueRest" \notin Writing
      /\ "snapshot" \in Splitting
  BY <1>1 DEF Active, Owners, Stage, Syncing, Updating, Inserting, Writing, Splitting
<1>3. /\ \A g \in writeQueue : ~Good(g)
      /\ \A d \in Caller : d # c => ~Active(d)
  BY <1>2, OwnerLeavesNoGood DEF Ordered, Wallet
<1>4. call[c] \in CallState /\ call' = [call EXCEPT ![c] = call[c]]
  BY <1>1, CallStays
<1>5. PICK v \in CallState : v = call[c]
  BY <1>4
<1>6. InWallet("snapshot", v)
  BY <1>1, <1>5 DEF Wallet
<1>7. InWallet("queueRest", v)
  BY <1>2, <1>6 DEF InWallet
<1>8. InWallet("queueRest", v)'
  BY <1>1, <1>7, InWalletFrame
<1> QED
  BY <1>1, <1>2, <1>3, <1>4, <1>5, <1>8, QueueStaysBad, WalletAlone

\* What is said of the transactions of a batch is said of its rest
LEMMA RestIs ==
  ASSUME NEW s \in Seq(Tx), NEW first \in Nat, 1 <= first,
         NEW rest, rest = SubSeq(s, first, Len(s))
  PROVE  /\ rest \in Seq(Tx) /\ Len(rest) \in Nat
         /\ \A k \in 1..Len(rest) : first + k - 1 \in 1..Len(s) /\ rest[k] = s[first + k - 1]
<1>1. Len(s) \in Nat
  BY LenProperties
<1>2. CASE first <= Len(s)
  <2>1. /\ rest \in Seq(Tx) /\ Len(rest) = Len(s) - first + 1
        /\ \A k \in 1..(Len(s) - first + 1) : rest[k] = s[first + k - 1]
    BY <1>1, <1>2, PartIs
  <2> QED
    BY <1>1, <1>2, <2>1
<1>3. CASE Len(s) < first
  <2>1. rest \in Seq(Tx) /\ Len(rest) = 0
    BY <1>1, <1>3, PartOf
  <2> QED
    BY <2>1
<1> QED
  BY <1>1, <1>2, <1>3

RestOf(rest, s, start, at) ==
  /\ Numbered(rest, at) /\ Even(rest) /\ Past(rest)
  /\ \A k \in 1..(at - start), l \in 1..Len(rest) :
       /\ k \in 1..Len(s)
       /\ \E j \in 1..Len(s) : k <= j /\ rest[l] = s[j]

LEMMA RestFollows ==
  ASSUME NEW s \in Seq(Tx), NEW start \in Nat, NEW at \in Nat, start <= at,
         NEW first \in Nat, first = at - start + 1,
         NEW rest, rest = SubSeq(s, first, Len(s)),
         Numbered(s, start), Even(s), Past(s)
  PROVE  RestOf(rest, s, start, at)
<1>1. 1 <= first /\ Len(s) \in Nat
  BY LenProperties
<1>2. /\ Len(rest) \in Nat
      /\ \A k \in 1..Len(rest) : first + k - 1 \in 1..Len(s) /\ rest[k] = s[first + k - 1]
  BY <1>1, RestIs
<1>3. \A k \in 1..Len(rest) : \E j \in 1..Len(s) : j = first + k - 1 /\ rest[k] = s[j]
  BY <1>2
<1>4. ASSUME NEW k \in 1..Len(rest) PROVE rest[k].at = at + k - 1
  <2>1. PICK j \in 1..Len(s) : j = first + k - 1 /\ rest[k] = s[j]
    BY <1>3
  <2>2. s[j].at = start + j - 1
    BY DEF Numbered
  <2>3. j \in Int /\ k \in Int
    BY <1>1, <1>2
  <2>4. start + j - 1 = at + k - 1
    BY <2>1, <2>3
  <2> QED
    BY <2>1, <2>2, <2>4
<1>5. Even(rest)
  <2> SUFFICES ASSUME NEW k \in 1..Len(rest), NEW l \in 1..Len(rest),
                      Fork <= rest[k].at, Fork <= rest[l].at
               PROVE  rest[k].branch = rest[l].branch
    BY DEF Even
  <2>1. PICK i \in 1..Len(s), j \in 1..Len(s) : rest[k] = s[i] /\ rest[l] = s[j]
    BY <1>3
  <2> QED
    BY <2>1 DEF Even
<1>6. Past(rest)
  BY <1>3 DEF Past
<1>7. ASSUME NEW k \in 1..(at - start), NEW l \in 1..Len(rest)
      PROVE  k \in 1..Len(s) /\ \E j \in 1..Len(s) : k <= j /\ rest[l] = s[j]
  <2>1. PICK j \in 1..Len(s) : j = first + l - 1 /\ rest[l] = s[j]
    BY <1>3
  <2>2. k \in Int /\ l \in Int /\ 1 <= l /\ 1 <= k /\ k <= at - start
    BY <1>2
  <2>3. k <= j
    BY <2>1, <2>2
  <2> QED
    BY <1>1, <2>1, <2>2, <2>3
<1> QED
  BY <1>4, <1>5, <1>6, <1>7 DEF Numbered, RestOf

LEMMA QueueRestWallet ==
  ASSUME TxidInv, Ordered, ~isPOINode, Wallet, NEW c \in Caller, QueueRest(c)
  PROVE  Wallet'
<1> USE DEF TxidInv
<1>1. PICK v \in CallState : v = call[c]
  BY DEF TypeOK
<1> DEFINE first == v.at - v.start + 1
           rest  == SubSeq(v.batch, first, Len(v.batch))
<1>2. /\ stage[c] = "queueRest" /\ Goto(c, "insert") /\ call' = call
      /\ UNCHANGED <<branch, isPOINode, head, validated, length>>
      /\ writeQueue' = Queued(rest, v.at)
  BY <1>1 DEF QueueRest, source, tree
<1>3. /\ v.batch \in Seq(Tx) /\ v.start \in Nat /\ v.at \in Nat /\ v.start <= v.at
      /\ first \in Nat /\ 1 <= first /\ Len(v.batch) \in Nat
      /\ rest \in Seq(Tx)
      /\ v.at + Len(rest) = v.start + Len(v.batch)
  BY <1>1, <1>2, RestOfBatch
<1>4. call' = [call EXCEPT ![c] = v]
  BY <1>1, <1>2, CallStays
<1>5. /\ Active(c) /\ stage[c] \notin Updating /\ "insert" \in Stage /\ "insert" \in Updating
      /\ "insert" \notin Splitting /\ "insert" \notin Writing /\ "insert" \notin Legacies
      /\ "queueRest" \in Splitting
  BY <1>2 DEF Active, Owners, Stage, Syncing, Updating, Inserting, Writing, Splitting, Legacies
<1>6. /\ \A g \in writeQueue : ~Good(g)
      /\ \A d \in Caller : d # c => ~Active(d)
  BY <1>5, OwnerLeavesNoGood DEF Ordered, Wallet
<1>7. InWallet("queueRest", v) /\ Sent("queueRest", v)
  BY <1>1, <1>2 DEF Wallet, Ordered, Holdings
<1>8. /\ Even(v.batch) /\ Past(v.batch) /\ Numbered(v.batch, v.start)
      /\ length = v.at \/ (length < v.at /\ StaleLegacy(v))
  BY <1>5, <1>7 DEF InWallet, Sent
<1>9. rest = SubSeq(v.batch, first, Len(v.batch)) /\ first = v.at - v.start + 1
  OBVIOUS
<1> HIDE DEF rest, first
<1>10. /\ Numbered(rest, v.at) /\ Even(rest) /\ Past(rest)
       /\ \A k \in 1..(v.at - v.start), l \in 1..Len(rest) :
            /\ k \in 1..Len(v.batch)
            /\ \E j \in 1..Len(v.batch) : k <= j /\ rest[l] = v.batch[j]
  <2>1. RestOf(rest, v.batch, v.start, v.at)
    BY <1>3, <1>8, <1>9, RestFollows
  <2> QED
    BY <2>1 DEF RestOf
<1>11. Len(rest) \in Nat
  BY <1>3, LenProperties
<1>12. length \in Nat /\ length <= v.at
  BY <1>3, <1>8 DEF TypeOK
<1>13. /\ validated' < head' /\ OneEach'
       /\ \A g \in writeQueue' : Past(g.leaves)' /\ Len(g.leaves) # 0
  BY <1>2, <1>3, <1>10, <1>12, NewQueue
<1>14. Goal("insert", v) = v.at + Len(rest)
  BY <1>3, <1>5 DEF Goal
<1>15. Progress("insert", v)'
  <2>1. CASE length = v.at
    BY <1>2, <1>3, <1>5, <1>6, <1>10, <1>14, <2>1, QueuedGoesOn
  <2>2. CASE length < v.at /\ StaleLegacy(v)
    <3>1. PICK k \in 1..(v.at - v.start) : Stale(v.batch[k])
      BY <2>2 DEF StaleLegacy
    <3>2. ASSUME NEW l \in 1..Len(rest) PROVE Stale(rest[l])
      <4>1. k \in 1..Len(v.batch)
            /\ \E j \in 1..Len(v.batch) : k <= j /\ rest[l] = v.batch[j]
        BY <1>10
      <4>2. PICK j \in 1..Len(v.batch) : k <= j /\ rest[l] = v.batch[j]
        BY <4>1
      <4> QED
        BY <1>3, <1>8, <3>1, <4>1, <4>2, StaleGoesOn
    <3>3. ASSUME NEW g \in Queued(rest, v.at) PROVE ~Good(g)
      <4>1. CASE g \in writeQueue
        BY <1>6, <4>1
      <4>2. CASE g \notin writeQueue
        <5>1. /\ Len(g.leaves) \in Nat \ {0}
              /\ \A i \in 1..Len(g.leaves) : \E l \in 1..Len(rest) : g.leaves[i] = rest[l]
          BY <1>3, <1>12, <4>2, QueuedLeaves
        <5>2. 1 \in 1..Len(g.leaves)
          BY <5>1
        <5> QED
          BY <3>2, <5>1, <5>2 DEF Good
      <4> QED
        BY <4>1, <4>2
    <3>4. \A g \in writeQueue' : ~Good(g)'
      BY <1>2, <3>3, StaleFrame
    <3>5. (length <= Goal("insert", v))'
      BY <1>2, <1>3, <1>5, <1>11, <1>12, <1>14 DEF Goal
    <3> QED
      BY <1>5, <3>4, <3>5, NothingGoesOn
  <2> QED
    BY <1>8, <2>1, <2>2
<1>16. InWallet("insert", v)'
  BY <1>5, <1>15 DEF InWallet
<1> QED
  BY <1>2, <1>4, <1>5, <1>6, <1>13, <1>16, WalletAlone
-----------------------------------------------------------------------------
\* The groups that POI nodes accept are the good ones that continue the tree
LEMMA SourceIsNotStale ==
  ASSUME NEW i \in Int
  PROVE  ~Stale(Source(i))
BY Numbers DEF Stale, Source

LEMMA GenuineIsGood ==
  ASSUME TypeOK, NEW g \in writeQueue, Genuine(g.leaves)
  PROVE  Good(g)
<1>1. length \in Nat /\ Len(g.leaves) \in Nat
  BY LenProperties DEF TypeOK, Group
<1>2. ASSUME NEW k \in 1..Len(g.leaves) PROVE ~Stale(g.leaves[k])
  <2>1. g.leaves[k] = Source(length + k - 1) /\ length + k - 1 \in Int
    BY <1>1 DEF Genuine
  <2> QED
    BY <2>1, SourceIsNotStale
<1> QED
  BY <1>2 DEF Good

LEMMA AllowedIsValidated ==
  ASSUME TypeOK, Indexed
  PROVE  Allowed = validated + 1
BY Numbers DEF TypeOK, Indexed, Allowed

LEMMA GoodIsGenuine ==
  ASSUME TxidInv, Ordered, ~isPOINode, Indexed, Wallet, \A d \in Caller : stage[d] \notin Deleting,
         NEW g \in writeQueue, Good(g), g.start = length
  PROVE  Genuine(g.leaves)
<1> USE DEF TxidInv
<1>1. /\ length \in Nat /\ g.leaves \in Seq(Tx) /\ Len(g.leaves) \in Nat
      /\ validated \in Int /\ head \in Int
  BY LenProperties, Numbers DEF TypeOK, Group
<1>2. length + Len(g.leaves) <= head
  <2>1. length + Len(g.leaves) <= validated + 1 /\ validated < head
    BY AllowedIsValidated DEF Behind, Waiting, Wallet
  <2> QED
    BY <1>1, <2>1
<1>3. Len(data) = length /\ \A i \in 1..length : data[i] = Source(i - 1)
  BY NothingGone DEF Ordered, Kept, InPlace, Backed
<1>4. ASSUME NEW k \in 1..Len(g.leaves) PROVE g.leaves[k] = Source(length + k - 1)
  <2>1. PICK tx \in Tx : tx = g.leaves[k]
    BY <1>1, ElementOfSeq
  <2>2. tx.at = length + k - 1
    BY <2>1 DEF Ordered, QueueNumbered, Numbered
  <2>3. ~Stale(tx)
    BY <2>1 DEF Good
  <2>4. branch = "old" => tx.branch = "old"
    BY <2>1 DEF Wallet, Past
  <2>5. /\ tx \in [at : Place, branch : {"old", "new"}]
        /\ tx.at < Fork => tx.branch = "old"
        /\ tx.at \in Nat /\ Fork \in Nat /\ branch \in {"old", "new"}
    BY TxPlace, Numbers DEF Tx, TypeOK
  <2>6. tx.branch = IF tx.at < Fork THEN "old" ELSE branch
    BY <2>3, <2>4, <2>5 DEF Stale
  <2>7. tx = [at |-> tx.at, branch |-> tx.branch]
    BY <2>5
  <2> QED
    BY <2>1, <2>2, <2>6, <2>7 DEF Source
<1> QED
  BY <1>1, <1>2, <1>3, <1>4 DEF Genuine

\* If a group is ahead, then one continues the tree
LEMMA CoveredFirst ==
  ASSUME TypeOK, Covered(length)
  PROVE  \E h \in writeQueue : Good(h) /\ h.start = length
<1>1. PICK h \in writeQueue : Ahead(h) /\ h.start <= length
  BY DEF Covered
<1>2. length \in Int /\ h.start \in Int
  BY DEF TypeOK, Group
<1>3. h.start = length
  BY <1>1, <1>2 DEF Ahead
<1> QED
  BY <1>1, <1>3 DEF Ahead

LEMMA AheadBegins ==
  ASSUME TypeOK, NEW at, NEW v, Progress(at, v), NEW g \in writeQueue, Ahead(g)
  PROVE  \E h \in writeQueue : Good(h) /\ h.start = length
<1>1. length \in Int /\ g.start \in Int /\ length <= g.start
  BY DEF TypeOK, Group, Ahead
<1>2. Covered(length)
  BY <1>1 DEF Progress
<1> QED
  BY <1>2, CoveredFirst

\* The groups behind the length are dropped
LEMMA ProgressWaits ==
  ASSUME writeQueue' = {g \in writeQueue : length <= g.start},
         UNCHANGED <<branch, isPOINode, length>>, NEW at, NEW v, Progress(at, v)
  PROVE  Progress(at, v)'
<1>1. \A g : Ahead(g)' <=> Ahead(g)
  BY StaleFrame DEF Ahead
<1>2. \A j : Covered(j) => Covered(j)'
  <2> SUFFICES ASSUME NEW j, Covered(j) PROVE Covered(j)'
    OBVIOUS
  <2>1. PICK g \in writeQueue : Ahead(g) /\ g.start <= j /\ j < After(g)
    BY DEF Covered
  <2>2. g \in writeQueue'
    BY <2>1 DEF Ahead
  <2> QED
    BY <1>1, <2>1, <2>2 DEF Covered, After
<1>3. StaleLegacy(v)' <=> StaleLegacy(v)
  BY StaleFrame DEF StaleLegacy
<1>4. Goal(at, v)' = Goal(at, v)
  BY DEF Goal
<1>5. \A g \in writeQueue' : g \in writeQueue
  OBVIOUS
<1> QED
  BY <1>1, <1>2, <1>3, <1>4, <1>5 DEF Progress, After

LEMMA QueueShrinks ==
  ASSUME Wallet, UNCHANGED <<branch, isPOINode, head, validated>>,
         writeQueue' \subseteq writeQueue
  PROVE  /\ validated' < head' /\ OneEach'
         /\ \A g \in writeQueue' : Past(g.leaves)' /\ Len(g.leaves) # 0
BY StaleFrame DEF Wallet, OneEach
-----------------------------------------------------------------------------
\* What the end of an update leaves a call with
LEMMA ContinueWallet ==
  ASSUME TypeOK, Wallet, NEW c \in Caller, stage[c] \in Updating, Continue(c),
         call' = call, \A d \in Caller : d # c => ~Active(d),
         UNCHANGED <<branch, isPOINode, head, validated, length>>,
         writeQueue' \subseteq writeQueue, \A g \in writeQueue' : ~Good(g),
         \A g \in writeQueue : Good(g) => g.start # length
  PROVE  Wallet'
<1>1. PICK v \in CallState, at \in Updating : v = call[c] /\ at = stage[c]
  BY DEF TypeOK
<1>2. InWallet(at, v) /\ length \in Nat /\ v.at \in Nat
  BY <1>1 DEF Wallet, TypeOK, CallState
<1>3. PICK next \in {"snapshot", "rewind", "loop"} :
        Goto(c, next) /\ (next = "snapshot" <=> at \in Legacies)
  <2> DEFINE next == IF stage[c] \in {"insertLegacy", "writeLegacy"} THEN "snapshot"
                       ELSE IF call[c].mismatch THEN "rewind" ELSE "loop"
  <2>1. Goto(c, next)
    BY DEF Continue
  <2>2. next \in {"snapshot", "rewind", "loop"} /\ (next = "snapshot" <=> at \in Legacies)
    BY <1>1 DEF Legacies
  <2> HIDE DEF next
  <2> QED
    BY <2>1, <2>2
<1>4. /\ next \in Stage /\ next \notin Updating /\ next \notin Writing
      /\ next \notin {"handle", "queue"} /\ (next \in Splitting <=> next = "snapshot")
      /\ at \in Legacies => at \in Splitting
  BY DEF Stage, Syncing, Updating, Inserting, Writing, Splitting, Legacies
<1>5. next = "snapshot" => length = v.at \/ (length < v.at /\ StaleLegacy(v))
  <2> SUFFICES ASSUME at \in Legacies, length # v.at
               PROVE  length < v.at /\ StaleLegacy(v)
    BY <1>3
  <2>1. Progress(at, v)
    BY <1>2 DEF InWallet
  <2>2. length <= v.at
    BY <2>1 DEF Progress, Goal
  <2>3. length < v.at
    BY <1>2, <2>2
  <2>4. ~Covered(length)
    BY CoveredFirst
  <2>5. length \in length..(v.at - 1)
    BY <1>2, <2>3
  <2> QED
    BY <2>1, <2>3, <2>4, <2>5 DEF Progress
<1>6. InWallet(next, v)'
  <2>1. StaleLegacy(v)' <=> StaleLegacy(v)
    BY StaleFrame DEF StaleLegacy
  <2>2. next = "snapshot" => Even(v.batch) /\ Past(v.batch)
    BY <1>2, <1>3, <1>4 DEF InWallet
  <2>3. next = "snapshot" => Even(v.batch)' /\ Past(v.batch)'
    BY <2>2, StaleFrame DEF Even
  <2> QED
    BY <1>4, <1>5, <2>1, <2>3 DEF InWallet
<1>7. call' = [call EXCEPT ![c] = v]
  BY <1>1, CallStays
<1>8. \A g \in writeQueue' : ~Good(g)'
  BY StaleFrame
<1> QED
  BY <1>3, <1>4, <1>6, <1>7, <1>8, QueueShrinks, WalletAlone

LEMMA RejectBreaks ==
  ASSUME TypeOK, Happen("reject")
  PROVE  ~Smooth'
BY DEF TypeOK, Happen, Count, Smooth, Bounded, Fault

\* The call that goes on with group g
TakenUp(c, v, g) ==
  \E w \in CallState : /\ call' = [call EXCEPT ![c] = w] /\ w.leaves = g.leaves
                       /\ w.batch = v.batch /\ w.start = v.start /\ w.at = v.at

LEMMA InsertCall ==
  ASSUME TypeOK, NEW c \in Caller, NEW v \in CallState, v = call[c], NEW g \in writeQueue,
         call' = [call EXCEPT ![c].leaves = g.leaves, ![c].position = length]
  PROVE  TakenUp(c, v, g)
<1> DEFINE leaves == g.leaves
<1>1. leaves \in Seq(Tx) /\ length \in Int
  BY DEF TypeOK, Group
<1>2. call' = [call EXCEPT ![c] = [v EXCEPT !.leaves = leaves, !.position = length]]
  OBVIOUS
<1> HIDE DEF leaves
<1>3. [v EXCEPT !.leaves = leaves, !.position = length] \in CallState
  BY <1>1 DEF CallState
<1> QED
  BY <1>2, <1>3 DEF CallState, leaves, TakenUp

LEMMA InsertWallet ==
  ASSUME TxidInv, Ordered, ~isPOINode, Indexed, Wallet, Smooth', NEW c \in Caller, Insert(c)
  PROVE  Wallet'
<1> USE DEF TxidInv
<1>1. /\ stage[c] \in Inserting
      /\ UNCHANGED <<branch, isPOINode, head, validated, length>>
      /\ writeQueue' = {g \in writeQueue : length <= g.start}
  BY InsertDoes DEF disk, source
<1>2. /\ stage[c] \in Updating /\ Active(c) /\ stage[c] \notin Deleting
  BY <1>1 DEF Updating, Active, Owners, Syncing, Inserting, Deleting
<1>3. /\ \A d \in Caller : d # c => ~Active(d)
      /\ \A d \in Caller : stage[d] \notin Deleting
  BY <1>2, OwnerIsNotDeleting DEF Ordered, Alone
<1>4. PICK v \in CallState, at \in Inserting : v = call[c] /\ at = stage[c]
  BY <1>1 DEF TypeOK
<1>5. InWallet(at, v) /\ Progress(at, v)
  BY <1>2, <1>4 DEF Wallet, InWallet
<1>6. writeQueue' \subseteq writeQueue /\ \A g \in writeQueue' : length <= g.start
  BY <1>1
<1>7. ASSUME Continue(c), UNCHANGED call, \A g \in writeQueue : Good(g) => g.start # length
      PROVE  Wallet'
  <2>1. \A g \in writeQueue' : ~Good(g)
    <3> SUFFICES ASSUME NEW g \in writeQueue', Good(g) PROVE FALSE
      OBVIOUS
    <3>1. g \in writeQueue /\ Ahead(g)
      BY <1>6 DEF Ahead
    <3> QED
      BY <1>5, <1>7, <3>1, AheadBegins
  <2> QED
    BY <1>1, <1>2, <1>3, <1>6, <1>7, <2>1, ContinueWallet
<1>8. CASE Continue(c) /\ UNCHANGED call /\ \A g \in writeQueue' : g.start # length
  <2>1. \A g \in writeQueue : Good(g) => g.start # length
    <3> SUFFICES ASSUME NEW g \in writeQueue, g.start = length PROVE FALSE
      OBVIOUS
    <3>1. length \in Nat
      BY DEF TypeOK
    <3>2. g \in writeQueue'
      BY <1>1, <3>1
    <3> QED
      BY <1>8, <3>2
  <2> QED
    BY <1>7, <1>8, <2>1
<1>9. CASE /\ Continue(c) /\ UNCHANGED call
           /\ \E g \in writeQueue' : g.start = length /\ ~Genuine(g.leaves)
  <2>1. PICK g \in writeQueue : g.start = length /\ ~Genuine(g.leaves)
    BY <1>6, <1>9
  <2>2. ~Good(g)
    BY <1>3, <2>1, GoodIsGenuine
  <2>3. \A h \in writeQueue : Good(h) => h.start # length
    BY <2>1, <2>2 DEF Wallet, OneEach
  <2> QED
    BY <1>7, <1>9, <2>3
<1>10. CASE \E g \in writeQueue' :
              /\ g.start = length /\ Genuine(g.leaves)
              /\ call' = [call EXCEPT ![c].leaves = g.leaves, ![c].position = length]
              /\ Goto(c, IF stage[c] = "insert" THEN "write" ELSE "writeLegacy")
  <2>1. PICK g \in writeQueue' :
          /\ g.start = length /\ Genuine(g.leaves)
          /\ call' = [call EXCEPT ![c].leaves = g.leaves, ![c].position = length]
          /\ Goto(c, IF stage[c] = "insert" THEN "write" ELSE "writeLegacy")
    BY <1>10
  <2>2. g \in writeQueue /\ Good(g)
    BY <1>6, <2>1, GenuineIsGood
  <2>4. PICK w \in CallState : /\ call' = [call EXCEPT ![c] = w] /\ w.leaves = g.leaves
                               /\ w.batch = v.batch /\ w.start = v.start /\ w.at = v.at
    <3>1. v = call[c] /\ g \in writeQueue
          /\ call' = [call EXCEPT ![c].leaves = g.leaves, ![c].position = length]
      BY <1>4, <2>1, <2>2
    <3>2. TakenUp(c, v, g)
      BY <3>1, InsertCall
    <3> QED
      BY <3>2 DEF TakenUp
  <2>5. PICK next \in Writing : Goto(c, next) /\ (next = "writeLegacy" <=> at = "insertLegacy")
    BY <1>4, <2>1 DEF Writing, Inserting
  <2>6. /\ next \in Stage /\ next \in Updating
        /\ next \notin {"handle", "queue", "snapshot", "queueRest"}
        /\ (next \in Splitting <=> at \in Splitting) /\ (next \in Legacies <=> at \in Legacies)
    BY <2>5 DEF Stage, Syncing, Updating, Writing, Inserting, Splitting, Legacies
  <2>7. Progress(next, w)'
    <3>1. Goal(next, w) = Goal(at, v) /\ (StaleLegacy(w) <=> StaleLegacy(v))
      BY <2>4, <2>6 DEF Goal, StaleLegacy
    <3>2. Progress(next, w)
      BY <1>5, <2>4, <2>6, <3>1 DEF Progress
    <3> QED
      BY <1>1, <3>2, ProgressWaits
  <2>8. \E h \in writeQueue' : Good(h)' /\ h.leaves = w.leaves /\ h.start = length'
    BY <1>1, <2>1, <2>2, <2>4, StaleFrame
  <2>9. next \in Splitting => Even(w.batch)' /\ Past(w.batch)'
    <3>1. next \in Splitting => Even(w.batch) /\ Past(w.batch)
      BY <1>5, <2>4, <2>6 DEF InWallet
    <3> QED
      BY <1>1, <3>1, StaleFrame DEF Even
  <2>10. InWallet(next, w)'
    BY <2>6, <2>7, <2>8, <2>9 DEF InWallet
  <2> QED
    BY <1>1, <1>3, <1>6, <2>4, <2>5, <2>6, <2>10, QueueShrinks, WalletAlone
<1> QED
  BY <1>8, <1>9, <1>10, InsertDoes, ErrorBreaks, RejectBreaks
-----------------------------------------------------------------------------
\* When group h is written, what is covered behind it still is
LEMMA CoveredStays ==
  ASSUME TypeOK, NEW at, NEW v, Progress(at, v), NEW h \in writeQueue, Ahead(h),
         h.start = length, Len(h.leaves) # 0, length' = After(h),
         \A g \in writeQueue : Len(g.leaves) # 0,
         writeQueue' = {g \in writeQueue : g.start # length},
         UNCHANGED <<branch, isPOINode>>, NEW j \in Int, length' <= j, Covered(j)
  PROVE  Covered(j)'
<1>1. PICK g \in writeQueue : Ahead(g) /\ g.start <= j /\ j < After(g)
  BY DEF Covered
<1>2. /\ length \in Int /\ g.start \in Int /\ Len(g.leaves) \in Nat \ {0}
      /\ h.start \in Int /\ Len(h.leaves) \in Nat \ {0}
  BY LenProperties DEF TypeOK, Group
<1>3. g # h
  BY <1>1, <1>2 DEF After
<1>4. After(g) <= h.start \/ After(h) <= g.start
  BY <1>1, <1>3 DEF Progress
<1>5. length' <= g.start
  BY <1>1, <1>2, <1>4 DEF After, Ahead
<1>6. g \in writeQueue'
  BY <1>2, <1>5 DEF After
<1>7. Ahead(g)'
  BY <1>1, <1>5, <1>6, StaleFrame DEF Ahead
<1> QED
  BY <1>1, <1>6, <1>7 DEF Covered, After

LEMMA WrittenProgress ==
  ASSUME TypeOK, NEW at, NEW v, Progress(at, v), NEW h \in writeQueue, Ahead(h),
         h.start = length, Len(h.leaves) # 0, length' = After(h),
         \A g \in writeQueue : Len(g.leaves) # 0,
         writeQueue' = {g \in writeQueue : g.start # length},
         UNCHANGED <<branch, isPOINode>>, at \in Legacies => v.at \in Int,
         NEW next, next \in Legacies <=> at \in Legacies
  PROVE  Progress(next, v)'
<1>1. /\ length \in Int /\ Len(h.leaves) \in Nat \ {0}
      /\ length' \in Int /\ length < length'
  <2>1. length \in Int /\ Len(h.leaves) \in Nat \ {0}
    BY LenProperties DEF TypeOK, Group
  <2> QED
    BY <2>1 DEF After
<1>2. Goal(next, v)' = Goal(at, v) /\ (StaleLegacy(v)' <=> StaleLegacy(v))
  BY StaleFrame DEF Goal, StaleLegacy
<1>3. \A g : Ahead(g)' => Ahead(g)
  <2> SUFFICES ASSUME NEW g, Ahead(g)' PROVE Ahead(g)
    OBVIOUS
  <2>1. g \in writeQueue /\ Good(g) /\ length' <= g.start
    BY StaleFrame DEF Ahead
  <2>2. g.start \in Int
    BY <2>1 DEF TypeOK, Group
  <2> QED
    BY <1>1, <2>1, <2>2 DEF Ahead
<1>4. length' <= Goal(next, v)'
  BY <1>2 DEF Progress
<1>5. ASSUME NEW g \in writeQueue', Ahead(g)'
      PROVE  After(g) <= Goal(at, v) /\ \A j \in length'..g.start : Covered(j)'
  <2>1. g \in writeQueue /\ Ahead(g) /\ g.start \in Int
    BY <1>3, <1>5 DEF TypeOK, Group
  <2>2. ASSUME NEW j \in length'..g.start PROVE Covered(j)'
    <3>1. j \in Int /\ length' <= j /\ j \in length..g.start
      BY <1>1, <2>1
    <3>2. Covered(j)
      BY <2>1, <3>1 DEF Progress
    <3> QED
      BY <3>1, <3>2, CoveredStays
  <2> QED
    BY <2>1, <2>2 DEF Progress
<1>6. \A g, k \in writeQueue' :
        Ahead(g)' /\ Ahead(k)' => g = k \/ After(g) <= k.start \/ After(k) <= g.start
  BY <1>3 DEF Progress
<1>7. ASSUME next \in Legacies, ~StaleLegacy(v), NEW j \in length'..(v.at - 1)
      PROVE  Covered(j)'
  <2>1. j \in Int /\ length' <= j /\ j \in length..(v.at - 1)
    BY <1>1, <1>7
  <2>2. Covered(j)
    BY <1>7, <2>1 DEF Progress
  <2> QED
    BY <2>1, <2>2, CoveredStays
<1>8. next \in Legacies => StaleLegacy(v)' \/ \A j \in length'..(v.at - 1) : Covered(j)'
  BY <1>2, <1>7
<1> QED
  BY <1>2, <1>4, <1>5, <1>6, <1>8 DEF Progress, After

LEMMA WriteWallet ==
  ASSUME TxidInv, Ordered, ~isPOINode, Wallet, Smooth', NEW c \in Caller, Write(c)
  PROVE  Wallet'
<1> USE DEF TxidInv
<1>1. PICK v \in CallState, at \in Writing : v = call[c] /\ at = stage[c]
  BY WriteDoes DEF TypeOK
<1>2. /\ UNCHANGED <<branch, isPOINode, head, validated, call>>
      /\ length' = length + Len(v.leaves)
      /\ writeQueue' = {g \in writeQueue : g.start # length}
      /\ Goto(c, IF at = "write" THEN "insert" ELSE "insertLegacy")
  BY <1>1, WriteDoes, ErrorBreaks DEF source
<1>3. at \in Updating /\ Active(c)
  BY <1>1 DEF Updating, Active, Owners, Syncing
<1>4. \A d \in Caller : d # c => ~Active(d)
  BY <1>3 DEF Ordered, Alone
<1>5. InWallet(at, v) /\ Progress(at, v)
  BY <1>1, <1>3 DEF Wallet, InWallet
<1>6. PICK h \in writeQueue : Good(h) /\ h.leaves = v.leaves /\ h.start = length
  BY <1>1, <1>5 DEF InWallet
<1>7. Ahead(h) /\ Len(h.leaves) # 0 /\ \A g \in writeQueue : Len(g.leaves) # 0
  BY <1>6 DEF Ahead, Wallet, TypeOK
<1>8. length' = After(h)
  BY <1>2, <1>6 DEF After
<1>9. PICK next \in Inserting : Goto(c, next) /\ (next = "insertLegacy" <=> at = "writeLegacy")
  BY <1>1, <1>2 DEF Inserting, Writing
<1>10. /\ next \in Stage /\ next \in Updating /\ next \notin Writing
       /\ next \notin {"handle", "queue", "snapshot", "queueRest"}
       /\ (next \in Splitting <=> at \in Splitting) /\ (next \in Legacies <=> at \in Legacies)
  BY <1>9 DEF Stage, Syncing, Updating, Writing, Inserting, Splitting, Legacies
<1>11. Progress(next, v)'
  <2>1. v.at \in Int
    BY DEF CallState
  <2> QED
    BY <1>2, <1>5, <1>6, <1>7, <1>8, <1>10, <2>1, WrittenProgress
<1>12. next \in Splitting => Even(v.batch)' /\ Past(v.batch)'
  <2>1. next \in Splitting => Even(v.batch) /\ Past(v.batch)
    BY <1>5, <1>10 DEF InWallet
  <2> QED
    BY <1>2, <2>1, StaleFrame DEF Even
<1>13. InWallet(next, v)'
  BY <1>10, <1>11, <1>12 DEF InWallet
<1>14. call' = [call EXCEPT ![c] = v]
  BY <1>1, <1>2, CallStays
<1>15. writeQueue' \subseteq writeQueue
  BY <1>2
<1> QED
  BY <1>2, <1>4, <1>9, <1>10, <1>13, <1>14, <1>15, QueueShrinks, WalletAlone
-----------------------------------------------------------------------------
LEMMA ClearLeavesWallet ==
  ASSUME TypeOK, Wallet, NEW c \in Caller, NEW first \in Nat, NEW next \in Deleting,
         ClearLeaves(c, first, next), \A d \in Caller : d # c => ~Active(d),
         UNCHANGED <<branch, isPOINode, head, validated>>
  PROVE  Wallet'
<1>1. writeQueue' = {} /\ Goto(c, next)
  BY DEF ClearLeaves
<1>2. PICK v \in CallState : call' = [call EXCEPT ![c] = v]
  <2>1. call[c] \in CallState /\ length - 1 \in Int
    BY DEF TypeOK
  <2>2. [call[c] EXCEPT !.start = first, !.at = first, !.position = length - 1] \in CallState
    BY <2>1 DEF CallState
  <2>3. call' = [call EXCEPT ![c] = [call[c] EXCEPT !.start = first, !.at = first,
                                                    !.position = length - 1]]
    BY DEF ClearLeaves
  <2> QED
    BY <2>2, <2>3
<1>3. next \in Stage /\ next \notin Updating /\ next \notin Busy
  BY DEF Deleting, Stage, Holding, Busy, Splitting, Updating, Inserting, Writing
<1>4. InWallet(next, v)'
  BY <1>3 DEF Busy, Splitting, Updating, InWallet
<1>5. writeQueue' \subseteq writeQueue /\ \A g \in writeQueue' : ~Good(g)'
  BY <1>1
<1> QED
  BY <1>1, <1>2, <1>3, <1>4, <1>5, QueueShrinks, WalletAlone

LEMMA ClearingWallet ==
  ASSUME TypeOK, Ordered, Wallet, Whole', NEW c \in Caller, Rewind(c) \/ Reset(c)
  PROVE  Wallet'
<1>1. CASE Rewind(c)
  <2> DEFINE first == IF length < LeavesToClear THEN 0 ELSE length - LeavesToClear
  <2>1. first \in Nat
    BY Numbers DEF TypeOK
  <2>2. /\ ClearLeaves(c, first, "rewindDelete") /\ "rewindDelete" \in Deleting
        /\ UNCHANGED <<branch, isPOINode, head, validated>> /\ Active(c)
    BY <1>1 DEF Rewind, source, Deleting, Active, Owners, Syncing
  <2> HIDE DEF first
  <2>3. \A d \in Caller : d # c => ~Active(d)
    BY <2>2 DEF Ordered, Alone
  <2> QED
    BY <2>1, <2>2, <2>3, ClearLeavesWallet
<1>2. CASE Reset(c)
  <2>1. PICK first \in Place : ClearLeaves(c, first, "resetDelete")
    BY <1>2 DEF Reset
  <2>2. /\ first \in Nat /\ "resetDelete" \in Deleting
        /\ UNCHANGED <<branch, isPOINode, head, validated>>
    BY <1>2, Numbers DEF Reset, source, Deleting
  <2>3. ~isScanning \/ Stuck
    BY <1>2, MishapHappens DEF Reset
  <2>4. \A d \in Caller : ~Active(d)
    BY <2>3, NobodyOwns DEF Ordered
  <2> QED
    BY <2>1, <2>2, <2>4, ClearLeavesWallet
<1> QED
  BY <1>1, <1>2

\* The queue stays with nothing good in it, and c goes where nothing is said of it
LEMMA WalletLeaves ==
  ASSUME TypeOK, Wallet, NEW c \in Caller, NEW next \in Stage \ Busy, NEW v \in CallState,
         Goto(c, next), call' = [call EXCEPT ![c] = v], \A d \in Caller : d # c => ~Active(d),
         \A g \in writeQueue : ~Good(g),
         UNCHANGED <<branch, isPOINode, head, validated, writeQueue>>
  PROVE  Wallet'
<1>1. InWallet(next, v)'
  BY DEF Busy, Splitting, Updating, InWallet
<1>2. next \in Stage
  OBVIOUS
<1> QED
  BY <1>1, <1>2, QueueStaysBad, WalletAlone

LEMMA DeletingWallet ==
  ASSUME TypeOK, Ordered, Wallet, NEW c \in Caller, DeleteLeaf(c) \/ RebuildAndWriteTree(c)
  PROVE  Wallet'
<1>1. /\ stage[c] \in Deleting
      /\ UNCHANGED <<branch, isPOINode, head, validated, writeQueue>>
  BY DEF DeleteLeaf, RebuildAndWriteTree, memory, queue, source
<1>2. Active(c) /\ stage[c] \notin Updating
  BY <1>1 DEF Active, Owners, Syncing, Deleting, Updating, Inserting, Writing
<1>3. (\A g \in writeQueue : ~Good(g)) /\ \A d \in Caller : d # c => ~Active(d)
  BY <1>2, OwnerLeavesNoGood DEF Ordered, Wallet
<1>4. CASE DeleteLeaf(c)
  <2>1. PICK next \in Deleting : next = stage[c]
    BY <1>1
  <2>2. Goto(c, next) /\ next \in Stage \ Busy
    BY <1>4, <2>1 DEF DeleteLeaf, Goto, TypeOK, Deleting, Busy, Splitting, Updating,
                      Inserting, Writing
  <2>3. PICK v \in CallState : call' = [call EXCEPT ![c] = v]
    <3>1. call[c] \in CallState /\ call[c].at + 1 \in Nat
      BY DEF TypeOK, CallState
    <3>2. [call[c] EXCEPT !.at = call[c].at + 1] \in CallState
      BY <3>1 DEF CallState
    <3>3. call' = [call EXCEPT ![c] = [call[c] EXCEPT !.at = call[c].at + 1]]
      BY <1>4 DEF DeleteLeaf, TypeOK
    <3> QED
      BY <3>2, <3>3
  <2> QED
    BY <1>1, <1>3, <2>2, <2>3, WalletLeaves
<1>5. CASE RebuildAndWriteTree(c)
  <2>1. PICK next \in {"loop", "again"} : Goto(c, next)
    BY <1>5 DEF RebuildAndWriteTree
  <2>2. call' = call /\ next \in Stage \ Busy
    BY <1>5 DEF RebuildAndWriteTree, Stage, Syncing, Busy, Splitting, Updating, Inserting,
                Writing
  <2>3. PICK v \in CallState : call' = [call EXCEPT ![c] = v]
    BY <2>2, CallStays
  <2> QED
    BY <1>1, <1>3, <2>1, <2>2, <2>3, WalletLeaves
<1> QED
  BY <1>4, <1>5

LEMMA EraseWallet ==
  ASSUME TypeOK, Ordered, Wallet, Whole', NEW c \in Caller, Erase(c)
  PROVE  Wallet'
<1>1. PICK next \in {"again", "upgradeVersion"} : Goto(c, next)
  BY DEF Erase
<1>2. UNCHANGED <<branch, isPOINode, head, validated, writeQueue, call>>
  BY DEF Erase, queue, source
<1>3. (\A g \in writeQueue : ~Good(g)) /\ \A d \in Caller : d # c => ~Active(d)
  BY EraseAlone DEF Wallet, NothingGood
<1>4. next \in Stage \ Busy
  BY DEF Stage, Busy, Splitting, Updating, Inserting, Writing
<1>5. PICK v \in CallState : call' = [call EXCEPT ![c] = v]
  BY <1>2, CallStays
<1> QED
  BY <1>1, <1>2, <1>3, <1>4, <1>5, WalletLeaves

LEMMA CrashWallet ==
  ASSUME TypeOK, Wallet, Crash
  PROVE  Wallet'
<1>1. /\ UNCHANGED <<branch, isPOINode, head, validated>> /\ writeQueue' = {}
      /\ \A c \in Caller : stage'[c] = "idle"
  BY DEF Crash, source
<1>2. \A c \in Caller : InWallet(stage[c], call[c])'
  BY <1>1 DEF InWallet, Splitting, Updating, Inserting, Writing
<1>3. OneEach' /\ NothingGood' /\ validated' < head'
  BY <1>1 DEF OneEach, NothingGood, Wallet
<1> QED
  BY <1>1, <1>2, <1>3 DEF Wallet
-----------------------------------------------------------------------------
\* A wallet queues what is validated, which no re-org replaces
LEMMA NothingGoesStale ==
  ASSUME TxidInv, Ordered, ~isPOINode, Indexed, validated < Fork, UNCHANGED <<isPOINode, writeQueue>>
  PROVE  \A g \in writeQueue : Good(g)'
<1> USE DEF TxidInv
<1>1. validated \in Nat /\ Fork \in Nat
  BY Numbers DEF TypeOK
<1> SUFFICES ASSUME NEW g \in writeQueue PROVE Good(g)'
  OBVIOUS
<1>2. /\ g.start \in Nat /\ Len(g.leaves) \in Nat
      /\ g.start + Len(g.leaves) <= validated + 1
  BY LenProperties, AllowedIsValidated DEF TypeOK, Group, Behind, Waiting
<1>3. ASSUME NEW k \in 1..Len(g.leaves) PROVE ~Stale(g.leaves[k])'
  <2>1. g.leaves[k].at = g.start + k - 1
    BY DEF Ordered, QueueNumbered, Numbered
  <2>2. g.start + k - 1 < Fork
    BY <1>1, <1>2
  <2> QED
    BY <1>1, <1>2, <2>1, <2>2 DEF Stale
<1> QED
  BY <1>3 DEF Good

LEMMA ReorgWallet ==
  ASSUME TxidInv, Ordered, ~isPOINode, Indexed, Wallet,
         UNCHANGED <<isPOINode, disk, memory, stage, call>>, validated' < head',
         branch = "old", branch' = "new", validated < Fork
  PROVE  Wallet'
<1> USE DEF TxidInv
<1>1. UNCHANGED <<isPOINode, length, writeQueue, stage, call>>
  BY DEF disk, memory
<1>2. (\A tx : ~Stale(tx)) /\ (\A g : Good(g)) /\ \A v : ~StaleLegacy(v)
  BY DEF Stale, Good, StaleLegacy
<1>3. \A g \in writeQueue : Good(g)'
  BY <1>1, NothingGoesStale
<1>4. \A txs : Past(txs)' /\ (Even(txs)' <=> Even(txs))
  BY DEF Past, Even
<1>5. \A g : Ahead(g)' <=> Ahead(g)
  BY <1>1, <1>2, <1>3 DEF Ahead
<1>6. \A j : Covered(j)' <=> Covered(j)
  BY <1>1, <1>5 DEF Covered
<1>7. ASSUME NEW c \in Caller PROVE InWallet(stage[c], call[c])'
  <2>1. PICK v \in CallState, at \in Stage : v = call[c] /\ at = stage[c]
    BY DEF TypeOK
  <2>2. InWallet(at, v)
    BY <2>1 DEF Wallet
  <2>3. at \in Updating => Progress(at, v)'
    <3>1. at \in Updating => Progress(at, v)
      BY <2>2 DEF InWallet
    <3>2. Goal(at, v)' = Goal(at, v) /\ length' = length /\ writeQueue' = writeQueue
      BY <1>1 DEF Goal
    <3>3. at \in Updating /\ at \in Legacies => \A j \in length..(v.at - 1) : Covered(j)'
      BY <1>2, <1>6, <3>1 DEF Progress
    <3> QED
      BY <1>5, <1>6, <3>1, <3>2, <3>3 DEF Progress
  <2>4. at \in Writing => \E g \in writeQueue' : /\ Good(g)' /\ g.leaves = v.leaves
                                                 /\ g.start = length'
    BY <1>1, <1>3, <2>2 DEF InWallet
  <2>5. at \in {"snapshot", "queueRest"} => length' = v.at
    BY <1>1, <1>2, <2>2 DEF InWallet
  <2>6. InWallet(at, v)'
    BY <1>4, <2>2, <2>3, <2>4, <2>5 DEF InWallet
  <2>7. stage'[c] = at /\ call'[c] = v
    BY <1>1, <2>1
  <2> QED
    BY <2>6, <2>7 DEF InWallet, Progress, StaleLegacy, Goal
<1>8. NothingGood'
  <2>1. (\A c \in Caller : stage[c] \notin Updating) => writeQueue = {}
    BY <1>2 DEF Wallet, NothingGood
  <2> QED
    BY <1>1, <2>1 DEF NothingGood
<1>9. OneEach' /\ \A g \in writeQueue' : Past(g.leaves)' /\ Len(g.leaves) # 0
  BY <1>1, <1>4 DEF Wallet, OneEach
<1> QED
  BY <1>7, <1>8, <1>9 DEF Wallet

LEMMA SourceWallet ==
  ASSUME Wallet, UNCHANGED <<branch, isPOINode, disk, memory, stage, call>>, validated' < head'
  PROVE  Wallet'
<1>1. UNCHANGED <<branch, isPOINode, length, writeQueue, stage, call>>
  BY DEF disk, memory
<1>2. ASSUME NEW c \in Caller PROVE InWallet(stage[c], call[c])'
  <2>1. PICK v, at : v = call[c] /\ at = stage[c]
    OBVIOUS
  <2>2. InWallet(at, v)'
    BY <1>1, <2>1, InWalletFrame DEF Wallet
  <2>3. stage'[c] = at /\ call'[c] = v
    BY <1>1, <2>1
  <2> QED
    BY <2>2, <2>3 DEF InWallet, Progress, StaleLegacy, Goal
<1>3. NothingGood'
  BY <1>1, StaleFrame DEF Wallet, NothingGood
<1>4. OneEach' /\ \A g \in writeQueue' : Past(g.leaves)' /\ Len(g.leaves) # 0
  BY <1>1, StaleFrame DEF Wallet, OneEach
<1> QED
  BY <1>2, <1>3, <1>4 DEF Wallet

LEMMA NextWallet ==
  ASSUME TxidInv, Ordered, ~isPOINode, Indexed, Wallet, [Next]_vars, Whole', Smooth'
  PROVE  Wallet'
<1>1. TypeOK
  BY DEF TxidInv
<1>2. ASSUME NEW c \in Caller, SyncStep(c) PROVE Wallet'
  <2>1. UpgradeVersion(c) \/ Guard(c) \/ ReadCursor(c) \/ Loop(c) \/ End(c) => Wallet'
    BY <1>1, AsideWallet
  <2>2. Request(c) \/ HandleNew(c) \/ Queue(c) \/ SaveSnapshot(c) \/ Erase(c) => Wallet'
    BY <1>1, RequestWallet, HandleNewWallet, QueueWallet, SaveSnapshotWallet, EraseWallet
  <2>3. QueueRest(c) \/ Insert(c) \/ Write(c) => Wallet'
    BY QueueRestWallet, InsertWallet, WriteWallet
  <2>4. Rewind(c) \/ DeleteLeaf(c) \/ RebuildAndWriteTree(c) => Wallet'
    BY <1>1, ClearingWallet, DeletingWallet
  <2> QED
    BY <1>2, <2>1, <2>2, <2>3, <2>4 DEF SyncStep
<1>3. ASSUME NEW c \in Caller, SyncCall(c) \/ Reset(c) \/ FullReset(c) PROVE Wallet'
  BY <1>1, <1>3, AsideWallet, ClearingWallet
<1>4. \A c \in Caller : ~Fail(c) /\ ~FailClear(c)
  BY <1>1, ErrorBreaks, FailClearBreaks DEF Fail
<1>5. validated \in Int /\ head \in Int /\ validated < head /\ Fork \in Int
  BY <1>1, Numbers DEF TypeOK, Wallet
<1>6. CASE NewTransaction \/ Validate \/ SyncUTXOs
  <2>1. /\ UNCHANGED <<branch, isPOINode, disk, memory, stage, call>>
        /\ validated' < head'
    BY <1>5, <1>6 DEF NewTransaction, Validate, SyncUTXOs
  <2> QED
    BY <2>1, SourceWallet
<1>7. CASE Reorg
  <2>1. /\ UNCHANGED <<isPOINode, disk, memory, stage, call>>
        /\ branch = "old" /\ branch' = "new" /\ validated < Fork
    BY <1>7 DEF Reorg
  <2>2. validated' < head'
    <3>1. head' \in Fork..head /\ validated' = validated
      BY <1>7 DEF Reorg
    <3> QED
      BY <1>5, <2>1, <3>1
  <2> QED
    BY <2>1, <2>2, ReorgWallet
<1>8. CASE Crash
  BY <1>1, <1>8, CrashWallet
<1>9. CASE UNCHANGED vars
  BY <1>5, <1>9, SourceWallet DEF vars, source
<1> QED
  BY <1>2, <1>3, <1>4, <1>6, <1>7, <1>8, <1>9 DEF Next

LEMMA InitWallet == Init => Wallet
BY DEF Init, Wallet, OneEach, NothingGood, InWallet, Splitting, Updating, Inserting, Writing

(* A wallet that no insertion failed on or was refused to has the groups that
   follow its tree in the queue, each at its place, up to the first with a
   transaction that a re-org has replaced; outside an update it has none.       *)
THEOREM UpdatesGoOn == Spec => []WalletInv
<1>1. Init => WalletInv
  BY InitWallet DEF WalletInv
<1>2. TxidInv /\ OrderInv /\ WalletInv /\ [Next]_vars => WalletInv'
  BY NextWallet, WholeBefore, SameEngine, IndexedBefore
     DEF WalletInv, OrderInv, TxidInv, Backed
<1> QED
  BY <1>1, <1>2, Invariant, LeavesFollow, PTL DEF Spec
-----------------------------------------------------------------------------
(* The launch snapshot of a wallet, when no re-org is before the launch.        *)

Calm == Stage \ (Updating \union {"snapshot", "queueRest"})

LEMMA SnappedStep ==
  ASSUME TypeOK, Snapped, NEW c \in Caller, NEW next \in Stage, NEW v \in CallState,
         Goto(c, next), call' = [call EXCEPT ![c] = v],
         UNCHANGED <<branch, isPOINode, snapshot>>,
         snapshot = None => length' <= LaunchTx, Launched(next, v)
  PROVE  Snapped'
<1>1. stage'[c] = next /\ call'[c] = v
  BY DEF TypeOK, Goto
<1>2. \A d \in Caller : d # c => stage'[d] = stage[d] /\ call'[d] = call[d]
  BY DEF TypeOK, Goto
<1>3. \A d \in Caller : Launched(stage'[d], call'[d])
  BY <1>1, <1>2 DEF Snapped, Saved
<1>4. \A d \in Caller : Launched(stage[d], call[d])'
  BY <1>3 DEF Launched, Goal
<1>5. \A i : Source(i)' = Source(i)
  BY SourceFrame
<1> QED
  BY <1>4, <1>5 DEF Snapped, Saved

LEMMA SnappedMove ==
  ASSUME TypeOK, Snapped, NEW c \in Caller, NEW next \in Calm, NEW v \in CallState,
         Goto(c, next), call' = [call EXCEPT ![c] = v],
         UNCHANGED <<branch, isPOINode, snapshot>>, length' \in Int, length' <= length
  PROVE  Snapped'
<1>1. next \in Stage /\ Launched(next, v)
  BY DEF Calm, Launched, Updating, Legacies, Inserting, Writing
<1>2. CASE snapshot = None
  <2>1. length <= LaunchTx
    BY <1>2 DEF Snapped, Saved
  <2>2. length' <= LaunchTx
    BY <2>1, Numbers DEF TypeOK
  <2> QED
    BY <1>1, <2>2, SnappedStep
<1>3. CASE snapshot # None
  BY <1>1, <1>3, SnappedStep
<1> QED
  BY <1>2, <1>3

LEMMA AsideSnapped ==
  ASSUME TypeOK, Snapped, NEW c \in Caller,
         \/ SyncCall(c) \/ UpgradeVersion(c) \/ Guard(c) \/ ReadCursor(c) \/ Request(c)
         \/ Loop(c) \/ End(c) \/ FullReset(c)
  PROVE  Snapped'
<1>1. UNCHANGED <<branch, isPOINode, length>>
  BY AsideDoes DEF source
<1>2. snapshot' = snapshot
  BY DEF SyncCall, UpgradeVersion, Guard, ReadCursor, Request, Loop, End, FullReset, disk
<1>3. PICK next \in {"upgradeErase", "guard", "idle", "cursor", "request", "end",
                     "handle", "fullErase"} : Goto(c, next)
  BY AsideDoes
<1>4. next \in Calm
  BY DEF Calm, Stage, Syncing, Holding, Erasing, Updating, Inserting, Writing
<1>5. PICK v \in CallState : call' = [call EXCEPT ![c] = v]
  BY AsideDoes
<1>6. length' \in Int /\ length' <= length
  BY <1>1 DEF TypeOK
<1> QED
  BY <1>1, <1>2, <1>3, <1>4, <1>5, <1>6, SnappedMove
-----------------------------------------------------------------------------
LEMMA HandleNewDoes ==
  ASSUME TypeOK, NEW c \in Caller, HandleNew(c)
  PROVE  /\ UNCHANGED <<source, disk, memory>> /\ stage[c] = "handle"
         /\ \E next \in {"queue", "loop"} : Goto(c, next)
         /\ \E v \in CallState : call' = [call EXCEPT ![c] = v]
<1> DEFINE page == call[c].page
<1>1. UNCHANGED <<source, disk, memory>> /\ stage[c] = "handle"
  BY DEF HandleNew
<1>2. \E next \in {"queue", "loop"} : Goto(c, next)
  BY DEF HandleNew
<1>3. \E v \in CallState : call' = [call EXCEPT ![c] = v]
  <2>1. call[c] \in CallState /\ page \in Seq(Tx) /\ Len(page) \in Nat
    BY LenProperties DEF TypeOK, CallState
  <2>2. PICK limit \in Place \union {None} :
          \/ call' = call
          \/ \E n \in 0..Len(page) :
               call' = [call EXCEPT ![c].limit = limit,
                                    ![c].batch = SubSeq(page, 1, n),
                                    ![c].mismatch = n < Len(page) /\ Known(c, n + 1)]
    BY DEF HandleNew
  <2>3. CASE call' = call
    BY <2>3, CallStays
  <2>4. CASE \E n \in 0..Len(page) :
               call' = [call EXCEPT ![c].limit = limit,
                                    ![c].batch = SubSeq(page, 1, n),
                                    ![c].mismatch = n < Len(page) /\ Known(c, n + 1)]
    <3>1. PICK n \in 0..Len(page) :
               call' = [call EXCEPT ![c].limit = limit,
                                    ![c].batch = SubSeq(page, 1, n),
                                    ![c].mismatch = n < Len(page) /\ Known(c, n + 1)]
      BY <2>4
    <3> DEFINE m == n < Len(page) /\ Known(c, n + 1)
               batch == SubSeq(page, 1, n)
    <3>2. m \in BOOLEAN
      OBVIOUS
    <3> HIDE DEF page, m
    <3>3. n \in Nat /\ n <= Len(page)
      BY <2>1
    <3>4. batch \in Seq(Tx)
      BY <2>1, <3>3, PrefixIs
    <3>5. call' = [call EXCEPT ![c] = [call[c] EXCEPT !.limit = limit, !.batch = batch,
                                                      !.mismatch = m]]
      BY <3>1 DEF m
    <3> HIDE DEF batch
    <3>6. [call[c] EXCEPT !.limit = limit, !.batch = batch, !.mismatch = m] \in CallState
      BY <2>1, <2>2, <3>2, <3>4 DEF CallState
    <3> QED
      BY <3>5, <3>6
  <2> QED
    BY <2>2, <2>3, <2>4
<1> QED
  BY <1>1, <1>2, <1>3

LEMMA HandleNewSnapped ==
  ASSUME TypeOK, Snapped, NEW c \in Caller, HandleNew(c)
  PROVE  Snapped'
<1>1. UNCHANGED <<branch, isPOINode, length, snapshot>>
  BY HandleNewDoes DEF source, disk
<1>2. PICK next \in {"queue", "loop"} : Goto(c, next)
  BY HandleNewDoes
<1>3. next \in Calm /\ length' \in Int /\ length' <= length
  BY <1>1 DEF Calm, Stage, Syncing, Updating, Inserting, Writing, TypeOK
<1>4. PICK v \in CallState : call' = [call EXCEPT ![c] = v]
  BY HandleNewDoes
<1> QED
  BY <1>1, <1>2, <1>3, <1>4, SnappedMove

LEMMA QueueSnapped ==
  ASSUME TypeOK, Ordered, ~isPOINode, Snapped, NEW c \in Caller, Queue(c)
  PROVE  Snapped'
<1> DEFINE whole == call[c].batch
<1>1. PICK n \in 0..Len(whole), m \in Nat :
    LET batch  == SubSeq(whole, 1, n)
        legacy == SubSeq(batch, 1, m)
    IN /\ m <= n
       /\ batch \in Seq(Tx) /\ Len(batch) = n /\ legacy \in Seq(Tx) /\ Len(legacy) = m
       /\ \A k \in 1..m : Legacy(batch[k])
       /\ call' = [call EXCEPT ![c].batch = batch, ![c].start = length, ![c].at = length + m]
       /\ \/ \E next \in {"rewind", "loop"} : Goto(c, next)
          \/ /\ isPOINode \/ snapshot # None \/ m = n
             /\ Goto(c, "insert")
          \/ /\ snapshot = None
             /\ Goto(c, "insertLegacy")
  BY QueueDoes
<1> DEFINE batch  == SubSeq(whole, 1, n)
<1>2. /\ call[c] \in CallState /\ whole \in Seq(Tx) /\ Len(whole) \in Nat /\ length \in Nat
      /\ stage[c] = "queue" /\ UNCHANGED <<branch, isPOINode, length, snapshot>>
  BY LenProperties DEF TypeOK, CallState, Queue, source, tree
<1>3. n \in Nat /\ n <= Len(whole) /\ m <= n /\ LaunchTx \in Nat
  BY <1>1, <1>2, Numbers
<1>4. Numbered(whole, length)
  BY <1>2 DEF Ordered, Holdings, Sent
<1> HIDE DEF whole
<1>5. batch \in Seq(Tx) /\ Len(batch) = n /\ Numbered(batch, length)
  <2>1. /\ batch \in Seq(Tx) /\ Len(batch) = n
        /\ \A k \in 1..n : batch[k] = whole[k] /\ k \in 1..Len(whole)
    BY <1>2, <1>3, PrefixIs
  <2> HIDE DEF batch
  <2> QED
    BY <1>4, <2>1 DEF Numbered
<1>6. (\A k \in 1..m : Legacy(batch[k])) /\ length <= LaunchTx => length + m <= LaunchTx
  <2>1. CASE m = 0
    BY <1>2, <2>1
  <2>2. CASE m \in 1..m
    <3>1. Legacy(batch[m]) => batch[m].at < LaunchTx
      BY DEF Legacy
    <3>2. m \in 1..n
      BY <1>3, <2>2
    <3>3. batch[m].at = length + m - 1
      BY <1>5, <3>2 DEF Numbered
    <3> HIDE DEF batch
    <3> QED
      BY <1>2, <1>3, <2>2, <3>1, <3>3
  <2> QED
    BY <1>3, <2>1, <2>2
<1>7. PICK v \in CallState : /\ call' = [call EXCEPT ![c] = v]
                             /\ v.batch = batch /\ v.start = length /\ v.at = length + m
  <2>1. batch \in Seq(Tx) /\ length \in Nat /\ length + m \in Nat
    BY <1>2, <1>3, <1>5
  <2>2. call' = [call EXCEPT ![c].batch = batch, ![c].start = length, ![c].at = length + m]
    BY <1>1 DEF batch
  <2> HIDE DEF batch
  <2>3. [call[c] EXCEPT !.batch = batch, !.start = length, !.at = length + m] \in CallState
    BY <1>2, <2>1 DEF CallState
  <2> QED
    BY <1>2, <2>2, <2>3 DEF CallState
<1>8. snapshot = None => length + m <= LaunchTx /\ length' <= LaunchTx
  BY <1>1, <1>2, <1>6 DEF Snapped, Saved, batch
<1> HIDE DEF batch
<1>9. CASE \E next \in {"rewind", "loop"} : Goto(c, next)
  <2>1. PICK next \in {"rewind", "loop"} : Goto(c, next)
    BY <1>9
  <2>2. next \in Calm /\ length' \in Int /\ length' <= length
    BY <1>2 DEF Calm, Stage, Syncing, Updating, Inserting, Writing
  <2> QED
    BY <1>2, <1>7, <2>1, <2>2, SnappedMove
<1>10. CASE (snapshot # None \/ m = n) /\ Goto(c, "insert")
  <2>1. "insert" \in Stage /\ Launched("insert", v)
    BY <1>5, <1>7, <1>8, <1>10 DEF Stage, Syncing, Inserting, Launched, Goal, Legacies
  <2> QED
    BY <1>2, <1>7, <1>8, <1>10, <2>1, SnappedStep
<1>11. CASE snapshot = None /\ Goto(c, "insertLegacy")
  <2>1. "insertLegacy" \in Stage /\ Launched("insertLegacy", v)
    BY <1>7, <1>8, <1>11 DEF Stage, Syncing, Inserting, Launched, Goal, Legacies
  <2> QED
    BY <1>2, <1>7, <1>8, <1>11, <2>1, SnappedStep
<1> QED
  BY <1>1, <1>9, <1>10, <1>11

LEMMA InsertSnapped ==
  ASSUME TypeOK, Ordered, Snapped, NEW c \in Caller, Insert(c)
  PROVE  Snapped'
<1>1. /\ stage[c] \in Inserting
      /\ UNCHANGED <<branch, isPOINode, length, snapshot>>
  BY InsertDoes DEF disk, source
<1>2. PICK v \in CallState, at \in Inserting : v = call[c] /\ at = stage[c]
  BY <1>1 DEF TypeOK
<1>3. Launched(at, v) /\ at \in Updating
  BY <1>2 DEF Snapped, Saved, Updating
<1>4. snapshot = None => length' <= LaunchTx
  BY <1>1 DEF Snapped, Saved
<1>5. CASE Continue(c) /\ UNCHANGED call
  <2>1. PICK next \in {"snapshot", "rewind", "loop"} :
          Goto(c, next) /\ (next = "snapshot" => at \in Legacies)
    BY <1>2, <1>5 DEF Continue, Legacies
  <2>2. next \in Stage /\ Launched(next, v)
    BY <1>3, <2>1 DEF Stage, Syncing, Launched, Goal, Legacies, Updating, Inserting, Writing
  <2>3. call' = [call EXCEPT ![c] = v]
    BY <1>2, <1>5, CallStays
  <2> QED
    BY <1>1, <1>4, <2>1, <2>2, <2>3, SnappedStep
<1>6. CASE \E g \in writeQueue' :
             /\ call' = [call EXCEPT ![c].leaves = g.leaves, ![c].position = length]
             /\ Goto(c, IF stage[c] = "insert" THEN "write" ELSE "writeLegacy")
  <2>1. PICK g \in writeQueue' :
          /\ call' = [call EXCEPT ![c].leaves = g.leaves, ![c].position = length]
          /\ Goto(c, IF stage[c] = "insert" THEN "write" ELSE "writeLegacy")
    BY <1>6
  <2>2. g \in writeQueue
    BY InsertDoes
  <2>3. PICK w \in CallState : /\ call' = [call EXCEPT ![c] = w]
                               /\ w.batch = v.batch /\ w.start = v.start /\ w.at = v.at
    <3>1. v = call[c] /\ g \in writeQueue
          /\ call' = [call EXCEPT ![c].leaves = g.leaves, ![c].position = length]
      BY <1>2, <2>1, <2>2
    <3>2. TakenUp(c, v, g)
      BY <3>1, InsertCall
    <3> QED
      BY <3>2 DEF TakenUp
  <2>4. PICK next \in Writing : Goto(c, next) /\ (next = "writeLegacy" <=> at = "insertLegacy")
    BY <1>2, <2>1 DEF Writing, Inserting
  <2>5. next \in Stage /\ Launched(next, w)
    BY <1>2, <1>3, <2>3, <2>4 DEF Stage, Syncing, Launched, Goal, Legacies, Updating,
                                  Inserting, Writing
  <2> QED
    BY <1>1, <1>4, <2>3, <2>4, <2>5, SnappedStep
<1> QED
  BY <1>5, <1>6, InsertDoes

LEMMA WriteSnapped ==
  ASSUME TxidInv, Ordered, ~isPOINode, Indexed, Wallet, Snapped, Smooth', NEW c \in Caller, Write(c)
  PROVE  Snapped'
<1> USE DEF TxidInv
<1>1. PICK v \in CallState, at \in Writing : v = call[c] /\ at = stage[c]
  BY WriteDoes DEF TypeOK
<1>2. /\ UNCHANGED <<branch, isPOINode, snapshot, call>>
      /\ Goto(c, IF at = "write" THEN "insert" ELSE "insertLegacy")
  BY <1>1, WriteDoes, ErrorBreaks DEF source
<1>3. PICK next \in Inserting : Goto(c, next) /\ (next = "insertLegacy" <=> at = "writeLegacy")
  BY <1>1, <1>2 DEF Inserting, Writing
<1>4. Launched(at, v)
  BY <1>1 DEF Snapped, Saved
<1>5. next \in Stage /\ next \in Updating /\ Launched(next, v)
  BY <1>3, <1>4 DEF Stage, Syncing, Launched, Goal, Legacies, Updating, Inserting, Writing
<1>6. call' = [call EXCEPT ![c] = v] /\ stage'[c] = next /\ call'[c] = v
  BY <1>1, <1>2, <1>3, CallStays DEF TypeOK, Goto
<1>7. length' <= Goal(next, v) /\ length' \in Int
  <2>1. Wallet'
    BY WriteWallet
  <2>2. InWallet(next, v)'
    BY <1>6, <2>1 DEF Wallet, InWallet, Progress, StaleLegacy, Goal
  <2>3. length' <= Goal(next, v)
    BY <1>5, <2>2 DEF InWallet, Progress, Goal
  <2>4. length' \in Int
    BY <1>1, WriteDoes, ErrorBreaks DEF TypeOK
  <2> QED
    BY <2>3, <2>4
<1>8. snapshot = None => length' <= LaunchTx
  <2> SUFFICES ASSUME snapshot = None PROVE length' <= LaunchTx
    OBVIOUS
  <2>1. Goal(next, v) <= LaunchTx
    BY <1>5 DEF Launched
  <2>2. Goal(next, v) \in Int /\ LaunchTx \in Int
    BY LenProperties, Numbers DEF Goal, CallState
  <2> QED
    BY <1>7, <2>1, <2>2
<1> QED
  BY <1>2, <1>3, <1>5, <1>6, <1>8, SnappedStep
-----------------------------------------------------------------------------
\* The snapshot is set or erased beside no other call
LEMMA SnappedAlone ==
  ASSUME TypeOK, NEW c \in Caller, NEW next \in Stage, NEW v \in CallState,
         Goto(c, next), call' = [call EXCEPT ![c] = v],
         \A d \in Caller : d # c => ~Active(d), Launched(next, v)', Saved'
  PROVE  Snapped'
<1>1. stage'[c] = next /\ call'[c] = v
  BY DEF TypeOK, Goto
<1>2. \A d \in Caller : d # c => stage'[d] \notin Owners
  BY DEF TypeOK, Goto, Active
<1>3. ASSUME NEW d \in Caller PROVE Launched(stage[d], call[d])'
  <2>1. CASE d = c
    <3>1. stage'[d] = next /\ call'[d] = v
      BY <1>1, <2>1
    <3> QED
      BY <3>1 DEF Launched, Goal
  <2>2. CASE d # c
    <3>1. stage'[d] \notin Owners
      BY <1>2, <2>2
    <3> QED
      BY <3>1 DEF Owners, Syncing, Launched, Updating, Legacies, Inserting, Writing
  <2> QED
    BY <2>1, <2>2
<1> QED
  BY <1>3 DEF Snapped

LEMMA SaveSnapshotSnapped ==
  ASSUME TypeOK, Calls, Ordered, ~isPOINode, Indexed, Wallet, Snapped, LaunchTx <= Fork,
         NEW c \in Caller, SaveSnapshot(c)
  PROVE  Snapped'
<1>1. PICK v \in CallState : v = call[c]
  BY DEF TypeOK
<1>2. /\ UNCHANGED <<branch, isPOINode, length, data, call>>
      /\ stage[c] = "snapshot" /\ Goto(c, "queueRest")
      /\ snapshot' = [i \in 1..v.at |-> IF i <= length /\ i <= Len(data)
                                        THEN data[i] ELSE None]
  BY <1>1 DEF SaveSnapshot, source, tree
<1>3. Active(c) /\ stage[c] \notin Deleting /\ "snapshot" \in Splitting
  BY <1>2 DEF Active, Owners, Syncing, Deleting, Splitting
<1>4. /\ \A d \in Caller : d # c => ~Active(d)
      /\ \A d \in Caller : stage[d] \notin Deleting
  BY <1>3, OwnerIsNotDeleting DEF Ordered, Alone
<1>5. Len(data) = length /\ \A i \in 1..length : InPlace(data[i], i - 1)
  BY <1>4, NothingGone DEF Ordered, Kept
<1>6. /\ v.at <= LaunchTx /\ v.at \in Nat /\ length \in Nat /\ LaunchTx \in Nat /\ Fork \in Nat
      /\ v.start \in Nat /\ Len(v.batch) \in Nat
  BY <1>1, <1>2, LenProperties, Numbers DEF Snapped, Saved, Launched, TypeOK, CallState
<1>7. Numbered(v.batch, v.start) /\ v.at <= v.start + Len(v.batch)
  BY <1>1, <1>2, <1>3 DEF Ordered, Holdings, Sent, Calls, Placed
<1>8. ~StaleLegacy(v)
  <2> SUFFICES ASSUME NEW k \in 1..(v.at - v.start), Stale(v.batch[k]) PROVE FALSE
    BY DEF StaleLegacy
  <2>1. k \in 1..Len(v.batch)
    BY <1>6, <1>7
  <2>2. v.batch[k].at = v.start + k - 1
    BY <1>7, <2>1 DEF Numbered
  <2>3. Fork <= v.start + k - 1
    BY <2>2 DEF Stale
  <2> QED
    BY <1>6, <2>3
<1>9. length = v.at
  BY <1>1, <1>2, <1>8 DEF Wallet, InWallet
<1>10. /\ Len(snapshot') = v.at /\ snapshot' # None
       /\ \A i \in 1..v.at : snapshot'[i] = data[i]
  <2>1. \A i \in 1..v.at : snapshot'[i] = data[i]
    BY <1>2, <1>5, <1>9
  <2>2. snapshot' \in Seq(Tx \union {None}) /\ DOMAIN snapshot' = 1..v.at
    <3>1. \A i \in 1..v.at : snapshot'[i] \in Tx \union {None}
      <4> SUFFICES ASSUME NEW i \in 1..v.at PROVE data[i] \in Tx \union {None}
        BY <2>1
      <4>1. i \in 1..Len(data)
        BY <1>5, <1>9
      <4> QED
        BY <4>1, ElementOfSeq DEF TypeOK
    <3>2. snapshot' \in [1..v.at -> Tx \union {None}]
      BY <1>2, <3>1
    <3> QED
      BY <1>6, <3>2, SeqDef
  <2>3. Len(snapshot') = v.at
    BY <1>6, <2>2, LenProperties
  <2> QED
    BY <2>1, <2>2, <2>3, NoneIsNoValue
<1>11. Saved'
  <2>1. ASSUME NEW i \in 1..Len(snapshot') PROVE (snapshot[i] = Source(i - 1))'
    <3>1. InPlace(data[i], i - 1) /\ snapshot'[i] = data[i]
      BY <1>5, <1>9, <1>10, <2>1
    <3> QED
      BY <1>2, <3>1 DEF InPlace, Source, Backed
  <2> QED
    BY <1>6, <1>10, <2>1 DEF Saved
<1>12. "queueRest" \in Stage /\ Launched("queueRest", v)'
  BY <1>10 DEF Stage, Syncing, Launched, Updating, Legacies, Inserting, Writing
<1>13. call' = [call EXCEPT ![c] = v]
  BY <1>1, <1>2, CallStays
<1> QED
  BY <1>2, <1>4, <1>6, <1>10, <1>11, <1>12, <1>13, SnappedAlone

LEMMA QueueRestSnapped ==
  ASSUME TypeOK, Snapped, NEW c \in Caller, QueueRest(c)
  PROVE  Snapped'
<1>1. /\ UNCHANGED <<branch, isPOINode, length, snapshot, call>>
      /\ stage[c] = "queueRest" /\ Goto(c, "insert")
  BY DEF QueueRest, source, tree
<1>2. snapshot # None
  BY <1>1 DEF Snapped, Saved, Launched
<1>3. PICK v \in CallState : call' = [call EXCEPT ![c] = v]
  BY <1>1, CallStays
<1>4. "insert" \in Stage /\ Launched("insert", v)
  BY <1>2 DEF Stage, Syncing, Launched, Legacies, Inserting
<1> QED
  BY <1>1, <1>2, <1>3, <1>4, SnappedStep

LEMMA ClearLeavesSnapped ==
  ASSUME TypeOK, Snapped, NEW c \in Caller, NEW first \in Nat, NEW next \in Deleting,
         ClearLeaves(c, first, next), UNCHANGED <<branch, isPOINode, length, snapshot>>
  PROVE  Snapped'
<1>1. PICK v \in CallState : call' = [call EXCEPT ![c] = v]
  <2>1. call[c] \in CallState /\ length - 1 \in Int
    BY DEF TypeOK
  <2>2. [call[c] EXCEPT !.start = first, !.at = first, !.position = length - 1] \in CallState
    BY <2>1 DEF CallState
  <2>3. call' = [call EXCEPT ![c] = [call[c] EXCEPT !.start = first, !.at = first,
                                                    !.position = length - 1]]
    BY DEF ClearLeaves
  <2> QED
    BY <2>2, <2>3
<1>2. next \in Calm /\ Goto(c, next) /\ length' \in Int /\ length' <= length
  BY DEF ClearLeaves, Deleting, Stage, Holding, Calm, Updating, Inserting, Writing, TypeOK
<1> QED
  BY <1>1, <1>2, SnappedMove

LEMMA ClearingSnapped ==
  ASSUME TypeOK, Snapped, NEW c \in Caller, Rewind(c) \/ Reset(c)
  PROVE  Snapped'
<1>1. CASE Rewind(c)
  <2> DEFINE first == IF length < LeavesToClear THEN 0 ELSE length - LeavesToClear
  <2>1. first \in Nat
    BY Numbers DEF TypeOK
  <2>2. /\ ClearLeaves(c, first, "rewindDelete") /\ "rewindDelete" \in Deleting
        /\ UNCHANGED <<branch, isPOINode, length, snapshot>>
    BY <1>1 DEF Rewind, source, disk, Deleting
  <2> HIDE DEF first
  <2> QED
    BY <2>1, <2>2, ClearLeavesSnapped
<1>2. CASE Reset(c)
  <2>1. PICK first \in Place : ClearLeaves(c, first, "resetDelete")
    BY <1>2 DEF Reset
  <2>2. /\ first \in Nat /\ "resetDelete" \in Deleting
        /\ UNCHANGED <<branch, isPOINode, length, snapshot>>
    BY <1>2, Numbers DEF Reset, source, disk, Deleting
  <2> QED
    BY <2>1, <2>2, ClearLeavesSnapped
<1> QED
  BY <1>1, <1>2

LEMMA DeletingSnapped ==
  ASSUME TypeOK, Ordered, Snapped, NEW c \in Caller, DeleteLeaf(c) \/ RebuildAndWriteTree(c)
  PROVE  Snapped'
<1>1. stage[c] \in Deleting /\ UNCHANGED <<branch, isPOINode, snapshot>>
  BY DEF DeleteLeaf, RebuildAndWriteTree, source
<1>2. length' \in Int /\ length' <= length
  <2>1. CASE DeleteLeaf(c)
    BY <2>1 DEF DeleteLeaf, TypeOK
  <2>2. CASE RebuildAndWriteTree(c)
    BY <2>2, RebuildDoes
  <2> QED
    BY <2>1, <2>2
<1>3. CASE DeleteLeaf(c)
  <2>1. PICK next \in Deleting : next = stage[c]
    BY <1>1
  <2>2. Goto(c, next) /\ next \in Calm
    BY <1>3, <2>1 DEF DeleteLeaf, Goto, TypeOK, Deleting, Calm, Updating, Inserting, Writing
  <2>3. PICK v \in CallState : call' = [call EXCEPT ![c] = v]
    <3>1. call[c] \in CallState /\ call[c].at + 1 \in Nat
      BY DEF TypeOK, CallState
    <3>2. [call[c] EXCEPT !.at = call[c].at + 1] \in CallState
      BY <3>1 DEF CallState
    <3>3. call' = [call EXCEPT ![c] = [call[c] EXCEPT !.at = call[c].at + 1]]
      BY <1>3 DEF DeleteLeaf, TypeOK
    <3> QED
      BY <3>2, <3>3
  <2> QED
    BY <1>1, <1>2, <2>2, <2>3, SnappedMove
<1>4. CASE RebuildAndWriteTree(c)
  <2>1. PICK next \in {"loop", "again"} : Goto(c, next)
    BY <1>4 DEF RebuildAndWriteTree
  <2>2. call' = call /\ next \in Calm
    BY <1>4 DEF RebuildAndWriteTree, Calm, Stage, Syncing, Updating, Inserting, Writing
  <2>3. PICK v \in CallState : call' = [call EXCEPT ![c] = v]
    BY <2>2, CallStays
  <2> QED
    BY <1>1, <1>2, <2>1, <2>2, <2>3, SnappedMove
<1> QED
  BY <1>3, <1>4

LEMMA EraseSnapped ==
  ASSUME TypeOK, Ordered, Whole', NEW c \in Caller, Erase(c)
  PROVE  Snapped'
<1>1. PICK next \in {"again", "upgradeVersion"} : Goto(c, next)
  BY DEF Erase
<1>2. call' = call /\ length' = 0 /\ snapshot' = None
  BY DEF Erase
<1>3. \A d \in Caller : d # c => ~Active(d)
  BY EraseAlone
<1>4. next \in Stage /\ Launched(next, call[c])' /\ \A v : Launched(next, v)'
  BY DEF Stage, Launched, Updating, Legacies, Inserting, Writing
<1>5. PICK v \in CallState : call' = [call EXCEPT ![c] = v]
  BY <1>2, CallStays
<1>6. Saved'
  BY <1>2, Numbers DEF Saved
<1> QED
  BY <1>1, <1>3, <1>4, <1>5, <1>6, SnappedAlone

LEMMA CrashSnapped ==
  ASSUME Snapped, Crash
  PROVE  Snapped'
<1>1. /\ UNCHANGED <<branch, isPOINode, length, snapshot>>
      /\ \A c \in Caller : stage'[c] = "idle"
  BY DEF Crash, source, disk
<1>2. \A c \in Caller : Launched(stage[c], call[c])'
  BY <1>1 DEF Launched, Updating, Legacies, Inserting, Writing
<1>3. \A i : Source(i)' = Source(i)
  BY <1>1, SourceFrame
<1> QED
  BY <1>1, <1>2, <1>3 DEF Snapped, Saved

LEMMA SourceSnapped ==
  ASSUME TypeOK, Snapped, UNCHANGED <<isPOINode, disk, memory, stage, call>>, LaunchTx <= Fork
  PROVE  Snapped'
<1>1. UNCHANGED <<isPOINode, length, snapshot, stage, call>>
  BY DEF disk, memory
<1>2. \A c \in Caller : Launched(stage[c], call[c])'
  BY <1>1 DEF Snapped, Saved, Launched, Goal
<1>3. ASSUME snapshot # None, NEW i \in 1..Len(snapshot)
      PROVE  Source(i - 1)' = Source(i - 1)
  <2>1. i - 1 \in Int /\ i - 1 < Fork
    <3>1. Len(snapshot) <= LaunchTx /\ Len(snapshot) \in Nat
      BY <1>3, LenProperties DEF Snapped, Saved, TypeOK
    <3> QED
      BY <3>1, Numbers
  <2>2. PICK j \in Int : j = i - 1
    BY <2>1
  <2>3. Source(j)' = Source(j)
    BY <2>1, <2>2 DEF Source
  <2> QED
    BY <2>2, <2>3 DEF Source
<1> QED
  BY <1>1, <1>2, <1>3 DEF Snapped, Saved

LEMMA NextSnapped ==
  ASSUME TxidInv, Ordered, ~isPOINode, Indexed, Wallet, Snapped, LaunchTx <= Fork,
         [Next]_vars, Whole', Smooth'
  PROVE  Snapped'
<1>1. TypeOK /\ Calls
  BY DEF TxidInv
<1>2. ASSUME NEW c \in Caller, SyncStep(c) PROVE Snapped'
  <2>1. UpgradeVersion(c) \/ Guard(c) \/ ReadCursor(c) \/ Request(c) \/ Loop(c) \/ End(c)
          => Snapped'
    BY <1>1, AsideSnapped
  <2>2. HandleNew(c) \/ Queue(c) \/ SaveSnapshot(c) \/ QueueRest(c) => Snapped'
    BY <1>1, HandleNewSnapped, QueueSnapped, SaveSnapshotSnapped, QueueRestSnapped
  <2>3. Erase(c) \/ Insert(c) \/ Write(c) => Snapped'
    BY <1>1, EraseSnapped, InsertSnapped, WriteSnapped
  <2>4. Rewind(c) \/ DeleteLeaf(c) \/ RebuildAndWriteTree(c) => Snapped'
    BY <1>1, ClearingSnapped, DeletingSnapped
  <2> QED
    BY <1>2, <2>1, <2>2, <2>3, <2>4 DEF SyncStep
<1>3. ASSUME NEW c \in Caller, SyncCall(c) \/ Reset(c) \/ FullReset(c) PROVE Snapped'
  BY <1>1, <1>3, AsideSnapped, ClearingSnapped
<1>4. \A c \in Caller : ~Fail(c) /\ ~FailClear(c)
  BY <1>1, ErrorBreaks, FailClearBreaks DEF Fail
<1>5. CASE NewTransaction \/ Validate \/ SyncUTXOs \/ Reorg
  BY <1>1, <1>5, SourceSnapped DEF NewTransaction, Validate, SyncUTXOs, Reorg
<1>6. CASE Crash
  BY <1>6, CrashSnapped
<1>7. CASE UNCHANGED vars
  BY <1>1, <1>7, SourceSnapped DEF vars, source
<1> QED
  BY <1>2, <1>3, <1>4, <1>5, <1>6, <1>7 DEF Next

LEMMA NoSnapshot ==
  ASSUME Ordered, isPOINode, snapshot = None, [Next]_vars
  PROVE  snapshot' = None
<1>1. ASSUME NEW c \in Caller, SyncStep(c) PROVE snapshot' = None
  BY <1>1, NoSplitting DEF SyncStep, Erase, UpgradeVersion, Guard, ReadCursor, Request,
       HandleNew, Queue, QueueRest, Insert, Write, Rewind, DeleteLeaf, RebuildAndWriteTree,
       Loop, End, disk
<1>2. ASSUME NEW c \in Caller,
             SyncCall(c) \/ Reset(c) \/ FullReset(c) \/ Fail(c) \/ FailClear(c)
      PROVE  snapshot' = None
  BY <1>2 DEF SyncCall, Reset, FullReset, Fail, FailClear, disk
<1>3. CASE NewTransaction \/ Validate \/ SyncUTXOs \/ Reorg \/ Crash
  BY <1>3 DEF NewTransaction, Validate, SyncUTXOs, Reorg, Crash, disk
<1>4. CASE UNCHANGED vars
  BY <1>4 DEF vars, disk
<1> QED
  BY <1>1, <1>2, <1>3, <1>4 DEF Next

LEMMA InitSnapped == Init => Snapped /\ snapshot = None
BY Numbers DEF Init, Snapped, Saved, Launched, Updating, Legacies, Inserting, Writing

(* The snapshot of a wallet has the legacy transactions of the source, each at
   its place, and it is not there before they are.                              *)
THEOREM SnapshotIsOfTheSource ==
  ASSUME LaunchTx <= Fork
  PROVE  Spec => []SnappedInv
<1>1. Init => SnappedInv
  BY InitSnapped DEF SnappedInv
<1>2. TxidInv /\ OrderInv /\ WalletInv /\ SnappedInv /\ [Next]_vars => SnappedInv'
  <2> SUFFICES ASSUME TxidInv, OrderInv, WalletInv, SnappedInv, [Next]_vars, Whole', Smooth'
               PROVE  (IF isPOINode THEN snapshot = None ELSE Indexed => Snapped)'
    BY DEF SnappedInv
  <2>1. Whole /\ Smooth /\ Ordered /\ isPOINode' = isPOINode
    BY WholeBefore, SameEngine DEF OrderInv, TxidInv
  <2>2. CASE isPOINode
    BY <2>1, <2>2, NoSnapshot DEF SnappedInv
  <2>3. CASE ~isPOINode
    BY <2>1, <2>3, NextSnapped, IndexedBefore DEF SnappedInv, WalletInv, Backed, TxidInv
  <2> QED
    BY <2>1, <2>2, <2>3
<1> QED
  BY <1>1, <1>2, Invariant, LeavesFollow, UpdatesGoOn, PTL DEF Spec

(* "always same as snapshot", says getPOILaunchSnapshotNode (railgun-txid-merkletree):
   a leaf of the tree that the launch snapshot also has is the same there, as
   long as no insertion is refused or fails and no re-org is before the launch.
   Here the wallet has queued nothing without an index.                          *)
THEOREM SnapshotStays ==
  ASSUME LaunchTx <= Fork
  PROVE  Spec => [](Indexed => SnapshotIsKept)
<1>1. TypeOK /\ OrderInv /\ SnappedInv => (Indexed => SnapshotIsKept)
  <2> SUFFICES ASSUME TypeOK, OrderInv, SnappedInv, Indexed, Whole, Smooth, snapshot # None,
                      NEW i \in 1..Len(snapshot), i <= length, i <= Len(data),
                      data[i] # None
               PROVE  snapshot[i] = data[i]
    BY DEF SnapshotIsKept
  <2>1. ~isPOINode /\ snapshot[i] = Source(i - 1)
    BY DEF SnappedInv, Snapped, Saved
  <2>2. InPlace(data[i], i - 1)
    <3>1. i \in 1..length
      BY LenProperties DEF TypeOK
    <3> QED
      BY <3>1 DEF OrderInv, Ordered, Kept
  <2> QED
    BY <2>1, <2>2 DEF InPlace, Backed
<1> QED
  BY <1>1, Types, LeavesFollow, SnapshotIsOfTheSource, PTL
-----------------------------------------------------------------------------
(* Lookups.                                                                     *)

\* What one caller's step leaves to be found
LEMMA FoundStays ==
  ASSUME TypeOK, NEW c \in Caller, NEW next \in Stage, NEW v \in CallState,
         Goto(c, next), call' = [call EXCEPT ![c] = v],
         \A tx \in Tx : lookup[tx] # None => lookup'[tx] # None,
         stage[c] \in Splitting =>
           \/ next \in Splitting /\ v.batch = call[c].batch
           \/ \A k \in 1..Len(call[c].batch) : lookup'[call[c].batch[k]] # None,
         NEW tx \in Tx, Found(tx)
  PROVE  Found(tx)'
<1>1. stage'[c] = next /\ call'[c] = v
  BY DEF TypeOK, Goto
<1>2. \A d \in Caller : d # c => stage'[d] = stage[d] /\ call'[d] = call[d]
  BY DEF TypeOK, Goto
<1>3. CASE lookup[tx] # None
  BY <1>3 DEF Found
<1>4. CASE lookup[tx] = None
  <2>1. PICK d \in Caller : /\ stage[d] \in Splitting
                            /\ \E k \in 1..Len(call[d].batch) : call[d].batch[k] = tx
    BY <1>4 DEF Found
  <2>2. CASE d # c
    BY <1>2, <2>1, <2>2 DEF Found
  <2>3. CASE d = c
    <3>1. PICK k \in 1..Len(call[c].batch) : call[c].batch[k] = tx
      BY <2>1, <2>3
    <3>2. CASE next \in Splitting /\ v.batch = call[c].batch
      BY <1>1, <3>1, <3>2 DEF Found
    <3>3. CASE lookup'[call[c].batch[k]] # None
      BY <3>1, <3>3 DEF Found
    <3> QED
      BY <2>1, <2>3, <3>2, <3>3
  <2> QED
    BY <2>2, <2>3
<1> QED
  BY <1>3, <1>4

\* A leaf or a group that is new has been found already
LEMMA AllFoundStays ==
  ASSUME TypeOK, AllFound, \A tx \in Tx : Found(tx) => Found(tx)',
         \A i \in 1..length' : data'[i] # None =>
           \/ i \in 1..length /\ data'[i] = data[i]
           \/ Found(data'[i]) /\ data'[i] \in Tx,
         \A g \in writeQueue' : Good(g)' =>
           \/ g \in writeQueue /\ Good(g)
           \/ \A k \in 1..Len(g.leaves) : Found(g.leaves[k])',
         length <= Len(data)
  PROVE  AllFound'
<1>1. ASSUME NEW i \in 1..length', data'[i] # None PROVE Found(data[i])'
  <2>1. PICK tx : tx = data'[i]
    OBVIOUS
  <2>2. tx \in Tx /\ Found(tx)
    <3>1. CASE i \in 1..length /\ tx = data[i]
      <4>1. data[i] \in Tx \union {None}
        <5>1. i \in 1..Len(data)
          BY <3>1, LenProperties DEF TypeOK
        <5> QED
          BY <5>1, ElementOfSeq DEF TypeOK
      <4> QED
        BY <1>1, <2>1, <3>1, <4>1 DEF AllFound
    <3>2. CASE Found(data'[i]) /\ data'[i] \in Tx
      BY <2>1, <3>2
    <3> QED
      BY <1>1, <2>1, <3>1, <3>2
  <2>3. Found(tx)'
    BY <2>2
  <2> QED
    BY <2>1, <2>3 DEF Found
<1>2. ASSUME NEW g \in writeQueue', Good(g)', NEW k \in 1..Len(g.leaves)
      PROVE  Found(g.leaves[k])'
  <2>1. CASE g \in writeQueue /\ Good(g)
    <3>1. PICK tx \in Tx : tx = g.leaves[k]
      BY <2>1, ElementOfSeq DEF TypeOK, Group
    <3>2. Found(tx)'
      BY <2>1, <3>1 DEF AllFound
    <3> QED
      BY <3>1, <3>2
  <2>2. CASE \A l \in 1..Len(g.leaves) : Found(g.leaves[l])'
    BY <2>2
  <2> QED
    BY <1>2, <2>1, <2>2
<1> QED
  BY <1>1, <1>2 DEF AllFound

\* The tree and the lookups stay, and c does not give up a batch
LEMMA FoundAside ==
  ASSUME TypeOK, Ordered, AllFound, NEW c \in Caller, NEW next \in Stage, NEW v \in CallState,
         Goto(c, next), call' = [call EXCEPT ![c] = v],
         UNCHANGED <<branch, isPOINode, data, length, lookup>>, writeQueue' \subseteq writeQueue,
         stage[c] \in Splitting => next \in Splitting /\ v.batch = call[c].batch
  PROVE  AllFound'
<1>1. \A tx \in Tx : Found(tx) => Found(tx)'
  BY FoundStays
<1>2. \A g : Good(g)' <=> Good(g)
  BY StaleFrame
<1>3. length <= Len(data)
  BY DEF Ordered, Kept, TypeOK
<1> QED
  BY <1>1, <1>2, <1>3, AllFoundStays

LEMMA AsideFound ==
  ASSUME TypeOK, Ordered, AllFound, NEW c \in Caller,
         \/ SyncCall(c) \/ UpgradeVersion(c) \/ Guard(c) \/ ReadCursor(c) \/ Request(c)
         \/ Loop(c) \/ End(c) \/ FullReset(c)
  PROVE  AllFound'
<1>1. UNCHANGED <<branch, isPOINode, data, length, writeQueue>>
  BY AsideDoes DEF source
<1>2. lookup' = lookup /\ stage[c] \notin Splitting
  BY DEF SyncCall, UpgradeVersion, Guard, ReadCursor, Request, Loop, End, FullReset, disk,
         Splitting
<1>3. PICK next \in {"upgradeErase", "guard", "idle", "cursor", "request", "end",
                     "handle", "fullErase"} : Goto(c, next)
  BY AsideDoes
<1>4. next \in Stage
  BY DEF Stage, Syncing, Holding, Erasing
<1>5. PICK v \in CallState : call' = [call EXCEPT ![c] = v]
  BY AsideDoes
<1> QED
  BY <1>1, <1>2, <1>3, <1>4, <1>5, FoundAside

\* Everything that is looked up is found
LEMMA LookedUpFinds ==
  ASSUME TypeOK, NEW txs \in Seq(Tx), NEW start \in Nat, lookup' = LookedUp(txs, start)
  PROVE  /\ \A k \in 1..Len(txs) : lookup'[txs[k]] # None
         /\ \A tx \in Tx : lookup[tx] # None => lookup'[tx] # None
<1>1. Len(txs) \in Nat /\ \A k \in 1..Len(txs) : txs[k] \in Tx
  BY LenProperties, ElementOfSeq
<1>2. ASSUME NEW tx \in Tx, \E k \in 1..Len(txs) : txs[k] = tx PROVE lookup'[tx] # None
  <2>1. PICK m \in 1..Len(txs) : m = CHOOSE k \in 1..Len(txs) : txs[k] = tx
    BY <1>2
  <2>2. lookup'[tx] = start + m - 1
    BY <1>2, <2>1 DEF LookedUp
  <2> QED
    BY <1>1, <2>2, NoneIsNoValue
<1>3. ASSUME NEW tx \in Tx, ~\E k \in 1..Len(txs) : txs[k] = tx PROVE lookup'[tx] = lookup[tx]
  BY <1>3 DEF LookedUp
<1> QED
  BY <1>1, <1>2, <1>3
-----------------------------------------------------------------------------
LEMMA QueuedAreFound ==
  ASSUME TypeOK, AllFound, NEW txs \in Seq(Tx), NEW start \in Nat, length <= start,
         UNCHANGED <<branch, isPOINode>>, \A k \in 1..Len(txs) : Found(txs[k])'
  PROVE  \A g \in Queued(txs, start) : Good(g)' =>
           \/ g \in writeQueue /\ Good(g)
           \/ \A k \in 1..Len(g.leaves) : Found(g.leaves[k])'
<1> SUFFICES ASSUME NEW g \in Queued(txs, start), Good(g)', g \notin writeQueue,
                    NEW k \in 1..Len(g.leaves)
             PROVE  Found(g.leaves[k])'
  BY StaleFrame
<1>1. PICK l \in 1..Len(txs) : g.leaves[k] = txs[l]
  BY QueuedLeaves
<1>2. Found(txs[l])'
  OBVIOUS
<1> QED
  BY <1>1, <1>2

LEMMA HandleNewFound ==
  ASSUME TypeOK, Ordered, AllFound, NEW c \in Caller, HandleNew(c)
  PROVE  AllFound'
<1>1. UNCHANGED <<branch, isPOINode, data, length, lookup, writeQueue>> /\ stage[c] \notin Splitting
  BY HandleNewDoes DEF source, disk, memory, Splitting
<1>2. PICK next \in {"queue", "loop"} : Goto(c, next)
  BY HandleNewDoes
<1>3. next \in Stage
  BY DEF Stage, Syncing
<1>4. PICK v \in CallState : call' = [call EXCEPT ![c] = v]
  BY HandleNewDoes
<1> QED
  BY <1>1, <1>2, <1>3, <1>4, FoundAside

LEMMA QueueFound ==
  ASSUME TypeOK, Ordered, AllFound, NEW c \in Caller, Queue(c)
  PROVE  AllFound'
<1> DEFINE whole == call[c].batch
<1>1. PICK n \in 0..Len(whole), m \in Nat :
    LET batch  == SubSeq(whole, 1, n)
        legacy == SubSeq(batch, 1, m)
    IN /\ m <= n
       /\ batch \in Seq(Tx) /\ Len(batch) = n /\ legacy \in Seq(Tx) /\ Len(legacy) = m
       /\ call' = [call EXCEPT ![c].batch = batch, ![c].start = length, ![c].at = length + m]
       /\ \/ /\ \E next \in {"rewind", "loop"} : Goto(c, next)
             /\ UNCHANGED <<writeQueue, lookup>>
          \/ /\ writeQueue' = Queued(batch, length)
             /\ lookup' = LookedUp(batch, length)
             /\ Goto(c, "insert")
          \/ /\ writeQueue' = Queued(legacy, length)
             /\ Goto(c, "insertLegacy")
             /\ UNCHANGED lookup
  BY QueueDoes
<1> DEFINE batch  == SubSeq(whole, 1, n)
           legacy == SubSeq(batch, 1, m)
<1>2. /\ call[c] \in CallState /\ length \in Nat /\ length <= length
      /\ stage[c] = "queue" /\ UNCHANGED <<branch, isPOINode, data, length>>
  BY DEF TypeOK, Queue, source, tree
<1>3. /\ batch \in Seq(Tx) /\ legacy \in Seq(Tx) /\ m <= Len(batch) /\ Len(legacy) = m
      /\ Len(batch) \in Nat
  BY <1>1, LenProperties
<1>4. PICK v \in CallState : call' = [call EXCEPT ![c] = v] /\ v.batch = batch
  <2>1. call' = [call EXCEPT ![c].batch = batch, ![c].start = length, ![c].at = length + m]
    BY <1>1
  <2>2. batch \in Seq(Tx) /\ length + m \in Nat
    BY <1>2, <1>3
  <2> HIDE DEF batch
  <2>3. [call[c] EXCEPT !.batch = batch, !.start = length, !.at = length + m] \in CallState
    BY <1>2, <2>2 DEF CallState
  <2> QED
    BY <1>2, <2>1, <2>3 DEF CallState
<1>5. stage[c] \notin Splitting
  BY <1>2 DEF Splitting
<1>5a. PICK b \in Seq(Tx), l \in Seq(Tx) : b = batch /\ l = legacy
  BY <1>3
<1>5b. \A k \in 1..Len(l) : k \in 1..Len(b) /\ l[k] = b[k]
  <2>1. l = SubSeq(b, 1, m) /\ m <= Len(b) /\ Len(l) = m /\ Len(b) \in Nat
    BY <1>3, <1>5a
  <2> QED
    BY <2>1, PrefixIs
<1> HIDE DEF batch, legacy, whole
<1>6. CASE (\E next \in {"rewind", "loop"} : Goto(c, next)) /\ UNCHANGED <<writeQueue, lookup>>
  <2>1. PICK next \in {"rewind", "loop"} : Goto(c, next)
    BY <1>6
  <2>2. next \in Stage
    BY DEF Stage, Syncing
  <2> QED
    BY <1>2, <1>4, <1>5, <1>6, <2>1, <2>2, FoundAside
<1>7. length <= Len(data)
  BY DEF Ordered, Kept, TypeOK
<1>8. CASE /\ writeQueue' = Queued(b, length) /\ lookup' = LookedUp(b, length)
           /\ Goto(c, "insert")
  <2>1. "insert" \in Stage
    BY DEF Stage, Syncing, Inserting
  <2>2. /\ \A k \in 1..Len(b) : lookup'[b[k]] # None
        /\ \A tx \in Tx : lookup[tx] # None => lookup'[tx] # None
    BY <1>2, <1>5a, <1>8, LookedUpFinds
  <2>3. \A tx \in Tx : Found(tx) => Found(tx)'
    BY <1>4, <1>5, <1>8, <2>1, <2>2, FoundStays
  <2>4. \A k \in 1..Len(b) : Found(b[k])'
    BY <2>2 DEF Found
  <2>5. \A g \in Queued(b, length) : Good(g)' =>
          \/ g \in writeQueue /\ Good(g)
          \/ \A k \in 1..Len(g.leaves) : Found(g.leaves[k])'
    BY <1>2, <2>4, QueuedAreFound
  <2> QED
    BY <1>2, <1>7, <1>8, <2>3, <2>5, AllFoundStays
<1>9. CASE writeQueue' = Queued(l, length) /\ Goto(c, "insertLegacy") /\ UNCHANGED lookup
  <2>1. "insertLegacy" \in Stage /\ "insertLegacy" \in Splitting
    BY DEF Stage, Syncing, Inserting, Splitting
  <2>2. \A tx \in Tx : Found(tx) => Found(tx)'
    BY <1>4, <1>5, <1>9, <2>1, FoundStays
  <2>3. \A k \in 1..Len(l) : Found(l[k])'
    <3> SUFFICES ASSUME NEW k \in 1..Len(l) PROVE Found(l[k])'
      OBVIOUS
    <3>1. k \in 1..Len(b) /\ l[k] = b[k]
      BY <1>5b
    <3>2. stage'[c] = "insertLegacy" /\ call'[c] = v
      BY <1>4, <1>9 DEF TypeOK, Goto
    <3>3. v.batch = b
      BY <1>4, <1>5a
    <3>4. \E i \in 1..Len(v.batch) : v.batch[i] = l[k]
      BY <3>1, <3>3
    <3>5. PICK tx : tx = l[k]
      OBVIOUS
    <3>6. Found(tx)'
      BY <2>1, <3>2, <3>4, <3>5 DEF Found
    <3> QED
      BY <3>5, <3>6 DEF Found
  <2>4. \A g \in Queued(l, length) : Good(g)' =>
          \/ g \in writeQueue /\ Good(g)
          \/ \A k \in 1..Len(g.leaves) : Found(g.leaves[k])'
    BY <1>2, <2>3, QueuedAreFound
  <2> QED
    BY <1>2, <1>7, <1>9, <2>2, <2>4, AllFoundStays
<1> QED
  BY <1>1, <1>5a, <1>6, <1>8, <1>9 DEF batch, legacy

LEMMA SaveSnapshotFound ==
  ASSUME TypeOK, Ordered, AllFound, NEW c \in Caller, SaveSnapshot(c)
  PROVE  AllFound'
<1>1. /\ UNCHANGED <<branch, isPOINode, data, length, lookup, writeQueue, call>>
      /\ Goto(c, "queueRest")
  BY DEF SaveSnapshot, source, tree, queue
<1>2. "queueRest" \in Stage /\ "queueRest" \in Splitting
  BY DEF Stage, Syncing, Splitting
<1>3. PICK v \in CallState : v = call[c] /\ call' = [call EXCEPT ![c] = v]
  BY <1>1, CallStays
<1> QED
  BY <1>1, <1>2, <1>3, FoundAside

LEMMA QueueRestFound ==
  ASSUME TxidInv, Ordered, ~isPOINode => Wallet, AllFound, NEW c \in Caller, QueueRest(c)
  PROVE  AllFound'
<1> USE DEF TxidInv
<1>1. PICK v \in CallState : v = call[c]
  BY DEF TypeOK
<1> DEFINE first == v.at - v.start + 1
           tail  == SubSeq(v.batch, first, Len(v.batch))
<1>2. /\ stage[c] = "queueRest" /\ Goto(c, "insert") /\ call' = call
      /\ UNCHANGED <<branch, isPOINode, data, length>>
      /\ writeQueue' = Queued(tail, v.at) /\ lookup' = LookedUp(v.batch, v.start)
  BY <1>1 DEF QueueRest, source, tree
<1>3. /\ v.batch \in Seq(Tx) /\ v.start \in Nat /\ v.at \in Nat /\ v.start <= v.at
      /\ first \in Nat /\ 1 <= first /\ tail \in Seq(Tx)
  BY <1>1, <1>2, RestOfBatch
<1>3a. PICK rest \in Seq(Tx) : rest = tail
  BY <1>3
<1>3b. PICK f \in Nat : f = first /\ 1 <= f
  BY <1>3
<1>3c. rest = SubSeq(v.batch, f, Len(v.batch)) /\ writeQueue' = Queued(rest, v.at)
  BY <1>2, <1>3a, <1>3b
<1> HIDE DEF first, tail
<1>4. call' = [call EXCEPT ![c] = v] /\ "queueRest" \in Splitting /\ "insert" \in Stage
  BY <1>1, <1>2, CallStays DEF Splitting, Stage, Syncing, Inserting
<1>5. length \in Nat /\ length <= v.at /\ length <= Len(data)
  <2>1. ~isPOINode
    BY <1>1, <1>2, <1>4 DEF Ordered, Holdings, Sent
  <2>2. InWallet("queueRest", v)
    BY <1>1, <1>2, <2>1 DEF Wallet
  <2> QED
    BY <1>3, <2>2 DEF InWallet, TypeOK, Ordered, Kept
<1>6. /\ \A k \in 1..Len(v.batch) : lookup'[v.batch[k]] # None
      /\ \A tx \in Tx : lookup[tx] # None => lookup'[tx] # None
  BY <1>2, <1>3, LookedUpFinds
<1>7. \A tx \in Tx : Found(tx) => Found(tx)'
  BY <1>1, <1>2, <1>4, <1>6, FoundStays
<1>8. \A k \in 1..Len(rest) : Found(rest[k])'
  <2>1. \A k \in 1..Len(rest) : f + k - 1 \in 1..Len(v.batch) /\ rest[k] = v.batch[f + k - 1]
    BY <1>3, <1>3b, <1>3c, RestIs
  <2> QED
    BY <1>6, <2>1 DEF Found
<1>9. \A g \in Queued(rest, v.at) : Good(g)' =>
        \/ g \in writeQueue /\ Good(g)
        \/ \A k \in 1..Len(g.leaves) : Found(g.leaves[k])'
  BY <1>2, <1>3, <1>5, <1>8, QueuedAreFound
<1> QED
  BY <1>2, <1>3c, <1>5, <1>7, <1>9, AllFoundStays

LEMMA InsertFound ==
  ASSUME TypeOK, Ordered, AllFound, NEW c \in Caller, Insert(c)
  PROVE  AllFound'
<1>1. /\ stage[c] \in Inserting /\ writeQueue' \subseteq writeQueue
      /\ UNCHANGED <<branch, isPOINode, data, length, lookup>>
  BY InsertDoes DEF disk, source
<1>2. PICK v \in CallState, at \in Inserting : v = call[c] /\ at = stage[c]
  BY <1>1 DEF TypeOK
<1>3. CASE Continue(c) /\ UNCHANGED call
  <2>1. PICK next \in {"snapshot", "rewind", "loop"} :
          Goto(c, next) /\ (at = "insertLegacy" => next = "snapshot")
    BY <1>2, <1>3 DEF Continue
  <2>2. next \in Stage /\ (at \in Splitting => next \in Splitting)
    BY <1>2, <2>1 DEF Stage, Syncing, Splitting, Inserting
  <2>3. call' = [call EXCEPT ![c] = v]
    BY <1>2, <1>3, CallStays
  <2> QED
    BY <1>1, <1>2, <2>1, <2>2, <2>3, FoundAside
<1>4. CASE \E g \in writeQueue' :
             /\ call' = [call EXCEPT ![c].leaves = g.leaves, ![c].position = length]
             /\ Goto(c, IF stage[c] = "insert" THEN "write" ELSE "writeLegacy")
  <2>1. PICK g \in writeQueue' :
          /\ call' = [call EXCEPT ![c].leaves = g.leaves, ![c].position = length]
          /\ Goto(c, IF stage[c] = "insert" THEN "write" ELSE "writeLegacy")
    BY <1>4
  <2>2. PICK w \in CallState : call' = [call EXCEPT ![c] = w] /\ w.batch = v.batch
    <3>1. v = call[c] /\ g \in writeQueue
          /\ call' = [call EXCEPT ![c].leaves = g.leaves, ![c].position = length]
      BY <1>1, <1>2, <2>1
    <3>2. TakenUp(c, v, g)
      BY <3>1, InsertCall
    <3> QED
      BY <3>2 DEF TakenUp
  <2>3. PICK next \in Writing : Goto(c, next) /\ (at = "insertLegacy" => next = "writeLegacy")
    BY <1>2, <2>1 DEF Writing, Inserting
  <2>4. next \in Stage /\ (at \in Splitting => next \in Splitting)
    BY <1>2, <2>3 DEF Stage, Syncing, Splitting, Inserting, Writing
  <2> QED
    BY <1>1, <1>2, <2>2, <2>3, <2>4, FoundAside
<1> QED
  BY <1>3, <1>4, InsertDoes

\* What a call writes is a group of the queue
LEMMA WritesQueued ==
  ASSUME TypeOK, IF isPOINode THEN History ELSE Wallet, NEW c \in Caller, stage[c] \in Writing
  PROVE  \E g \in writeQueue : Good(g) /\ g.leaves = call[c].leaves
<1>1. PICK v \in CallState, at \in Writing : v = call[c] /\ at = stage[c]
  BY DEF TypeOK
<1>2. CASE ~isPOINode
  BY <1>1, <1>2 DEF Wallet, InWallet
<1>3. CASE isPOINode
  <2>1. Pending(at, v) /\ at \in Updating
    BY <1>1, <1>3 DEF History, Updating
  <2>2. PICK k : k = length - v.start + 1
    OBVIOUS
  <2>3. /\ length - v.start \in Nat /\ length - v.start < Len(v.batch)
        /\ v.leaves = <<v.batch[k]>>
        /\ writeQueue = {[start |-> v.start + j - 1, leaves |-> <<v.batch[j]>>] :
                           j \in (length - v.start + 1)..Len(v.batch)}
    BY <1>1, <2>1, <2>2 DEF Pending, Remaining
  <2>4. k \in (length - v.start + 1)..Len(v.batch)
    <3>1. Len(v.batch) \in Nat
      BY LenProperties DEF CallState
    <3> QED
      BY <2>2, <2>3, <3>1
  <2>5. [start |-> v.start + k - 1, leaves |-> <<v.batch[k]>>] \in writeQueue
    BY <2>3, <2>4
  <2>6. PICK g \in writeQueue : g.leaves = <<v.batch[k]>>
    BY <2>5
  <2> QED
    BY <1>1, <1>3, <2>3, <2>6 DEF Good
<1> QED
  BY <1>2, <1>3

LEMMA WriteFound ==
  ASSUME TxidInv, Ordered, IF isPOINode THEN History ELSE Wallet, AllFound, Smooth',
         NEW c \in Caller, Write(c)
  PROVE  AllFound'
<1> USE DEF TxidInv
<1>1. PICK v \in CallState, at \in Writing : v = call[c] /\ at = stage[c]
  BY WriteDoes DEF TypeOK
<1>2. PICK n \in Nat :
      /\ UNCHANGED <<branch, isPOINode, lookup, call>>
      /\ n = Len(v.leaves) /\ length' = length + n
      /\ \A i \in 1..length : data'[i] = data[i]
      /\ \A k \in 1..n : data'[length + k] = v.leaves[k]
      /\ writeQueue' \subseteq writeQueue
      /\ Goto(c, IF at = "write" THEN "insert" ELSE "insertLegacy")
  BY <1>1, WriteDoes, ErrorBreaks DEF source
<1>3. PICK next \in Inserting : Goto(c, next) /\ (at = "writeLegacy" => next = "insertLegacy")
  BY <1>1, <1>2 DEF Inserting, Writing
<1>4. next \in Stage /\ (at \in Splitting => next \in Splitting)
  BY <1>1, <1>3 DEF Stage, Syncing, Splitting, Inserting, Writing
<1>5. call' = [call EXCEPT ![c] = v]
  BY <1>1, <1>2, CallStays
<1>6. \A tx \in Tx : Found(tx) => Found(tx)'
  BY <1>1, <1>2, <1>3, <1>4, <1>5, FoundStays
<1>7. PICK g \in writeQueue : Good(g) /\ g.leaves = v.leaves
  BY <1>1, WritesQueued
<1>8. ASSUME NEW i \in 1..length'
      PROVE  \/ i \in 1..length /\ data'[i] = data[i]
             \/ Found(data'[i]) /\ data'[i] \in Tx
  <2>1. CASE i \in 1..length
    BY <1>2, <2>1
  <2>2. CASE i \notin 1..length
    <3>1. PICK k \in 1..n : i = length + k
      <4>1. length \in Nat /\ i - length \in 1..n
        BY <1>2, <1>8, <2>2 DEF TypeOK
      <4> QED
        BY <4>1
    <3>2. PICK tx : tx = v.leaves[k]
      OBVIOUS
    <3>3. tx \in Tx /\ Found(tx)
      <4>1. v.leaves[k] \in Tx
        BY <1>2, ElementOfSeq DEF CallState
      <4>2. Found(g.leaves[k])
        BY <1>2, <1>7 DEF AllFound
      <4> QED
        BY <1>7, <3>2, <4>1, <4>2
    <3>4. data'[i] = tx
      BY <1>2, <3>1, <3>2
    <3> QED
      BY <3>3, <3>4
  <2> QED
    BY <2>1, <2>2
<1>9. \A h : Good(h)' <=> Good(h)
  BY <1>2, StaleFrame
<1>10. length <= Len(data)
  BY DEF Ordered, Kept, TypeOK
<1> QED
  BY <1>2, <1>6, <1>8, <1>9, <1>10, AllFoundStays
-----------------------------------------------------------------------------
LEMMA ClearLeavesFound ==
  ASSUME TypeOK, Ordered, AllFound, NEW c \in Caller, NEW first \in Nat, NEW next \in Deleting,
         ClearLeaves(c, first, next), stage[c] \notin Splitting,
         UNCHANGED <<branch, isPOINode, data, length, lookup>>
  PROVE  AllFound'
<1>1. PICK v \in CallState : call' = [call EXCEPT ![c] = v]
  <2>1. call[c] \in CallState /\ length - 1 \in Int
    BY DEF TypeOK
  <2>2. [call[c] EXCEPT !.start = first, !.at = first, !.position = length - 1] \in CallState
    BY <2>1 DEF CallState
  <2>3. call' = [call EXCEPT ![c] = [call[c] EXCEPT !.start = first, !.at = first,
                                                    !.position = length - 1]]
    BY DEF ClearLeaves
  <2> QED
    BY <2>2, <2>3
<1>2. next \in Stage /\ Goto(c, next) /\ writeQueue' \subseteq writeQueue
  BY DEF ClearLeaves, Stage, Holding
<1> QED
  BY <1>1, <1>2, FoundAside

LEMMA ClearingFound ==
  ASSUME TypeOK, Ordered, AllFound, NEW c \in Caller, Rewind(c) \/ Reset(c)
  PROVE  AllFound'
<1>1. CASE Rewind(c)
  <2> DEFINE first == IF length < LeavesToClear THEN 0 ELSE length - LeavesToClear
  <2>1. first \in Nat
    BY Numbers DEF TypeOK
  <2>2. /\ ClearLeaves(c, first, "rewindDelete") /\ "rewindDelete" \in Deleting
        /\ UNCHANGED <<branch, isPOINode, data, length, lookup>> /\ stage[c] \notin Splitting
    BY <1>1 DEF Rewind, source, disk, Deleting, Splitting
  <2> HIDE DEF first
  <2> QED
    BY <2>1, <2>2, ClearLeavesFound
<1>2. CASE Reset(c)
  <2>1. PICK first \in Place : ClearLeaves(c, first, "resetDelete")
    BY <1>2 DEF Reset
  <2>2. /\ first \in Nat /\ "resetDelete" \in Deleting
        /\ UNCHANGED <<branch, isPOINode, data, length, lookup>> /\ stage[c] \notin Splitting
    BY <1>2, Numbers DEF Reset, source, disk, Deleting, Splitting
  <2> QED
    BY <2>1, <2>2, ClearLeavesFound
<1> QED
  BY <1>1, <1>2

LEMMA DeletingFound ==
  ASSUME TypeOK, Ordered, AllFound, NEW c \in Caller, DeleteLeaf(c) \/ RebuildAndWriteTree(c)
  PROVE  AllFound'
<1>1. /\ stage[c] \in Deleting /\ stage[c] \notin Splitting
      /\ UNCHANGED <<branch, isPOINode, lookup, writeQueue>>
  BY DEF DeleteLeaf, RebuildAndWriteTree, source, queue, memory, Deleting, Splitting
<1>2. \A i \in 1..length' : data'[i] # None => i \in 1..length /\ data'[i] = data[i]
  <2>1. CASE DeleteLeaf(c)
    <3>1. DOMAIN data = 1..length
      BY LenProperties DEF Ordered, Kept, TypeOK
    <3> QED
      BY <2>1, <3>1 DEF DeleteLeaf
  <2>2. CASE RebuildAndWriteTree(c)
    <3>1. PICK n \in Nat : n <= length /\ length' = n /\ \A i \in 1..n : data'[i] = data[i]
      BY <2>2, RebuildDoes
    <3>2. \A i \in 1..n : i \in 1..length
      BY <3>1 DEF TypeOK
    <3> QED
      BY <3>1, <3>2
  <2> QED
    BY <2>1, <2>2
<1>3. \E next \in Stage, v \in CallState : Goto(c, next) /\ call' = [call EXCEPT ![c] = v]
  <2>1. CASE DeleteLeaf(c)
    <3>1. PICK next \in Stage : next = stage[c]
      BY DEF TypeOK
    <3>2. Goto(c, next)
      BY <2>1, <3>1 DEF DeleteLeaf, Goto, TypeOK
    <3>3. PICK v \in CallState : call' = [call EXCEPT ![c] = v]
      <4>1. call[c] \in CallState /\ call[c].at + 1 \in Nat
        BY DEF TypeOK, CallState
      <4>2. [call[c] EXCEPT !.at = call[c].at + 1] \in CallState
        BY <4>1 DEF CallState
      <4>3. call' = [call EXCEPT ![c] = [call[c] EXCEPT !.at = call[c].at + 1]]
        BY <2>1 DEF DeleteLeaf, TypeOK
      <4> QED
        BY <4>2, <4>3
    <3> QED
      BY <3>2, <3>3
  <2>2. CASE RebuildAndWriteTree(c)
    <3>1. PICK next \in {"loop", "again"} : Goto(c, next)
      BY <2>2 DEF RebuildAndWriteTree
    <3>2. call' = call /\ next \in Stage
      BY <2>2 DEF RebuildAndWriteTree, Stage, Syncing
    <3>3. PICK v \in CallState : call' = [call EXCEPT ![c] = v]
      BY <3>2, CallStays
    <3> QED
      BY <3>1, <3>2, <3>3
  <2> QED
    BY <2>1, <2>2
<1>4. PICK next \in Stage, v \in CallState : Goto(c, next) /\ call' = [call EXCEPT ![c] = v]
  BY <1>3
<1>5. \A tx \in Tx : Found(tx) => Found(tx)'
  BY <1>1, <1>4, FoundStays
<1>6. \A g : Good(g)' <=> Good(g)
  BY <1>1, StaleFrame
<1>7. length <= Len(data)
  BY DEF Ordered, Kept, TypeOK
<1> QED
  BY <1>1, <1>2, <1>5, <1>6, <1>7, AllFoundStays

LEMMA EraseFound ==
  ASSUME TypeOK, Ordered, IF isPOINode THEN History ELSE Wallet, Whole',
         NEW c \in Caller, Erase(c)
  PROVE  AllFound'
<1>1. UNCHANGED <<branch, isPOINode, writeQueue>> /\ length' = 0
  BY DEF Erase, queue, source
<1>2. \A g \in writeQueue : ~Good(g)
  BY EraseAlone DEF Wallet, NothingGood, History, NothingLeft
<1>3. \A g \in writeQueue' : ~Good(g)'
  BY <1>1, <1>2, StaleFrame
<1> QED
  BY <1>1, <1>3 DEF AllFound

LEMMA CrashFound ==
  ASSUME TypeOK, Ordered, AllFound, Crash, Whole', isPOINode \/ spent'["crash"] = 0
  PROVE  AllFound'
<1>1. UNCHANGED <<isPOINode, data, length, lookup>> /\ writeQueue' = {}
  BY DEF Crash, source, disk
<1>2. isPOINode
  <2>1. Happen("crash") \/ Happen("mishap")
    BY DEF Crash
  <2>2. Happen("crash") => spent'["crash"] # 0
    BY DEF TypeOK, Happen, Count, Bounded, Fault
  <2> QED
    BY <2>1, <2>2, MishapHappens
<1>3. \A c \in Caller : stage[c] \notin Splitting
  BY <1>2 DEF Ordered, Holdings, Sent
<1>4. \A i \in 1..length : data[i] # None => lookup[data[i]] # None
  BY <1>3 DEF AllFound, Found
<1> QED
  BY <1>1, <1>4 DEF AllFound, Found

LEMMA SourceFound ==
  ASSUME AllFound, UNCHANGED <<isPOINode, disk, memory, stage, call>>,
         branch' = branch \/ branch = "old"
  PROVE  AllFound'
<1>1. UNCHANGED <<isPOINode, data, length, lookup, writeQueue, stage, call>>
  BY DEF disk, memory
<1>2. \A tx : Found(tx)' <=> Found(tx)
  BY <1>1 DEF Found
<1>3. \A g : Good(g)' => Good(g)
  <2>1. CASE branch' = branch
    BY <1>1, <2>1, StaleFrame
  <2>2. CASE branch = "old"
    BY <2>2 DEF Good, Stale
  <2> QED
    BY <2>1, <2>2
<1>4. \A i \in 1..length : data[i] # None => Found(data[i])'
  <2> SUFFICES ASSUME NEW i \in 1..length, data[i] # None PROVE Found(data[i])'
    OBVIOUS
  <2>1. PICK tx : tx = data[i]
    OBVIOUS
  <2>2. Found(tx)'
    BY <1>2, <2>1 DEF AllFound
  <2> QED
    BY <1>1, <2>1, <2>2 DEF Found
<1> QED
  BY <1>1, <1>2, <1>3, <1>4 DEF AllFound, Found

LEMMA CrashBefore ==
  ASSUME TypeOK, [Next]_vars
  PROVE  spent'["crash"] = 0 => spent["crash"] = 0
<1>1. CASE \E kind \in Bounded : Count(kind)
  <2>1. PICK kind \in Bounded : Count(kind)
    BY <1>1
  <2>2. \A k \in Bounded : spent[k] \in Nat /\ spent'[k] \in Nat /\ spent[k] <= spent'[k]
    BY <2>1 DEF Count, TypeOK
  <2>3. "crash" \in Bounded
    BY DEF Bounded, Fault
  <2> QED
    BY <2>2, <2>3
<1>2. CASE spent' = spent
  BY <1>2
<1> QED
  BY <1>1, <1>2, SpentStep

LEMMA NextFound ==
  ASSUME TxidInv, Ordered, IF isPOINode THEN History ELSE Wallet, AllFound,
         [Next]_vars, Whole', Smooth', isPOINode \/ spent'["crash"] = 0
  PROVE  AllFound'
<1>1. TypeOK
  BY DEF TxidInv
<1>2. ASSUME NEW c \in Caller, SyncStep(c) PROVE AllFound'
  <2>1. UpgradeVersion(c) \/ Guard(c) \/ ReadCursor(c) \/ Request(c) \/ Loop(c) \/ End(c)
          => AllFound'
    BY <1>1, AsideFound
  <2>2. HandleNew(c) \/ Queue(c) \/ SaveSnapshot(c) \/ QueueRest(c) => AllFound'
    BY <1>1, HandleNewFound, QueueFound, SaveSnapshotFound, QueueRestFound
  <2>3. Erase(c) \/ Insert(c) \/ Write(c) => AllFound'
    BY <1>1, EraseFound, InsertFound, WriteFound
  <2>4. Rewind(c) \/ DeleteLeaf(c) \/ RebuildAndWriteTree(c) => AllFound'
    BY <1>1, ClearingFound, DeletingFound
  <2> QED
    BY <1>2, <2>1, <2>2, <2>3, <2>4 DEF SyncStep
<1>3. ASSUME NEW c \in Caller, SyncCall(c) \/ Reset(c) \/ FullReset(c) PROVE AllFound'
  BY <1>1, <1>3, AsideFound, ClearingFound
<1>4. \A c \in Caller : ~Fail(c) /\ ~FailClear(c)
  BY <1>1, ErrorBreaks, FailClearBreaks DEF Fail
<1>5. CASE NewTransaction \/ Validate \/ SyncUTXOs \/ Reorg
  BY <1>5, SourceFound DEF NewTransaction, Validate, SyncUTXOs, Reorg
<1>6. CASE Crash
  BY <1>1, <1>6, CrashFound
<1>7. CASE UNCHANGED vars
  BY <1>7, SourceFound DEF vars, source
<1> QED
  BY <1>2, <1>3, <1>4, <1>5, <1>6, <1>7 DEF Next

LEMMA InitFound == Init => AllFound
BY DEF Init, AllFound

(* Every leaf of the tree, and every group that will be one, has its lookup or
   will have it when the batch of a sync that runs is queued.                   *)
THEOREM LookupsCome == Spec => []FoundInv
<1>1. Init => FoundInv
  BY InitFound DEF FoundInv
<1>2. TxidInv /\ OrderInv /\ HistoryInv /\ WalletInv /\ FoundInv /\ [Next]_vars => FoundInv'
  <2> SUFFICES ASSUME TxidInv, OrderInv, HistoryInv, WalletInv, FoundInv, [Next]_vars,
                      Whole', Smooth', isPOINode' \/ (Indexed' /\ spent'["crash"] = 0)
               PROVE  AllFound'
    BY DEF FoundInv
  <2>1. Whole /\ Smooth /\ Ordered /\ isPOINode' = isPOINode
    BY WholeBefore, SameEngine DEF OrderInv, TxidInv
  <2>2. isPOINode \/ Indexed
    BY <2>1, IndexedBefore DEF TxidInv
  <2>3. (IF isPOINode THEN History ELSE Wallet) /\ AllFound
    BY <2>1, <2>2, CrashBefore DEF HistoryInv, WalletInv, FoundInv, TxidInv, Backed
  <2> QED
    BY <2>1, <2>2, <2>3, NextFound
<1> QED
  BY <1>1, <1>2, Invariant, LeavesFollow, HistoryGoesOn, UpdatesGoOn, PTL DEF Spec

(* Who looks for a transaction of the tree by its id finds its place
   (railgun-txid-merkletree), once no sync runs: on a POI node, and in a wallet
   that has queued nothing without an index.                                    *)
THEOREM LeavesCanBeLookedUp == Spec => [](isPOINode \/ Indexed => LeavesAreFound)
<1>1. TypeOK /\ OrderInv /\ FoundInv => (isPOINode \/ Indexed => LeavesAreFound)
  <2> SUFFICES ASSUME TypeOK, Ordered, AllFound, ~Changing, ~isScanning, NEW i \in 1..length
               PROVE  lookup[data[i]] = i - 1
    BY DEF LeavesAreFound, OrderInv, FoundInv
  <2>1. Len(data) = length /\ InPlace(data[i], i - 1)
    BY LeavesInPlace
  <2>2. data[i] \in Tx /\ data[i].at = i - 1
    <3>1. data[i] \in Tx \union {None}
      BY <2>1, ElementOfSeq DEF TypeOK
    <3> QED
      BY <2>1, <3>1 DEF InPlace, Source
  <2>3. \A c \in Caller : stage[c] \notin Splitting
    BY DEF Ordered, Alone, Active, Owners, Syncing, Inserting, Writing, Splitting
  <2>4. lookup[data[i]] # None
    BY <2>2, <2>3, NoneIsNoValue DEF AllFound, Found
  <2> QED
    BY <2>2, <2>4 DEF Ordered, LookupNumbered
<1> QED
  BY <1>1, Types, LeavesFollow, LookupsCome, PTL
=============================================================================
