---------------------------- MODULE PoiRefresh ----------------------------
(* How a wallet follows its proofs of innocence (POIs): a refresh asks the POI
   node for the statuses of the notes the wallet received and of the outputs of
   its transactions, stores them, and proves the transactions whose inputs are
   valid.  Refreshes follow every scan, may be forced by the application and
   overlap; proofs may be asked for one transaction.

   An item is a blinded commitment: a note the wallet received, an output of a
   transaction of the wallet (a sent commitment or an unshield event), or both
   (change).  Both records of an item are stored apart.  The POI node is external.
   A request and its answer are one step: the answer is stored in later steps. *)
EXTENDS Integers, FiniteSets

CONSTANTS CallCount,   \* calls that may overlap
          Version,     \* versions of the wallet's trees on the chain
          List,        \* lists of POIs
          ItemCount,   \* items, in the order in which they came on chain
          TxCount,     \* transactions of the wallet, in the same order
          VersionOf,   \* version of each item
          TxVersion,   \* and of each transaction
          Note,        \* items that the wallet received
          Unshield,    \* items that are unshield events
          Inputs, Outputs,      \* items that a transaction spends and makes
          LegacyTx,    \* transactions from before the launch of POIs
          Blocked,     \* shields that the lists block
          ReceivedInRequest, SpentInRequest,   \* the most items in a request
          None,
          FoundAtStart, SyncedAtStart,   \* items and transactions known when the
                                         \* wallet is loaded
          MaxEvents    \* bound on forced refreshes, proofs asked for, failures
                       \* and restarts, together

Call   == 1..CallCount
Item   == 1..ItemCount
Tx     == 1..TxCount
Output == UNION {Outputs[t] : t \in Tx}
Status == {"Missing", "ShieldBlocked", "ProofSubmitted", "Valid"}
POIs   == [List -> Status]

ASSUME CountsAreNumbers  == {CallCount, ItemCount, TxCount} \subseteq Nat
ASSUME ThereIsAVersion   == Version # {}
ASSUME VersionsAreKnown  == VersionOf \in [Item -> Version] /\ TxVersion \in [Tx -> Version]
ASSUME ItemsHaveKinds    == Note \subseteq Item /\ Unshield \subseteq Item \ Note
ASSUME TxsSpendNotes     == Inputs \in [Tx -> SUBSET Note] /\ Outputs \in [Tx -> SUBSET Item]
ASSUME OutputsComeLater  ==
  /\ \A t \in Tx : \A n \in Inputs[t], o \in Outputs[t] : n < o
  /\ \A t, u \in Tx : t # u => Outputs[t] \cap Outputs[u] = {}
  /\ \A t \in Tx : \A i \in Inputs[t] \union Outputs[t] : VersionOf[i] = TxVersion[t]
ASSUME SomeAreSpecial    == LegacyTx \subseteq Tx /\ Blocked \subseteq Item \ Output
ASSUME RequestsAreFinite == ReceivedInRequest \in Nat \ {0} /\ SpentInRequest \in Nat \ {0}
ASSUME NoneIsNone        == None \notin Tx \union POIs
ASSUME StartIsPossible   == FoundAtStart \in 0..ItemCount /\ SyncedAtStart \in 0..TxCount
ASSUME EventsAreCounted  == MaxEvents \in Nat

VARIABLES
  status,       \* POI node: status of each item
  scanned,      \* how many items the wallet has found on chain
  synced,       \* how many transactions the TXID tree has
  received,     \* disk: poisPerList of the notes received
  sent,         \* disk: poisPerList of the outputs
  refreshing,   \* isRefreshingPOIs per version
  generating,   \* generatingPOIsForChain
  call,         \* what each call does
  proofs,       \* history: how often a transaction was proved for a list
  undone,       \* history: transactions whose proofs a refresh could not know of:
                \* an output was decrypted again after it had asked for them
  forced,       \* history: the application has forced a refresh or a proof
  events        \* how many events there were

node  == <<status, scanned, synced>>
disk  == <<received, sent>>
flags == <<refreshing, generating>>
vars  == <<node, disk, flags, call, proofs, undone, forced, events>>

Retrieving == {"received", "again", "spent"}
Stage      == Retrieving \union {"idle", "legacy", "generate", "collect", "prove"}
Generating == {"collect", "prove"}

\* answers that are not stored yet, or None before the request
Answers == (UNION {[I -> POIs] : I \in SUBSET Item}) \union {None}

TypeOK ==
  /\ status \in [Item -> POIs]
  /\ scanned \in 0..ItemCount /\ synced \in 0..TxCount
  /\ received \in [Item -> POIs \union {None}]
  /\ sent \in [Item -> POIs \union {None}]
  /\ refreshing \in [Version -> BOOLEAN] /\ generating \in BOOLEAN
  /\ call \in [Call -> [stage : Stage, version : Version, only : Tx \union {None},
                        got : Answers, todo : SUBSET (Tx \X List)]]
  /\ proofs \in [Tx \X List -> Nat] /\ undone \subseteq Tx
  /\ forced \in BOOLEAN /\ events \in Nat

Idle == [stage |-> "idle", version |-> CHOOSE v \in Version : TRUE, only |-> None,
         got |-> None, todo |-> {}]

Init ==
  /\ status = [i \in Item |-> [l \in List |-> "Missing"]]
  /\ scanned = FoundAtStart /\ synced = SyncedAtStart
  /\ received = [i \in Item |-> None] /\ sent = [i \in Item |-> None]
  /\ refreshing = [v \in Version |-> FALSE] /\ generating = FALSE
  /\ call = [c \in Call |-> Idle]
  /\ proofs = [p \in Tx \X List |-> 0] /\ undone = {}
  /\ forced = FALSE /\ events = 0
-----------------------------------------------------------------------------
(* The chain, the TXID tree, the wallet's own scans and the POI node.        *)

Event == events < MaxEvents /\ events' = events + 1

\* the wallet decrypts a note or output, or finds an unshield event
Decrypt == /\ scanned < ItemCount
           /\ scanned' = scanned + 1
           /\ UNCHANGED <<status, synced, disk, flags, call, proofs, undone, forced, events>>

\* the call has asked for the outputs and goes by the record of o
GoesBy(c, o) == \/ call[c].stage \in {"generate", "collect"}
                \/ /\ call[c].stage = "spent" /\ call[c].got # None
                   /\ o \notin DOMAIN call[c].got

\* a scan that overlaps another, or follows one that failed, decrypts leaves again
\* and replaces their records by new ones that have no POIs (scanLeaves).  Unshield
\* events are not records of the wallet: they are kept with the UTXO tree
DecryptAgain(v, first, last) ==
  LET again == {i \in first..last : VersionOf[i] = v /\ i \notin Unshield}
  IN /\ last <= scanned /\ again # {}
     /\ Event
     /\ received' = [i \in Item |-> IF i \in again THEN None ELSE received[i]]
     /\ sent' = [i \in Item |-> IF i \in again THEN None ELSE sent[i]]
     /\ undone' = undone \union
          {t \in Tx : \E c \in Call, o \in Outputs[t] \cap again :
                       call[c].version = v /\ GoesBy(c, o)}
     /\ UNCHANGED <<node, flags, call, proofs, forced>>

\* the TXID sync adds a transaction and stores its railgunTxid with its outputs
SyncTx == /\ synced < TxCount
          /\ synced' = synced + 1
          /\ UNCHANGED <<status, scanned, disk, flags, call, proofs, undone, forced, events>>

SetStatus(items, l, from, to) ==
  status' = [i \in Item |-> IF i \in items /\ status[i][l] = from
                            THEN [status[i] EXCEPT ![l] = to] ELSE status[i]]

\* a list assesses a note that is no output of the wallet
Assess(i, l) ==
  /\ i \notin Output /\ status[i][l] = "Missing"
  /\ SetStatus({i}, l, "Missing", IF i \in Blocked THEN "ShieldBlocked" ELSE "Valid")
  /\ UNCHANGED <<scanned, synced, disk, flags, call, proofs, undone, forced, events>>

\* a list has verified a proof, or the legacy event of an output
Accept(t, l) ==
  /\ \E o \in Outputs[t] : status[o][l] = "ProofSubmitted"
  /\ SetStatus(Outputs[t], l, "ProofSubmitted", "Valid")
  /\ UNCHANGED <<scanned, synced, disk, flags, call, proofs, undone, forced, events>>
-----------------------------------------------------------------------------
(* What the wallet knows.                                                    *)

Found(i) == i <= scanned
TXOs(v)  == {n \in Note : Found(n) /\ VersionOf[n] = v}
\* what the wallet can ask for: an unshield event is named by its railgunTxid
SpentRecords(v) ==
  {o \in Output : /\ Found(o) /\ VersionOf[o] = v
                  /\ o \in Unshield => \E t \in 1..synced : o \in Outputs[t]}
LegacyNotes == {n \in Note : \E t \in LegacyTx \cap 1..synced : n \in Outputs[t]}

\* mutant: a proof that is submitted is final
HasFinalPOIsAllLists(pois) ==
  pois # None /\ \A l \in List : pois[l] \in {"ProofSubmitted", "Valid"}

HasValidPOIsAllLists(pois) == pois # None /\ \A l \in List : pois[l] = "Valid"

\* the list has verified it, as far as the wallet knows
Verified(pois, l) == pois # None /\ pois[l] = "Valid"

\* mutant: a proof that is submitted and not verified does not count
SubmittedIfVerified(pois, l) == Verified(pois, l)

\* a proof for the list is submitted or valid, as far as the wallet knows
Submitted(pois, l) == pois # None /\ pois[l] \in {"ProofSubmitted", "Valid"}

\* sortPOIsPerListUndefinedFirst puts records that have POIs first
Sooner(pois, i, j) == pois[i] # None /\ pois[j] = None
SameStanding(pois, i, j) == (pois[i] = None) <=> (pois[j] = None)

\* what comes before an item: notes come in the order of the database, outputs in any
ReceivedBefore == [i \in Item |-> {j \in Item :
  Sooner(received, j, i) \/ (SameStanding(received, j, i) /\ j < i)}]
SentBefore == [i \in Item |-> {j \in Item :
  IF (j \in Unshield) <=> (i \in Unshield) THEN Sooner(sent, j, i) ELSE i \in Unshield}]

\* the requests that can be made for what is needed
Requests(needed, limit, before) ==
  {asked \in SUBSET needed :
     /\ Cardinality(asked) <= limit
     /\ asked = needed \/ Cardinality(asked) = limit
     /\ \A i \in asked : before[i] \cap needed \subseteq asked}
-----------------------------------------------------------------------------
(* A refresh.                                                                *)

\* calls have no names: a new one takes the first free place
IsFree(c) == call[c].stage = "idle" /\ \A d \in 1..(c - 1) : call[d].stage # "idle"

\* refreshPOIsForTXIDVersion
Refresh(c, v, force) ==
  /\ IsFree(c)
  /\ IF force THEN Event ELSE ~refreshing[v] /\ UNCHANGED events
  /\ forced' = (forced \/ force)
  /\ refreshing' = [refreshing EXCEPT ![v] = TRUE]
  /\ call' = [call EXCEPT ![c].stage = "received", ![c].version = v]
  /\ UNCHANGED <<node, disk, generating, proofs, undone>>

Following(stage) == IF stage = "received" THEN "legacy"
                    ELSE IF stage = "again" THEN "spent" ELSE "generate"

\* go on with what is left of the answers
GoOn(c, answers) ==
  IF DOMAIN answers = {}
  THEN call' = [call EXCEPT ![c].stage = Following(@), ![c].got = None]
  ELSE call' = [call EXCEPT ![c].got = answers]

Answered(c, asked) == GoOn(c, [i \in asked |-> status[i]])

\* refreshReceivePOIsAllTXOs
RetrieveReceived(c) ==
  /\ call[c].stage \in {"received", "again"} /\ call[c].got = None
  /\ LET needed == {n \in TXOs(call[c].version) : ~HasValidPOIsAllLists(received[n])}
     IN \E asked \in Requests(needed, ReceivedInRequest, ReceivedBefore) : Answered(c, asked)
  /\ UNCHANGED <<node, disk, flags, proofs, undone, forced, events>>

\* refreshSpentPOIsAllSentCommitmentsAndUnshieldEvents
RetrieveSpent(c) ==
  /\ call[c].stage = "spent" /\ call[c].got = None
  /\ LET needed == {o \in SpentRecords(call[c].version) : ~HasValidPOIsAllLists(sent[o])}
     IN \E asked \in Requests(needed, SpentInRequest, SentBefore) : Answered(c, asked)
  /\ UNCHANGED <<node, disk, flags, proofs, undone, forced, events>>

\* the answers that are left are for i and later records
IsNext(c, i) == /\ call[c].got # None /\ i \in DOMAIN call[c].got
                /\ \A j \in DOMAIN call[c].got : i <= j

Rest(c, i) == [j \in DOMAIN call[c].got \ {i} |-> call[c].got[j]]

\* updateReceiveCommitmentCreatedPOIs
StoreReceived(c, i) ==
  /\ call[c].stage \in {"received", "again"} /\ IsNext(c, i)
  /\ received' = [received EXCEPT ![i] = call[c].got[i]]
  /\ GoOn(c, Rest(c, i))
  /\ UNCHANGED <<node, sent, flags, proofs, undone, forced, events>>

\* updateSentCommitmentSpentPOIs, updateUnshieldEvent
StoreSent(c, i) ==
  /\ call[c].stage = "spent" /\ IsNext(c, i)
  /\ sent' = [sent EXCEPT ![i] = call[c].got[i]]
  /\ GoOn(c, Rest(c, i))
  /\ UNCHANGED <<node, received, flags, proofs, undone, forced, events>>

\* submitLegacyTransactPOIEventsReceiveCommitments: then the notes are read again
SubmitLegacy(c) ==
  /\ call[c].stage = "legacy"
  /\ LET txos   == TXOs(call[c].version)
         needed == {n \in txos \cap LegacyNotes :
                      received[n] # None /\ ~HasValidPOIsAllLists(received[n])}
         lists  == {l \in List : \E n \in txos : ~Verified(received[n], l)}
     IN IF needed = {}
        THEN call' = [call EXCEPT ![c].stage = "spent"] /\ UNCHANGED status
        ELSE /\ call' = [call EXCEPT ![c].stage = "again"]
             /\ status' = [i \in Item |-> [l \in List |->
                  IF i \in needed /\ l \in lists /\ status[i][l] = "Missing"
                  THEN "ProofSubmitted" ELSE status[i][l]]]
  /\ UNCHANGED <<scanned, synced, disk, flags, proofs, undone, forced, events>>
-----------------------------------------------------------------------------
(* generatePOIsAllSentCommitmentsAndUnshieldEvents, as the end of a refresh or
   called for one transaction by generatePOIsForRailgunTxid.                 *)

\* the call ends; if it is a refresh, none is under way for the version
Return(c) ==
  /\ refreshing' = IF call[c].only = None
                   THEN [refreshing EXCEPT ![call[c].version] = FALSE] ELSE refreshing
  /\ call' = [call EXCEPT ![c] = Idle]

\* a refresh does without if another call generates
Generate(c) ==
  /\ call[c].stage = "generate"
  /\ generating' = TRUE
  /\ IF generating THEN Return(c)
     ELSE call' = [call EXCEPT ![c].stage = "collect"] /\ UNCHANGED refreshing
  /\ UNCHANGED <<node, disk, proofs, undone, forced, events>>

GenerateFor(c, t) ==
  /\ IsFree(c) /\ ~generating
  /\ Event /\ forced' = TRUE
  /\ generating' = TRUE
  /\ call' = [call EXCEPT ![c].stage = "collect", ![c].version = TxVersion[t], ![c].only = t]
  /\ UNCHANGED <<node, disk, refreshing, proofs, undone>>

\* transactions with an output that has no proof on some list
NeedPOIs(c) ==
  {t \in 1..synced : /\ TxVersion[t] = call[c].version
                     /\ call[c].only \in {None, t}
                     /\ \E o \in Outputs[t] : Found(o) /\ \E l \in List : ~Submitted(sent[o], l)}

\* getListKeysCanGenerateSpentPOIs: inputs without POIs do not count
CanGenerate(t, l) ==
  /\ t \in LegacyTx \/ \A n \in Inputs[t] : received[n] = None \/ received[n][l] = "Valid"
  /\ \E o \in Outputs[t] : ~Submitted(sent[o], l)

\* what is to be proved, of transactions whose outputs are all decrypted
ToProve(c) == {p \in NeedPOIs(c) \X List :
                 (\A o \in Outputs[p[1]] : Found(o)) /\ CanGenerate(p[1], p[2])}

\* mutant: the flag stays when there is nothing to prove
CollectAndLeave(c) ==
  /\ call[c].stage = "collect"
  /\ IF NeedPOIs(c) = {}
     THEN Return(c) /\ UNCHANGED generating
     ELSE /\ call' = [call EXCEPT ![c].stage = "prove", ![c].todo = ToProve(c)]
          /\ UNCHANGED flags
  /\ UNCHANGED <<node, disk, proofs, undone, forced, events>>

Collect(c) ==
  /\ call[c].stage = "collect"
  /\ IF NeedPOIs(c) = {}
     THEN Return(c) /\ generating' = FALSE
     ELSE /\ call' = [call EXCEPT ![c].stage = "prove", ![c].todo = ToProve(c)]
          /\ UNCHANGED flags
  /\ UNCHANGED <<node, disk, proofs, undone, forced, events>>

\* the node gives merkle proofs for valid inputs only, legacy proofs need none
HasMerkleProofs(t, l) == t \in LegacyTx \/ \A n \in Inputs[t] : status[n][l] = "Valid"

\* generatePOIsForRailgunTxidAndListKey: a proof that fails is left out, and a
\* failure may come before or after the node has got the proof
Prove(c, t, l) ==
  /\ call[c].stage = "prove" /\ <<t, l>> \in call[c].todo
  /\ call' = [call EXCEPT ![c].todo = @ \ {<<t, l>>}]
  /\ \/ /\ HasMerkleProofs(t, l)
        /\ SetStatus(Outputs[t], l, "Missing", "ProofSubmitted")
        /\ proofs' = [proofs EXCEPT ![<<t, l>>] = @ + 1]
        /\ UNCHANGED events \/ Event
     \/ /\ IF HasMerkleProofs(t, l) THEN Event ELSE UNCHANGED events
        /\ UNCHANGED <<status, proofs>>
  /\ UNCHANGED <<scanned, synced, disk, flags, undone, forced>>

\* all are tried: the flag is reset, then the first failure is thrown
Generated(c) ==
  /\ call[c].stage = "prove" /\ call[c].todo = {}
  /\ generating' = FALSE
  /\ Return(c)
  /\ UNCHANGED <<node, disk, proofs, undone, forced, events>>

\* a request or an access to the database fails, and with it the call
Fail(c) ==
  /\ call[c].stage \in Retrieving \union {"legacy", "collect"}
  /\ Event
  /\ generating' = (generating /\ call[c].stage # "collect")
  /\ Return(c)
  /\ UNCHANGED <<node, disk, proofs, undone, forced>>

\* the application is closed and started again
Crash == /\ Event
         /\ refreshing' = [v \in Version |-> FALSE] /\ generating' = FALSE
         /\ call' = [c \in Call |-> Idle]
         /\ UNCHANGED <<node, disk, proofs, undone, forced>>
-----------------------------------------------------------------------------
Step(c) == \/ RetrieveReceived(c) \/ RetrieveSpent(c)
           \/ \E i \in Item : StoreReceived(c, i) \/ StoreSent(c, i)
           \/ SubmitLegacy(c)
           \/ Generate(c) \/ Collect(c)
           \/ \E t \in Tx, l \in List : Prove(c, t, l)
           \/ Generated(c)

Next == \/ Decrypt \/ SyncTx
        \/ \E v \in Version, first, last \in Item : DecryptAgain(v, first, last)
        \/ \E l \in List : \/ \E i \in Item : Assess(i, l)
                          \/ \E t \in Tx : Accept(t, l)
        \/ \E c \in Call, v \in Version, force \in BOOLEAN : Refresh(c, v, force)
        \/ \E c \in Call, t \in Tx : GenerateFor(c, t)
        \/ \E c \in Call : Step(c) \/ Fail(c)
        \/ Crash

Spec == Init /\ [][Next]_vars

\* the wallet follows the chain and refreshes after every scan, the node answers
\* and assesses what it has
FairSpec ==
  /\ Spec
  /\ WF_vars(Decrypt) /\ WF_vars(SyncTx)
  /\ \A l \in List : /\ \A i \in Item : WF_vars(Assess(i, l))
                      /\ \A t \in Tx : WF_vars(Accept(t, l))
  /\ \A v \in Version : WF_vars(\E c \in Call : Refresh(c, v, FALSE))
  /\ \A c \in Call : WF_vars(Step(c))
-----------------------------------------------------------------------------
(* Only one call generates proofs at a time, and no flag stays behind when a
   call fails: a flag that is set belongs to a call under way.               *)
FlagsAreHeld ==
  /\ \A c, d \in Call : {call[c].stage, call[d].stage} \subseteq Generating => c = d
  /\ generating <=> \E c \in Call : call[c].stage \in Generating
  /\ \A v \in Version : refreshing[v] =>
       \E c \in Call : call[c].stage # "idle" /\ call[c].version = v /\ call[c].only = None

(* A proof takes minutes: refreshes do not make one that the node has already
   got, however slow the node is to verify it, whichever requests failed and
   however often the wallet's records were replaced before a refresh asked for
   them.  Two things have it made again: the application's force, and a scan
   that replaces the record of an output after the refresh has asked for it and
   before it collects what is to be proved.  (Where the outputs fit in one
   request.)                                                                 *)
NoProofTwice ==
  ~forced => \A t \in Tx \ undone, l \in List : proofs[<<t, l>>] <= 1

ProofIsPossible(t, l) == t \in LegacyTx \/ \A n \in Inputs[t] : status[n][l] = "Valid"

(* A transaction that can be proved is, and the wallet learns that its outputs
   are valid and can spend the change, whichever requests failed, however many
   notes are blocked, whatever was decrypted again, and although its transactions
   depend on one another.                                                    *)
EveryTransactionIsProved ==
  \A t \in Tx, l \in List :
    []<>ProofIsPossible(t, l) =>
      <>[](\A o \in Outputs[t] : Verified(sent[o], l) /\ (o \in Note => Verified(received[o], l)))
=============================================================================
