--------------------------- MODULE PoiRefreshProofs ---------------------------
(* Proofs about the refreshes, for any number of calls, versions, lists, items
   and transactions, and any number of failures, restarts and forced calls: the
   flags are held by calls under way, and, where the outputs of the wallet fit
   in one request, no proof is made twice unless the application forces it.  *)
EXTENDS PoiRefresh, FiniteSetTheorems, TLAPS

CallRecord == [stage : Stage, version : Version, only : Tx \union {None},
               got : Answers, todo : SUBSET (Tx \X List)]

\* c is the one call that a step changes
Changes(c) == \A d \in Call \ {c} : call'[d] = call[d]

-----------------------------------------------------------------------------
(* Types.                                                                    *)

LEMMA IdleIsACall == Idle \in CallRecord
<1>1. (CHOOSE v \in Version : TRUE) \in Version
  BY ThereIsAVersion
<1>2. None \in Answers
  BY DEF Answers
<1>3. {} \in SUBSET (Tx \X List) /\ "idle" \in Stage /\ None \in Tx \union {None}
  BY DEF Stage
<1> QED
  BY <1>1, <1>2, <1>3 DEF Idle, CallRecord

LEMMA IdleFields ==
  /\ Idle.stage = "idle" /\ Idle.only = None /\ Idle.got = None /\ Idle.todo = {}
BY DEF Idle

LEMMA TypesAtFirst == Init => TypeOK
<1> SUFFICES ASSUME Init PROVE TypeOK
  OBVIOUS
<1>1. status \in [Item -> POIs] /\ received \in [Item -> POIs \union {None}]
      /\ sent \in [Item -> POIs \union {None}]
  BY DEF Init, POIs, Status
<1>2. call \in [Call -> CallRecord]
  BY IdleIsACall DEF Init
<1>3. scanned \in 0..ItemCount /\ synced \in 0..TxCount
  BY StartIsPossible DEF Init
<1> QED
  BY <1>1, <1>2, <1>3 DEF Init, TypeOK, CallRecord

\* A scan replaces records, and nothing else.
LEMMA AgainTypes ==
  ASSUME TypeOK, NEW v \in Version, NEW first \in Item, NEW last \in Item,
         DecryptAgain(v, first, last)
  PROVE  /\ TypeOK' /\ undone \subseteq undone'
         /\ UNCHANGED <<node, flags, call, proofs, forced>>
<1>1. /\ received' \in [Item -> POIs \union {None}] /\ sent' \in [Item -> POIs \union {None}]
      /\ undone' \subseteq Tx /\ undone \subseteq undone'
  BY DEF DecryptAgain, TypeOK
<1>2. events' \in Nat /\ UNCHANGED <<node, flags, call, proofs, forced>>
  BY DEF DecryptAgain, Event, TypeOK
<1> QED
  BY <1>1, <1>2 DEF TypeOK, node, flags

LEMMA TypedCalls ==
  ASSUME TypeOK, NEW c \in Call
  PROVE  /\ call \in [Call -> CallRecord] /\ call[c] \in CallRecord
         /\ call[c].stage \in Stage /\ call[c].version \in Version
         /\ call[c].only \in Tx \union {None} /\ call[c].got \in Answers
         /\ call[c].todo \subseteq Tx \X List
BY DEF TypeOK, CallRecord

LEMMA TypedAnswers ==
  ASSUME NEW I \in SUBSET Item, NEW f \in [I -> POIs]
  PROVE  f \in Answers
BY DEF Answers

\* what a call has between a request and the end of its answers
LEMMA HeldAnswers ==
  ASSUME TypeOK, NEW c \in Call, call[c].got # None
  PROVE  /\ DOMAIN call[c].got \subseteq Item
         /\ call[c].got \in [DOMAIN call[c].got -> POIs]
<1>1. PICK I \in SUBSET Item : call[c].got \in [I -> POIs]
  BY TypedCalls DEF Answers
<1> QED
  BY <1>1

\* A call goes on with what is left of its answers, and only it.
GoesOn(c, answers) ==
  /\ Changes(c)
  /\ call'[c].version = call[c].version /\ call'[c].only = call[c].only
  /\ call'[c].todo = call[c].todo
  /\ DOMAIN answers = {} =>
       call'[c].stage = Following(call[c].stage) /\ call'[c].got = None
  /\ DOMAIN answers # {} => call'[c].stage = call[c].stage /\ call'[c].got = answers

LEMMA FollowingStages ==
  /\ Following("received") = "legacy" /\ Following("again") = "spent"
  /\ Following("spent") = "generate"
  /\ \A s \in Retrieving : Following(s) \in Stage
BY DEF Following, Retrieving, Stage

LEMMA GoesTyped ==
  ASSUME TypeOK, NEW c \in Call, call[c].stage \in Retrieving,
         NEW answers \in Answers, GoOn(c, answers)
  PROVE  call' \in [Call -> CallRecord] /\ GoesOn(c, answers)
<1>1. call \in [Call -> CallRecord] /\ call[c] \in CallRecord
  BY TypedCalls
<1>2. None \in Answers
  BY DEF Answers
<1>3. Following(call[c].stage) \in Stage
  BY FollowingStages
<1>4. CASE DOMAIN answers = {}
  <2>1. call' = [call EXCEPT ![c].stage = Following(call[c].stage), ![c].got = None]
    BY <1>4 DEF GoOn
  <2> QED
    BY <1>1, <1>2, <1>3, <1>4, <2>1 DEF CallRecord, GoesOn, Changes
<1>5. CASE DOMAIN answers # {}
  <2>1. call' = [call EXCEPT ![c].got = answers]
    BY <1>5 DEF GoOn
  <2> QED
    BY <1>1, <1>5, <2>1 DEF CallRecord, GoesOn, Changes
<1> QED
  BY <1>4, <1>5

LEMMA Returns ==
  ASSUME TypeOK, NEW c \in Call, Return(c)
  PROVE  /\ Changes(c) /\ call'[c] = Idle /\ call' \in [Call -> CallRecord]
         /\ refreshing' \in [Version -> BOOLEAN]
<1>1. call \in [Call -> CallRecord] /\ call[c].version \in Version
  BY TypedCalls
<1>2. call' \in [Call -> CallRecord]
  BY <1>1, IdleIsACall DEF Return
<1>3. refreshing' \in [Version -> BOOLEAN]
  BY <1>1 DEF Return, TypeOK
<1> QED
  BY <1>1, <1>2, <1>3 DEF Return, Changes

LEMMA Statuses ==
  ASSUME TypeOK, NEW items, NEW l, NEW from, NEW to \in Status, SetStatus(items, l, from, to)
  PROVE  status' \in [Item -> POIs]
<1>1. \A i \in Item : [status[i] EXCEPT ![l] = to] \in POIs /\ status[i] \in POIs
  BY DEF TypeOK, POIs
<1> QED
  BY <1>1 DEF SetStatus

LEMMA NodeTypes ==
  ASSUME TypeOK,
         \/ Decrypt \/ SyncTx
         \/ \E l \in List : (\E i \in Item : Assess(i, l)) \/ (\E t \in Tx : Accept(t, l))
  PROVE  TypeOK'
<1>1. ItemCount \in Nat /\ TxCount \in Nat
  BY CountsAreNumbers
<1>2. CASE Decrypt
  BY <1>1, <1>2 DEF Decrypt, TypeOK, disk, flags
<1>3. CASE SyncTx
  BY <1>1, <1>3 DEF SyncTx, TypeOK, disk, flags
<1>4. ASSUME NEW l \in List, NEW i \in Item, Assess(i, l) PROVE TypeOK'
  <2>1. (IF i \in Blocked THEN "ShieldBlocked" ELSE "Valid") \in Status
    BY DEF Status
  <2>2. status' \in [Item -> POIs]
    BY <1>4, <2>1, Statuses DEF Assess
  <2> QED
    BY <1>4, <2>2 DEF Assess, TypeOK, disk, flags
<1>5. ASSUME NEW l \in List, NEW t \in Tx, Accept(t, l) PROVE TypeOK'
  <2>1. status' \in [Item -> POIs]
    <3>1. "Valid" \in Status
      BY DEF Status
    <3> QED
      BY <1>5, <3>1, Statuses DEF Accept
  <2> QED
    BY <1>5, <2>1 DEF Accept, TypeOK, disk, flags
<1> QED
  BY <1>2, <1>3, <1>4, <1>5

LEMMA EventTypes ==
  ASSUME TypeOK, Event \/ UNCHANGED events
  PROVE  events' \in Nat
BY DEF Event, TypeOK

\* A step that changes no more than calls, flags and events keeps the types.
LEMMA CallTypes ==
  ASSUME TypeOK, UNCHANGED <<node, disk, proofs, undone>>,
         call' \in [Call -> CallRecord], refreshing' \in [Version -> BOOLEAN],
         generating' \in BOOLEAN, forced' \in BOOLEAN, Event \/ UNCHANGED events
  PROVE  TypeOK'
<1>1. events' \in Nat
  BY EventTypes
<1> QED
  BY <1>1 DEF TypeOK, CallRecord, node, disk

LEMMA StartTypes ==
  ASSUME TypeOK, NEW c \in Call,
         \/ \E v \in Version, force \in BOOLEAN : Refresh(c, v, force)
         \/ \E t \in Tx : GenerateFor(c, t)
  PROVE  TypeOK'
<1>1. call \in [Call -> CallRecord]
  BY TypedCalls
<1>2. ASSUME NEW v \in Version, NEW force \in BOOLEAN, Refresh(c, v, force) PROVE TypeOK'
  <2>1. call' \in [Call -> CallRecord]
    <3>1. "received" \in Stage
      BY DEF Stage, Retrieving
    <3>2. call' = [call EXCEPT ![c].stage = "received", ![c].version = v]
      BY <1>2 DEF Refresh
    <3> QED
      BY <1>1, <3>1, <3>2 DEF CallRecord
  <2>2. refreshing' \in [Version -> BOOLEAN] /\ forced' \in BOOLEAN
    BY <1>2 DEF Refresh, TypeOK
  <2>3. Event \/ UNCHANGED events
    BY <1>2 DEF Refresh
  <2> QED
    BY <1>2, <2>1, <2>2, <2>3, CallTypes DEF Refresh, TypeOK
<1>3. ASSUME NEW t \in Tx, GenerateFor(c, t) PROVE TypeOK'
  <2>1. call' \in [Call -> CallRecord]
    <3>1. "collect" \in Stage /\ TxVersion[t] \in Version
      BY VersionsAreKnown DEF Stage
    <3>2. call' = [call EXCEPT ![c].stage = "collect", ![c].version = TxVersion[t], ![c].only = t]
      BY <1>3 DEF GenerateFor
    <3> QED
      BY <1>1, <3>1, <3>2 DEF CallRecord
  <2> QED
    BY <1>3, <2>1, CallTypes DEF GenerateFor, TypeOK
<1> QED
  BY <1>2, <1>3

LEMMA RetrieveTypes ==
  ASSUME TypeOK, NEW c \in Call, RetrieveReceived(c) \/ RetrieveSpent(c)
  PROVE  /\ TypeOK'
         /\ \E asked \in SUBSET Item :
              /\ [i \in asked |-> status[i]] \in Answers
              /\ GoesOn(c, [i \in asked |-> status[i]])
<1>1. PICK asked \in SUBSET Item : Answered(c, asked)
  <2>1. CASE RetrieveReceived(c)
    BY <2>1, ItemsHaveKinds DEF RetrieveReceived, Requests, TXOs
  <2>2. CASE RetrieveSpent(c)
    <3>1. SpentRecords(call[c].version) \subseteq Item
      BY TxsSpendNotes DEF SpentRecords, Output
    <3> QED
      BY <2>2, <3>1 DEF RetrieveSpent, Requests
  <2> QED
    BY <2>1, <2>2
<1>2. [i \in asked |-> status[i]] \in Answers
  <2>1. [i \in asked |-> status[i]] \in [asked -> POIs]
    BY DEF TypeOK
  <2> QED
    BY <2>1, TypedAnswers
<1>3. call[c].stage \in Retrieving
  BY DEF RetrieveReceived, RetrieveSpent, Retrieving
<1>4. call' \in [Call -> CallRecord] /\ GoesOn(c, [i \in asked |-> status[i]])
  BY <1>1, <1>2, <1>3, GoesTyped DEF Answered
<1>5. TypeOK'
  BY <1>4, CallTypes DEF RetrieveReceived, RetrieveSpent, TypeOK, flags
<1> QED
  BY <1>2, <1>4, <1>5

LEMMA RestTyped ==
  ASSUME TypeOK, NEW c \in Call, NEW i \in Item, IsNext(c, i)
  PROVE  Rest(c, i) \in Answers /\ call[c].got[i] \in POIs
<1>1. DOMAIN call[c].got \subseteq Item /\ call[c].got \in [DOMAIN call[c].got -> POIs]
  BY HeldAnswers DEF IsNext
<1>2. Rest(c, i) \in [DOMAIN call[c].got \ {i} -> POIs]
  BY <1>1 DEF Rest
<1>3. DOMAIN call[c].got \ {i} \in SUBSET Item
  BY <1>1
<1> QED
  BY <1>1, <1>2, <1>3, TypedAnswers DEF IsNext

LEMMA StoreTypes ==
  ASSUME TypeOK, NEW c \in Call, NEW i \in Item, StoreReceived(c, i) \/ StoreSent(c, i)
  PROVE  TypeOK' /\ GoesOn(c, Rest(c, i))
<1>1. call[c].stage \in Retrieving /\ IsNext(c, i) /\ GoOn(c, Rest(c, i))
  BY DEF StoreReceived, StoreSent, Retrieving
<1>2. Rest(c, i) \in Answers /\ call[c].got[i] \in POIs
  BY <1>1, RestTyped
<1>3. call' \in [Call -> CallRecord] /\ GoesOn(c, Rest(c, i))
  BY <1>1, <1>2, GoesTyped
<1>4. received' \in [Item -> POIs \union {None}] /\ sent' \in [Item -> POIs \union {None}]
  BY <1>2 DEF StoreReceived, StoreSent, TypeOK
<1> QED
  BY <1>3, <1>4 DEF StoreReceived, StoreSent, TypeOK, CallRecord, node, flags

\* A call goes to another stage, or has another list of proofs to make.
Moves(c, stage, todo) ==
  /\ Changes(c)
  /\ call'[c].version = call[c].version /\ call'[c].only = call[c].only
  /\ call'[c].got = call[c].got
  /\ call'[c].stage = stage /\ call'[c].todo = todo

LEMMA MovesTyped ==
  ASSUME TypeOK, NEW c \in Call, NEW stage \in Stage, NEW todo \in SUBSET (Tx \X List),
         call' = [call EXCEPT ![c].stage = stage, ![c].todo = todo]
  PROVE  call' \in [Call -> CallRecord] /\ Moves(c, stage, todo)
<1>1. call \in [Call -> CallRecord]
  BY TypedCalls
<1> QED
  BY <1>1 DEF CallRecord, Moves, Changes

LEMMA MovesOnTyped ==
  ASSUME TypeOK, NEW c \in Call, NEW stage \in Stage, call' = [call EXCEPT ![c].stage = stage]
  PROVE  call' \in [Call -> CallRecord] /\ Moves(c, stage, call[c].todo)
<1>1. call \in [Call -> CallRecord]
  BY TypedCalls
<1> QED
  BY <1>1 DEF CallRecord, Moves, Changes

LEMMA SubmitTypes ==
  ASSUME TypeOK, NEW c \in Call, SubmitLegacy(c)
  PROVE  TypeOK' /\ \E s \in {"spent", "again"} : Moves(c, s, call[c].todo)
<1>1. PICK s \in {"spent", "again"} : call' = [call EXCEPT ![c].stage = s]
  BY DEF SubmitLegacy
<1>2. s \in Stage
  BY DEF Stage, Retrieving
<1>3. call' \in [Call -> CallRecord] /\ Moves(c, s, call[c].todo)
  BY <1>1, <1>2, MovesOnTyped
<1>4. status' \in [Item -> POIs]
  <2>1. status \in [Item -> [List -> Status]] /\ "ProofSubmitted" \in Status
    BY DEF TypeOK, POIs, Status
  <2> QED
    BY <2>1 DEF SubmitLegacy, POIs
<1> QED
  BY <1>3, <1>4 DEF SubmitLegacy, TypeOK, CallRecord, disk, flags

LEMMA GenerateTypes ==
  ASSUME TypeOK, NEW c \in Call, Generate(c)
  PROVE  /\ TypeOK'
         /\ IF generating THEN Changes(c) /\ call'[c] = Idle
                          ELSE Moves(c, "collect", call[c].todo)
<1>1. CASE generating
  BY <1>1, Returns, CallTypes DEF Generate, TypeOK
<1>2. CASE ~generating
  <2>1. "collect" \in Stage
    BY DEF Stage
  <2>2. call' \in [Call -> CallRecord] /\ Moves(c, "collect", call[c].todo)
    BY <1>2, <2>1, MovesOnTyped DEF Generate
  <2>3. TypeOK'
    BY <1>2, <2>2, CallTypes DEF Generate, TypeOK
  <2> QED
    BY <1>2, <2>2, <2>3
<1> QED
  BY <1>1, <1>2

LEMMA WhatIsToProve ==
  ASSUME TypeOK, NEW c \in Call
  PROVE  /\ ToProve(c) \subseteq Tx \X List
         /\ \A t \in Tx, l \in List : <<t, l>> \in ToProve(c) =>
              /\ t <= synced /\ TxVersion[t] = call[c].version
              /\ \A o \in Outputs[t] : Found(o)
              /\ \E o \in Outputs[t] : ~Submitted(sent[o], l)
<1>1. NeedPOIs(c) \subseteq {t \in Tx : t <= synced /\ TxVersion[t] = call[c].version}
  <2>1. 1..synced \subseteq {t \in Tx : t <= synced}
    BY CountsAreNumbers DEF TypeOK, Tx
  <2> QED
    BY <2>1 DEF NeedPOIs
<1>2. ToProve(c) \subseteq Tx \X List
  BY <1>1 DEF ToProve
<1>3. ASSUME NEW t \in Tx, NEW l \in List, <<t, l>> \in ToProve(c)
      PROVE  /\ t \in NeedPOIs(c) /\ (\A o \in Outputs[t] : Found(o)) /\ CanGenerate(t, l)
  BY <1>3 DEF ToProve
<1> QED
  BY <1>1, <1>2, <1>3 DEF CanGenerate

LEMMA CollectTypes ==
  ASSUME TypeOK, NEW c \in Call, Collect(c)
  PROVE  /\ TypeOK'
         /\ IF NeedPOIs(c) = {} THEN Changes(c) /\ call'[c] = Idle
                                ELSE Moves(c, "prove", ToProve(c))
<1>1. CASE NeedPOIs(c) = {}
  BY <1>1, Returns, CallTypes DEF Collect, TypeOK
<1>2. CASE NeedPOIs(c) # {}
  <2>1. "prove" \in Stage /\ ToProve(c) \in SUBSET (Tx \X List)
    BY WhatIsToProve DEF Stage
  <2>2. call' = [call EXCEPT ![c].stage = "prove", ![c].todo = ToProve(c)]
    BY <1>2 DEF Collect
  <2>3. call' \in [Call -> CallRecord] /\ Moves(c, "prove", ToProve(c))
    BY <2>1, <2>2, MovesTyped
  <2>4. TypeOK'
    BY <1>2, <2>3, CallTypes DEF Collect, TypeOK, flags
  <2> QED
    BY <1>2, <2>3, <2>4
<1> QED
  BY <1>1, <1>2

LEMMA ProveTypes ==
  ASSUME TypeOK, NEW c \in Call, NEW t \in Tx, NEW l \in List, Prove(c, t, l)
  PROVE  TypeOK' /\ Moves(c, "prove", call[c].todo \ {<<t, l>>})
<1>1. call \in [Call -> CallRecord] /\ call[c].todo \subseteq Tx \X List
  BY TypedCalls
<1>2. call' = [call EXCEPT ![c].todo = call[c].todo \ {<<t, l>>}]
  BY DEF Prove
<1>3. call' \in [Call -> CallRecord]
  BY <1>1, <1>2 DEF CallRecord
<1>4. Moves(c, "prove", call[c].todo \ {<<t, l>>})
  BY <1>1, <1>2 DEF CallRecord, Moves, Changes, Prove
<1>5. status' \in [Item -> POIs]
  <2>1. "ProofSubmitted" \in Status
    BY DEF Status
  <2>2. UNCHANGED status \/ SetStatus(Outputs[t], l, "Missing", "ProofSubmitted")
    BY DEF Prove
  <2> QED
    BY <2>1, <2>2, Statuses DEF TypeOK
<1>6. proofs' \in [Tx \X List -> Nat]
  <2>1. UNCHANGED proofs \/ proofs' = [proofs EXCEPT ![<<t, l>>] = proofs[<<t, l>>] + 1]
    BY DEF Prove
  <2>2. proofs \in [Tx \X List -> Nat]
    BY DEF TypeOK
  <2>3. proofs[<<t, l>>] + 1 \in Nat
    BY <2>2
  <2> QED
    BY <2>1, <2>2, <2>3
<1>7. events' \in Nat
  BY EventTypes DEF Prove
<1> QED
  BY <1>3, <1>4, <1>5, <1>6, <1>7 DEF Prove, TypeOK, CallRecord, disk, flags

LEMMA EndTypes ==
  ASSUME TypeOK, NEW c \in Call, Generated(c) \/ Fail(c)
  PROVE  TypeOK'
<1>1. Return(c) /\ (Event \/ UNCHANGED events)
  BY DEF Generated, Fail
<1>2. generating' \in BOOLEAN
  BY DEF Generated, Fail, TypeOK
<1> QED
  BY <1>1, <1>2, Returns, CallTypes DEF Generated, Fail, TypeOK

LEMMA CrashTypes ==
  ASSUME TypeOK, Crash
  PROVE  TypeOK'
<1>1. call' \in [Call -> CallRecord] /\ refreshing' \in [Version -> BOOLEAN]
  BY IdleIsACall DEF Crash
<1> QED
  BY <1>1, CallTypes DEF Crash, TypeOK

LEMMA TypesKept == TypeOK /\ [Next]_vars => TypeOK'
<1> SUFFICES ASSUME TypeOK, [Next]_vars PROVE TypeOK'
  OBVIOUS
<1>1. CASE UNCHANGED vars
  BY <1>1 DEF TypeOK, vars, node, disk, flags
<1>2. ASSUME NEW c \in Call, Step(c) PROVE TypeOK'
  BY <1>2, RetrieveTypes, StoreTypes, SubmitTypes, GenerateTypes, CollectTypes,
     ProveTypes, EndTypes DEF Step
<1> QED
  BY <1>1, <1>2, NodeTypes, AgainTypes, StartTypes, EndTypes, CrashTypes DEF Next

(* Every variable keeps its type, whatever overlaps, fails or is restarted.  *)
THEOREM RefreshTypes == Spec => []TypeOK
BY TypesAtFirst, TypesKept, PTL DEF Spec

-----------------------------------------------------------------------------
(* The flags.                                                                *)

\* A call at rest serves no transaction, and one that does not retrieve has no
\* answers.
Resting ==
  \A c \in Call : /\ call[c].stage = "idle" => call[c].only = None
                  /\ call[c].stage \notin Retrieving => call[c].got = None

Flagged == FlagsAreHeld /\ Resting

LEMMA GeneratingIsNoRest ==
  /\ "idle" \notin Generating /\ "idle" \notin Retrieving
  /\ \A s \in Retrieving \union {"legacy", "generate"} : s \notin Generating /\ s # "idle"
  /\ \A s \in Generating : s # "idle" /\ s \notin Retrieving
  /\ Following("received") = "legacy"
BY FollowingStages DEF Generating, Retrieving

\* a call that goes on, and neither begins nor ends to generate
LEMMA FlaggedWithin ==
  ASSUME Flagged, NEW c \in Call, Changes(c), UNCHANGED flags,
         call'[c].version = call[c].version, call'[c].only = call[c].only,
         call[c].stage # "idle", call'[c].stage # "idle",
         call'[c].stage \in Generating <=> call[c].stage \in Generating,
         call'[c].stage \notin Retrieving => call'[c].got = None
  PROVE  Flagged'
<1>1. \A d \in Call : /\ call'[d].stage \in Generating <=> call[d].stage \in Generating
                      /\ call'[d].version = call[d].version /\ call'[d].only = call[d].only
                      /\ call'[d].stage = "idle" <=> call[d].stage = "idle"
  BY DEF Changes
<1>2. FlagsAreHeld'
  BY <1>1 DEF Flagged, FlagsAreHeld, flags
<1>3. Resting'
  BY DEF Flagged, Resting, Changes
<1> QED
  BY <1>2, <1>3 DEF Flagged

LEMMA FlaggedAtEnd ==
  ASSUME TypeOK, Flagged, NEW c \in Call, call[c].stage # "idle", Return(c),
         generating' = (generating /\ call[c].stage \notin Generating)
  PROVE  Flagged'
<1>1. Changes(c) /\ call'[c].stage = "idle" /\ call'[c].only = None /\ call'[c].got = None
  BY Returns, IdleFields
<1>2. \A d \in Call : call'[d].stage \in Generating <=>
                        d # c /\ call[d].stage \in Generating
  BY <1>1, GeneratingIsNoRest DEF Changes
<1>3. generating' <=> \E d \in Call : call'[d].stage \in Generating
  <2>1. generating <=> \E d \in Call : call[d].stage \in Generating
    BY DEF Flagged, FlagsAreHeld
  <2>2. CASE call[c].stage \in Generating
    <3>1. \A d \in Call : call[d].stage \in Generating => d = c
      BY <2>2 DEF Flagged, FlagsAreHeld
    <3>2. generating' = FALSE
      BY <2>2
    <3> QED
      BY <1>2, <3>1, <3>2
  <2>3. CASE call[c].stage \notin Generating
    <3>1. generating' = generating
      BY <2>3 DEF TypeOK
    <3> QED
      BY <1>2, <2>1, <2>3, <3>1
  <2> QED
    BY <2>2, <2>3
<1>4. ASSUME NEW v \in Version, refreshing'[v]
      PROVE  \E d \in Call : /\ call'[d].stage # "idle" /\ call'[d].version = v
                             /\ call'[d].only = None
  <2>1. refreshing \in [Version -> BOOLEAN] /\ call[c].version \in Version
    BY TypedCalls DEF TypeOK
  <2>2. refreshing[v] /\ (call[c].only = None => v # call[c].version)
    BY <1>4, <2>1 DEF Return
  <2>3. PICK d \in Call : call[d].stage # "idle" /\ call[d].version = v /\ call[d].only = None
    BY <2>2 DEF Flagged, FlagsAreHeld
  <2>4. d # c
    BY <2>2, <2>3
  <2> QED
    BY <1>1, <2>3, <2>4 DEF Changes
<1>5. FlagsAreHeld'
  BY <1>2, <1>3, <1>4 DEF Flagged, FlagsAreHeld
<1>6. Resting'
  BY <1>1 DEF Flagged, Resting, Changes
<1> QED
  BY <1>5, <1>6 DEF Flagged

LEMMA FlaggedAtStart ==
  ASSUME TypeOK, Flagged, NEW c \in Call,
         \/ \E v \in Version, force \in BOOLEAN : Refresh(c, v, force)
         \/ \E t \in Tx : GenerateFor(c, t)
  PROVE  Flagged'
<1>1. call \in [Call -> CallRecord] /\ refreshing \in [Version -> BOOLEAN]
  BY TypedCalls DEF TypeOK
<1>2. call[c].stage = "idle" /\ call[c].only = None /\ call[c].got = None
  BY GeneratingIsNoRest DEF Refresh, GenerateFor, IsFree, Flagged, Resting
<1>3. ASSUME NEW v \in Version, NEW force \in BOOLEAN, Refresh(c, v, force) PROVE Flagged'
  <2>1. /\ Changes(c) /\ call'[c].stage = "received" /\ call'[c].version = v
        /\ call'[c].only = None /\ call'[c].got = None
    <3>1. call' = [call EXCEPT ![c].stage = "received", ![c].version = v]
      BY <1>3 DEF Refresh
    <3> QED
      BY <1>1, <1>2, <3>1 DEF CallRecord, Changes
  <2>2. generating' = generating
    BY <1>3 DEF Refresh
  <2>3. \A d \in Call : call'[d].stage \in Generating <=> call[d].stage \in Generating
    BY <1>2, <2>1, GeneratingIsNoRest DEF Changes, Generating
  <2>4. ASSUME NEW w \in Version, refreshing'[w]
        PROVE  \E d \in Call : /\ call'[d].stage # "idle" /\ call'[d].version = w
                               /\ call'[d].only = None
    <3>1. CASE w = v
      BY <2>1, <3>1
    <3>2. CASE w # v
      <4>1. refreshing[w]
        BY <1>1, <1>3, <2>4, <3>2 DEF Refresh
      <4>2. PICK d \in Call : call[d].stage # "idle" /\ call[d].version = w /\ call[d].only = None
        BY <4>1 DEF Flagged, FlagsAreHeld
      <4> QED
        BY <1>2, <2>1, <4>2 DEF Changes
    <3> QED
      BY <3>1, <3>2
  <2>5. FlagsAreHeld'
    BY <2>2, <2>3, <2>4 DEF Flagged, FlagsAreHeld
  <2>6. Resting'
    BY <2>1 DEF Flagged, Resting, Changes
  <2> QED
    BY <2>5, <2>6 DEF Flagged
<1>4. ASSUME NEW t \in Tx, GenerateFor(c, t) PROVE Flagged'
  <2>1. Changes(c) /\ call'[c].stage = "collect" /\ call'[c].got = None
    <3>1. call' = [call EXCEPT ![c].stage = "collect", ![c].version = TxVersion[t], ![c].only = t]
      BY <1>4 DEF GenerateFor
    <3> QED
      BY <1>1, <1>2, <3>1 DEF CallRecord, Changes
  <2>2. \A d \in Call : call[d].stage \notin Generating
    BY <1>4 DEF GenerateFor, Flagged, FlagsAreHeld
  <2>3. \A d \in Call : call'[d].stage \in Generating <=> d = c
    BY <2>1, <2>2 DEF Changes, Generating
  <2>4. \A d \in Call : call[d].stage # "idle" => call'[d] = call[d]
    BY <1>2, <2>1 DEF Changes
  <2>5. generating' = TRUE /\ refreshing' = refreshing
    BY <1>4 DEF GenerateFor
  <2>6. FlagsAreHeld'
    BY <2>3, <2>4, <2>5 DEF Flagged, FlagsAreHeld
  <2>7. Resting'
    BY <2>1, GeneratingIsNoRest DEF Flagged, Resting, Changes
  <2> QED
    BY <2>6, <2>7 DEF Flagged
<1> QED
  BY <1>3, <1>4

LEMMA FlaggedByStep ==
  ASSUME TypeOK, Flagged, NEW c \in Call, Step(c)
  PROVE  Flagged'
<1>1. ASSUME NEW answers, GoesOn(c, answers), UNCHANGED flags, call[c].stage \in Retrieving
      PROVE  Flagged'
  <2>1. call'[c].stage \in {call[c].stage, Following(call[c].stage)}
        /\ (call'[c].stage \notin Retrieving => call'[c].got = None)
    BY <1>1 DEF GoesOn
  <2>2. Following(call[c].stage) \in Retrieving \union {"legacy", "generate"}
    BY <1>1, FollowingStages DEF Retrieving
  <2> QED
    BY <1>1, <2>1, <2>2, GeneratingIsNoRest, FlaggedWithin DEF GoesOn
<1>2. CASE RetrieveReceived(c) \/ RetrieveSpent(c)
  <2>1. UNCHANGED flags /\ call[c].stage \in Retrieving
    BY <1>2 DEF RetrieveReceived, RetrieveSpent, Retrieving
  <2> QED
    BY <1>1, <1>2, <2>1, RetrieveTypes
<1>3. ASSUME NEW i \in Item, StoreReceived(c, i) \/ StoreSent(c, i) PROVE Flagged'
  <2>1. UNCHANGED flags /\ call[c].stage \in Retrieving
    BY <1>3 DEF StoreReceived, StoreSent, Retrieving
  <2> QED
    BY <1>1, <1>3, <2>1, StoreTypes
<1>4. CASE SubmitLegacy(c)
  <2>1. UNCHANGED flags /\ call[c].stage = "legacy"
    BY <1>4 DEF SubmitLegacy
  <2>2. PICK s \in {"spent", "again"} : Moves(c, s, call[c].todo)
    BY <1>4, SubmitTypes
  <2>3. s \in Retrieving
    BY DEF Retrieving
  <2> QED
    BY <2>1, <2>2, <2>3, GeneratingIsNoRest, FlaggedWithin DEF Moves
<1>5. CASE Generate(c)
  <2>1. call[c].stage = "generate" /\ call[c].stage \notin Generating
    BY <1>5 DEF Generate, Generating
  <2>2. CASE generating
    BY <1>5, <2>1, <2>2, FlaggedAtEnd DEF Generate
  <2>3. CASE ~generating
    <3>1. Moves(c, "collect", call[c].todo) /\ generating' = TRUE /\ refreshing' = refreshing
      BY <1>5, <2>3, GenerateTypes DEF Generate
    <3>2. \A d \in Call : call[d].stage \notin Generating
      BY <2>3 DEF Flagged, FlagsAreHeld
    <3>3. \A d \in Call : /\ call'[d].stage \in Generating <=> d = c
                          /\ call[d].stage # "idle" => call'[d].stage # "idle"
                          /\ call'[d].version = call[d].version /\ call'[d].only = call[d].only
      BY <3>1, <3>2 DEF Moves, Changes, Generating
    <3>4. FlagsAreHeld'
      BY <3>1, <3>3 DEF Flagged, FlagsAreHeld
    <3>5. call'[c].got = None
      BY <2>1, <3>1 DEF Flagged, Resting, Retrieving, Moves
    <3>6. Resting'
      BY <3>1, <3>5 DEF Flagged, Resting, Moves, Changes
    <3> QED
      BY <3>4, <3>6 DEF Flagged
  <2> QED
    BY <2>2, <2>3
<1>6. CASE Collect(c)
  <2>1. call[c].stage = "collect" /\ call[c].stage \in Generating
    BY <1>6 DEF Collect, Generating
  <2>2. CASE NeedPOIs(c) = {}
    <3>1. Return(c) /\ generating' = FALSE
      BY <1>6, <2>2 DEF Collect
    <3> QED
      BY <2>1, <3>1, FlaggedAtEnd
  <2>3. CASE NeedPOIs(c) # {}
    <3>1. Moves(c, "prove", ToProve(c)) /\ UNCHANGED flags
      BY <1>6, <2>3, CollectTypes DEF Collect
    <3>2. call'[c].got = None
      BY <2>1, <3>1 DEF Flagged, Resting, Retrieving, Moves
    <3>3. "prove" \in Generating
      BY DEF Generating
    <3> QED
      BY <2>1, <3>1, <3>2, <3>3, FlaggedWithin DEF Moves
  <2> QED
    BY <2>2, <2>3
<1>7. ASSUME NEW t \in Tx, NEW l \in List, Prove(c, t, l) PROVE Flagged'
  <2>1. Moves(c, "prove", call[c].todo \ {<<t, l>>}) /\ call[c].stage = "prove" /\ UNCHANGED flags
    BY <1>7, ProveTypes DEF Prove
  <2>2. call'[c].got = None
    BY <2>1 DEF Flagged, Resting, Retrieving, Moves
  <2> QED
    BY <2>1, <2>2, FlaggedWithin DEF Moves
<1>8. CASE Generated(c)
  <2>1. call[c].stage = "prove" /\ call[c].stage \in Generating /\ Return(c) /\ generating' = FALSE
    BY <1>8 DEF Generated, Generating
  <2> QED
    BY <2>1, FlaggedAtEnd
<1> QED
  BY <1>2, <1>3, <1>4, <1>5, <1>6, <1>7, <1>8 DEF Step

LEMMA FlaggedAfterFailure ==
  ASSUME TypeOK, Flagged, (\E c \in Call : Fail(c)) \/ Crash
  PROVE  Flagged'
<1>1. ASSUME NEW c \in Call, Fail(c) PROVE Flagged'
  <2>1. call[c].stage # "idle" /\ Return(c)
    BY <1>1 DEF Fail, Retrieving
  <2>2. call[c].stage \in Generating <=> call[c].stage = "collect"
    BY <1>1 DEF Fail, Retrieving, Generating
  <2>3. generating' = (generating /\ call[c].stage \notin Generating)
    BY <1>1, <2>2 DEF Fail
  <2> QED
    BY <2>1, <2>3, FlaggedAtEnd
<1>2. CASE Crash
  <2>1. /\ \A d \in Call : call'[d].stage = "idle" /\ call'[d].only = None /\ call'[d].got = None
        /\ \A v \in Version : refreshing'[v] = FALSE
        /\ generating' = FALSE
    BY <1>2, IdleFields DEF Crash
  <2> QED
    BY <2>1, GeneratingIsNoRest DEF Flagged, FlagsAreHeld, Resting, Generating
<1> QED
  BY <1>1, <1>2

LEMMA FlaggedAtFirst == Init => Flagged
<1> SUFFICES ASSUME Init PROVE Flagged
  OBVIOUS
<1>1. /\ \A d \in Call : call[d].stage = "idle" /\ call[d].only = None /\ call[d].got = None
      /\ \A v \in Version : refreshing[v] = FALSE
      /\ generating = FALSE
  BY IdleFields DEF Init
<1> QED
  BY <1>1, GeneratingIsNoRest DEF Flagged, FlagsAreHeld, Resting, Generating

LEMMA FlaggedKept == TypeOK /\ Flagged /\ [Next]_vars => Flagged'
<1> SUFFICES ASSUME TypeOK, Flagged, [Next]_vars PROVE Flagged'
  OBVIOUS
<1>1. ASSUME UNCHANGED <<flags, call>> PROVE Flagged'
  BY <1>1 DEF Flagged, FlagsAreHeld, Resting, flags
<1>2. CASE UNCHANGED vars
  BY <1>1, <1>2 DEF vars
<1>3. CASE Decrypt \/ SyncTx
  BY <1>1, <1>3 DEF Decrypt, SyncTx
<1>4. ASSUME NEW l \in List, (\E i \in Item : Assess(i, l)) \/ (\E t \in Tx : Accept(t, l))
      PROVE  Flagged'
  BY <1>1, <1>4 DEF Assess, Accept
<1>5. ASSUME NEW v \in Version, NEW first \in Item, NEW last \in Item,
             DecryptAgain(v, first, last)
      PROVE  Flagged'
  BY <1>1, <1>5, AgainTypes
<1> QED
  BY <1>2, <1>3, <1>4, <1>5, FlaggedAtStart, FlaggedByStep, FlaggedAfterFailure DEF Next

(* One call generates at a time and no flag stays behind, for any number of
   versions, whichever calls overlap, are forced, fail or are cut off: a flag
   that refuses a call is reset by a call that is under way.                 *)
THEOREM NoFlagStaysBehind == Spec => []FlagsAreHeld
<1>1. Flagged => FlagsAreHeld
  BY DEF Flagged
<1> QED
  BY <1>1, FlaggedAtFirst, FlaggedKept, RefreshTypes, PTL DEF Spec

-----------------------------------------------------------------------------
(* Proofs are made once.                                                     *)

\* What is submitted stays so, and what is known stays known.
Kept ==
  /\ scanned <= scanned' /\ synced <= synced'
  /\ \A i \in Item, l \in List : Submitted(status[i], l) => Submitted(status'[i], l)

\* No list blocks an output of the wallet.
Unblocked == \A o \in Output, l \in List : status[o][l] # "ShieldBlocked"

\* The node has what was proved.
Reached ==
  \A t \in Tx, l \in List : proofs[<<t, l>>] # 0 =>
    /\ t <= synced
    /\ \A o \in Outputs[t] : Found(o) /\ Submitted(status[o], l)

\* A call proves transactions of its version that are known with their outputs,
\* and holds answers for outputs of its version.
Planned ==
  \A c \in Call :
    /\ call[c].stage = "prove" => \A t \in Tx, l \in List : <<t, l>> \in call[c].todo =>
         /\ t <= synced /\ TxVersion[t] = call[c].version
         /\ \A o \in Outputs[t] : Found(o)
    /\ call[c].stage = "spent" /\ call[c].got # None =>
         \A i \in DOMAIN call[c].got : VersionOf[i] = call[c].version

\* Unless one is forced, a version has one refresh under way.
Alone ==
  /\ \A c \in Call : /\ call[c].only = None
                     /\ call[c].stage # "idle" => refreshing[call[c].version]
  /\ \A c, d \in Call :
       call[c].stage # "idle" /\ call[d].stage # "idle" /\ call[c].version = call[d].version
       => c = d

\* what c will have stored about output o
Latest(c, o) == IF o \in DOMAIN call[c].got THEN call[c].got[o] ELSE sent[o]

\* A call that has asked for the outputs knows what was proved before, of the
\* transactions whose records were not replaced since.
Knows(c, t, l) ==
  /\ call[c].stage = "spent" /\ call[c].got # None =>
       \A o \in Outputs[t] : Submitted(Latest(c, o), l)
  /\ call[c].stage \in {"generate", "collect"} => \A o \in Outputs[t] : Submitted(sent[o], l)
  /\ call[c].stage = "prove" => <<t, l>> \notin call[c].todo

Informed(c) ==
  \A t \in Tx \ undone, l \in List :
    proofs[<<t, l>>] # 0 /\ TxVersion[t] = call[c].version => Knows(c, t, l)

Learned == \A c \in Call : Informed(c)

Recorded == Unblocked /\ Reached /\ Planned
Once     == Recorded /\ NoProofTwice /\ (~forced => Alone /\ Learned)

LEMMA ItemsOfTxs ==
  /\ \A t \in Tx : Outputs[t] \subseteq Item /\ Outputs[t] \subseteq Output
  /\ Output \subseteq Item
  /\ \A t \in Tx : \A o \in Outputs[t] : VersionOf[o] = TxVersion[t]
BY TxsSpendNotes, OutputsComeLater DEF Output

\* where all outputs fit in a request, a refresh asks for all it needs
LEMMA AllAreAsked ==
  ASSUME Cardinality(Output) <= SpentInRequest,
         NEW needed \in SUBSET Output, NEW asked \in Requests(needed, SpentInRequest, SentBefore)
  PROVE  asked = needed
<1>1. IsFiniteSet(Item)
  BY CountsAreNumbers, FS_Interval DEF Item
<1>2. IsFiniteSet(Output) /\ IsFiniteSet(needed)
  BY <1>1, ItemsOfTxs, FS_Subset
<1>3. asked \in SUBSET needed /\ (asked = needed \/ Cardinality(asked) = SpentInRequest)
  BY DEF Requests
<1>4. /\ Cardinality(needed) <= Cardinality(Output)
      /\ Cardinality(asked) <= Cardinality(needed)
      /\ Cardinality(asked) = Cardinality(needed) => asked = needed
  BY <1>2, <1>3, FS_Subset
<1>5. Cardinality(needed) \in Nat /\ Cardinality(Output) \in Nat /\ SpentInRequest \in Nat
  BY <1>2, FS_CardinalityType, RequestsAreFinite
<1> QED
  BY <1>3, <1>4, <1>5

\* The statuses of some items become `to`, and none of them is lost.
Refines(items, to) ==
  /\ \A i \in Item, l \in List : Submitted(status[i], l) => Submitted(status'[i], l)
  /\ \A i \in Item, l \in List : status'[i][l] \in {status[i][l], to}
  /\ \A i \in Item \ items : status'[i] = status[i]

LEMMA SubmittedStays ==
  ASSUME TypeOK, NEW items, NEW k \in List, NEW from, NEW to \in Status,
         SetStatus(items, k, from, to),
         from \in {"ProofSubmitted", "Valid"} => to \in {"ProofSubmitted", "Valid"}
  PROVE  Refines(items, to)
<1>1. \A i \in Item : status[i] \in POIs /\ None \notin POIs
  BY NoneIsNone DEF TypeOK
<1>2. \A i \in Item : status'[i] = IF i \in items /\ status[i][k] = from
                                   THEN [status[i] EXCEPT ![k] = to] ELSE status[i]
  BY DEF SetStatus
<1>3. \A i \in Item, l \in List :
        status'[i][l] = IF i \in items /\ status[i][k] = from /\ l = k THEN to ELSE status[i][l]
  BY <1>1, <1>2 DEF POIs
<1>4. \A i \in Item : status'[i] # None
  <2>1. status' \in [Item -> POIs]
    BY Statuses
  <2> QED
    BY <2>1, NoneIsNone
<1> QED
  BY <1>2, <1>3, <1>4 DEF Submitted, Refines

LEMMA KeptByStep ==
  ASSUME TypeOK, Unblocked, [Next]_vars
  PROVE  Kept /\ Unblocked'
<1>1. ASSUME UNCHANGED status, scanned <= scanned', synced <= synced' PROVE Kept /\ Unblocked'
  BY <1>1 DEF Kept, Unblocked
<1>2. \A n \in 0..ItemCount, m \in 0..TxCount : n \in Int /\ m \in Int
  OBVIOUS
<1>3. scanned <= scanned /\ synced <= synced /\ scanned <= scanned + 1 /\ synced <= synced + 1
  BY <1>2 DEF TypeOK
<1>4. ASSUME UNCHANGED <<scanned, synced>>,
             NEW items, NEW l \in List, NEW from, NEW to \in Status \ {"ShieldBlocked"},
             SetStatus(items, l, from, to),
             from \in {"ProofSubmitted", "Valid"} => to \in {"ProofSubmitted", "Valid"}
      PROVE  Kept /\ Unblocked'
  <2>1. to \in Status
    BY <1>4
  <2>2. Refines(items, to)
    BY <1>4, <2>1, SubmittedStays
  <2>3. Kept
    BY <1>4, <1>3, <2>2 DEF Kept, Refines
  <2>4. Unblocked'
    BY <1>4, <2>2, ItemsOfTxs DEF Unblocked, Refines
  <2> QED
    BY <2>3, <2>4
<1>5. CASE UNCHANGED node
  BY <1>1, <1>3, <1>5 DEF node
<1>6. CASE Decrypt \/ SyncTx
  BY <1>1, <1>3, <1>6 DEF Decrypt, SyncTx
<1>7. ASSUME NEW l \in List, NEW i \in Item, Assess(i, l) PROVE Kept /\ Unblocked'
  <2>1. /\ i \notin Output /\ UNCHANGED <<scanned, synced>>
        /\ SetStatus({i}, l, "Missing", IF i \in Blocked THEN "ShieldBlocked" ELSE "Valid")
    BY <1>7 DEF Assess
  <2>2. (IF i \in Blocked THEN "ShieldBlocked" ELSE "Valid") \in Status
    BY DEF Status
  <2>3. Refines({i}, IF i \in Blocked THEN "ShieldBlocked" ELSE "Valid")
    BY <2>1, <2>2, SubmittedStays
  <2>4. Unblocked'
    BY <2>1, <2>3, ItemsOfTxs DEF Unblocked, Refines
  <2> QED
    BY <1>3, <2>1, <2>3, <2>4 DEF Kept, Refines
<1>8. ASSUME NEW l \in List, NEW t \in Tx, Accept(t, l) PROVE Kept /\ Unblocked'
  <2>1. "Valid" \in Status \ {"ShieldBlocked"}
    BY DEF Status
  <2> QED
    BY <1>4, <1>8, <2>1 DEF Accept
<1>9. ASSUME NEW c \in Call, SubmitLegacy(c) PROVE Kept /\ Unblocked'
  <2>1. CASE UNCHANGED status
    BY <1>1, <1>3, <1>9, <2>1 DEF SubmitLegacy
  <2>2. CASE status' # status
    <3>1. UNCHANGED <<scanned, synced>>
      BY <1>9 DEF SubmitLegacy
    <3>2. \A i \in Item, l \in List :
            \/ status'[i][l] = status[i][l]
            \/ status[i][l] = "Missing" /\ status'[i][l] = "ProofSubmitted"
      BY <1>9, <2>2 DEF SubmitLegacy
    <3>3. \A i \in Item : status'[i] \in POIs
      BY <1>9, SubmitTypes DEF TypeOK
    <3>4. Kept
      BY <1>3, <3>1, <3>2, <3>3, NoneIsNone DEF Kept, Submitted
    <3>5. Unblocked'
      BY <3>2, ItemsOfTxs DEF Unblocked
    <3> QED
      BY <3>4, <3>5
  <2> QED
    BY <2>1, <2>2
<1>10. ASSUME NEW c \in Call, NEW t \in Tx, NEW l \in List, Prove(c, t, l)
       PROVE  Kept /\ Unblocked'
  <2>1. UNCHANGED <<scanned, synced>> /\ (UNCHANGED status
          \/ SetStatus(Outputs[t], l, "Missing", "ProofSubmitted"))
    BY <1>10 DEF Prove
  <2>2. "ProofSubmitted" \in Status \ {"ShieldBlocked"}
    BY DEF Status
  <2>3. CASE UNCHANGED status
    BY <1>1, <1>3, <2>1, <2>3
  <2>4. CASE SetStatus(Outputs[t], l, "Missing", "ProofSubmitted")
    BY <1>4, <2>1, <2>2, <2>4
  <2> QED
    BY <2>1, <2>3, <2>4
<1>11. ASSUME NEW c \in Call, Step(c) \/ Fail(c)
       PROVE  \/ UNCHANGED node \/ SubmitLegacy(c)
              \/ \E t \in Tx, l \in List : Prove(c, t, l)
  BY <1>11 DEF Step, Fail, RetrieveReceived, RetrieveSpent, StoreReceived, StoreSent,
     Generate, Collect, Generated
<1>12. ASSUME \/ \E c \in Call, v \in Version, force \in BOOLEAN : Refresh(c, v, force)
              \/ \E c \in Call, t \in Tx : GenerateFor(c, t)
              \/ Crash \/ UNCHANGED vars
       PROVE  UNCHANGED node
  BY <1>12 DEF Refresh, GenerateFor, Crash, vars
<1>13. ASSUME NEW v \in Version, NEW first \in Item, NEW last \in Item,
              DecryptAgain(v, first, last)
       PROVE  UNCHANGED node
  BY <1>13, AgainTypes
<1> QED
  BY <1>5, <1>6, <1>7, <1>8, <1>9, <1>10, <1>11, <1>12, <1>13 DEF Next

\* A call goes on as what it is, or ends.
Within(c) ==
  /\ Changes(c) /\ UNCHANGED refreshing
  /\ call'[c].version = call[c].version /\ call'[c].only = call[c].only
  /\ call[c].stage # "idle" /\ call'[c].stage # "idle"

Ends(c) == call[c].stage # "idle" /\ Return(c) /\ Changes(c) /\ call'[c] = Idle

LEMMA StepShape ==
  ASSUME TypeOK, NEW c \in Call, Step(c) \/ Fail(c)
  PROVE  Within(c) \/ Ends(c)
<1>1. ASSUME NEW answers, GoesOn(c, answers), UNCHANGED flags, call[c].stage \in Retrieving
      PROVE  Within(c)
  <2>1. call'[c].stage \in {call[c].stage, Following(call[c].stage)}
    BY <1>1 DEF GoesOn
  <2>2. Following(call[c].stage) \in Retrieving \union {"legacy", "generate"}
    BY <1>1, FollowingStages DEF Retrieving
  <2> QED
    BY <1>1, <2>1, <2>2, GeneratingIsNoRest DEF GoesOn, Within, flags
<1>2. CASE RetrieveReceived(c) \/ RetrieveSpent(c)
  <2>1. UNCHANGED flags /\ call[c].stage \in Retrieving
    BY <1>2 DEF RetrieveReceived, RetrieveSpent, Retrieving
  <2> QED
    BY <1>1, <1>2, <2>1, RetrieveTypes
<1>3. ASSUME NEW i \in Item, StoreReceived(c, i) \/ StoreSent(c, i) PROVE Within(c)
  <2>1. UNCHANGED flags /\ call[c].stage \in Retrieving
    BY <1>3 DEF StoreReceived, StoreSent, Retrieving
  <2> QED
    BY <1>1, <1>3, <2>1, StoreTypes
<1>4. CASE SubmitLegacy(c)
  <2>1. UNCHANGED flags /\ call[c].stage = "legacy"
    BY <1>4 DEF SubmitLegacy
  <2> QED
    BY <1>4, <2>1, SubmitTypes DEF Moves, Within, flags
<1>5. CASE Generate(c)
  <2>1. call[c].stage # "idle" /\ (generating => Return(c)) /\ (~generating => UNCHANGED refreshing)
    BY <1>5 DEF Generate
  <2> QED
    BY <1>5, <2>1, GenerateTypes DEF Moves, Within, Ends
<1>6. CASE Collect(c)
  <2>1. /\ call[c].stage # "idle" /\ (NeedPOIs(c) = {} => Return(c))
        /\ NeedPOIs(c) # {} => UNCHANGED refreshing
    BY <1>6 DEF Collect, flags
  <2> QED
    BY <1>6, <2>1, CollectTypes DEF Moves, Within, Ends
<1>7. ASSUME NEW t \in Tx, NEW l \in List, Prove(c, t, l) PROVE Within(c)
  <2>1. call[c].stage = "prove" /\ UNCHANGED flags
    BY <1>7 DEF Prove
  <2> QED
    BY <1>7, <2>1, ProveTypes DEF Moves, Within, flags
<1>8. CASE Generated(c) \/ Fail(c)
  <2>1. call[c].stage # "idle" /\ Return(c)
    BY <1>8 DEF Generated, Fail, Retrieving
  <2> QED
    BY <2>1, Returns DEF Ends
<1> QED
  BY <1>2, <1>3, <1>4, <1>5, <1>6, <1>7, <1>8 DEF Step

\* calls, flags and what they have done are not the node's business
LEMMA CallsAreTheirOwn ==
  ASSUME \/ Decrypt \/ SyncTx
         \/ \E l \in List : (\E i \in Item : Assess(i, l)) \/ (\E t \in Tx : Accept(t, l))
         \/ UNCHANGED vars
  PROVE  UNCHANGED <<disk, flags, call, proofs, undone, forced>>
BY DEF Decrypt, SyncTx, Assess, Accept, vars

LEMMA AloneKept ==
  ASSUME TypeOK, Flagged, Alone, [Next]_vars, ~forced'
  PROVE  Alone'
<1>1. ASSUME UNCHANGED <<flags, call>> PROVE Alone'
  BY <1>1 DEF Alone, flags
<1>2. ASSUME NEW c \in Call, Within(c) PROVE Alone'
  <2>1. \A d \in Call : /\ call'[d].version = call[d].version /\ call'[d].only = call[d].only
                        /\ call'[d].stage # "idle" <=> call[d].stage # "idle"
    BY <1>2 DEF Within, Changes
  <2> QED
    BY <1>2, <2>1 DEF Within, Alone
<1>3. ASSUME NEW c \in Call, Ends(c) PROVE Alone'
  <2>1. \A d \in Call \ {c} : call'[d] = call[d]
    BY <1>3 DEF Ends, Changes
  <2>2. call'[c].stage = "idle" /\ call'[c].only = None
    BY <1>3, IdleFields DEF Ends
  <2>3. \A d \in Call \ {c} : call[d].stage # "idle" => call[d].version # call[c].version
    BY <1>3 DEF Ends, Alone
  <2>4. \A d \in Call \ {c} : call[d].stage # "idle" => refreshing'[call[d].version]
    <3>1. refreshing \in [Version -> BOOLEAN] /\ \A d \in Call : call[d].version \in Version
      BY TypedCalls DEF TypeOK
    <3>2. refreshing' = [refreshing EXCEPT ![call[c].version] = FALSE] \/ UNCHANGED refreshing
      BY <1>3 DEF Ends, Return
    <3> QED
      BY <2>3, <3>1, <3>2 DEF Alone
  <2> QED
    BY <2>1, <2>2, <2>4 DEF Alone
<1>4. ASSUME NEW c \in Call, NEW v \in Version, NEW force \in BOOLEAN, Refresh(c, v, force)
      PROVE  Alone'
  <2>1. ~force /\ ~refreshing[v] /\ call[c].stage = "idle"
    BY <1>4 DEF Refresh, IsFree
  <2>2. /\ \A d \in Call \ {c} : call'[d] = call[d]
        /\ call'[c].stage = "received" /\ call'[c].version = v /\ call'[c].only = None
    <3>1. call \in [Call -> CallRecord] /\ call[c].only = None
      BY TypedCalls DEF Alone
    <3>2. call' = [call EXCEPT ![c].stage = "received", ![c].version = v]
      BY <1>4 DEF Refresh
    <3> QED
      BY <3>1, <3>2 DEF CallRecord
  <2>3. \A d \in Call : call[d].stage # "idle" => call[d].version # v
    BY <2>1 DEF Alone
  <2>4. \A d \in Call : call'[d].stage # "idle" => refreshing'[call'[d].version]
    <3>1. refreshing \in [Version -> BOOLEAN] /\ \A d \in Call : call[d].version \in Version
      BY TypedCalls DEF TypeOK
    <3>2. refreshing' = [refreshing EXCEPT ![v] = TRUE]
      BY <1>4 DEF Refresh
    <3> QED
      BY <2>2, <3>1, <3>2 DEF Alone
  <2> QED
    BY <2>2, <2>3, <2>4 DEF Alone
<1>5. ASSUME NEW c \in Call, NEW t \in Tx, GenerateFor(c, t) PROVE FALSE
  BY <1>5 DEF GenerateFor
<1>6. CASE Crash
  <2>1. \A d \in Call : call'[d].stage = "idle" /\ call'[d].only = None
    BY <1>6, IdleFields DEF Crash
  <2> QED
    BY <2>1 DEF Alone
<1>7. ASSUME NEW v \in Version, NEW first \in Item, NEW last \in Item,
             DecryptAgain(v, first, last)
      PROVE  Alone'
  BY <1>1, <1>7, AgainTypes
<1> QED
  BY <1>1, <1>2, <1>3, <1>4, <1>5, <1>6, <1>7, StepShape, CallsAreTheirOwn DEF Next

LEMMA TypesAreNumbers ==
  ASSUME TypeOK
  PROVE  Item \subseteq Int /\ Tx \subseteq Int /\ scanned \in Int /\ synced \in Int
BY CountsAreNumbers DEF TypeOK, Item, Tx

\* the state that Planned speaks of is that of a call, and what it knows grows
LEMMA PlannedElsewhere ==
  ASSUME TypeOK, TypeOK', Planned, Kept, NEW d \in Call, call'[d] = call[d]
  PROVE  /\ call'[d].stage = "prove" => \A t \in Tx, l \in List : <<t, l>> \in call'[d].todo =>
              /\ t <= synced' /\ TxVersion[t] = call'[d].version
              /\ \A o \in Outputs[t] : Found(o)'
         /\ call'[d].stage = "spent" /\ call'[d].got # None =>
              \A i \in DOMAIN call'[d].got : VersionOf[i] = call'[d].version
<1>1. scanned' \in Int /\ synced' \in Int
  BY TypesAreNumbers DEF TypeOK
<1>2. ASSUME NEW t \in Tx, t <= synced PROVE t <= synced'
  BY <1>1, <1>2, TypesAreNumbers DEF Kept
<1>3. ASSUME NEW o \in Item, Found(o) PROVE Found(o)'
  BY <1>1, <1>3, TypesAreNumbers DEF Kept, Found
<1> QED
  BY <1>2, <1>3, ItemsOfTxs DEF Planned

LEMMA PlannedKept ==
  ASSUME TypeOK, Planned, Flagged, [Next]_vars, Kept
  PROVE  Planned'
<1> DEFINE Good(d) ==
      /\ call[d].stage = "prove" => \A t \in Tx, l \in List : <<t, l>> \in call[d].todo =>
           /\ t <= synced /\ TxVersion[t] = call[d].version
           /\ \A o \in Outputs[t] : Found(o)
      /\ call[d].stage = "spent" /\ call[d].got # None =>
           \A i \in DOMAIN call[d].got : VersionOf[i] = call[d].version
<1>1. ASSUME NEW d \in Call, call'[d] = call[d] PROVE Good(d)'
  BY <1>1, PlannedElsewhere, TypesKept
<1>2. ASSUME NEW d \in Call, call'[d].stage \notin {"prove", "spent"} PROVE Good(d)'
  BY <1>2
<1> HIDE DEF Good
<1>3. ASSUME NEW c \in Call, Changes(c), Good(c)' PROVE Planned'
  <2>1. \A d \in Call : Good(d)'
    BY <1>1, <1>3 DEF Changes
  <2> QED
    BY <2>1 DEF Planned, Good
<1>4. ASSUME UNCHANGED call PROVE Planned'
  <2>1. \A d \in Call : Good(d)'
    BY <1>1, <1>4
  <2> QED
    BY <2>1 DEF Planned, Good
<1>5. ASSUME NEW c \in Call, RetrieveReceived(c) PROVE Planned'
  <2>1. PICK answers : GoesOn(c, answers)
    BY <1>5, RetrieveTypes
  <2>2. call[c].stage \in {"received", "again"}
    BY <1>5 DEF RetrieveReceived
  <2>3. call'[c].stage = "spent" => call'[c].got = None
    BY <2>1, <2>2 DEF GoesOn
  <2>4. call'[c].stage # "prove"
    BY <2>1, <2>2, FollowingStages DEF GoesOn
  <2>5. Good(c)'
    BY <2>3, <2>4 DEF Good
  <2> QED
    BY <1>3, <2>1, <2>5 DEF GoesOn
<1>6. ASSUME NEW c \in Call, NEW i \in Item, StoreReceived(c, i) PROVE Planned'
  <2>1. GoesOn(c, Rest(c, i)) /\ call[c].stage \in {"received", "again"}
    BY <1>6, StoreTypes DEF StoreReceived
  <2>2. call'[c].stage = "spent" => call'[c].got = None
    BY <2>1 DEF GoesOn
  <2>3. call'[c].stage # "prove"
    BY <2>1, FollowingStages DEF GoesOn
  <2>4. Good(c)'
    BY <2>2, <2>3 DEF Good
  <2> QED
    BY <1>3, <2>1, <2>4 DEF GoesOn
<1>7. ASSUME NEW c \in Call, RetrieveSpent(c) PROVE Planned'
  <2>1. PICK asked \in SUBSET SpentRecords(call[c].version) : Answered(c, asked)
    BY <1>7 DEF RetrieveSpent, Requests
  <2>2. call[c].stage = "spent"
    BY <1>7 DEF RetrieveSpent
  <2>3. /\ Changes(c) /\ call'[c].version = call[c].version
        /\ \/ call'[c].stage = "generate"
           \/ call'[c].stage = "spent" /\ DOMAIN call'[c].got = asked
    <3>1. GoesOn(c, [i \in asked |-> status[i]])
      <4>1. asked \in SUBSET Item
        BY ItemsOfTxs DEF SpentRecords
      <4>2. [i \in asked |-> status[i]] \in Answers
        BY <4>1, TypedAnswers DEF TypeOK
      <4>3. call[c].stage \in Retrieving
        BY <2>2 DEF Retrieving
      <4> QED
        BY <2>1, <4>2, <4>3, GoesTyped DEF Answered
    <3> QED
      BY <2>2, <3>1, FollowingStages DEF GoesOn
  <2>4. \A i \in asked : VersionOf[i] = call[c].version
    BY DEF SpentRecords
  <2>5. Good(c)'
    BY <2>3, <2>4 DEF Good
  <2> QED
    BY <1>3, <2>3, <2>5
<1>8. ASSUME NEW c \in Call, NEW i \in Item, StoreSent(c, i) PROVE Planned'
  <2>1. GoesOn(c, Rest(c, i)) /\ call[c].stage = "spent" /\ call[c].got # None
    BY <1>8, StoreTypes DEF StoreSent, IsNext
  <2>2. DOMAIN Rest(c, i) \subseteq DOMAIN call[c].got
    BY DEF Rest
  <2>3. Good(c)
    BY DEF Planned, Good
  <2>4. Good(c)'
    BY <2>1, <2>2, <2>3, FollowingStages DEF Good, GoesOn
  <2> QED
    BY <1>3, <2>1, <2>4 DEF GoesOn
<1>9. ASSUME NEW c \in Call, SubmitLegacy(c) PROVE Planned'
  <2>1. PICK s \in {"spent", "again"} : Moves(c, s, call[c].todo)
    BY <1>9, SubmitTypes
  <2>2. call[c].got = None
    BY <1>9 DEF SubmitLegacy, Flagged, Resting, Retrieving
  <2>3. Good(c)'
    BY <2>1, <2>2 DEF Good, Moves
  <2> QED
    BY <1>3, <2>1, <2>3 DEF Moves
<1>10. ASSUME NEW c \in Call, Generate(c) PROVE Planned'
  <2>1. Changes(c) /\ call'[c].stage \in {"idle", "collect"}
    BY <1>10, GenerateTypes, IdleFields DEF Moves
  <2> QED
    BY <1>2, <1>3, <2>1
<1>11. ASSUME NEW c \in Call, Collect(c) PROVE Planned'
  <2>1. CASE NeedPOIs(c) = {}
    BY <1>2, <1>3, <1>11, <2>1, CollectTypes, IdleFields
  <2>2. CASE NeedPOIs(c) # {}
    <3>1. Moves(c, "prove", ToProve(c)) /\ UNCHANGED <<scanned, synced>>
      BY <1>11, <2>2, CollectTypes DEF Collect, node
    <3>2. Good(c)'
      BY <3>1, WhatIsToProve DEF Moves, Good, Found
    <3> QED
      BY <1>3, <3>1, <3>2 DEF Moves
  <2> QED
    BY <2>1, <2>2
<1>12. ASSUME NEW c \in Call, NEW t \in Tx, NEW l \in List, Prove(c, t, l) PROVE Planned'
  <2>1. Moves(c, "prove", call[c].todo \ {<<t, l>>}) /\ UNCHANGED <<scanned, synced>>
        /\ call[c].stage = "prove"
    BY <1>12, ProveTypes DEF Prove
  <2>2. Good(c)
    BY DEF Planned, Good
  <2>3. Good(c)'
    BY <2>1, <2>2 DEF Good, Moves, Found
  <2> QED
    BY <1>3, <2>1, <2>3 DEF Moves
<1>13. ASSUME NEW c \in Call, Generated(c) \/ Fail(c) PROVE Planned'
  <2>1. Changes(c) /\ call'[c].stage = "idle"
    BY <1>13, Returns, IdleFields DEF Generated, Fail
  <2> QED
    BY <1>2, <1>3, <2>1
<1>14. ASSUME NEW c \in Call, NEW v \in Version, NEW force \in BOOLEAN, Refresh(c, v, force)
       PROVE  Planned'
  <2>1. Changes(c) /\ call'[c].stage = "received"
    <3>1. call \in [Call -> CallRecord] /\ call' = [call EXCEPT ![c].stage = "received", ![c].version = v]
      BY <1>14, TypedCalls DEF Refresh
    <3> QED
      BY <3>1 DEF CallRecord, Changes
  <2> QED
    BY <1>2, <1>3, <2>1
<1>15. ASSUME NEW c \in Call, NEW t \in Tx, GenerateFor(c, t) PROVE Planned'
  <2>1. Changes(c) /\ call'[c].stage = "collect"
    <3>1. call \in [Call -> CallRecord]
          /\ call' = [call EXCEPT ![c].stage = "collect", ![c].version = TxVersion[t], ![c].only = t]
      BY <1>15, TypedCalls DEF GenerateFor
    <3> QED
      BY <3>1 DEF CallRecord, Changes
  <2> QED
    BY <1>2, <1>3, <2>1
<1>16. CASE Crash
  <2>1. \A d \in Call : call'[d].stage = "idle"
    BY <1>16, IdleFields DEF Crash
  <2>2. \A d \in Call : Good(d)'
    BY <1>2, <2>1
  <2> QED
    BY <2>2 DEF Planned, Good
<1>17. ASSUME NEW v \in Version, NEW first \in Item, NEW last \in Item,
              DecryptAgain(v, first, last)
       PROVE  Planned'
  BY <1>4, <1>17, AgainTypes
<1> QED
  BY <1>4, <1>5, <1>6, <1>7, <1>8, <1>9, <1>10, <1>11, <1>12, <1>13, <1>14, <1>15, <1>16,
     <1>17, CallsAreTheirOwn DEF Next, Step

\* what is proved or submitted is so after a step that keeps the history
LEMMA ReachedStays ==
  ASSUME TypeOK, TypeOK', Kept, NEW t \in Tx, NEW l \in List, t <= synced,
         \A o \in Outputs[t] : Found(o) /\ Submitted(status[o], l)
  PROVE  t <= synced' /\ \A o \in Outputs[t] : Found(o)' /\ Submitted(status'[o], l)
<1>1. scanned' \in Int /\ synced' \in Int
  BY TypesAreNumbers DEF TypeOK
<1>2. t <= synced'
  BY <1>1, TypesAreNumbers DEF Kept
<1>3. \A o \in Outputs[t] : o <= scanned'
  BY <1>1, TypesAreNumbers, ItemsOfTxs DEF Kept, Found
<1>4. \A o \in Outputs[t] : Submitted(status'[o], l)
  BY ItemsOfTxs DEF Kept
<1> QED
  BY <1>2, <1>3, <1>4 DEF Found

\* a proof that the node gets leaves the outputs of its transaction submitted
LEMMA ProofSubmits ==
  ASSUME TypeOK, Unblocked, NEW t \in Tx, NEW l \in List,
         SetStatus(Outputs[t], l, "Missing", "ProofSubmitted")
  PROVE  \A o \in Outputs[t] : Submitted(status'[o], l)
<1> SUFFICES ASSUME NEW o \in Outputs[t] PROVE Submitted(status'[o], l)
  OBVIOUS
<1>1. o \in Item /\ o \in Output
  BY ItemsOfTxs
<1>2. status[o] \in [List -> Status] /\ status[o] # None
  BY <1>1, NoneIsNone DEF TypeOK, POIs
<1>3. status[o][l] \in {"Missing", "ProofSubmitted", "Valid"}
  BY <1>1, <1>2 DEF Unblocked, Status
<1>4. status'[o] = IF status[o][l] = "Missing"
                   THEN [status[o] EXCEPT ![l] = "ProofSubmitted"] ELSE status[o]
  BY <1>1 DEF SetStatus
<1>5. status'[o] \in POIs
  BY <1>2, <1>4 DEF POIs, Status
<1>6. status'[o] # None
  BY <1>5, NoneIsNone
<1>7. status'[o][l] \in {"ProofSubmitted", "Valid"}
  BY <1>2, <1>3, <1>4
<1> QED
  BY <1>6, <1>7 DEF Submitted

LEMMA ProofsAreMadeByProve ==
  ASSUME [Next]_vars
  PROVE  \/ UNCHANGED proofs
         \/ \E c \in Call, t \in Tx, l \in List :
              Prove(c, t, l) /\ proofs' = [proofs EXCEPT ![<<t, l>>] = proofs[<<t, l>>] + 1]
                             /\ SetStatus(Outputs[t], l, "Missing", "ProofSubmitted")
<1>1. ASSUME NEW c \in Call, NEW t \in Tx, NEW l \in List, Prove(c, t, l)
      PROVE  \/ UNCHANGED proofs
             \/ proofs' = [proofs EXCEPT ![<<t, l>>] = proofs[<<t, l>>] + 1]
                /\ SetStatus(Outputs[t], l, "Missing", "ProofSubmitted")
  BY <1>1 DEF Prove
<1>2. ASSUME NEW c \in Call, Step(c) \/ Fail(c)
      PROVE  UNCHANGED proofs \/ \E t \in Tx, l \in List : Prove(c, t, l)
  BY <1>2 DEF Step, Fail, RetrieveReceived, RetrieveSpent, StoreReceived, StoreSent,
     SubmitLegacy, Generate, Collect, Generated
<1>3. ASSUME \/ \E c \in Call, v \in Version, force \in BOOLEAN : Refresh(c, v, force)
             \/ \E c \in Call, t \in Tx : GenerateFor(c, t)
             \/ Crash
      PROVE  UNCHANGED proofs
  BY <1>3 DEF Refresh, GenerateFor, Crash
<1>4. ASSUME NEW v \in Version, NEW first \in Item, NEW last \in Item,
             DecryptAgain(v, first, last)
      PROVE  UNCHANGED proofs
  BY <1>4 DEF DecryptAgain
<1> QED
  BY <1>1, <1>2, <1>3, <1>4, CallsAreTheirOwn DEF Next

LEMMA ReachedKept ==
  ASSUME TypeOK, Recorded, [Next]_vars, Kept
  PROVE  Reached'
<1> USE TypesKept
<1>1. ASSUME NEW t \in Tx, NEW l \in List, proofs[<<t, l>>] # 0
      PROVE  t <= synced' /\ \A o \in Outputs[t] : Found(o)' /\ Submitted(status'[o], l)
  BY <1>1, ReachedStays DEF Recorded, Reached
<1>2. CASE UNCHANGED proofs
  BY <1>1, <1>2 DEF Reached, Found
<1>3. ASSUME NEW c \in Call, NEW t \in Tx, NEW l \in List, Prove(c, t, l),
             proofs' = [proofs EXCEPT ![<<t, l>>] = proofs[<<t, l>>] + 1],
             SetStatus(Outputs[t], l, "Missing", "ProofSubmitted")
      PROVE  Reached'
  <2>1. t <= synced /\ \A o \in Outputs[t] : Found(o)
    BY <1>3 DEF Recorded, Planned, Prove
  <2>2. UNCHANGED <<scanned, synced>>
    BY <1>3 DEF Prove
  <2>3. \A o \in Outputs[t] : Submitted(status'[o], l)
    BY <1>3, ProofSubmits DEF Recorded
  <2>4. \A u \in Tx, m \in List : <<u, m>> # <<t, l>> => proofs'[<<u, m>>] = proofs[<<u, m>>]
    BY <1>3 DEF TypeOK
  <2>5. ASSUME NEW u \in Tx, NEW m \in List, proofs'[<<u, m>>] # 0
        PROVE  u <= synced' /\ \A o \in Outputs[u] : Found(o)' /\ Submitted(status'[o], m)
    <3>1. CASE <<u, m>> = <<t, l>>
      BY <2>1, <2>2, <2>3, <3>1 DEF Found
    <3>2. CASE <<u, m>> # <<t, l>>
      BY <1>1, <2>4, <2>5, <3>2
    <3> QED
      BY <3>1, <3>2
  <2> QED
    BY <2>5 DEF Reached, Found
<1> QED
  BY <1>2, <1>3, ProofsAreMadeByProve

\* a call that has not asked for the outputs knows nothing of them yet
LEMMA InformedBefore ==
  ASSUME NEW c \in Call,
         \/ call'[c].stage \in {"idle", "received", "again", "legacy"}
         \/ call'[c].stage = "spent" /\ call'[c].got = None
  PROVE  Informed(c)'
BY DEF Informed, Knows

LEMMA InformedElsewhere ==
  ASSUME Learned, NEW c \in Call, Changes(c), UNCHANGED <<sent, proofs, undone>>,
         Informed(c)'
  PROVE  Learned'
<1>1. ASSUME NEW d \in Call, call'[d] = call[d] PROVE Informed(d)'
  BY <1>1 DEF Learned, Informed, Knows, Latest
<1> QED
  BY <1>1 DEF Changes, Learned

LEMMA InformedByRequest ==
  ASSUME TypeOK, Recorded, Cardinality(Output) <= SpentInRequest,
         NEW c \in Call, RetrieveSpent(c)
  PROVE  Changes(c) /\ Informed(c)'
<1> DEFINE needed == {o \in SpentRecords(call[c].version) : ~HasValidPOIsAllLists(sent[o])}
<1>1. call[c].stage = "spent" /\ UNCHANGED <<sent, proofs, undone>>
  BY DEF RetrieveSpent, disk
<1>2. Answered(c, needed)
  <2>1. PICK asked \in Requests(needed, SpentInRequest, SentBefore) : Answered(c, asked)
    BY DEF RetrieveSpent
  <2>2. needed \in SUBSET Output
    BY DEF SpentRecords
  <2>3. asked = needed
    BY <2>1, <2>2, AllAreAsked
  <2> QED
    BY <2>1, <2>3
<1>3. GoesOn(c, [i \in needed |-> status[i]])
  <2>1. needed \in SUBSET Item
    BY ItemsOfTxs DEF SpentRecords
  <2>2. [i \in needed |-> status[i]] \in Answers
    BY <2>1, TypedAnswers DEF TypeOK
  <2>3. call[c].stage \in Retrieving
    BY <1>1 DEF Retrieving
  <2> QED
    BY <1>2, <2>2, <2>3, GoesTyped DEF Answered
<1>4. ASSUME NEW t \in Tx, NEW l \in List, proofs[<<t, l>>] # 0,
             TxVersion[t] = call[c].version, NEW o \in Outputs[t]
      PROVE  /\ o \in needed => Submitted(status[o], l)
             /\ o \notin needed => Submitted(sent[o], l)
  <2>1. t <= synced /\ Found(o) /\ Submitted(status[o], l)
    BY <1>4 DEF Recorded, Reached
  <2>2. t \in 1..synced
    BY <2>1, CountsAreNumbers DEF Tx, TypeOK
  <2>3. o \in SpentRecords(call[c].version)
    BY <1>4, <2>1, <2>2, ItemsOfTxs DEF SpentRecords
  <2>4. HasValidPOIsAllLists(sent[o]) => Submitted(sent[o], l)
    BY DEF HasValidPOIsAllLists, Submitted
  <2> QED
    BY <2>1, <2>3, <2>4
<1> HIDE DEF needed
<1>5. CASE needed = {}
  <2>1. call'[c].stage = "generate" /\ call'[c].version = call[c].version
    BY <1>1, <1>3, <1>5, FollowingStages DEF GoesOn
  <2> QED
    BY <1>1, <1>3, <1>4, <1>5, <2>1 DEF GoesOn, Informed, Knows
<1>6. CASE needed # {}
  <2>1. /\ call'[c].stage = "spent" /\ call'[c].version = call[c].version
        /\ call'[c].got = [i \in needed |-> status[i]]
    BY <1>1, <1>3, <1>6 DEF GoesOn
  <2>2. \A t \in Tx, l \in List :
          proofs'[<<t, l>>] # 0 /\ TxVersion[t] = call'[c].version =>
            \A o \in Outputs[t] :
              Submitted(IF o \in DOMAIN call'[c].got THEN call'[c].got[o] ELSE sent'[o], l)
    BY <1>1, <1>4, <2>1
  <2> QED
    BY <1>3, <2>1, <2>2 DEF GoesOn, Informed, Knows, Latest
<1> QED
  BY <1>5, <1>6

LEMMA LearnedAfterStore ==
  ASSUME TypeOK, Planned, Alone, Learned, NEW c \in Call, NEW i \in Item, StoreSent(c, i)
  PROVE  Learned'
<1>1. /\ call[c].stage = "spent" /\ call[c].got # None /\ i \in DOMAIN call[c].got
      /\ UNCHANGED <<proofs, undone>> /\ GoesOn(c, Rest(c, i))
  BY StoreTypes DEF StoreSent, IsNext
<1>2. VersionOf[i] = call[c].version
  BY <1>1 DEF Planned
<1>3. /\ sent'[i] = call[c].got[i]
      /\ \A o \in Item : o # i => sent'[o] = sent[o]
  BY DEF StoreSent, TypeOK
<1>4. ASSUME NEW d \in Call \ {c} PROVE Informed(d)'
  <2>1. call'[d] = call[d]
    BY <1>1 DEF GoesOn, Changes
  <2>2. CASE call[d].version = call[c].version
    <3>1. call[d].stage = "idle"
      BY <1>1, <2>2 DEF Alone
    <3> QED
      BY <2>1, <3>1, InformedBefore
  <2>3. CASE call[d].version # call[c].version
    <3>1. ASSUME NEW t \in Tx, TxVersion[t] = call[d].version, NEW o \in Outputs[t]
          PROVE  sent'[o] = sent[o]
      BY <1>2, <1>3, <2>3, <3>1, ItemsOfTxs
    <3> QED
      BY <1>1, <2>1, <3>1 DEF Learned, Informed, Knows, Latest
  <2> QED
    BY <2>2, <2>3
<1>5. Informed(c)'
  <2>1. ASSUME NEW t \in Tx \ undone, NEW l \in List, proofs[<<t, l>>] # 0,
               TxVersion[t] = call[c].version, NEW o \in Outputs[t]
        PROVE  /\ o \in DOMAIN Rest(c, i) => Submitted(Rest(c, i)[o], l)
               /\ o \notin DOMAIN Rest(c, i) => Submitted(sent'[o], l)
    <3>1. Submitted(Latest(c, o), l)
      BY <1>1, <2>1 DEF Learned, Informed, Knows
    <3>2. o \in Item
      BY ItemsOfTxs
    <3>3. o \in DOMAIN Rest(c, i) => Rest(c, i)[o] = Latest(c, o)
      BY DEF Rest, Latest
    <3>4. o \notin DOMAIN Rest(c, i) => sent'[o] = Latest(c, o)
      BY <1>1, <1>3, <3>2 DEF Rest, Latest
    <3> QED
      BY <3>1, <3>3, <3>4
  <2>2. CASE DOMAIN Rest(c, i) = {}
    <3>1. call'[c].stage = "generate" /\ call'[c].version = call[c].version
      BY <1>1, <2>2, FollowingStages DEF GoesOn
    <3> QED
      BY <1>1, <2>1, <2>2, <3>1 DEF Informed, Knows
  <2>3. CASE DOMAIN Rest(c, i) # {}
    <3>1. /\ call'[c].stage = "spent" /\ call'[c].version = call[c].version
          /\ call'[c].got = Rest(c, i)
      BY <1>1, <2>3 DEF GoesOn
    <3> QED
      BY <1>1, <2>1, <3>1 DEF Informed, Knows, Latest
  <2> QED
    BY <2>2, <2>3
<1> QED
  BY <1>4, <1>5 DEF Learned

LEMMA LearnedAfterProof ==
  ASSUME TypeOK, Planned, Alone, Learned,
         NEW c \in Call, NEW t \in Tx, NEW l \in List, Prove(c, t, l)
  PROVE  Learned'
<1>1. /\ call[c].stage = "prove" /\ <<t, l>> \in call[c].todo /\ UNCHANGED <<sent, undone>>
      /\ Moves(c, "prove", call[c].todo \ {<<t, l>>})
  BY ProveTypes DEF Prove, disk
<1>2. TxVersion[t] = call[c].version
  BY <1>1 DEF Planned
<1>3. \A u \in Tx, m \in List : <<u, m>> # <<t, l>> => proofs'[<<u, m>>] = proofs[<<u, m>>]
  BY DEF Prove, TypeOK
<1>4. ASSUME NEW d \in Call \ {c} PROVE Informed(d)'
  <2>1. call'[d] = call[d]
    BY <1>1 DEF Moves, Changes
  <2>2. CASE call[d].version = call[c].version
    <3>1. call[d].stage = "idle"
      BY <1>1, <2>2 DEF Alone
    <3> QED
      BY <2>1, <3>1, InformedBefore
  <2>3. CASE call[d].version # call[c].version
    <3>1. \A u \in Tx, m \in List :
            TxVersion[u] = call[d].version => proofs'[<<u, m>>] = proofs[<<u, m>>]
      BY <1>2, <1>3, <2>3
    <3> QED
      BY <1>1, <2>1, <3>1 DEF Learned, Informed, Knows, Latest
  <2> QED
    BY <2>2, <2>3
<1>5. Informed(c)'
  <2>1. ASSUME NEW u \in Tx \ undone, NEW m \in List, proofs'[<<u, m>>] # 0,
               TxVersion[u] = call[c].version
        PROVE  <<u, m>> \notin call[c].todo \ {<<t, l>>}
    BY <1>1, <1>3, <2>1 DEF Learned, Informed, Knows
  <2> QED
    BY <1>1, <2>1 DEF Moves, Informed, Knows
<1> QED
  BY <1>4, <1>5 DEF Learned

LEMMA LearnedByStep ==
  ASSUME TypeOK, Flagged, Recorded, Alone, Learned, Cardinality(Output) <= SpentInRequest,
         NEW c \in Call, Step(c)
  PROVE  Learned'
<1>1. CASE RetrieveReceived(c)
  <2>1. PICK answers : GoesOn(c, answers)
    BY <1>1, RetrieveTypes
  <2>2. call[c].stage \in {"received", "again"} /\ UNCHANGED <<sent, proofs, undone>>
    BY <1>1 DEF RetrieveReceived, disk
  <2>3. Informed(c)'
    BY <2>1, <2>2, FollowingStages, InformedBefore DEF GoesOn
  <2> QED
    BY <2>1, <2>2, <2>3, InformedElsewhere DEF GoesOn
<1>2. ASSUME NEW i \in Item, StoreReceived(c, i) PROVE Learned'
  <2>1. /\ GoesOn(c, Rest(c, i)) /\ call[c].stage \in {"received", "again"}
        /\ UNCHANGED <<sent, proofs, undone>>
    BY <1>2, StoreTypes DEF StoreReceived
  <2>2. Informed(c)'
    BY <2>1, FollowingStages, InformedBefore DEF GoesOn
  <2> QED
    BY <2>1, <2>2, InformedElsewhere DEF GoesOn
<1>3. CASE SubmitLegacy(c)
  <2>1. PICK s \in {"spent", "again"} : Moves(c, s, call[c].todo)
    BY <1>3, SubmitTypes
  <2>2. call[c].got = None /\ UNCHANGED <<sent, proofs, undone>>
    BY <1>3 DEF SubmitLegacy, Flagged, Resting, Retrieving, disk
  <2>3. Informed(c)'
    BY <2>1, <2>2, InformedBefore DEF Moves
  <2> QED
    BY <2>1, <2>2, <2>3, InformedElsewhere DEF Moves
<1>4. CASE RetrieveSpent(c)
  <2>1. UNCHANGED <<sent, proofs, undone>>
    BY <1>4 DEF RetrieveSpent, disk
  <2> QED
    BY <1>4, <2>1, InformedByRequest, InformedElsewhere
<1>5. CASE Generate(c)
  <2>1. UNCHANGED <<sent, proofs, undone>> /\ call[c].stage = "generate"
    BY <1>5 DEF Generate, disk
  <2>2. CASE generating
    BY <1>5, <2>1, <2>2, GenerateTypes, IdleFields, InformedBefore, InformedElsewhere
  <2>3. CASE ~generating
    <3>1. Moves(c, "collect", call[c].todo)
      BY <1>5, <2>3, GenerateTypes
    <3>2. Informed(c)'
      BY <2>1, <3>1 DEF Learned, Informed, Knows, Moves
    <3> QED
      BY <2>1, <3>1, <3>2, InformedElsewhere DEF Moves
  <2> QED
    BY <2>2, <2>3
<1>6. CASE Collect(c)
  <2>1. UNCHANGED <<sent, proofs, undone>> /\ call[c].stage = "collect"
    BY <1>6 DEF Collect, disk
  <2>2. CASE NeedPOIs(c) = {}
    BY <1>6, <2>1, <2>2, CollectTypes, IdleFields, InformedBefore, InformedElsewhere
  <2>3. CASE NeedPOIs(c) # {}
    <3>1. Moves(c, "prove", ToProve(c))
      BY <1>6, <2>3, CollectTypes
    <3>2. ASSUME NEW t \in Tx \ undone, NEW l \in List, proofs[<<t, l>>] # 0,
                 TxVersion[t] = call[c].version
          PROVE  <<t, l>> \notin ToProve(c)
      <4>1. \A o \in Outputs[t] : Submitted(sent[o], l)
        BY <2>1, <3>2 DEF Learned, Informed, Knows
      <4> QED
        BY <4>1, WhatIsToProve
    <3>3. Informed(c)'
      BY <2>1, <3>1, <3>2 DEF Moves, Informed, Knows
    <3> QED
      BY <2>1, <3>1, <3>3, InformedElsewhere DEF Moves
  <2> QED
    BY <2>2, <2>3
<1>7. CASE Generated(c)
  <2>1. UNCHANGED <<sent, proofs, undone>> /\ Changes(c) /\ call'[c].stage = "idle"
    BY <1>7, Returns, IdleFields DEF Generated, disk
  <2> QED
    BY <2>1, InformedBefore, InformedElsewhere
<1> QED
  BY <1>1, <1>2, <1>3, <1>4, <1>5, <1>6, <1>7, LearnedAfterStore, LearnedAfterProof
     DEF Step, Recorded

\* a record that is replaced is one that the call will store, or does not know of
LEMMA LearnedAgain ==
  ASSUME TypeOK, Learned, NEW v \in Version, NEW first \in Item, NEW last \in Item,
         DecryptAgain(v, first, last)
  PROVE  Learned'
<1> DEFINE again == {i \in first..last : VersionOf[i] = v /\ i \notin Unshield}
<1>1. UNCHANGED <<call, proofs>> /\ undone \subseteq undone'
  BY AgainTypes
<1>2. \A o \in Item : o \notin again => sent'[o] = sent[o]
  BY DEF DecryptAgain
<1>3. undone' = undone \union {t \in Tx : \E c \in Call, o \in Outputs[t] \cap again :
                                           call[c].version = v /\ GoesBy(c, o)}
  BY DEF DecryptAgain
<1>4. \A o \in again : VersionOf[o] = v
  OBVIOUS
<1> HIDE DEF again
<1>5. ASSUME NEW c \in Call, NEW t \in Tx \ undone', NEW l \in List, proofs[<<t, l>>] # 0,
             TxVersion[t] = call[c].version
      PROVE  Knows(c, t, l)'
  <2>1. t \in Tx \ undone
    BY <1>1
  <2>2. Knows(c, t, l)
    BY <1>5, <2>1 DEF Learned, Informed
  <2>3. ASSUME NEW o \in Outputs[t], GoesBy(c, o) PROVE sent'[o] = sent[o]
    <3>1. o \in Item /\ VersionOf[o] = call[c].version
      BY <1>5, ItemsOfTxs
    <3>2. o \notin again
      BY <1>3, <1>4, <2>3, <3>1
    <3> QED
      BY <1>2, <3>1, <3>2
  <2>4. \A o \in Outputs[t] : call[c].stage = "spent" /\ call[c].got # None =>
                               Latest(c, o)' = Latest(c, o)
    BY <1>1, <2>3 DEF GoesBy, Latest
  <2>5. \A o \in Outputs[t] : call[c].stage \in {"generate", "collect"} => sent'[o] = sent[o]
    BY <2>3 DEF GoesBy
  <2> QED
    BY <1>1, <2>2, <2>4, <2>5 DEF Knows
<1> QED
  BY <1>1, <1>5 DEF Learned, Informed

LEMMA LearnedKept ==
  ASSUME TypeOK, Flagged, Recorded, Alone, Learned, Cardinality(Output) <= SpentInRequest,
         [Next]_vars, ~forced'
  PROVE  Learned'
<1>1. ASSUME UNCHANGED <<disk, call, proofs, undone>> PROVE Learned'
  BY <1>1 DEF Learned, Informed, Knows, Latest, disk
<1>2. ASSUME NEW c \in Call, Fail(c) PROVE Learned'
  <2>1. UNCHANGED <<sent, proofs, undone>> /\ Changes(c) /\ call'[c].stage = "idle"
    BY <1>2, Returns, IdleFields DEF Fail, disk
  <2> QED
    BY <2>1, InformedBefore, InformedElsewhere
<1>3. ASSUME NEW c \in Call, NEW v \in Version, NEW force \in BOOLEAN, Refresh(c, v, force)
      PROVE  Learned'
  <2>1. UNCHANGED <<sent, proofs, undone>>
        /\ call' = [call EXCEPT ![c].stage = "received", ![c].version = v]
    BY <1>3 DEF Refresh, disk
  <2>2. Changes(c) /\ call'[c].stage = "received"
    BY <2>1, TypedCalls DEF CallRecord, Changes
  <2> QED
    BY <2>1, <2>2, InformedBefore, InformedElsewhere
<1>4. ASSUME NEW c \in Call, NEW t \in Tx, GenerateFor(c, t) PROVE FALSE
  BY <1>4 DEF GenerateFor
<1>5. CASE Crash
  <2>1. \A d \in Call : call'[d].stage = "idle"
    BY <1>5, IdleFields DEF Crash
  <2> QED
    BY <2>1, InformedBefore DEF Learned
<1> QED
  BY <1>1, <1>2, <1>3, <1>4, <1>5, LearnedAgain, LearnedByStep, CallsAreTheirOwn DEF Next

\* what a refresh could not know stays so
LEMMA UndoneGrows ==
  ASSUME TypeOK, [Next]_vars
  PROVE  undone \subseteq undone'
<1>1. ASSUME NEW c \in Call, Step(c) \/ Fail(c) PROVE UNCHANGED undone
  BY <1>1 DEF Step, Fail, RetrieveReceived, RetrieveSpent, StoreReceived, StoreSent,
     SubmitLegacy, Generate, Collect, Prove, Generated
<1>2. ASSUME \/ \E c \in Call, v \in Version, force \in BOOLEAN : Refresh(c, v, force)
             \/ \E c \in Call, t \in Tx : GenerateFor(c, t)
             \/ Crash
      PROVE  UNCHANGED undone
  BY <1>2 DEF Refresh, GenerateFor, Crash
<1> QED
  BY <1>1, <1>2, AgainTypes, CallsAreTheirOwn DEF Next

\* a call that knows what was proved does not prove it again
LEMMA OnceByStep ==
  ASSUME TypeOK, Once, [Next]_vars, ~forced'
  PROVE  ~forced /\ NoProofTwice'
<1>1. ~forced
  <2>1. ASSUME NEW c \in Call, Step(c) \/ Fail(c) PROVE UNCHANGED forced
    BY <2>1 DEF Step, Fail, RetrieveReceived, RetrieveSpent, StoreReceived, StoreSent,
       SubmitLegacy, Generate, Collect, Prove, Generated
  <2>2. ASSUME NEW c \in Call, NEW v \in Version, NEW force \in BOOLEAN, Refresh(c, v, force)
        PROVE  forced => forced'
    BY <2>2 DEF Refresh
  <2>3. ASSUME NEW c \in Call, NEW t \in Tx, GenerateFor(c, t) PROVE forced'
    BY <2>3 DEF GenerateFor
  <2>4. Crash => UNCHANGED forced
    BY DEF Crash
  <2> QED
    BY <2>1, <2>2, <2>3, <2>4, AgainTypes, CallsAreTheirOwn DEF Next
<1>2. \A t \in Tx \ undone, l \in List : proofs[<<t, l>>] <= 1
  BY <1>1 DEF Once, NoProofTwice
<1>3. CASE UNCHANGED proofs
  <2>1. ASSUME NEW u \in Tx \ undone', NEW m \in List PROVE proofs'[<<u, m>>] <= 1
    <3>1. u \in Tx \ undone
      BY UndoneGrows
    <3>2. proofs[<<u, m>>] <= 1
      BY <1>2, <3>1
    <3> QED
      BY <1>3, <3>2
  <2> QED
    BY <1>1, <2>1 DEF NoProofTwice
<1>4. ASSUME NEW c \in Call, NEW t \in Tx, NEW l \in List, Prove(c, t, l),
             proofs' = [proofs EXCEPT ![<<t, l>>] = proofs[<<t, l>>] + 1]
      PROVE  NoProofTwice'
  <2>1. TxVersion[t] = call[c].version
    BY <1>4 DEF Once, Recorded, Planned, Prove
  <2>2. t \notin undone => proofs[<<t, l>>] = 0
    BY <1>1, <1>4, <2>1 DEF Once, Learned, Informed, Knows, Prove
  <2>3. /\ proofs'[<<t, l>>] = proofs[<<t, l>>] + 1
        /\ \A u \in Tx, m \in List : <<u, m>> # <<t, l>> => proofs'[<<u, m>>] = proofs[<<u, m>>]
    BY <1>4 DEF TypeOK
  <2>4. \A u \in Tx \ undone', m \in List : proofs'[<<u, m>>] <= 1
    <3> SUFFICES ASSUME NEW u \in Tx \ undone', NEW m \in List PROVE proofs'[<<u, m>>] <= 1
      OBVIOUS
    <3>1. u \in Tx \ undone
      BY UndoneGrows
    <3>2. CASE <<u, m>> = <<t, l>>
      <4>1. u = t /\ m = l
        BY <3>2
      <4>2. proofs'[<<u, m>>] = 0 + 1
        BY <2>2, <2>3, <3>1, <4>1
      <4> QED
        BY <4>2
    <3>3. CASE <<u, m>> # <<t, l>>
      <4>1. proofs'[<<u, m>>] = proofs[<<u, m>>]
        BY <2>3, <3>3
      <4> QED
        BY <1>2, <3>1, <4>1
    <3> QED
      BY <3>2, <3>3
  <2> QED
    BY <2>4 DEF NoProofTwice
<1> QED
  BY <1>1, <1>3, <1>4, ProofsAreMadeByProve

LEMMA OnceAtFirst == Init => Once
<1> SUFFICES ASSUME Init PROVE Once
  OBVIOUS
<1>1. \A d \in Call : call[d].stage = "idle" /\ call[d].only = None
  BY IdleFields DEF Init
<1>2. \A t \in Tx, l \in List : proofs[<<t, l>>] = 0
  BY DEF Init
<1>3. Unblocked
  BY ItemsOfTxs DEF Init, Unblocked
<1>4. Reached /\ NoProofTwice /\ Learned
  BY <1>2 DEF Reached, NoProofTwice, Learned, Informed
<1>5. Planned /\ Alone
  BY <1>1 DEF Planned, Alone
<1> QED
  BY <1>3, <1>4, <1>5 DEF Once, Recorded

LEMMA OnceKept ==
  ASSUME Cardinality(Output) <= SpentInRequest
  PROVE  TypeOK /\ Flagged /\ Once /\ [Next]_vars => Once'
<1> SUFFICES ASSUME TypeOK, Flagged, Once, [Next]_vars PROVE Once'
  OBVIOUS
<1>1. Kept /\ Unblocked'
  BY KeptByStep DEF Once, Recorded
<1>2. Recorded'
  BY <1>1, ReachedKept, PlannedKept DEF Once, Recorded
<1>3. CASE forced'
  BY <1>2, <1>3 DEF Once, NoProofTwice
<1>4. CASE ~forced'
  <2>1. ~forced /\ NoProofTwice'
    BY <1>4, OnceByStep
  <2>2. Alone' /\ Learned'
    BY <1>4, <2>1, AloneKept, LearnedKept DEF Once, Recorded
  <2> QED
    BY <1>2, <2>1, <2>2 DEF Once
<1> QED
  BY <1>3, <1>4

(* Unless the application forces it, no proof that the node has got is made
   again, however slow the node is to verify it, whichever requests fail, and
   whatever is decrypted again, for any number of versions, lists and
   transactions; but for those with an output whose record a scan replaced after
   a refresh had asked for it and before the refresh collected what to prove.  It
   takes that all outputs of the wallet fit in one request: the code sends at
   most 1000, and what is not asked for is taken for not proved.             *)
THEOREM ProvedOnce ==
  ASSUME Cardinality(Output) <= SpentInRequest
  PROVE  Spec => []NoProofTwice
<1>1. Once => NoProofTwice
  BY DEF Once
<1>2. TypeOK /\ Flagged /\ Once /\ [Next]_vars => TypeOK' /\ Flagged' /\ Once'
  BY TypesKept, FlaggedKept, OnceKept
<1>3. Init => TypeOK /\ Flagged /\ Once
  BY TypesAtFirst, FlaggedAtFirst, OnceAtFirst
<1> QED
  BY <1>1, <1>2, <1>3, PTL DEF Spec
=============================================================================
