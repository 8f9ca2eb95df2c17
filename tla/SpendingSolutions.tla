-------------------------- MODULE SpendingSolutions --------------------------
(* How a TransactionBatch chooses the notes (UTXOs) that pay for the outputs
   and the unshield of one token: one group of notes from a single tree if it
   finds one, else a search output by output, tree by tree, that gives each
   transaction at most MaxInputs notes of one tree and lets the change of one
   output pay for the next.  Every group becomes one transaction.

   The wallet lists the notes of a tree in the order of their numbers.       *)
EXTENDS Integers, Sequences, FiniteSets, FiniteSetsExt

CONSTANTS Utxo,        \* the notes of the wallet, numbered in its order
          Tree,
          MaxInputs,   \* VALID_INPUT_COUNTS are 1..MaxInputs
          MaxOutputs,  \* a transaction has at most so many outputs
          NullUtxo,    \* the placeholder that "spends" nothing
          Balances,    \* what the notes may be: their trees and values
          Requests     \* what may be asked for: outputs and an unshield

Unshield == 0          \* stands for the unshield among the numbers of outputs

ASSUME NotesAreNumbered == Utxo \subseteq Nat /\ IsFiniteSet(Utxo) /\ Tree \subseteq Nat
ASSUME NullIsNoNote     == NullUtxo \notin Utxo
ASSUME LimitsArePositive == MaxInputs \in Nat \ {0} /\ MaxOutputs \in Nat \ {0}
ASSUME BalancesAreTyped == Balances \subseteq [Utxo -> [tree : Tree, value : Nat]]
ASSUME RequestsAreTyped ==
  \A r \in Requests : r.outputs \in Seq(Nat) /\ r.unshield \in Nat

VARIABLES
  note,         \* tree and value of each note (wallet.balancesByTreeForToken)
  request,      \* outputs and unshieldDataMap of the batch
  stage,        \* where the batch is; one of Verdicts at the end
  unshielding,  \* isUnshield
  remaining,    \* remainingOutputs: number of the output, and value left to pay
  treesLeft,    \* trees the loop has not left, the current one included
  utxos,        \* the solution batch that is being put together
  spend,        \* its value
  excluded,     \* excludedUTXOIDPositions
  groups        \* spendingSolutionGroups

wallet == <<note, request>>
batch  == <<utxos, spend>>
vars   == <<wallet, stage, unshielding, remaining, treesLeft, batch, excluded, groups>>

Verdicts == {"done", "balanceTooLow", "utxosExhausted", "tooManyOutputs"}

TotalSpend(us)  == MapThenSumSet(LAMBDA u : note[u].value, us)
NoteTotal(outs) == MapThenSumSet(LAMBDA i : outs[i].value, DOMAIN outs)

SpendingTrees == {note[u].tree : u \in Utxo}
NonZero(t)    == {u \in Utxo : note[u].tree = t /\ note[u].value # 0}
Balance(t)    == TotalSpend(NonZero(t))
TokenBalance  == TotalSpend(Utxo)

Outputs == [i \in DOMAIN request.outputs |-> [output |-> i, value |-> request.outputs[i]]]
TotalRequired == NoteTotal(Outputs) + request.unshield

\* sortUTXOsByAscendingValue, which is stable
Before(u, v) == note[u].value < note[v].value \/ (note[u].value = note[v].value /\ u < v)

\* the first note of exactly the value n, if there is one
Exact(us, n) == {u \in us : /\ note[u].value = n
                            /\ \A v \in us : note[v].value = n => u <= v}

Init ==
  /\ note \in Balances
  /\ request \in Requests
  /\ stage = "start"
  /\ unshielding = FALSE
  /\ remaining = <<>>
  /\ treesLeft = {}
  /\ utxos = {} /\ spend = 0
  /\ excluded = {}
  /\ groups = <<>>

-----------------------------------------------------------------------------
(* One group.                                                                *)

\* the notes of a tree that reach the value, the smallest ones first
Ascending(t) == {us \in SUBSET NonZero(t) :
                   /\ \A u \in us : \A v \in NonZero(t) \ us : Before(u, v)
                   /\ TotalSpend(us) >= TotalRequired}

\* the solution of a tree, if there is one; of a tree that holds too little it
\* is the empty one
FindExactSolutionsOverTargetValue(t) ==
  IF Balance(t) < TotalRequired THEN {{}}
  ELSE IF Exact(NonZero(t), TotalRequired) # {}
  THEN {{u} : u \in Exact(NonZero(t), TotalRequired)}
  ELSE {us \in Ascending(t) : /\ \A vs \in Ascending(t) : us \subseteq vs
                              /\ Cardinality(us) \in 1..MaxInputs}

\* every tree is looked at, and the solution of the last one with any stays
LastSolved(t) == /\ FindExactSolutionsOverTargetValue(t) # {}
                 /\ \A s \in SpendingTrees : s > t => FindExactSolutionsOverTargetValue(s) = {}
SimpleUtxos(t) == {us \in FindExactSolutionsOverTargetValue(t) :
                     LastSolved(t) /\ TotalSpend(us) >= TotalRequired}

TooLow ==
  /\ stage = "start" /\ TotalRequired > TokenBalance
  /\ stage' = "balanceTooLow"
  /\ UNCHANGED <<wallet, unshielding, remaining, treesLeft, batch, excluded, groups>>

Simple ==
  /\ stage = "start" /\ TotalRequired <= TokenBalance
  /\ \E t \in SpendingTrees : \E us \in SimpleUtxos(t) :
       groups' = <<[tree |-> t, utxos |-> us, outputs |-> Outputs,
                    unshield |-> request.unshield]>>
  /\ stage' = "build"
  /\ UNCHANGED <<wallet, unshielding, remaining, treesLeft, batch, excluded>>

Complex ==
  /\ stage = "start" /\ TotalRequired <= TokenBalance
  /\ \A t \in SpendingTrees : SimpleUtxos(t) = {}
  /\ remaining' = Outputs
  /\ stage' = "outputs"
  /\ UNCHANGED <<wallet, unshielding, treesLeft, batch, excluded, groups>>

-----------------------------------------------------------------------------
(* Many groups: createSpendingSolutionsForValue for the first output that is
   left, until none is; then once for the unshield.                          *)

Primary    == remaining[1]
Secondary  == remaining[2]
SpendingTree == Min(treesLeft)
Available  == NonZero(SpendingTree) \ excluded

\* an output of nothing "spends" the null note and leaves the notes alone
ZeroOutput ==
  /\ stage = "outputs" /\ remaining # <<>> /\ Primary.value = 0
  /\ groups' = Append(groups, [tree |-> 0, utxos |-> {NullUtxo}, outputs |-> <<Primary>>,
                               unshield |-> 0])
  /\ remaining' = Tail(remaining)
  /\ UNCHANGED <<wallet, stage, unshielding, treesLeft, batch, excluded>>

StartOutput ==
  /\ stage = "outputs" /\ remaining # <<>> /\ Primary.value > 0
  /\ treesLeft' = SpendingTrees
  /\ stage' = "trees"
  /\ UNCHANGED <<wallet, unshielding, remaining, batch, excluded, groups>>

\* mutant: a tree that cannot pay for all of the output is left
NextTreeIfTooPoor ==
  /\ stage = "trees" /\ treesLeft # {} /\ TotalSpend(Available) < Primary.value
  /\ treesLeft' = treesLeft \ {SpendingTree}
  /\ UNCHANGED <<wallet, stage, unshielding, remaining, batch, excluded, groups>>

NextTree ==
  /\ stage = "trees" /\ treesLeft # {} /\ Available = {}
  /\ treesLeft' = treesLeft \ {SpendingTree}
  /\ UNCHANGED <<wallet, stage, unshielding, remaining, batch, excluded, groups>>

Exhausted ==
  /\ stage = "trees" /\ treesLeft = {}
  /\ stage' = "utxosExhausted"
  /\ UNCHANGED <<wallet, unshielding, remaining, treesLeft, batch, excluded, groups>>

\* findNextSolutionBatch: a note of exactly the value, or the smallest notes
\* until they reach it or are as many as a transaction may have
ExactMatch ==
  /\ stage = "trees" /\ treesLeft # {}
  /\ \E u \in Exact(Available, Primary.value) : utxos' = {u}
  /\ spend' = Primary.value
  /\ stage' = "group"
  /\ UNCHANGED <<wallet, unshielding, remaining, treesLeft, excluded, groups>>

StartBatch ==
  /\ stage = "trees" /\ treesLeft # {} /\ Available # {}
  /\ Exact(Available, Primary.value) = {}
  /\ stage' = "batch"
  /\ UNCHANGED <<wallet, unshielding, remaining, treesLeft, batch, excluded, groups>>

\* mutant: one note more than the circuits take
ShouldAddOneTooMany ==
  /\ spend < Primary.value
  /\ Cardinality(utxos) <= MaxInputs
  /\ Available \ utxos # {}

ShouldAddMoreUTXOs ==
  /\ spend < Primary.value
  /\ Cardinality(utxos) < MaxInputs
  /\ Available \ utxos # {}

Push ==
  /\ stage = "batch" /\ ShouldAddMoreUTXOs
  /\ \E u \in Available \ utxos :
       /\ \A v \in Available \ (utxos \union {u}) : Before(u, v)
       /\ utxos' = utxos \union {u}
       /\ spend' = spend + note[u].value
  /\ UNCHANGED <<wallet, stage, unshielding, remaining, treesLeft, excluded, groups>>

EndBatch ==
  /\ stage = "batch" /\ ~ShouldAddMoreUTXOs
  /\ stage' = "group"
  /\ UNCHANGED <<wallet, unshielding, remaining, treesLeft, batch, excluded, groups>>

\* mutant: the notes of the group are not excluded
AddGroupUnmarked(outs, n) ==
  /\ groups' = Append(groups, [tree |-> SpendingTree, utxos |-> utxos,
                               outputs  |-> IF unshielding THEN <<>> ELSE outs,
                               unshield |-> IF unshielding THEN n ELSE 0])
  /\ utxos' = {} /\ spend' = 0
  /\ UNCHANGED <<wallet, unshielding, treesLeft, excluded>>

\* the group of the batch, which pays outs or, of an unshield, the value n
AddGroup(outs, n) ==
  /\ groups' = Append(groups, [tree |-> SpendingTree, utxos |-> utxos,
                               outputs  |-> IF unshielding THEN <<>> ELSE outs,
                               unshield |-> IF unshielding THEN n ELSE 0])
  /\ excluded' = excluded \union utxos
  /\ utxos' = {} /\ spend' = 0
  /\ UNCHANGED <<wallet, unshielding, treesLeft>>

PayPart ==
  /\ stage = "group" /\ spend < Primary.value
  /\ AddGroup(<<[Primary EXCEPT !.value = spend]>>, spend)
  /\ remaining' = [remaining EXCEPT ![1].value = @ - spend]
  /\ stage' = "trees"

\* the rest of the notes' value fills the next output; what is left after that
\* returns to the wallet as change
Change == spend - Primary.value
\* mutant: only for a third output
UsesChangeForThree == Change > 0 /\ Len(remaining) > 2 /\ ~unshielding

UsesChange == Change > 0 /\ Len(remaining) > 1 /\ ~unshielding

PayRest ==
  /\ stage = "group" /\ spend >= Primary.value /\ ~UsesChange
  /\ AddGroup(<<Primary>>, Primary.value)
  /\ remaining' = Tail(remaining)
  /\ stage' = "outputs"

\* mutant: the next output is taken to be paid in full by the change
PaySecondaryAll ==
  /\ stage = "group" /\ spend >= Primary.value /\ UsesChange
  /\ IF Secondary.value < Change
     THEN AddGroup(<<Primary, Secondary>>, 0)
     ELSE AddGroup(<<Primary, [Secondary EXCEPT !.value = Change]>>, 0)
  /\ remaining' = Tail(Tail(remaining))
  /\ stage' = "outputs"

PaySecondary ==
  /\ stage = "group" /\ spend >= Primary.value /\ UsesChange
  /\ IF Secondary.value < Change
     THEN /\ AddGroup(<<Primary, Secondary>>, 0)
          /\ remaining' = Tail(Tail(remaining))
     ELSE /\ AddGroup(<<Primary, [Secondary EXCEPT !.value = Change]>>, 0)
          /\ remaining' = IF Secondary.value > Change
                          THEN Tail([remaining EXCEPT ![2].value = @ - Change])
                          ELSE Tail(Tail(remaining))
  /\ stage' = "outputs"

StartUnshield ==
  /\ stage = "outputs" /\ remaining = <<>>
  /\ request.unshield > 0 /\ ~unshielding
  /\ unshielding' = TRUE
  /\ remaining' = <<[output |-> Unshield, value |-> request.unshield]>>
  /\ UNCHANGED <<wallet, stage, treesLeft, batch, excluded, groups>>

AllPaid ==
  /\ stage = "outputs" /\ remaining = <<>>
  /\ request.unshield = 0 \/ unshielding
  /\ stage' = "build"
  /\ UNCHANGED <<wallet, unshielding, remaining, treesLeft, batch, excluded, groups>>

-----------------------------------------------------------------------------
(* The transactions: a change output for what the inputs are worth more, and
   too many outputs are refused.                                             *)

ChangeOf(g) == (IF NullUtxo \in g.utxos THEN 0 ELSE TotalSpend(g.utxos))
               - NoteTotal(g.outputs) - g.unshield
OutputCount(g) == Len(g.outputs) + (IF ChangeOf(g) > 0 THEN 1 ELSE 0)
                                 + (IF g.unshield > 0 THEN 1 ELSE 0)

Build ==
  /\ stage = "build"
  /\ stage' = IF \A i \in DOMAIN groups : OutputCount(groups[i]) <= MaxOutputs
              THEN "done" ELSE "tooManyOutputs"
  /\ UNCHANGED <<wallet, unshielding, remaining, treesLeft, batch, excluded, groups>>

\* the batch has answered
Answered == stage \in Verdicts /\ UNCHANGED vars

Next ==
  \/ TooLow \/ Simple \/ Complex
  \/ ZeroOutput \/ StartOutput \/ NextTree \/ Exhausted
  \/ ExactMatch \/ StartBatch \/ Push \/ EndBatch
  \/ PayPart \/ PayRest \/ PaySecondary
  \/ StartUnshield \/ AllPaid \/ Build \/ Answered

Spec == Init /\ [][Next]_vars

-----------------------------------------------------------------------------
Payment == [output : Nat, value : Nat]
Group   == [tree : Nat, utxos : SUBSET (Utxo \union {NullUtxo}),
            outputs : Seq(Payment), unshield : Nat]

\* Values of the variables: where the batch is, what is left to pay, which
\* notes are taken.
TypeOK ==
  /\ note \in Balances /\ request \in Requests
  /\ stage \in {"start", "outputs", "trees", "batch", "group", "build"} \union Verdicts
  /\ unshielding \in BOOLEAN
  /\ remaining \in Seq(Payment)
  /\ treesLeft \subseteq SpendingTrees
  /\ utxos \subseteq Utxo /\ spend \in Nat
  /\ excluded \subseteq Utxo
  /\ groups \in Seq(Group)

\* No note is an input of two transactions of the batch, whatever the search
\* took, skipped or left over on the way (complex-solutions.ts:136): the second
\* one would be refused by the contract as a double spend.
NoUtxoSpentTwice ==
  \A i, j \in DOMAIN groups :
    i # j => groups[i].utxos \intersect groups[j].utxos \subseteq {NullUtxo}

\* Every transaction spends the null note alone, or between 1 and MaxInputs
\* notes of the tree it names (nullifiers.ts:12): the circuit takes one root.
GroupsFitTheCircuit ==
  \A i \in DOMAIN groups :
    LET g == groups[i]
    IN \/ g.utxos = {NullUtxo}
       \/ g.utxos \subseteq NonZero(g.tree) /\ Cardinality(g.utxos) \in 1..MaxInputs

\* When the notes are chosen, the parts that the groups pay of every output and
\* of the unshield add up to what was asked for, through all the splitting of
\* outputs and use of change, and no group pays out more than its notes are
\* worth (transaction-batch.ts:341 throws then).
PaidIn(outs, n) ==
  MapThenSumSet(LAMBDA k : outs[k].value, {k \in DOMAIN outs : outs[k].output = n})
Paid(n) == MapThenSumSet(LAMBDA i : PaidIn(groups[i].outputs, n), DOMAIN groups)
UnshieldPaid == MapThenSumSet(LAMBDA i : groups[i].unshield, DOMAIN groups)
OutputsArePaid ==
  /\ \A i \in DOMAIN groups : ChangeOf(groups[i]) >= 0
  /\ stage \in {"build", "done", "tooManyOutputs"} =>
       /\ \A n \in DOMAIN request.outputs : Paid(n) = request.outputs[n]
       /\ UnshieldPaid = request.unshield

\* "Balance too low: requires additional UTXOs" (complex-solutions.ts:201) is
\* said only when every note that is worth something has been taken: no tree and
\* no note is overlooked.
FailsOnlyWhenExhausted ==
  stage = "utxosExhausted" =>
    \A u \in Utxo : note[u].value # 0 => \E i \in DOMAIN groups : u \in groups[i].utxos

\* A batch of at most two outputs, or of an unshield alone, finds the notes for
\* it whenever the wallet has the value, over however many trees and
\* transactions.  The change of one output can pay for the next one only, so
\* with three outputs, or an output and an unshield, this is not so.
TwoOutputsSucceed ==
  stage = "utxosExhausted" =>
    Len(request.outputs) > 2 \/ (request.outputs # <<>> /\ request.unshield > 0)
=============================================================================
