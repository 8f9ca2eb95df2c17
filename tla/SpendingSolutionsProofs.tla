----------------------- MODULE SpendingSolutionsProofs -----------------------
(* Proofs about the choice of notes, for any wallet, request and limits.

   1. No note is spent twice, and the search fails only when every note is
      taken.  Inv says why: the excluded notes are exactly what the groups hold,
      the batch being put together is taken from the rest, and a tree is left
      only when nothing of it is left.
   2. Sums over finite sets, by induction on their size.
   3. Every group fits a circuit (Fit).
   4. Every output and the unshield are paid to the last unit, and no group pays
      out more than its notes are worth.  Books says why: at every moment what
      the groups pay of an output and what remains to be paid of it add up to
      what was asked for.
   5. A batch of at most two outputs, or of an unshield alone, never fails for
      want of notes.  Thrift says why: until the last output is being paid the
      notes that are taken and what remains to be paid add up to what is
      required, and that the wallet has.                                     *)
EXTENDS SpendingSolutions, SequenceTheorems, FiniteSetTheorems, WellFoundedInduction, TLAPS

Searching == {"outputs", "trees", "batch", "group"}
Paying    == {"trees", "batch", "group"}

\* The excluded notes are those of the groups.
Booked ==
  /\ stage \in Searching =>
       \A i \in DOMAIN groups : groups[i].utxos \subseteq excluded \union {NullUtxo}
  /\ \A u \in excluded : \E i \in DOMAIN groups : u \in groups[i].utxos
  /\ stage = "start" => groups = <<>>

\* The batch is taken from what is left of one tree, and is not empty when it
\* becomes a group.
Batched ==
  /\ stage \in Paying => remaining # <<>> /\ Primary.value > 0
  /\ utxos \intersect excluded = {}
  /\ stage \in {"batch", "group"} => utxos \subseteq NonZero(SpendingTree)
  /\ stage \notin {"batch", "group"} => utxos = {}
  /\ stage = "batch" => Available # {}
  /\ utxos = {} => spend = 0
  /\ stage = "group" => utxos # {}

\* A tree behind the loop has no note left.
Left ==
  /\ stage \in Paying => \A t \in SpendingTrees \ treesLeft : NonZero(t) \subseteq excluded
  /\ stage = "utxosExhausted" => \A t \in SpendingTrees : NonZero(t) \subseteq excluded

Inv == TypeOK /\ NoUtxoSpentTwice /\ Booked /\ Batched /\ Left

-----------------------------------------------------------------------------
LEMMA NonZeroNotes ==
  ASSUME NEW t
  PROVE  NonZero(t) \subseteq Utxo
BY DEF NonZero

LEMMA TreesAreNumbers ==
  ASSUME TypeOK
  PROVE  /\ note \in [Utxo -> [tree : Tree, value : Nat]]
         /\ SpendingTrees \subseteq Tree /\ SpendingTrees \subseteq Nat
<1>1. note \in [Utxo -> [tree : Tree, value : Nat]]
  BY BalancesAreTyped DEF TypeOK
<1>2. \A u \in Utxo : note[u].tree \in Tree
  BY <1>1
<1>3. SpendingTrees \subseteq Tree
  BY <1>2 DEF SpendingTrees
<1> QED
  BY <1>1, <1>3, NotesAreNumbered

LEMMA OutputsArePayments ==
  ASSUME TypeOK
  PROVE  Outputs \in Seq(Payment)
<1>1. request.outputs \in Seq(Nat) /\ request.unshield \in Nat
  BY RequestsAreTyped DEF TypeOK
<1>2. DOMAIN Outputs = 1..Len(request.outputs)
  BY <1>1 DEF Outputs
<1>3. \A i \in 1..Len(request.outputs) : Outputs[i] \in Payment
  BY <1>1 DEF Outputs, Payment
<1>4. Outputs = [i \in 1..Len(request.outputs) |-> Outputs[i]]
  BY <1>1 DEF Outputs
<1>5. Len(request.outputs) \in Nat
  BY <1>1
<1>6. Outputs \in [1..Len(request.outputs) -> Payment]
  BY <1>3, <1>4
<1> QED
  BY <1>5, <1>6, SeqDef

LEMMA SolutionsAreNotes ==
  ASSUME NEW t, NEW us \in SimpleUtxos(t)
  PROVE  us \subseteq Utxo
<1>1. us \in FindExactSolutionsOverTargetValue(t)
  BY DEF SimpleUtxos
<1>2. CASE us = {}
  BY <1>2
<1>3. CASE \E u \in NonZero(t) : us = {u}
  BY <1>3, NonZeroNotes
<1>4. CASE us \in SUBSET NonZero(t)
  BY <1>4, NonZeroNotes
<1>5. us = {} \/ (\E u \in NonZero(t) : us = {u}) \/ us \in SUBSET NonZero(t)
  BY <1>1 DEF FindExactSolutionsOverTargetValue, Exact, Ascending
<1> QED
  BY <1>2, <1>3, <1>4, <1>5

LEMMA Appended ==
  ASSUME NEW S, NEW s \in Seq(S), NEW e \in S
  PROVE  /\ Append(s, e) \in Seq(S)
         /\ DOMAIN Append(s, e) = DOMAIN s \union {Len(s) + 1}
         /\ Len(s) + 1 \notin DOMAIN s
         /\ \A i \in DOMAIN s : Append(s, e)[i] = s[i]
         /\ Append(s, e)[Len(s) + 1] = e
<1>1. Len(s) \in Nat /\ DOMAIN s = 1..Len(s)
  BY LenProperties
<1>2. Append(s, e) \in Seq(S) /\ Len(Append(s, e)) = Len(s) + 1
  BY AppendProperties
<1>3. DOMAIN Append(s, e) = 1..(Len(s) + 1)
  BY <1>2, LenProperties
<1>4. 1..(Len(s) + 1) = (1..Len(s)) \union {Len(s) + 1}
  BY <1>1
<1>5. \A i \in 1..Len(s) : Append(s, e)[i] = s[i]
  BY AppendProperties
<1>6. Append(s, e)[Len(s) + 1] = e
  BY AppendProperties
<1> QED
  BY <1>1, <1>2, <1>3, <1>4, <1>5, <1>6

\* A group that shares no note with the others keeps the notes apart.
LEMMA GroupApart ==
  ASSUME TypeOK, NoUtxoSpentTwice, NEW g \in Group, groups' = Append(groups, g),
         \A i \in DOMAIN groups : groups[i].utxos \intersect g.utxos \subseteq {NullUtxo}
  PROVE  NoUtxoSpentTwice'
<1> DEFINE n == Len(groups) + 1
<1>1. groups \in Seq(Group)
  BY DEF TypeOK
<1>2. /\ DOMAIN groups' = DOMAIN groups \union {n}
      /\ n \notin DOMAIN groups
      /\ \A i \in DOMAIN groups : groups'[i] = groups[i]
      /\ groups'[n] = g
  BY <1>1, Appended
<1> HIDE DEF n
<1>3. SUFFICES ASSUME NEW i \in DOMAIN groups', NEW j \in DOMAIN groups', i # j
      PROVE  groups'[i].utxos \intersect groups'[j].utxos \subseteq {NullUtxo}
  BY DEF NoUtxoSpentTwice
<1>4. CASE i \in DOMAIN groups /\ j \in DOMAIN groups
  BY <1>2, <1>3, <1>4 DEF NoUtxoSpentTwice
<1>5. CASE i = n /\ j \in DOMAIN groups
  BY <1>2, <1>5
<1>6. CASE j = n /\ i \in DOMAIN groups
  BY <1>2, <1>6
<1> QED
  BY <1>2, <1>3, <1>4, <1>5, <1>6

\* What becomes of the groups when the batch is made one.
LEMMA BatchBecomesGroup ==
  ASSUME Inv, stage = "group", NEW outs \in Seq(Payment), NEW n \in Nat, AddGroup(outs, n),
         stage' \in {"trees", "outputs"}
  PROVE  /\ groups' \in Seq(Group)
         /\ excluded' \subseteq Utxo
         /\ NoUtxoSpentTwice'
         /\ Booked'
<1> DEFINE outputs == IF unshielding THEN <<>> ELSE outs
           unshield == IF unshielding THEN n ELSE 0
           g == [tree |-> SpendingTree, utxos |-> utxos, outputs |-> outputs,
                 unshield |-> unshield]
           k == Len(groups) + 1
<1>1. groups' = Append(groups, g) /\ excluded' = excluded \union utxos /\ note' = note
  BY DEF AddGroup, wallet
<1>2. outputs \in Seq(Payment)
  BY EmptySeq
<1>3. unshield \in Nat
  OBVIOUS
<1>4. SpendingTree \in Nat
  <2>1. PICK u \in utxos : note[u].tree = SpendingTree
    BY DEF Inv, Batched, NonZero
  <2>2. u \in Utxo
    BY <2>1 DEF Inv, TypeOK
  <2> HIDE DEF SpendingTree
  <2>3. note[u].tree \in Nat
    BY <2>2, TreesAreNumbers, NotesAreNumbered DEF Inv
  <2> QED
    BY <2>1, <2>3
<1>5. utxos \subseteq Utxo /\ excluded \subseteq Utxo /\ groups \in Seq(Group)
  BY DEF Inv, TypeOK
<1> HIDE DEF outputs, unshield
<1>6. g \in Group
  BY <1>2, <1>3, <1>4, <1>5 DEF Group
<1>7. g.utxos = utxos
  OBVIOUS
<1> HIDE DEF g
<1>8. /\ groups' \in Seq(Group)
      /\ DOMAIN groups' = DOMAIN groups \union {k}
      /\ \A i \in DOMAIN groups : groups'[i] = groups[i]
      /\ groups'[k] = g
  BY <1>1, <1>5, <1>6, Appended
<1> HIDE DEF k
<1>9. \A i \in DOMAIN groups : groups[i].utxos \subseteq excluded \union {NullUtxo}
  BY DEF Inv, Booked, Searching
<1>10. \A i \in DOMAIN groups : groups[i].utxos \intersect g.utxos \subseteq {NullUtxo}
  BY <1>7, <1>9 DEF Inv, Batched
<1>11. NoUtxoSpentTwice'
  BY <1>1, <1>6, <1>10, GroupApart DEF Inv
<1>12. Booked'
  <2>1. \A i \in DOMAIN groups' : groups'[i].utxos \subseteq excluded' \union {NullUtxo}
    BY <1>1, <1>7, <1>8, <1>9
  <2>2. \A u \in excluded' : \E i \in DOMAIN groups' : u \in groups'[i].utxos
    <3>1. SUFFICES ASSUME NEW u \in excluded'
          PROVE  \E i \in DOMAIN groups' : u \in groups'[i].utxos
      OBVIOUS
    <3>2. CASE u \in utxos
      BY <3>2, <1>7, <1>8
    <3>3. CASE u \in excluded
      BY <3>3, <1>8 DEF Inv, Booked
    <3> QED
      BY <3>2, <3>3, <1>1
  <2>3. stage' # "start"
    OBVIOUS
  <2> QED
    BY <2>1, <2>2, <2>3 DEF Booked
<1> QED
  BY <1>1, <1>5, <1>8, <1>11, <1>12

-----------------------------------------------------------------------------
(* The steps.                                                                *)

LEMMA SameWallet ==
  ASSUME UNCHANGED wallet
  PROVE  /\ note' = note /\ request' = request
         /\ SpendingTrees' = SpendingTrees
         /\ \A t : NonZero(t)' = NonZero(t)
BY DEF wallet, SpendingTrees, NonZero

LEMMA Heads ==
  ASSUME Inv, remaining # <<>>
  PROVE  /\ Len(remaining) \in Nat \ {0} /\ DOMAIN remaining = 1..Len(remaining)
         /\ Primary \in Payment
         /\ Tail(remaining) \in Seq(Payment) /\ Len(Tail(remaining)) = Len(remaining) - 1
         /\ <<Primary>> \in Seq(Payment)
<1>1. remaining \in Seq(Payment)
  BY DEF Inv, TypeOK
<1>2. Len(remaining) \in Nat \ {0} /\ DOMAIN remaining = 1..Len(remaining)
  BY <1>1, LenProperties, EmptySeq
<1>3. Primary \in Payment
  BY <1>1, <1>2, ElementOfSeq DEF Primary
<1>4. Tail(remaining) \in Seq(Payment) /\ Len(Tail(remaining)) = Len(remaining) - 1
  BY <1>1, HeadTailProperties
<1> QED
  BY <1>2, <1>3, <1>4

LEMMA StartSteps ==
  ASSUME Inv, TooLow \/ Simple \/ Complex
  PROVE  Inv'
<1>1. CASE TooLow
  <2>1. TypeOK'
    BY <1>1, SameWallet DEF Inv, TypeOK, TooLow, wallet, batch, Verdicts
  <2>2. NoUtxoSpentTwice' /\ Booked' /\ Batched' /\ Left'
    BY <1>1 DEF Inv, TooLow, NoUtxoSpentTwice, Booked, Batched, Left, batch, Searching, Paying
  <2> QED
    BY <2>1, <2>2 DEF Inv
<1>2. CASE Simple
  <2>1. PICK t \in SpendingTrees : \E us \in SimpleUtxos(t) :
          groups' = <<[tree |-> t, utxos |-> us, outputs |-> Outputs,
                       unshield |-> request.unshield]>>
    BY <1>2 DEF Simple
  <2>2. PICK us \in SimpleUtxos(t) :
          groups' = <<[tree |-> t, utxos |-> us, outputs |-> Outputs,
                       unshield |-> request.unshield]>>
    BY <2>1
  <2> DEFINE g == [tree |-> t, utxos |-> us, outputs |-> Outputs, unshield |-> request.unshield]
  <2>3. t \in Nat /\ us \subseteq Utxo /\ Outputs \in Seq(Payment) /\ request.unshield \in Nat
    BY TreesAreNumbers, SolutionsAreNotes, OutputsArePayments, RequestsAreTyped
    DEF Inv, TypeOK
  <2>4. g \in Group
    BY <2>3 DEF Group
  <2>5. groups' = <<g>>
    BY <2>2
  <2> HIDE DEF g
  <2>6. groups' \in Seq(Group) /\ DOMAIN groups' = {1}
    BY <2>4, <2>5
  <2>7. TypeOK'
    BY <1>2, <2>6, SameWallet DEF Inv, TypeOK, Simple, batch, Verdicts
  <2>8. NoUtxoSpentTwice'
    BY <2>6 DEF NoUtxoSpentTwice
  <2>9. excluded = {}
    BY <1>2 DEF Inv, Booked, Simple
  <2>10. Booked' /\ Batched' /\ Left'
    BY <1>2, <2>9 DEF Inv, Simple, Booked, Batched, Left, batch, Searching, Paying
  <2> QED
    BY <2>7, <2>8, <2>10 DEF Inv
<1>3. CASE Complex
  <2>1. TypeOK'
    BY <1>3, SameWallet, OutputsArePayments DEF Inv, TypeOK, Complex, batch
  <2>2. NoUtxoSpentTwice' /\ Booked' /\ Batched' /\ Left'
    BY <1>3 DEF Inv, Complex, NoUtxoSpentTwice, Booked, Batched, Left, batch, Searching, Paying
  <2> QED
    BY <2>1, <2>2 DEF Inv
<1> QED
  BY <1>1, <1>2, <1>3

\* A group that spends the null note disturbs nothing.
LEMMA ZeroOutputStep ==
  ASSUME Inv, ZeroOutput
  PROVE  Inv'
<1> DEFINE g == [tree |-> 0, utxos |-> {NullUtxo}, outputs |-> <<Primary>>, unshield |-> 0]
           k == Len(groups) + 1
<1>1. /\ groups' = Append(groups, g) /\ remaining' = Tail(remaining)
      /\ stage = "outputs" /\ stage' = "outputs" /\ excluded' = excluded /\ remaining # <<>>
      /\ UNCHANGED <<wallet, unshielding, treesLeft, batch>>
  BY DEF ZeroOutput
<1>2. Tail(remaining) \in Seq(Payment) /\ <<Primary>> \in Seq(Payment)
  BY <1>1, Heads
<1>3. g \in Group
  BY <1>2 DEF Group
<1>4. g.utxos = {NullUtxo}
  OBVIOUS
<1> HIDE DEF g
<1>5. /\ groups' \in Seq(Group)
      /\ DOMAIN groups' = DOMAIN groups \union {k}
      /\ \A i \in DOMAIN groups : groups'[i] = groups[i]
      /\ groups'[k] = g
  BY <1>1, <1>3, Appended DEF Inv, TypeOK
<1> HIDE DEF k
<1>6. NoUtxoSpentTwice'
  BY <1>1, <1>3, <1>4, GroupApart DEF Inv
<1>7. Booked'
  <2>1. \A i \in DOMAIN groups' : groups'[i].utxos \subseteq excluded' \union {NullUtxo}
    BY <1>1, <1>4, <1>5 DEF Inv, Booked, Searching
  <2>2. \A u \in excluded' : \E i \in DOMAIN groups' : u \in groups'[i].utxos
    BY <1>1, <1>5 DEF Inv, Booked
  <2> QED
    BY <1>1, <2>1, <2>2 DEF Booked
<1>8. TypeOK'
  BY <1>1, <1>2, <1>5, SameWallet DEF Inv, TypeOK, batch
<1>9. Batched' /\ Left'
  BY <1>1 DEF Inv, Batched, Left, batch, Paying
<1> QED
  BY <1>6, <1>7, <1>8, <1>9 DEF Inv

LEMMA TreeSteps ==
  ASSUME Inv, StartOutput \/ NextTree \/ Exhausted
  PROVE  Inv'
<1>1. CASE StartOutput
  <2>1. TypeOK'
    BY <1>1, SameWallet DEF Inv, TypeOK, StartOutput, batch
  <2>2. NoUtxoSpentTwice' /\ Booked'
    BY <1>1 DEF Inv, StartOutput, NoUtxoSpentTwice, Booked, Searching
  <2>3. Batched' /\ Left'
    BY <1>1, SameWallet DEF Inv, StartOutput, Batched, Left, batch, Paying, Primary
  <2> QED
    BY <2>1, <2>2, <2>3 DEF Inv
<1>2. CASE NextTree
  <2>1. TypeOK'
    BY <1>2, SameWallet DEF Inv, TypeOK, NextTree, batch
  <2>2. NoUtxoSpentTwice' /\ Booked'
    BY <1>2 DEF Inv, NextTree, NoUtxoSpentTwice, Booked, Searching
  <2>3. Batched'
    BY <1>2 DEF Inv, NextTree, Batched, batch, Paying, Primary
  <2>4. NonZero(SpendingTree) \subseteq excluded
    BY <1>2 DEF NextTree, Available
  <2> HIDE DEF SpendingTree
  <2>5. \A t \in SpendingTrees \ treesLeft' : NonZero(t) \subseteq excluded
    BY <1>2, <2>4 DEF Inv, Left, NextTree, Paying
  <2>6. Left'
    BY <1>2, <2>5, SameWallet DEF NextTree, Left
  <2> QED
    BY <2>1, <2>2, <2>3, <2>6 DEF Inv
<1>3. CASE Exhausted
  <2>1. TypeOK'
    BY <1>3, SameWallet DEF Inv, TypeOK, Exhausted, batch, Verdicts
  <2>2. NoUtxoSpentTwice' /\ Booked'
    BY <1>3 DEF Inv, Exhausted, NoUtxoSpentTwice, Booked, Searching
  <2>3. Batched' /\ Left'
    BY <1>3, SameWallet DEF Inv, Exhausted, Batched, Left, batch, Paying, Primary
  <2> QED
    BY <2>1, <2>2, <2>3 DEF Inv
<1> QED
  BY <1>1, <1>2, <1>3

LEMMA BatchSteps ==
  ASSUME Inv, ExactMatch \/ StartBatch \/ Push \/ EndBatch
  PROVE  Inv'
<1>0. /\ UNCHANGED <<wallet, unshielding, remaining, treesLeft, excluded, groups>>
      /\ stage \in {"trees", "batch"} /\ stage' \in {"batch", "group"}
  BY DEF ExactMatch, StartBatch, Push, EndBatch
<1>1. /\ note' = note /\ request' = request /\ SpendingTrees' = SpendingTrees
      /\ \A t : NonZero(t)' = NonZero(t)
  BY <1>0, SameWallet
<1>2. SpendingTree' = SpendingTree
  BY <1>0 DEF SpendingTree
<1>3. NoUtxoSpentTwice' /\ Booked' /\ Left'
  BY <1>0, <1>1 DEF Inv, NoUtxoSpentTwice, Booked, Left, Searching, Paying
<1>4. Available = NonZero(SpendingTree) \ excluded /\ Available' = NonZero(SpendingTree) \ excluded
  BY <1>0, <1>1, <1>2 DEF Available
<1>5. remaining # <<>> /\ Primary.value > 0 /\ Primary' = Primary /\ remaining' = remaining
  BY <1>0 DEF Inv, Batched, Paying, Primary
<1>6. Available \subseteq Utxo
  BY <1>4, NonZeroNotes
<1>7. Primary.value \in Nat
  BY <1>5, Heads DEF Payment
<1>8. SUFFICES /\ utxos' \subseteq Utxo /\ spend' \in Nat
               /\ utxos' \subseteq Available
               /\ stage' = "batch" => Available # {}
               /\ utxos' = {} => spend' = 0
               /\ stage' = "group" => utxos' # {}
  <2>1. TypeOK'
    BY <1>0, <1>1, <1>8 DEF Inv, TypeOK
  <2>2. Batched'
    BY <1>0, <1>1, <1>2, <1>4, <1>5, <1>8 DEF Batched
  <2> QED
    BY <1>3, <2>1, <2>2 DEF Inv
<1> HIDE DEF SpendingTree, Available
<1>9. CASE ExactMatch
  <2>1. PICK u \in Exact(Available, Primary.value) : utxos' = {u}
    BY <1>9 DEF ExactMatch
  <2>2. u \in Available
    BY <2>1 DEF Exact
  <2> QED
    BY <1>6, <1>7, <1>9, <2>1, <2>2 DEF ExactMatch
<1>10. CASE StartBatch
  BY <1>0, <1>10 DEF StartBatch, batch, Inv, TypeOK, Batched
<1>11. CASE Push
  <2>1. PICK u \in Available \ utxos : utxos' = utxos \union {u} /\ spend' = spend + note[u].value
    BY <1>11 DEF Push
  <2>2. utxos \subseteq Available
    BY <1>4, <1>11 DEF Inv, Batched, Push
  <2>3. note[u].value \in Nat
    BY <1>6, <2>1, TreesAreNumbers DEF Inv
  <2>4. spend' \in Nat
    BY <2>1, <2>3 DEF Inv, TypeOK
  <2> QED
    BY <1>6, <1>11, <2>1, <2>2, <2>4 DEF Push
<1>12. CASE EndBatch
  <2>1. utxos \subseteq Available /\ Available # {}
    BY <1>4, <1>12 DEF Inv, Batched, EndBatch
  <2>2. utxos # {}
    <3>1. SUFFICES ASSUME utxos = {} PROVE ShouldAddMoreUTXOs
      BY <1>12 DEF EndBatch
    <3>2. spend < Primary.value
      BY <1>5, <1>7, <3>1 DEF Inv, Batched
    <3>3. Cardinality(utxos) < MaxInputs
      BY <3>1, FS_EmptySet, LimitsArePositive
    <3>4. Available \ utxos # {}
      BY <2>1, <3>1
    <3> QED
      BY <3>2, <3>3, <3>4 DEF ShouldAddMoreUTXOs
  <2> QED
    BY <1>12, <2>1, <2>2 DEF EndBatch, batch, Inv, TypeOK, Batched
<1> QED
  BY <1>9, <1>10, <1>11, <1>12

LEMMA PayPartStep ==
  ASSUME Inv, PayPart
  PROVE  Inv'
<1> DEFINE part == [Primary EXCEPT !.value = spend]
           less == [remaining EXCEPT ![1].value = @ - spend]
<1>1. /\ stage = "group" /\ spend < Primary.value /\ AddGroup(<<part>>, spend)
      /\ remaining' = less /\ stage' = "trees"
  BY DEF PayPart
<1>2. /\ remaining # <<>> /\ remaining \in Seq(Payment) /\ spend \in Nat
  BY <1>1 DEF Inv, TypeOK, Batched, Paying
<1>3. Primary \in Payment /\ Len(remaining) \in Nat \ {0} /\ DOMAIN remaining = 1..Len(remaining)
  BY <1>2, Heads
<1>4. part \in Payment
  BY <1>2, <1>3 DEF Payment
<1>5. Primary.value - spend \in Nat /\ Primary.value - spend > 0
  BY <1>1, <1>2, <1>3 DEF Payment
<1>6. less \in Seq(Payment) /\ less[1].value = Primary.value - spend /\ less # <<>>
  <2> DEFINE v == [Primary EXCEPT !.value = Primary.value - spend]
  <2>1. v \in Payment /\ v.value = Primary.value - spend
    BY <1>3, <1>5 DEF Payment
  <2>2. less = [remaining EXCEPT ![1] = v]
    BY DEF Primary
  <2> HIDE DEF v, less
  <2>3. 1 \in 1..Len(remaining)
    BY <1>3
  <2>4. remaining \in [1..Len(remaining) -> Payment]
    BY <1>2, <1>3, ElementOfSeq
  <2>5. less \in [1..Len(remaining) -> Payment]
    BY <2>1, <2>2, <2>4
  <2>6. less \in Seq(Payment)
    BY <1>3, <2>5, SeqDef
  <2>7. less[1] = v
    BY <2>2, <2>3, <2>4
  <2>8. 1 \in DOMAIN less
    BY <2>3, <2>5
  <2> QED
    BY <2>1, <2>6, <2>7, <2>8
<1> HIDE DEF part, less
<1>7. /\ groups' \in Seq(Group) /\ excluded' \subseteq Utxo /\ NoUtxoSpentTwice' /\ Booked'
  <2> DEFINE outs == <<part>>
  <2>1. outs \in Seq(Payment)
    BY <1>4
  <2>2. AddGroup(outs, spend) /\ stage' \in {"trees", "outputs"}
    BY <1>1
  <2> HIDE DEF outs
  <2> QED
    BY <1>1, <1>2, <2>1, <2>2, BatchBecomesGroup
<1>8. /\ UNCHANGED <<wallet, unshielding, treesLeft>> /\ utxos' = {} /\ spend' = 0
      /\ excluded' = excluded \union utxos
  BY <1>1 DEF AddGroup
<1>9. TypeOK'
  BY <1>1, <1>6, <1>7, <1>8, SameWallet DEF Inv, TypeOK
<1>10. Batched'
  BY <1>1, <1>5, <1>6, <1>8 DEF Batched, Primary, Paying
<1>11. Left'
  BY <1>1, <1>8, SameWallet DEF Inv, Left, Paying
<1> QED
  BY <1>7, <1>9, <1>10, <1>11 DEF Inv

\* The two ways in which an output is paid in full.
LEMMA PayFullSteps ==
  ASSUME Inv, PayRest \/ PaySecondary
  PROVE  Inv'
<1>1. stage = "group" /\ stage' = "outputs" /\ spend >= Primary.value
  BY DEF PayRest, PaySecondary
<1>2. remaining # <<>> /\ remaining \in Seq(Payment) /\ spend \in Nat
  BY <1>1 DEF Inv, TypeOK, Batched, Paying
<1>3. /\ Primary \in Payment /\ Len(remaining) \in Nat \ {0}
      /\ DOMAIN remaining = 1..Len(remaining)
      /\ Tail(remaining) \in Seq(Payment) /\ Len(Tail(remaining)) = Len(remaining) - 1
  BY <1>2, Heads
<1>4. /\ remaining' \in Seq(Payment)
      /\ \E outs \in Seq(Payment) : \E n \in Nat : AddGroup(outs, n)
  <2>1. CASE PayRest
    <3>1. AddGroup(<<Primary>>, Primary.value) /\ remaining' = Tail(remaining)
      BY <2>1 DEF PayRest
    <3>2. <<Primary>> \in Seq(Payment) /\ Primary.value \in Nat
      BY <1>2, <1>3, Heads DEF Payment
    <3> QED
      BY <1>3, <3>1, <3>2
  <2>2. CASE PaySecondary
    <3>1. Len(remaining) > 1 /\ Change > 0
      BY <2>2 DEF PaySecondary, UsesChange
    <3>2. Secondary \in Payment
      BY <1>2, <1>3, <3>1, ElementOfSeq DEF Secondary
    <3>3. Change \in Nat
      BY <1>1, <1>2, <1>3 DEF Change, Payment
    <3>4. Tail(remaining) # <<>>
      <4> DEFINE rest == Tail(remaining)
      <4>1. Len(rest) > 0
        BY <1>3, <3>1
      <4> HIDE DEF rest
      <4>2. rest # <<>>
        BY <4>1
      <4> QED
        BY <4>2 DEF rest
    <3>5. Tail(Tail(remaining)) \in Seq(Payment)
      BY <1>3, <3>4, HeadTailProperties
    <3>6. CASE Secondary.value < Change
      <4>1. AddGroup(<<Primary, Secondary>>, 0) /\ remaining' = Tail(Tail(remaining))
        BY <2>2, <3>6 DEF PaySecondary
      <4>2. <<Primary, Secondary>> \in Seq(Payment)
        BY <1>3, <3>2
      <4> QED
        BY <3>5, <4>1, <4>2
    <3>7. CASE ~(Secondary.value < Change)
      <4> DEFINE part == [Secondary EXCEPT !.value = Change]
                 less == [remaining EXCEPT ![2].value = @ - Change]
      <4>1. part \in Payment
        BY <3>2, <3>3 DEF Payment
      <4>2. /\ AddGroup(<<Primary, part>>, 0)
            /\ remaining' = IF Secondary.value > Change THEN Tail(less) ELSE Tail(Tail(remaining))
        BY <2>2, <3>7 DEF PaySecondary
      <4>3. <<Primary, part>> \in Seq(Payment)
        BY <1>3, <4>1
      <4>4. Secondary.value > Change => Tail(less) \in Seq(Payment)
        <5> DEFINE v == [Secondary EXCEPT !.value = Secondary.value - Change]
        <5>1. SUFFICES ASSUME Secondary.value > Change PROVE Tail(less) \in Seq(Payment)
          OBVIOUS
        <5>2. v \in Payment
          BY <3>2, <3>3, <5>1 DEF Payment
        <5>3. less = [remaining EXCEPT ![2] = v]
          BY DEF Secondary
        <5> HIDE DEF v, less
        <5>4. 2 \in 1..Len(remaining)
          BY <1>3, <3>1
        <5>5. remaining \in [1..Len(remaining) -> Payment]
          BY <1>2, <1>3, ElementOfSeq
        <5>6. less \in [1..Len(remaining) -> Payment]
          BY <5>2, <5>3, <5>5
        <5>7. less \in Seq(Payment)
          BY <1>3, <5>6, SeqDef
        <5>8. 2 \in DOMAIN less
          BY <5>4, <5>6
        <5>9. less # <<>>
          BY <5>8
        <5> QED
          BY <5>7, <5>9, HeadTailProperties
      <4> HIDE DEF part, less
      <4> QED
        BY <3>5, <4>2, <4>3, <4>4
    <3> QED
      BY <3>6, <3>7
  <2> QED
    BY <2>1, <2>2
<1>5. PICK outs \in Seq(Payment) : \E n \in Nat : AddGroup(outs, n)
  BY <1>4
<1>6. PICK n \in Nat : AddGroup(outs, n)
  BY <1>5
<1>7. /\ groups' \in Seq(Group) /\ excluded' \subseteq Utxo /\ NoUtxoSpentTwice' /\ Booked'
  BY <1>1, <1>6, BatchBecomesGroup
<1>8. /\ UNCHANGED <<wallet, unshielding, treesLeft>> /\ utxos' = {} /\ spend' = 0
  BY <1>6 DEF AddGroup
<1>9. TypeOK'
  BY <1>1, <1>4, <1>7, <1>8, SameWallet DEF Inv, TypeOK
<1>10. Batched' /\ Left'
  BY <1>1, <1>8 DEF Batched, Left, Paying
<1> QED
  BY <1>7, <1>9, <1>10 DEF Inv

LEMMA EndSteps ==
  ASSUME Inv, StartUnshield \/ AllPaid \/ Build
  PROVE  Inv'
<1>1. /\ UNCHANGED <<wallet, treesLeft, batch, excluded, groups>>
      /\ stage \in {"outputs", "build"}
      /\ stage' \in {"outputs", "build", "done", "tooManyOutputs"}
      /\ stage' = "outputs" => stage = "outputs"
  BY DEF StartUnshield, AllPaid, Build
<1>2. remaining' \in Seq(Payment) /\ unshielding' \in BOOLEAN
  <2>1. request.unshield \in Nat
    BY RequestsAreTyped DEF Inv, TypeOK
  <2>2. CASE StartUnshield
    <3> DEFINE p == [output |-> Unshield, value |-> request.unshield]
    <3>1. p \in Payment
      BY <2>1 DEF Payment, Unshield
    <3>2. remaining' = <<p>> /\ unshielding' = TRUE
      BY <2>2 DEF StartUnshield
    <3> HIDE DEF p
    <3> QED
      BY <3>1, <3>2
  <2>3. CASE AllPaid \/ Build
    BY <2>3 DEF AllPaid, Build, Inv, TypeOK
  <2> QED
    BY <2>2, <2>3
<1>3. TypeOK'
  BY <1>1, <1>2, SameWallet DEF Inv, TypeOK, batch, Verdicts
<1>4. NoUtxoSpentTwice' /\ Booked' /\ Batched' /\ Left'
  BY <1>1 DEF Inv, NoUtxoSpentTwice, Booked, Batched, Left, batch, Searching, Paying
<1> QED
  BY <1>3, <1>4 DEF Inv

LEMMA Stutters ==
  ASSUME Inv, UNCHANGED vars
  PROVE  Inv'
<1>1. /\ UNCHANGED <<wallet, note, request, stage, unshielding, remaining, treesLeft, utxos,
                     spend, excluded, groups>>
      /\ SpendingTrees' = SpendingTrees /\ \A t : NonZero(t)' = NonZero(t)
  BY SameWallet DEF vars, wallet, batch
<1>2. SpendingTree' = SpendingTree /\ Available' = Available /\ Primary' = Primary
  BY <1>1 DEF SpendingTree, Available, Primary
<1>3. TypeOK' /\ NoUtxoSpentTwice' /\ Booked' /\ Left'
  BY <1>1 DEF Inv, TypeOK, NoUtxoSpentTwice, Booked, Left
<1>4. Batched'
  BY <1>1, <1>2 DEF Inv, Batched
<1> QED
  BY <1>3, <1>4 DEF Inv

-----------------------------------------------------------------------------
\* The invariant holds of every batch, for any notes, trees, request and limits.
THEOREM SelectionInvariant == Spec => []Inv
<1>1. Init => Inv
  <2>1. SUFFICES ASSUME Init PROVE Inv
    OBVIOUS
  <2>2. TypeOK
    <3>1. remaining \in Seq(Payment) /\ groups \in Seq(Group)
      BY <2>1, EmptySeq DEF Init
    <3> QED
      BY <2>1, <3>1 DEF Init, TypeOK
  <2>3. NoUtxoSpentTwice /\ Booked /\ Batched /\ Left
    BY <2>1 DEF Init, NoUtxoSpentTwice, Booked, Batched, Left, Searching, Paying
  <2> QED
    BY <2>2, <2>3 DEF Inv
<1>2. Inv /\ [Next]_vars => Inv'
  <2>1. SUFFICES ASSUME Inv, [Next]_vars PROVE Inv'
    OBVIOUS
  <2>2. CASE TooLow \/ Simple \/ Complex
    BY <2>1, <2>2, StartSteps
  <2>3. CASE ZeroOutput
    BY <2>1, <2>3, ZeroOutputStep
  <2>4. CASE StartOutput \/ NextTree \/ Exhausted
    BY <2>1, <2>4, TreeSteps
  <2>5. CASE ExactMatch \/ StartBatch \/ Push \/ EndBatch
    BY <2>1, <2>5, BatchSteps
  <2>6. CASE PayPart
    BY <2>1, <2>6, PayPartStep
  <2>7. CASE PayRest \/ PaySecondary
    BY <2>1, <2>7, PayFullSteps
  <2>8. CASE StartUnshield \/ AllPaid \/ Build
    BY <2>1, <2>8, EndSteps
  <2>9. CASE Answered \/ UNCHANGED vars
    BY <2>1, <2>9, Stutters DEF Answered
  <2> QED
    BY <2>1, <2>2, <2>3, <2>4, <2>5, <2>6, <2>7, <2>8, <2>9 DEF Next
<1> QED
  BY <1>1, <1>2, PTL DEF Spec

\* Every value is of its type.
THEOREM SelectionTypes == Spec => []TypeOK
<1>1. Inv => TypeOK
  BY DEF Inv
<1> QED
  BY <1>1, SelectionInvariant, PTL

\* No note is an input of two transactions of a batch.
THEOREM NothingIsSpentTwice == Spec => []NoUtxoSpentTwice
<1>1. Inv => NoUtxoSpentTwice
  BY DEF Inv
<1> QED
  BY <1>1, SelectionInvariant, PTL

\* A batch fails for want of notes only when all of them are taken.
THEOREM NoNoteIsOverlooked == Spec => []FailsOnlyWhenExhausted
<1>1. Inv => FailsOnlyWhenExhausted
  <2>1. SUFFICES ASSUME Inv, stage = "utxosExhausted", NEW u \in Utxo, note[u].value # 0
        PROVE  \E i \in DOMAIN groups : u \in groups[i].utxos
    BY DEF FailsOnlyWhenExhausted
  <2>2. note[u].tree \in SpendingTrees /\ u \in NonZero(note[u].tree)
    BY <2>1 DEF SpendingTrees, NonZero
  <2>3. u \in excluded
    BY <2>1, <2>2 DEF Inv, Left
  <2> QED
    BY <2>1, <2>3 DEF Inv, Booked
<1> QED
  BY <1>1, SelectionInvariant, PTL

-----------------------------------------------------------------------------
(* Sums over finite sets.  The sums of the model are MapThenSumSet, a function
   that is defined by recursion over the subsets of the set.  That it exists, and
   that the order of the elements does not matter, is shown here by induction on
   the size of a subset: a set of numbers with 0 and all successors is Nat.       *)

Pick(s) == CHOOSE x \in s : TRUE

SumStep(f, g, s) == IF s = {} THEN 0 ELSE f[Pick(s)] + g[s \ {Pick(s)}]

\* g has the sums of f over the subsets of S that have at most n elements
Small(S, n) == {s \in SUBSET S : Cardinality(s) <= n}
IsSmallSum(g, f, S, n) == g = [s \in Small(S, n) |-> SumStep(f, g, s)]

IsSum(g, f, S) == g = [s \in SUBSET S |-> SumStep(f, g, s)]

Total(f, S) == (CHOOSE g : IsSum(g, f, S))[S]

LEMMA AllNaturals ==
  ASSUME NEW X, 0 \in X, \A n \in Nat : n \in X => n + 1 \in X
  PROVE  \A n \in Nat : n \in X
<1> DEFINE R == OpToRel(<, Nat)
           T == {n \in Nat : n \notin X}
<1>1. IsWellFoundedOn(R, Nat)
  BY NatLessThanWellFounded
<1>2. \A m, n \in Nat : m < n => <<m, n>> \in R
  BY DEF OpToRel
<1> HIDE DEF R
<1> SUFFICES ASSUME T # {} PROVE FALSE
  OBVIOUS
<1>3. PICK n \in T : \A m \in T : ~ (<<m, n>> \in R)
  <2>1. T \subseteq Nat
    OBVIOUS
  <2> HIDE DEF T
  <2> QED
    BY <1>1, <2>1, WFMin
<1>4. n # 0 /\ n - 1 \in Nat /\ n - 1 < n
  BY <1>3
<1>5. n - 1 \in X
  BY <1>2, <1>3, <1>4
<1> QED
  BY <1>3, <1>4, <1>5

LEMMA Picked ==
  ASSUME NEW S, IsFiniteSet(S), NEW s \in SUBSET S, s # {}
  PROVE  /\ Pick(s) \in s /\ s \ {Pick(s)} \in SUBSET S
         /\ IsFiniteSet(s) /\ Cardinality(s) \in Nat \ {0}
         /\ Cardinality(s \ {Pick(s)}) = Cardinality(s) - 1
<1>1. Pick(s) \in s
  BY DEF Pick
<1>2. IsFiniteSet(s)
  BY FS_Subset
<1>3. Cardinality(s) \in Nat /\ Cardinality(s) # 0
  BY <1>2, FS_CardinalityType, FS_EmptySet
<1> QED
  BY <1>1, <1>2, <1>3, FS_RemoveElement

LEMMA SmallSumExists ==
  ASSUME NEW S, IsFiniteSet(S), NEW f
  PROVE  \A n \in Nat : \E g : IsSmallSum(g, f, S, n)
<1> DEFINE X == {n \in Nat : \E g : IsSmallSum(g, f, S, n)}
<1>1. 0 \in X
  <2> DEFINE g == [s \in Small(S, 0) |-> 0]
  <2>1. \A s \in Small(S, 0) : s = {}
    BY FS_Subset, FS_EmptySet, FS_CardinalityType DEF Small
  <2>2. IsSmallSum(g, f, S, 0)
    BY <2>1 DEF IsSmallSum, SumStep
  <2> QED
    BY <2>2
<1>2. ASSUME NEW n \in Nat, n \in X PROVE n + 1 \in X
  <2>1. PICK g : IsSmallSum(g, f, S, n)
    BY <1>2
  <2> DEFINE h == [s \in Small(S, n + 1) |-> SumStep(f, g, s)]
  <2>2. \A s \in Small(S, n) : s \in Small(S, n + 1) /\ h[s] = g[s]
    <3>1. \A s \in Small(S, n) : s \in Small(S, n + 1)
      <4> SUFFICES ASSUME NEW s \in Small(S, n) PROVE s \in Small(S, n + 1)
        OBVIOUS
      <4>1. Cardinality(s) \in Nat /\ Cardinality(s) <= n /\ s \in SUBSET S
        BY FS_Subset, FS_CardinalityType DEF Small
      <4> QED
        BY <4>1 DEF Small
    <3>2. \A s \in Small(S, n) : g[s] = SumStep(f, g, s)
      BY <2>1 DEF IsSmallSum
    <3> QED
      BY <3>1, <3>2
  <2> HIDE DEF h
  <2>3. \A s \in Small(S, n + 1) : SumStep(f, h, s) = SumStep(f, g, s)
    <3> SUFFICES ASSUME NEW s \in Small(S, n + 1), s # {}
                 PROVE  h[s \ {Pick(s)}] = g[s \ {Pick(s)}]
      BY DEF SumStep
    <3>1. s \ {Pick(s)} \in Small(S, n)
      BY Picked DEF Small
    <3> QED
      BY <2>2, <3>1
  <2>4. IsSmallSum(h, f, S, n + 1)
    BY <2>3 DEF IsSmallSum, h
  <2> QED
    BY <2>4
<1> HIDE DEF X
<1>3. \A n \in Nat : n \in X
  BY <1>1, <1>2, AllNaturals
<1> QED
  BY <1>3 DEF X

LEMMA SumExists ==
  ASSUME NEW S, IsFiniteSet(S), NEW f
  PROVE  IsSum(CHOOSE g : IsSum(g, f, S), f, S)
<1>1. Cardinality(S) \in Nat
  BY FS_CardinalityType
<1>2. PICK g : IsSmallSum(g, f, S, Cardinality(S))
  BY <1>1, SmallSumExists
<1>3. Small(S, Cardinality(S)) = SUBSET S
  BY FS_Subset DEF Small
<1>4. IsSum(g, f, S)
  BY <1>2, <1>3 DEF IsSmallSum, IsSum
<1> QED
  BY <1>4

LEMMA SumIs ==
  ASSUME NEW S, IsFiniteSet(S), NEW f, NEW g, IsSum(g, f, S)
  PROVE  /\ g[{}] = 0
         /\ \A s \in SUBSET S : s # {} => g[s] = f[Pick(s)] + g[s \ {Pick(s)}]
<1>1. \A s \in SUBSET S : g[s] = SumStep(f, g, s)
  BY DEF IsSum
<1> QED
  BY <1>1 DEF SumStep

\* To show something of all subsets, by their number of elements
LEMMA AllSubsets ==
  ASSUME NEW S, IsFiniteSet(S), NEW P, {} \in P,
         \A s \in SUBSET S : s # {} /\ s \ {Pick(s)} \in P => s \in P
  PROVE  \A s \in SUBSET S : s \in P
<1> DEFINE X == {n \in Nat : \A s \in SUBSET S : Cardinality(s) = n => s \in P}
<1>1. 0 \in X
  BY FS_EmptySet, FS_Subset
<1>2. ASSUME NEW n \in Nat, n \in X PROVE n + 1 \in X
  <2> SUFFICES ASSUME NEW s \in SUBSET S, Cardinality(s) = n + 1 PROVE s \in P
    OBVIOUS
  <2>1. s # {}
    BY FS_EmptySet
  <2>2. s \ {Pick(s)} \in SUBSET S /\ Cardinality(s \ {Pick(s)}) = n
    BY <2>1, Picked
  <2> QED
    BY <1>2, <2>1, <2>2
<1> HIDE DEF X
<1>3. \A n \in Nat : n \in X
  BY <1>1, <1>2, AllNaturals
<1>4. \A s \in SUBSET S : Cardinality(s) \in Nat
  BY FS_Subset, FS_CardinalityType
<1> QED
  BY <1>3, <1>4 DEF X

\* Of which element a sum takes first, nothing depends
LEMMA SumAdds ==
  ASSUME NEW S, IsFiniteSet(S), NEW f, \A x \in S : f[x] \in Int, NEW g, IsSum(g, f, S)
  PROVE  /\ \A s \in SUBSET S : g[s] \in Int
         /\ \A s \in SUBSET S : \A x \in S \ s : g[s \union {x}] = f[x] + g[s]
<1>1. g[{}] = 0 /\ \A s \in SUBSET S : s # {} => g[s] = f[Pick(s)] + g[s \ {Pick(s)}]
  BY SumIs
<1>2. \A s \in SUBSET S : s # {} => Pick(s) \in s
  BY DEF Pick
<1>3. \A s \in SUBSET S : g[s] \in Int
  <2> DEFINE P == {s \in SUBSET S : g[s] \in Int}
  <2>1. {} \in P
    BY <1>1
  <2>2. ASSUME NEW s \in SUBSET S, s # {}, s \ {Pick(s)} \in P PROVE s \in P
    <3>1. f[Pick(s)] \in Int /\ g[s \ {Pick(s)}] \in Int
      BY <1>2, <2>2
    <3>2. g[s] = f[Pick(s)] + g[s \ {Pick(s)}]
      BY <1>1, <2>2
    <3> QED
      BY <3>1, <3>2
  <2> HIDE DEF P
  <2>3. \A s \in SUBSET S : s \in P
    BY <2>1, <2>2, AllSubsets
  <2> QED
    BY <2>3 DEF P
<1>4. \A s \in SUBSET S : \A x \in S \ s : g[s \union {x}] = f[x] + g[s]
  <2> DEFINE Adds(s) == \A x \in S \ s : g[s \union {x}] = f[x] + g[s]
             P == {s \in SUBSET S : \A t \in SUBSET s : Adds(t)}
             X == {n \in Nat : \A s \in SUBSET S : Cardinality(s) = n => Adds(s)}
  <2>1. 0 \in X
    <3> SUFFICES ASSUME NEW s \in SUBSET S, Cardinality(s) = 0, NEW x \in S \ s
                 PROVE  g[s \union {x}] = f[x] + g[s]
      OBVIOUS
    <3>1. s = {} /\ s \union {x} = {x} /\ {x} \in SUBSET S /\ Pick({x}) = x
      BY FS_EmptySet, FS_Subset DEF Pick
    <3>2. {x} \ {x} = {} /\ {x} # {}
      OBVIOUS
    <3> QED
      BY <1>1, <3>1, <3>2
  <2>2. ASSUME NEW n \in Nat, n \in X PROVE n + 1 \in X
    <3> SUFFICES ASSUME NEW s \in SUBSET S, Cardinality(s) = n + 1, NEW x \in S \ s
                 PROVE  g[s \union {x}] = f[x] + g[s]
      OBVIOUS
    <3>1. PICK u \in SUBSET S : u = s \union {x} /\ u # {}
      OBVIOUS
    <3>2. PICK p \in u : p = Pick(u)
      BY <1>2, <3>1
    <3>3. g[u] = f[p] + g[u \ {p}]
      BY <1>1, <3>1, <3>2
    <3>4. CASE p = x
      <4>1. u \ {p} = s
        BY <3>1, <3>4
      <4> QED
        BY <3>1, <3>3, <3>4, <4>1
    <3>5. CASE p # x
      <4>0. p \in s /\ p \in S /\ x \in S /\ x \notin s
        BY <3>1, <3>2, <3>5
      <4>1a. PICK r \in SUBSET S : r = s \ {p}
        OBVIOUS
      <4>1. r = s \ {p} /\ p \notin r /\ x \notin r
        BY <4>0, <4>1a
      <4>2. u \ {p} = r \union {x} /\ s = r \union {p}
        BY <3>1, <3>2, <3>5, <4>1
      <4>3. Cardinality(r) = n
        <5>1. IsFiniteSet(s)
          BY FS_Subset
        <5>2. Cardinality(s \ {p}) = Cardinality(s) - 1
          BY <4>0, <5>1, FS_RemoveElement
        <5> QED
          BY <4>1, <5>2
      <4>4. g[r \union {x}] = f[x] + g[r] /\ g[r \union {p}] = f[p] + g[r]
        BY <2>2, <4>0, <4>1, <4>3
      <4>5. g[r] \in Int /\ f[p] \in Int /\ f[x] \in Int
        BY <1>3, <4>0
      <4>6. g[u] = f[p] + (f[x] + g[r]) /\ g[s] = f[p] + g[r]
        BY <3>3, <4>2, <4>4
      <4> QED
        BY <3>1, <4>5, <4>6
    <3> QED
      BY <3>4, <3>5
  <2> HIDE DEF X
  <2>3. \A n \in Nat : n \in X
    BY <2>1, <2>2, AllNaturals
  <2>4. \A s \in SUBSET S : Cardinality(s) \in Nat
    BY FS_Subset, FS_CardinalityType
  <2> QED
    BY <2>3, <2>4 DEF X
<1> QED
  BY <1>3, <1>4

\* The sum over a subset is the same in every set, for values that are the same
LEMMA SumsAgree ==
  ASSUME NEW S, IsFiniteSet(S), NEW f, NEW g, IsSum(g, f, S),
         NEW R, IsFiniteSet(R), NEW e, NEW h, IsSum(h, e, R),
         NEW T \in SUBSET S, T \subseteq R, \A x \in T : f[x] = e[x]
  PROVE  g[T] = h[T]
<1> DEFINE P == {s \in SUBSET T : g[s] = h[s]}
<1>1. IsFiniteSet(T)
  BY FS_Subset
<1>2. {} \in P
  BY SumIs
<1>3. ASSUME NEW s \in SUBSET T, s # {}, s \ {Pick(s)} \in P PROVE s \in P
  <2>1. Pick(s) \in s
    BY <1>3 DEF Pick
  <2>2. g[s] = f[Pick(s)] + g[s \ {Pick(s)}]
    BY <1>3, SumIs
  <2>3. s \in SUBSET R
    OBVIOUS
  <2>4. h[s] = e[Pick(s)] + h[s \ {Pick(s)}]
    BY <1>3, <2>3, SumIs
  <2>5. f[Pick(s)] = e[Pick(s)] /\ g[s \ {Pick(s)}] = h[s \ {Pick(s)}]
    BY <1>3, <2>1
  <2> QED
    BY <2>2, <2>4, <2>5
<1> HIDE DEF P
<1>4. \A s \in SUBSET T : s \in P
  BY <1>1, <1>2, <1>3, AllSubsets
<1> QED
  BY <1>4 DEF P

\* What is used of sums
LEMMA TotalEmpty ==
  ASSUME NEW f
  PROVE  Total(f, {}) = 0
BY SumExists, SumIs, FS_EmptySet DEF Total

LEMMA TotalSame ==
  ASSUME NEW S, IsFiniteSet(S), NEW f, NEW e, \A x \in S : f[x] = e[x]
  PROVE  Total(f, S) = Total(e, S)
<1>1. PICK g : g = (CHOOSE k : IsSum(k, f, S)) /\ IsSum(g, f, S)
  BY SumExists
<1>2. PICK h : h = (CHOOSE k : IsSum(k, e, S)) /\ IsSum(h, e, S)
  BY SumExists
<1>3. g[S] = h[S]
  BY <1>1, <1>2, SumsAgree
<1> QED
  BY <1>1, <1>2, <1>3 DEF Total

LEMMA TotalAdds ==
  ASSUME NEW S, IsFiniteSet(S), NEW x, x \notin S, NEW f, \A y \in S \union {x} : f[y] \in Int
  PROVE  /\ Total(f, S \union {x}) = f[x] + Total(f, S)
         /\ Total(f, S) \in Int
<1>1. IsFiniteSet(S \union {x}) /\ S \in SUBSET (S \union {x}) /\ x \in (S \union {x}) \ S
  BY FS_AddElement
<1>2. PICK g : g = (CHOOSE k : IsSum(k, f, S)) /\ IsSum(g, f, S)
  BY SumExists
<1>3. PICK h : h = (CHOOSE k : IsSum(k, f, S \union {x})) /\ IsSum(h, f, S \union {x})
  BY <1>1, SumExists
<1>4. h[S] \in Int /\ h[S \union {x}] = f[x] + h[S]
  <2>1. PICK R : R = S \union {x}
    OBVIOUS
  <2>2. IsFiniteSet(R) /\ (\A y \in R : f[y] \in Int) /\ IsSum(h, f, R)
    BY <1>1, <1>3, <2>1
  <2>3. S \in SUBSET R /\ x \in R \ S
    BY <2>1
  <2>4. (\A s \in SUBSET R : h[s] \in Int)
        /\ \A s \in SUBSET R : \A y \in R \ s : h[s \union {y}] = f[y] + h[s]
    BY <2>2, SumAdds
  <2> QED
    BY <2>3, <2>4
<1>5. g[S] = h[S]
  BY <1>1, <1>2, <1>3, SumsAgree
<1> QED
  BY <1>2, <1>3, <1>4, <1>5 DEF Total

LEMMA TotalOne ==
  ASSUME NEW x, NEW f, f[x] \in Int
  PROVE  Total(f, {x}) = f[x]
<1>1. {} \union {x} = {x} /\ x \notin {} /\ IsFiniteSet({})
  BY FS_EmptySet
<1>2. Total(f, {} \union {x}) = f[x] + Total(f, {})
  BY <1>1, TotalAdds
<1> QED
  BY <1>1, <1>2, TotalEmpty

\* To show something of a finite set, by adding one element after the other
LEMMA AllParts ==
  ASSUME NEW S, IsFiniteSet(S), NEW P, {} \in P,
         \A s \in SUBSET S : \A x \in S \ s : s \in P => s \union {x} \in P
  PROVE  S \in P
<1>1. \A s \in SUBSET S : s # {} /\ s \ {Pick(s)} \in P => s \in P
  <2> SUFFICES ASSUME NEW s \in SUBSET S, s # {}, s \ {Pick(s)} \in P PROVE s \in P
    OBVIOUS
  <2>1. PICK x \in s : x = Pick(s)
    BY DEF Pick
  <2>2. PICK r \in SUBSET S : r = s \ {x}
    OBVIOUS
  <2>3. x \in S \ r /\ r \union {x} = s
    BY <2>2
  <2> QED
    BY <2>1, <2>2, <2>3
<1>2. \A s \in SUBSET S : s \in P
  BY <1>1, AllSubsets
<1> QED
  BY <1>2

LEMMA TotalInt ==
  ASSUME NEW S, IsFiniteSet(S), NEW f, \A x \in S : f[x] \in Int
  PROVE  /\ Total(f, S) \in Int
         /\ (\A x \in S : f[x] >= 0) => Total(f, S) \in Nat
<1> DEFINE P == {s \in SUBSET S : /\ Total(f, s) \in Int
                                  /\ (\A x \in S : f[x] >= 0) => Total(f, s) >= 0}
<1>1. {} \in P
  BY TotalEmpty
<1>2. ASSUME NEW s \in SUBSET S, NEW x \in S \ s, s \in P PROVE s \union {x} \in P
  <2>1. IsFiniteSet(s) /\ x \notin s /\ (\A y \in s \union {x} : f[y] \in Int)
    BY FS_Subset
  <2>2. Total(f, s \union {x}) = f[x] + Total(f, s) /\ Total(f, s) \in Int /\ f[x] \in Int
    BY <2>1, TotalAdds
  <2>3. (\A y \in S : f[y] >= 0) => Total(f, s) >= 0
    BY <1>2
  <2> QED
    BY <2>2, <2>3
<1> HIDE DEF P
<1>3. S \in P
  BY <1>1, <1>2, AllParts
<1> QED
  BY <1>3 DEF P

LEMMA TotalJoins ==
  ASSUME NEW S, IsFiniteSet(S), NEW T, IsFiniteSet(T), S \intersect T = {},
         NEW f, \A x \in S \union T : f[x] \in Int
  PROVE  Total(f, S \union T) = Total(f, S) + Total(f, T)
<1> DEFINE P == {t \in SUBSET T : Total(f, S \union t) = Total(f, S) + Total(f, t)}
<1>0. Total(f, S) \in Int
  BY TotalInt
<1>1. {} \in P
  <2>1. S \union {} = S
    OBVIOUS
  <2> QED
    BY <1>0, <2>1, TotalEmpty
<1>2. ASSUME NEW t \in SUBSET T, NEW x \in T \ t, t \in P PROVE t \union {x} \in P
  <2>1. IsFiniteSet(t)
    BY FS_Subset
  <2>2. PICK u : u = S \union t
    OBVIOUS
  <2>3. IsFiniteSet(u) /\ x \notin u /\ x \notin t /\ (\A y \in u \union {x} : f[y] \in Int)
        /\ (\A y \in t \union {x} : f[y] \in Int) /\ f[x] \in Int
    BY <2>1, <2>2, FS_Union
  <2>4. Total(f, u \union {x}) = f[x] + Total(f, u)
    BY <2>3, TotalAdds
  <2>5. Total(f, t \union {x}) = f[x] + Total(f, t) /\ Total(f, t) \in Int
    BY <2>1, <2>3, TotalAdds
  <2>6. S \union (t \union {x}) = u \union {x}
    BY <2>2
  <2>7. Total(f, u) = Total(f, S) + Total(f, t)
    BY <1>2, <2>2
  <2>8. Total(f, S \union (t \union {x})) = f[x] + (Total(f, S) + Total(f, t))
    BY <2>4, <2>6, <2>7, Zenon
  <2>9. Total(f, S \union (t \union {x})) = Total(f, S) + Total(f, t \union {x})
    BY <1>0, <2>3, <2>5, <2>8
  <2> QED
    BY <2>9
<1> HIDE DEF P
<1>3. T \in P
  BY <1>1, <1>2, AllParts
<1> QED
  BY <1>3 DEF P

\* More things of no negative value are not worth less
LEMMA TotalGrows ==
  ASSUME NEW T, IsFiniteSet(T), NEW S \in SUBSET T, NEW f, \A x \in T : f[x] \in Nat
  PROVE  Total(f, S) <= Total(f, T)
<1>1. PICK R : R = T \ S
  OBVIOUS
<1>2. IsFiniteSet(S) /\ IsFiniteSet(R) /\ S \intersect R = {} /\ S \union R = T
  <2>1. R \in SUBSET T
    BY <1>1
  <2> QED
    BY <1>1, <2>1, FS_Subset
<1>3. Total(f, S \union R) = Total(f, S) + Total(f, R)
  BY <1>2, TotalJoins
<1>4. Total(f, S) \in Nat /\ Total(f, R) \in Nat
  BY <1>2, TotalInt
<1>5. Total(f, T) = Total(f, S) + Total(f, R)
  BY <1>2, <1>3, Zenon
<1> QED
  BY <1>4, <1>5

\* What is worth nothing adds nothing
LEMMA TotalIgnores ==
  ASSUME NEW T, IsFiniteSet(T), NEW S \in SUBSET T, NEW f, \A x \in T : f[x] \in Int,
         \A x \in T \ S : f[x] = 0
  PROVE  Total(f, S) = Total(f, T)
<1> DEFINE R == T \ S
           P == {r \in SUBSET R : Total(f, r) = 0}
<1>1. IsFiniteSet(S) /\ IsFiniteSet(R) /\ S \intersect R = {} /\ S \union R = T
  BY FS_Subset
<1>2. {} \in P
  BY TotalEmpty
<1>3. ASSUME NEW r \in SUBSET R, NEW x \in R \ r, r \in P PROVE r \union {x} \in P
  <2>1. IsFiniteSet(r) /\ x \notin r /\ (\A y \in r \union {x} : f[y] \in Int) /\ f[x] = 0
    BY <1>1, FS_Subset
  <2>2. Total(f, r \union {x}) = f[x] + Total(f, r)
    BY <2>1, TotalAdds
  <2> QED
    BY <1>3, <2>1, <2>2
<1>4. R \in P
  <2> HIDE DEF P, R
  <2> QED
    BY <1>1, <1>2, <1>3, AllParts
<1>5. Total(f, R) = 0
  BY <1>4
<1> HIDE DEF R, P
<1>6. Total(f, S \union R) = Total(f, S) + Total(f, R) /\ Total(f, S) \in Int
  <2>1. (\A x \in S \union R : f[x] \in Int) /\ \A x \in S : f[x] \in Int
    BY <1>1
  <2> QED
    BY <1>1, <2>1, TotalJoins, TotalInt
<1>7. Total(f, T) = Total(f, S) + Total(f, R)
  BY <1>1, <1>6, Zenon
<1> QED
  BY <1>5, <1>6, <1>7

-----------------------------------------------------------------------------
(* The sums of the model.                                                    *)

Value == [u \in Utxo |-> note[u].value]
Worth(outs) == [k \in DOMAIN outs |-> outs[k].value]
For(outs, n) == {k \in DOMAIN outs : outs[k].output = n}
PaidBy(gs, n) ==
  Total([i \in DOMAIN gs |-> Total(Worth(gs[i].outputs), For(gs[i].outputs, n))], DOMAIN gs)
UnshieldBy(gs) == Total([i \in DOMAIN gs |-> gs[i].unshield], DOMAIN gs)

LEMMA SpendIsTotal ==
  ASSUME NEW us \in SUBSET Utxo
  PROVE  TotalSpend(us) = Total(Value, us)
<1>1. IsFiniteSet(us)
  BY NotesAreNumbered, FS_Subset
<1> DEFINE f == [u \in us |-> note[u].value]
<1>2. TotalSpend(us) = Total(f, us)
  BY DEF TotalSpend, MapThenSumSet, MapThenFoldSet, Total, IsSum, SumStep, Pick
<1>3. Total(f, us) = Total(Value, us)
  BY <1>1, TotalSame DEF Value
<1> QED
  BY <1>2, <1>3

LEMMA NoteTotalIsTotal ==
  ASSUME NEW outs
  PROVE  NoteTotal(outs) = Total(Worth(outs), DOMAIN outs)
BY DEF NoteTotal, MapThenSumSet, MapThenFoldSet, Total, IsSum, SumStep, Pick, Worth

LEMMA PaidInIsTotal ==
  ASSUME NEW outs, NEW n
  PROVE  PaidIn(outs, n) = Total(Worth(outs), For(outs, n))
BY DEF PaidIn, MapThenSumSet, MapThenFoldSet, Total, IsSum, SumStep, Pick, Worth, For

\* A sum over a list that has one element more
LEMMA TotalAppended ==
  ASSUME NEW n \in Nat, NEW f, NEW h, \A i \in 1..n : f[i] = h[i],
         \A i \in 1..(n + 1) : f[i] \in Int
  PROVE  /\ Total(f, 1..(n + 1)) = f[n + 1] + Total(h, 1..n)
         /\ Total(h, 1..n) \in Int
<1>1. IsFiniteSet(1..n) /\ n + 1 \notin 1..n /\ 1..(n + 1) = (1..n) \union {n + 1}
  BY FS_Interval
<1>2. PICK S : S = 1..n
  OBVIOUS
<1>3. \A y \in S \union {n + 1} : f[y] \in Int
  BY <1>1, <1>2
<1>4. Total(f, S \union {n + 1}) = f[n + 1] + Total(f, S) /\ Total(f, S) \in Int
  BY <1>1, <1>2, <1>3, TotalAdds
<1>5. Total(f, S) = Total(h, S)
  BY <1>1, <1>2, TotalSame
<1> QED
  BY <1>1, <1>2, <1>4, <1>5, Zenon

LEMMA WorthIs ==
  ASSUME NEW outs \in Seq(Payment)
  PROVE  /\ DOMAIN outs = 1..Len(outs) /\ Len(outs) \in Nat /\ IsFiniteSet(DOMAIN outs)
         /\ \A k \in DOMAIN outs : Worth(outs)[k] = outs[k].value /\ outs[k].value \in Nat
                                   /\ outs[k].output \in Nat
<1>1. DOMAIN outs = 1..Len(outs) /\ Len(outs) \in Nat
  BY LenProperties
<1>2. \A k \in DOMAIN outs : outs[k] \in Payment
  BY <1>1, ElementOfSeq
<1>3. IsFiniteSet(DOMAIN outs)
  BY <1>1, FS_Interval
<1>4. \A k \in DOMAIN outs : Worth(outs)[k] = outs[k].value
  BY DEF Worth
<1>5. \A k \in DOMAIN outs : outs[k].value \in Nat /\ outs[k].output \in Nat
  BY <1>2 DEF Payment
<1> QED
  BY <1>1, <1>3, <1>4, <1>5

LEMMA WorthOfNone ==
  /\ Total(Worth(<<>>), DOMAIN <<>>) = 0
  /\ \A n : Total(Worth(<<>>), For(<<>>, n)) = 0
<1>1. DOMAIN <<>> = {} /\ \A n : For(<<>>, n) = {}
  BY DEF For
<1> QED
  BY <1>1, TotalEmpty

LEMMA WorthOfOne ==
  ASSUME NEW p \in Payment
  PROVE  /\ <<p>> \in Seq(Payment)
         /\ Total(Worth(<<p>>), DOMAIN <<p>>) = p.value
         /\ \A n : Total(Worth(<<p>>), For(<<p>>, n)) = IF p.output = n THEN p.value ELSE 0
<1>1. DOMAIN <<p>> = {1} /\ <<p>>[1] = p /\ p.value \in Int
  BY DEF Payment
<1>2a. PICK outs : outs = <<p>>
  OBVIOUS
<1>2b. Worth(outs)[1] = p.value
  BY <1>1, <1>2a DEF Worth
<1>2. PICK f : f = Worth(<<p>>) /\ f[1] = p.value
  BY <1>2a, <1>2b
<1>3. Total(f, {1}) = p.value
  BY <1>1, <1>2, TotalOne
<1>4. \A n : For(<<p>>, n) = IF p.output = n THEN {1} ELSE {}
  BY <1>1 DEF For
<1>5. Total(f, {}) = 0
  BY TotalEmpty
<1>6. \A n : Total(Worth(<<p>>), For(<<p>>, n)) = IF p.output = n THEN p.value ELSE 0
  BY <1>2, <1>3, <1>4, <1>5
<1>7. Total(Worth(<<p>>), DOMAIN <<p>>) = p.value
  BY <1>1, <1>2, <1>3
<1> QED
  BY <1>6, <1>7

LEMMA WorthOfTwo ==
  ASSUME NEW p \in Payment, NEW q \in Payment
  PROVE  /\ <<p, q>> \in Seq(Payment)
         /\ Total(Worth(<<p, q>>), DOMAIN <<p, q>>) = p.value + q.value
         /\ p.output # q.output =>
              \A n : Total(Worth(<<p, q>>), For(<<p, q>>, n)) =
                       IF p.output = n THEN p.value ELSE IF q.output = n THEN q.value ELSE 0
<1>1. /\ DOMAIN <<p, q>> = {1, 2} /\ <<p, q>>[1] = p /\ <<p, q>>[2] = q
      /\ p.value \in Int /\ q.value \in Int
  BY DEF Payment
<1>2a. PICK outs : outs = <<p, q>>
  OBVIOUS
<1>2b. Worth(outs)[1] = p.value /\ Worth(outs)[2] = q.value
  BY <1>1, <1>2a DEF Worth
<1>2. PICK f : f = Worth(<<p, q>>) /\ f[1] = p.value /\ f[2] = q.value
  BY <1>2a, <1>2b
<1>3. Total(f, {1}) = p.value /\ Total(f, {2}) = q.value
  BY <1>1, <1>2, TotalOne
<1>4. Total(f, {1, 2}) = p.value + q.value
  <2>0. IsFiniteSet({1})
    BY FS_Singleton
  <2>1. IsFiniteSet({1}) /\ 2 \notin {1} /\ \A y \in {1} \union {2} : f[y] \in Int
    BY <1>1, <1>2, <2>0
  <2>2. Total(f, {1} \union {2}) = f[2] + Total(f, {1})
    BY <2>1, TotalAdds
  <2>3. {1} \union {2} = {1, 2}
    OBVIOUS
  <2>4. Total(f, {1, 2}) = f[2] + Total(f, {1})
    BY <2>2, <2>3, Zenon
  <2> QED
    BY <1>1, <1>2, <1>3, <2>4
<1>5. ASSUME p.output # q.output, NEW n
      PROVE  For(<<p, q>>, n) = IF p.output = n THEN {1} ELSE IF q.output = n THEN {2} ELSE {}
  BY <1>1, <1>5 DEF For
<1>6. ASSUME p.output # q.output, NEW n
      PROVE  Total(Worth(<<p, q>>), For(<<p, q>>, n)) =
               IF p.output = n THEN p.value ELSE IF q.output = n THEN q.value ELSE 0
  BY <1>2, <1>3, <1>5, <1>6, TotalEmpty
<1> QED
  BY <1>1, <1>2, <1>4, <1>6

LEMMA GroupIs ==
  ASSUME NEW g \in Group, NEW n
  PROVE  /\ g.outputs \in Seq(Payment) /\ g.unshield \in Nat
         /\ Total(Worth(g.outputs), For(g.outputs, n)) \in Nat
         /\ Total(Worth(g.outputs), DOMAIN g.outputs) \in Nat
<1>1. g.outputs \in Seq(Payment) /\ g.unshield \in Nat
  BY DEF Group
<1>2. PICK f : f = Worth(g.outputs) /\ \A k \in DOMAIN g.outputs : f[k] \in Nat
  BY <1>1, WorthIs
<1>3. IsFiniteSet(DOMAIN g.outputs) /\ IsFiniteSet(For(g.outputs, n))
      /\ For(g.outputs, n) \subseteq DOMAIN g.outputs
  BY <1>1, WorthIs, FS_Subset DEF For
<1> QED
  BY <1>1, <1>2, <1>3, TotalInt

\* What is paid of an output, and of the unshield, when a group is added
LEMMA PaidGrows ==
  ASSUME NEW gs \in Seq(Group), NEW g \in Group
  PROVE  /\ \A n : /\ PaidBy(Append(gs, g), n) =
                        PaidBy(gs, n) + Total(Worth(g.outputs), For(g.outputs, n))
                   /\ PaidBy(gs, n) \in Int
         /\ UnshieldBy(Append(gs, g)) = UnshieldBy(gs) + g.unshield
         /\ UnshieldBy(gs) \in Int
<1>1. Len(gs) \in Nat /\ DOMAIN gs = 1..Len(gs)
  BY LenProperties
<1>2. PICK hs : hs = Append(gs, g)
  OBVIOUS
<1>3. /\ hs \in Seq(Group) /\ Len(hs) = Len(gs) + 1 /\ DOMAIN hs = 1..(Len(gs) + 1)
      /\ hs[Len(gs) + 1] = g
      /\ \A i \in 1..Len(gs) : hs[i] = gs[i]
  BY <1>1, <1>2, AppendProperties, LenProperties
<1>4. \A i \in 1..(Len(gs) + 1) : hs[i] \in Group
  BY <1>3, ElementOfSeq
<1>5. Len(gs) + 1 \in 1..(Len(gs) + 1) /\ \A i \in 1..Len(gs) : i \in 1..(Len(gs) + 1)
  BY <1>1
<1>6. ASSUME NEW n
      PROVE  /\ PaidBy(hs, n) = PaidBy(gs, n) + Total(Worth(g.outputs), For(g.outputs, n))
             /\ PaidBy(gs, n) \in Int
  <2> DEFINE f == [i \in DOMAIN hs |-> Total(Worth(hs[i].outputs), For(hs[i].outputs, n))]
             h == [i \in DOMAIN gs |-> Total(Worth(gs[i].outputs), For(gs[i].outputs, n))]
  <2>1. \A i \in 1..Len(gs) : f[i] = h[i]
    BY <1>1, <1>3, <1>5
  <2>2. \A i \in 1..(Len(gs) + 1) : f[i] \in Int
    BY <1>3, <1>4, GroupIs
  <2>3. f[Len(gs) + 1] = Total(Worth(g.outputs), For(g.outputs, n))
    BY <1>3, <1>5
  <2>4. PaidBy(hs, n) = Total(f, 1..(Len(gs) + 1)) /\ PaidBy(gs, n) = Total(h, 1..Len(gs))
    BY <1>1, <1>3 DEF PaidBy
  <2>5. Total(Worth(g.outputs), For(g.outputs, n)) \in Int
    BY GroupIs
  <2> HIDE DEF f, h
  <2>6. /\ Total(f, 1..(Len(gs) + 1)) = f[Len(gs) + 1] + Total(h, 1..Len(gs))
        /\ Total(h, 1..Len(gs)) \in Int
    BY <1>1, <2>1, <2>2, TotalAppended
  <2> QED
    BY <2>3, <2>4, <2>5, <2>6
<1>7. /\ UnshieldBy(hs) = UnshieldBy(gs) + g.unshield /\ UnshieldBy(gs) \in Int
  <2> DEFINE f == [i \in DOMAIN hs |-> hs[i].unshield]
             h == [i \in DOMAIN gs |-> gs[i].unshield]
  <2>1. \A i \in 1..Len(gs) : f[i] = h[i]
    BY <1>1, <1>3, <1>5
  <2>2. \A i \in 1..(Len(gs) + 1) : f[i] \in Int
    BY <1>3, <1>4, GroupIs
  <2>3. f[Len(gs) + 1] = g.unshield /\ g.unshield \in Int
    BY <1>3, <1>5, GroupIs
  <2>4. UnshieldBy(hs) = Total(f, 1..(Len(gs) + 1)) /\ UnshieldBy(gs) = Total(h, 1..Len(gs))
    BY <1>1, <1>3 DEF UnshieldBy
  <2> HIDE DEF f, h
  <2>5. /\ Total(f, 1..(Len(gs) + 1)) = f[Len(gs) + 1] + Total(h, 1..Len(gs))
        /\ Total(h, 1..Len(gs)) \in Int
    BY <1>1, <2>1, <2>2, TotalAppended
  <2> QED
    BY <2>3, <2>4, <2>5
<1> QED
  BY <1>2, <1>6, <1>7

LEMMA NothingPaid ==
  (\A n : PaidBy(<<>>, n) = 0) /\ UnshieldBy(<<>>) = 0
BY TotalEmpty DEF PaidBy, UnshieldBy

-----------------------------------------------------------------------------
(* Groups that a circuit takes.                                              *)

FitsTheCircuit(g) ==
  \/ g.utxos = {NullUtxo}
  \/ g.utxos \subseteq NonZero(g.tree) /\ Cardinality(g.utxos) \in 1..MaxInputs

\* What is put together is no more than a transaction takes.
Fit ==
  /\ GroupsFitTheCircuit
  /\ Cardinality(utxos) <= MaxInputs

LEMMA SameFit ==
  ASSUME note' = note, \A i \in DOMAIN groups' : FitsTheCircuit(groups'[i])
  PROVE  GroupsFitTheCircuit'
<1>1. SUFFICES ASSUME NEW i \in DOMAIN groups', NEW g, g = groups'[i]
      PROVE  \/ g.utxos = {NullUtxo}
             \/ /\ g.utxos \subseteq {u \in Utxo : note'[u].tree = g.tree /\ note'[u].value # 0}
                /\ Cardinality(g.utxos) \in 1..MaxInputs
  BY DEF GroupsFitTheCircuit, NonZero
<1>2. FitsTheCircuit(g)
  BY <1>1
<1> QED
  BY <1>2 DEF FitsTheCircuit, NonZero

\* When a group is added
LEMMA FitGrows ==
  ASSUME Inv, Fit, UNCHANGED wallet, NEW g, groups' = Append(groups, g),
         FitsTheCircuit(g)
  PROVE  GroupsFitTheCircuit'
<1> DEFINE S == Group \union {g}
<1>0. groups \in Seq(S) /\ g \in S
  <2>1. groups \in Seq(Group)
    BY DEF Inv, TypeOK
  <2>2. Len(groups) \in Nat /\ groups \in [1..Len(groups) -> Group]
    BY <2>1, LenProperties, ElementOfSeq
  <2>3. groups \in [1..Len(groups) -> S]
    BY <2>2
  <2> QED
    BY <2>2, <2>3, SeqDef
<1> HIDE DEF S
<1>1. /\ DOMAIN groups' = DOMAIN groups \union {Len(groups) + 1}
      /\ \A i \in DOMAIN groups : groups'[i] = groups[i]
      /\ groups'[Len(groups) + 1] = g
  BY <1>0, Appended
<1>2. \A i \in DOMAIN groups' : FitsTheCircuit(groups'[i])
  BY <1>1 DEF Fit, GroupsFitTheCircuit, FitsTheCircuit
<1> QED
  BY <1>2, SameWallet, SameFit

LEMMA GroupFits ==
  ASSUME Inv, Fit, stage = "group", NEW g, g.tree = SpendingTree, g.utxos = utxos
  PROVE  FitsTheCircuit(g)
<1>1. utxos \subseteq NonZero(SpendingTree) /\ utxos # {}
  BY DEF Inv, Batched
<1>2. utxos \subseteq Utxo /\ Cardinality(utxos) <= MaxInputs
  BY DEF Inv, TypeOK, Fit
<1>3. IsFiniteSet(utxos)
  BY <1>2, NotesAreNumbered, FS_Subset
<1>4. Cardinality(utxos) \in 1..MaxInputs
  BY <1>1, <1>2, <1>3, FS_CardinalityType, FS_EmptySet, LimitsArePositive
<1> QED
  BY <1>1, <1>4 DEF FitsTheCircuit

LEMMA ValuesAreNumbers ==
  ASSUME TypeOK
  PROVE  /\ \A u \in Utxo : note[u].value \in Nat /\ Value[u] = note[u].value
         /\ \A us \in SUBSET Utxo : IsFiniteSet(us) /\ Total(Value, us) \in Nat
<1>1. \A u \in Utxo : note[u].value \in Nat /\ Value[u] = note[u].value
  BY TreesAreNumbers DEF Value
<1>2. ASSUME NEW us \in SUBSET Utxo
      PROVE  IsFiniteSet(us) /\ Total(Value, us) \in Nat
  <2>1. IsFiniteSet(us)
    BY NotesAreNumbered, FS_Subset
  <2>2. \A u \in us : Value[u] \in Int /\ Value[u] >= 0
    BY <1>1
  <2> QED
    BY <2>1, <2>2, TotalInt
<1> QED
  BY <1>1, <1>2

LEMMA RequiredIsTotal ==
  ASSUME TypeOK
  PROVE  /\ TotalRequired = Total(Worth(Outputs), DOMAIN Outputs) + request.unshield
         /\ TotalRequired \in Nat
<1>1. TotalRequired = Total(Worth(Outputs), DOMAIN Outputs) + request.unshield
  BY NoteTotalIsTotal DEF TotalRequired
<1>2. PICK outs \in Seq(Payment) : outs = Outputs
  BY OutputsArePayments
<1>3. \A k \in DOMAIN outs : Worth(outs)[k] \in Int /\ Worth(outs)[k] >= 0
  BY WorthIs
<1>4. Total(Worth(outs), DOMAIN outs) \in Nat
  BY <1>3, WorthIs, TotalInt
<1>5. request.unshield \in Nat
  BY RequestsAreTyped DEF TypeOK
<1> QED
  BY <1>1, <1>2, <1>4, <1>5

\* The empty solution of a poor tree is no solution.
LEMMA SimpleFits ==
  ASSUME Inv, NEW t, NEW us \in SimpleUtxos(t)
  PROVE  us \subseteq NonZero(t) /\ Cardinality(us) \in 1..MaxInputs
<1>1. us \in FindExactSolutionsOverTargetValue(t) /\ TotalSpend(us) >= TotalRequired
  BY DEF SimpleUtxos
<1>2. CASE Balance(t) < TotalRequired
  <2>1. us = {}
    BY <1>1, <1>2 DEF FindExactSolutionsOverTargetValue
  <2>2. TotalSpend({}) = 0
    BY SpendIsTotal, TotalEmpty
  <2>3. NonZero(t) \in SUBSET Utxo
    BY NonZeroNotes
  <2>4. Balance(t) \in Nat
    BY <2>3, SpendIsTotal, ValuesAreNumbers DEF Balance, Inv
  <2>5. TotalRequired \in Nat
    BY RequiredIsTotal DEF Inv
  <2> QED
    BY <1>1, <1>2, <2>1, <2>2, <2>4, <2>5
<1>3. CASE \E u \in Exact(NonZero(t), TotalRequired) : us = {u}
  <2>1. PICK u \in Exact(NonZero(t), TotalRequired) : us = {u}
    BY <1>3
  <2>2. u \in NonZero(t)
    BY DEF Exact
  <2>3. Cardinality({u}) = 1
    BY FS_Singleton
  <2> QED
    BY <2>1, <2>2, <2>3, LimitsArePositive
<1>4. CASE us \in Ascending(t) /\ Cardinality(us) \in 1..MaxInputs
  BY <1>4 DEF Ascending
<1> QED
  BY <1>1, <1>2, <1>3, <1>4 DEF FindExactSolutionsOverTargetValue

LEMMA FitStart == Init => Fit
BY FS_EmptySet, LimitsArePositive DEF Init, Fit, GroupsFitTheCircuit

LEMMA FitStep ==
  ASSUME Inv, Fit, [Next]_vars, Inv'
  PROVE  Fit'
<1>1. ASSUME UNCHANGED <<wallet, groups>> PROVE GroupsFitTheCircuit'
  <2>1. \A i \in DOMAIN groups' : FitsTheCircuit(groups'[i])
    BY <1>1 DEF Fit, GroupsFitTheCircuit, FitsTheCircuit
  <2> QED
    BY <1>1, <2>1, SameWallet, SameFit
<1>2. ASSUME UNCHANGED utxos PROVE Cardinality(utxos') <= MaxInputs
  BY <1>2 DEF Fit
<1>3. ASSUME utxos' = {} PROVE Cardinality(utxos') <= MaxInputs
  BY <1>3, FS_EmptySet, LimitsArePositive
<1>4. CASE \/ TooLow \/ Complex \/ StartOutput \/ NextTree \/ Exhausted \/ StartBatch \/ EndBatch
           \/ StartUnshield \/ AllPaid \/ Build \/ Answered \/ UNCHANGED vars
  <2>1. UNCHANGED <<wallet, groups>> /\ UNCHANGED utxos
    BY <1>4 DEF TooLow, Complex, StartOutput, NextTree, Exhausted, StartBatch, EndBatch,
                StartUnshield, AllPaid, Build, Answered, vars, batch
  <2> QED
    BY <1>1, <1>2, <2>1 DEF Fit
<1>5. CASE Simple
  <2>1. /\ UNCHANGED wallet /\ UNCHANGED utxos
        /\ \E t \in SpendingTrees : \E us \in SimpleUtxos(t) :
             groups' = <<[tree |-> t, utxos |-> us, outputs |-> Outputs,
                          unshield |-> request.unshield]>>
    BY <1>5 DEF Simple, batch
  <2>2a. PICK t \in SpendingTrees : \E us \in SimpleUtxos(t) :
             groups' = <<[tree |-> t, utxos |-> us, outputs |-> Outputs,
                          unshield |-> request.unshield]>>
    BY <2>1
  <2>2. PICK us \in SimpleUtxos(t) :
             groups' = <<[tree |-> t, utxos |-> us, outputs |-> Outputs,
                          unshield |-> request.unshield]>>
    BY <2>2a
  <2>3. us \subseteq NonZero(t) /\ Cardinality(us) \in 1..MaxInputs
    BY SimpleFits
  <2>4. \A i \in DOMAIN groups' : i = 1 /\ groups'[i].tree = t /\ groups'[i].utxos = us
    BY <2>2
  <2>5. \A i \in DOMAIN groups' : FitsTheCircuit(groups'[i])
    BY <2>3, <2>4 DEF FitsTheCircuit
  <2>6. GroupsFitTheCircuit'
    BY <2>1, <2>5, SameWallet, SameFit
  <2> QED
    BY <1>2, <2>1, <2>6 DEF Fit
<1>6. CASE ZeroOutput
  <2> DEFINE g == [tree |-> 0, utxos |-> {NullUtxo}, outputs |-> <<Primary>>, unshield |-> 0]
  <2>1. UNCHANGED wallet /\ UNCHANGED utxos /\ groups' = Append(groups, g) /\ remaining # <<>>
    BY <1>6 DEF ZeroOutput, batch
  <2>3. FitsTheCircuit(g)
    BY DEF FitsTheCircuit
  <2> HIDE DEF g
  <2>4. GroupsFitTheCircuit'
    BY <2>1, <2>3, FitGrows
  <2> QED
    BY <1>2, <2>1, <2>4 DEF Fit
<1>7. CASE ExactMatch
  <2>1. PICK u : utxos' = {u}
    BY <1>7 DEF ExactMatch
  <2>2. Cardinality(utxos') <= MaxInputs
    BY <2>1, FS_Singleton, LimitsArePositive
  <2> QED
    BY <1>1, <1>7, <2>2 DEF Fit, ExactMatch
<1>8. CASE Push
  <2>1. PICK u \in Available \ utxos : utxos' = utxos \union {u}
    BY <1>8 DEF Push
  <2>2. Cardinality(utxos) < MaxInputs
    BY <1>8 DEF Push, ShouldAddMoreUTXOs
  <2>3. IsFiniteSet(utxos)
    BY NotesAreNumbered, FS_Subset DEF Inv, TypeOK
  <2>4. Cardinality(utxos') = Cardinality(utxos) + 1 /\ Cardinality(utxos) \in Nat
    BY <2>1, <2>3, FS_AddElement, FS_CardinalityType
  <2>5. Cardinality(utxos') <= MaxInputs
    BY <2>2, <2>4, LimitsArePositive
  <2> QED
    BY <1>1, <1>8, <2>5 DEF Fit, Push
<1>9. CASE PayPart \/ PayRest \/ PaySecondary
  <2>1. stage = "group" /\ \E outs, n : AddGroup(outs, n)
    BY <1>9 DEF PayPart, PayRest, PaySecondary
  <2>2. PICK outs, n : AddGroup(outs, n)
    BY <2>1
  <2>3. PICK g : /\ g.tree = SpendingTree /\ g.utxos = utxos
                 /\ groups' = Append(groups, g)
    BY <2>2 DEF AddGroup
  <2>4. UNCHANGED wallet /\ utxos' = {}
    BY <2>2 DEF AddGroup
  <2>5. FitsTheCircuit(g)
    BY <2>1, <2>3, GroupFits
  <2>6. GroupsFitTheCircuit'
    BY <2>3, <2>4, <2>5, FitGrows
  <2> QED
    BY <1>3, <2>4, <2>6 DEF Fit
<1> QED
  BY <1>4, <1>5, <1>6, <1>7, <1>8, <1>9 DEF Next

\* Every transaction spends notes of one tree, and no more than a circuit takes.
THEOREM GroupsFit == Spec => []GroupsFitTheCircuit
<1>1. Inv /\ Fit /\ [Next]_vars /\ Inv' => Fit'
  BY FitStep
<1>2. Fit => GroupsFitTheCircuit
  BY DEF Fit
<1> QED
  BY <1>1, <1>2, FitStart, SelectionInvariant, PTL DEF Spec

-----------------------------------------------------------------------------
(* What is paid and what is owed.                                            *)

Sum(outs) == Total(Worth(outs), DOMAIN outs)
PaidFor(outs, n) == Total(Worth(outs), For(outs, n))

\* what the groups pay of each output, and what one payment adds to that
Payments(gs) == [n \in Nat |-> PaidBy(gs, n)]
Pays(paid, p) == [paid EXCEPT ![p.output] = @ + p.value]

\* The first d outputs are paid; the others remain, and what is paid and what is
\* owed of one adds up to it.
OwedFrom(d, paid, rem, outs) ==
  /\ Len(outs) = d + Len(rem)
  /\ \A n \in Nat : n >= 1 /\ n <= d => paid[n] = outs[n]
  /\ \A n, j \in Nat : j >= 1 /\ j <= Len(rem) /\ n = d + j =>
       rem[j].output = n /\ paid[n] + rem[j].value = outs[n]
OutputsOwed(gs, rem, outs) ==
  /\ \E d \in Nat : OwedFrom(d, Payments(gs), rem, outs)
  /\ UnshieldBy(gs) = 0

\* The outputs are paid, and what is paid and owed of the unshield adds up to it.
UnshieldOwed(gs, rem, outs, unshield) ==
  /\ Len(rem) <= 1
  /\ \A n \in DOMAIN outs : PaidBy(gs, n) = outs[n]
  /\ UnshieldBy(gs) + Sum(rem) = unshield

\* what a group, of notes of the values v, has over
Over(v, g) == (IF NullUtxo \in g.utxos THEN 0 ELSE Total(v, g.utxos)) - Sum(g.outputs) - g.unshield

LEMMA TailIs ==
  ASSUME NEW r \in Seq(Payment), r # <<>>
  PROVE  /\ Len(r) \in Nat /\ Len(r) >= 1 /\ DOMAIN r = 1..Len(r)
         /\ \A j \in 1..Len(r) : r[j] \in Payment
         /\ Tail(r) \in Seq(Payment) /\ Len(Tail(r)) = Len(r) - 1
         /\ DOMAIN Tail(r) = 1..(Len(r) - 1)
         /\ \A j \in 1..(Len(r) - 1) : Tail(r)[j] = r[j + 1]
<1>1. Len(r) \in Nat /\ DOMAIN r = 1..Len(r) /\ Len(r) # 0
  BY LenProperties, EmptySeq
<1>2. Tail(r) \in Seq(Payment) /\ Len(Tail(r)) = Len(r) - 1
      /\ \A j \in 1..(Len(r) - 1) : Tail(r)[j] = r[j + 1]
  BY HeadTailProperties
<1>3. DOMAIN Tail(r) = 1..(Len(r) - 1)
  BY <1>2, LenProperties
<1> QED
  BY <1>1, <1>2, <1>3, ElementOfSeq

IsLess(less, r, i, v) ==
  /\ less \in Seq(Payment) /\ Len(less) = Len(r) /\ DOMAIN less = DOMAIN r
  /\ \A j \in DOMAIN r : less[j].output = r[j].output
  /\ less[i].value = r[i].value - v
  /\ \A j \in DOMAIN r : j # i => less[j] = r[j]

LEMMA LessIs ==
  ASSUME NEW r \in Seq(Payment), NEW i \in DOMAIN r, NEW v \in Nat, v <= r[i].value,
         NEW less, less = [r EXCEPT ![i].value = @ - v]
  PROVE  IsLess(less, r, i, v)
<1>1. Len(r) \in Nat /\ DOMAIN r = 1..Len(r) /\ r \in [1..Len(r) -> Payment]
  BY LenProperties, ElementOfSeq
<1>2. r[i] \in Payment /\ r[i].value - v \in Nat
  <2>1. r[i] \in Payment
    BY <1>1
  <2> QED
    BY <2>1 DEF Payment
<1>3. PICK q : q = [r[i] EXCEPT !.value = r[i].value - v]
  OBVIOUS
<1>4. q \in Payment /\ q.output = r[i].output /\ q.value = r[i].value - v
  BY <1>2, <1>3 DEF Payment
<1>5. less = [r EXCEPT ![i] = q]
  BY <1>3
<1>6. less \in [1..Len(r) -> Payment] /\ less[i] = q /\ \A j \in DOMAIN r : j # i => less[j] = r[j]
  BY <1>1, <1>4, <1>5
<1>7. less \in Seq(Payment) /\ Len(less) = Len(r) /\ DOMAIN less = DOMAIN r
  <2>1. less \in Seq(Payment)
    BY <1>1, <1>6, SeqDef
  <2>2. Len(less) \in Nat /\ DOMAIN less = 1..Len(less)
    BY <2>1, LenProperties
  <2>3. DOMAIN less = 1..Len(r)
    BY <1>6
  <2>4. Len(less) = Len(r)
    BY <1>1, <2>2, <2>3
  <2> QED
    BY <1>1, <2>1, <2>3, <2>4
<1>8. /\ \A j \in DOMAIN r : less[j].output = r[j].output
      /\ less[i].value = r[i].value - v
  BY <1>4, <1>6
<1> QED
  BY <1>6, <1>7, <1>8 DEF IsLess

\* A group of the unshield
LEMMA GroupUnshields ==
  ASSUME NEW gs \in Seq(Group), NEW g \in Group, g.outputs = <<>>,
         NEW outs \in Seq(Nat), NEW rem \in Seq(Payment), NEW unshield,
         UnshieldOwed(gs, rem, outs, unshield),
         NEW rest \in Seq(Payment), Len(rest) <= 1, Sum(rest) \in Int,
         Sum(rem) = g.unshield + Sum(rest)
  PROVE  UnshieldOwed(Append(gs, g), rest, outs, unshield)
<1>1. ASSUME NEW n \in DOMAIN outs PROVE PaidBy(Append(gs, g), n) = outs[n]
  <2>1. PaidBy(Append(gs, g), n) = PaidBy(gs, n) + PaidFor(g.outputs, n) /\ PaidBy(gs, n) \in Int
    BY PaidGrows DEF PaidFor
  <2>2. PaidFor(g.outputs, n) = 0
    BY WorthOfNone DEF PaidFor
  <2> QED
    BY <2>1, <2>2 DEF UnshieldOwed
<1>2. UnshieldBy(Append(gs, g)) = UnshieldBy(gs) + g.unshield /\ UnshieldBy(gs) \in Int
      /\ g.unshield \in Nat
  BY PaidGrows, GroupIs
<1>3. UnshieldBy(gs) + (g.unshield + Sum(rest)) = unshield
  BY DEF UnshieldOwed
<1> QED
  BY <1>1, <1>2, <1>3 DEF UnshieldOwed

Increases(paid, more, n, v) ==
  more \in [Nat -> Int] /\ more[n] = paid[n] + v /\ \A m \in Nat : m # n => more[m] = paid[m]

LEMMA PaysIs ==
  ASSUME NEW paid \in [Nat -> Int], NEW p, NEW n \in Nat, NEW v \in Nat,
         p.output = n, p.value = v
  PROVE  Increases(paid, Pays(paid, p), n, v)
<1>1. Pays(paid, p) = [paid EXCEPT ![n] = paid[n] + v]
  BY DEF Pays
<1>2. paid[n] + v \in Int
  OBVIOUS
<1> QED
  BY <1>1, <1>2 DEF Increases

\* The first output that remains is paid.
LEMMA FirstPaid ==
  ASSUME NEW d \in Nat, NEW paid \in [Nat -> Int], NEW rem \in Seq(Payment), rem # <<>>,
         NEW outs, OwedFrom(d, paid, rem, outs)
  PROVE  /\ Pays(paid, rem[1]) \in [Nat -> Int] /\ rem[1].output = d + 1
         /\ OwedFrom(d + 1, Pays(paid, rem[1]), Tail(rem), outs)
<1>1. PICK rest \in Seq(Payment) : rest = Tail(rem)
  BY TailIs
<1>2. PICK r \in Nat : r = Len(rem)
  BY LenProperties
<1>3. r >= 1 /\ rem[1] \in Payment /\ Len(rest) = r - 1
  BY <1>1, <1>2, TailIs
<1>4. \A j \in Nat : j >= 1 /\ j <= r - 1 => rest[j] = rem[j + 1]
  BY <1>1, <1>2, TailIs
<1>5. /\ Len(outs) = d + r
      /\ \A n \in Nat : n >= 1 /\ n <= d => paid[n] = outs[n]
      /\ \A n, j \in Nat : j >= 1 /\ j <= r /\ n = d + j =>
           rem[j].output = n /\ paid[n] + rem[j].value = outs[n]
  BY <1>2 DEF OwedFrom
<1>5a. PICK k \in Nat : k = d + 1
  OBVIOUS
<1>6. rem[1].output = k /\ paid[k] + rem[1].value = outs[k]
  <2>1. r >= 1
    BY <1>3
  <2> QED
    BY <1>5, <1>5a, <2>1
<1>7. PICK v \in Nat : v = rem[1].value
  BY <1>3 DEF Payment
<1>8a. Increases(paid, Pays(paid, rem[1]), k, v)
  BY <1>6, <1>7, PaysIs
<1>8. PICK more \in [Nat -> Int] : more = Pays(paid, rem[1])
  BY <1>8a DEF Increases
<1>9. more[k] = paid[k] + v /\ \A n \in Nat : n # k => more[n] = paid[n]
  BY <1>8, <1>8a DEF Increases
<1>10. ASSUME NEW n \in Nat, n >= 1, n <= d + 1 PROVE more[n] = outs[n]
  <2>1. CASE n = k
    BY <1>6, <1>7, <1>9, <2>1
  <2>2. CASE n # k
    <3>1. n <= d
      BY <1>5a, <1>10, <2>2
    <3> QED
      BY <1>5, <1>9, <1>10, <2>2, <3>1
  <2> QED
    BY <2>1, <2>2
<1>11. ASSUME NEW n \in Nat, NEW j \in Nat, j >= 1, j <= r - 1, n = (d + 1) + j
       PROVE  rest[j].output = n /\ more[n] + rest[j].value = outs[n]
  <2>1. PICK i \in Nat : i = j + 1 /\ i >= 1 /\ i <= r /\ n = d + i /\ n # k
    BY <1>3, <1>5a, <1>11
  <2>2. rest[j] = rem[i]
    BY <1>4, <1>11, <2>1
  <2>3. rem[i].output = n /\ paid[n] + rem[i].value = outs[n]
    BY <1>5, <2>1
  <2>4. more[n] = paid[n]
    BY <1>9, <2>1
  <2> QED
    BY <2>2, <2>3, <2>4
<1>12. Len(outs) = (d + 1) + (r - 1)
  BY <1>5
<1>13. OwedFrom(d + 1, more, rest, outs)
  BY <1>3, <1>10, <1>11, <1>12 DEF OwedFrom
<1> QED
  BY <1>1, <1>5a, <1>6, <1>8, <1>13

\* A part of it is paid.
SplitOff(p, rest, rem, v) ==
  p = [rem[1] EXCEPT !.value = v] /\ rest = [rem EXCEPT ![1].value = @ - v]

LEMMA PartPaid ==
  ASSUME NEW d \in Nat, NEW paid \in [Nat -> Int], NEW rem \in Seq(Payment), rem # <<>>,
         NEW outs, OwedFrom(d, paid, rem, outs), NEW v \in Nat, v <= rem[1].value,
         NEW p, NEW rest, SplitOff(p, rest, rem, v)
  PROVE  /\ Pays(paid, p) \in [Nat -> Int]
         /\ OwedFrom(d, Pays(paid, p), rest, outs)
<1>1. PICK r \in Nat : r = Len(rem)
  BY LenProperties
<1>2. r >= 1 /\ rem[1] \in Payment /\ 1 \in DOMAIN rem
      /\ \A j \in Nat : j >= 1 /\ j <= r => j \in DOMAIN rem
  BY <1>1, TailIs
<1>2a. rest = [rem EXCEPT ![1].value = @ - v]
  BY DEF SplitOff
<1>2b. IsLess(rest, rem, 1, v)
  BY <1>2, <1>2a, LessIs
<1>3a. /\ Len(rest) = Len(rem) /\ \A j \in DOMAIN rem : rest[j].output = rem[j].output
       /\ rest[1].value = rem[1].value - v
       /\ \A j \in DOMAIN rem : j # 1 => rest[j] = rem[j]
  BY <1>2b DEF IsLess
<1>3. /\ Len(rest) = r
      /\ \A j \in Nat : j >= 1 /\ j <= r => rest[j].output = rem[j].output
      /\ rest[1].value = rem[1].value - v
      /\ \A j \in Nat : j >= 1 /\ j <= r /\ j # 1 => rest[j].value = rem[j].value
  BY <1>1, <1>2, <1>3a
<1>4. /\ Len(outs) = d + r
      /\ \A n \in Nat : n >= 1 /\ n <= d => paid[n] = outs[n]
      /\ \A n, j \in Nat : j >= 1 /\ j <= r /\ n = d + j =>
           rem[j].output = n /\ paid[n] + rem[j].value = outs[n]
  BY <1>1 DEF OwedFrom
<1>4a. PICK k \in Nat : k = d + 1
  OBVIOUS
<1>5. rem[1].output = k /\ paid[k] + rem[1].value = outs[k]
  <2>1. r >= 1
    BY <1>2
  <2> QED
    BY <1>4, <1>4a, <2>1
<1>6. p.output = k /\ p.value = v
  BY <1>2, <1>5 DEF Payment, SplitOff
<1>7a. Increases(paid, Pays(paid, p), k, v)
  BY <1>6, PaysIs
<1>7. PICK more \in [Nat -> Int] : more = Pays(paid, p)
  BY <1>7a DEF Increases
<1>8. more[k] = paid[k] + v /\ \A n \in Nat : n # k => more[n] = paid[n]
  BY <1>7, <1>7a DEF Increases
<1>9. ASSUME NEW n \in Nat, n >= 1, n <= d PROVE more[n] = outs[n]
  <2>1. n # k
    BY <1>4a, <1>9
  <2> QED
    BY <1>4, <1>8, <1>9, <2>1
<1>10. PICK w \in Nat : w = rem[1].value
  BY <1>2 DEF Payment
<1>10a. PICK b \in Int : b = paid[k]
  OBVIOUS
<1>11. ASSUME NEW n \in Nat, NEW j \in Nat, j >= 1, j <= r, n = d + j
       PROVE  rest[j].output = n /\ more[n] + rest[j].value = outs[n]
  <2>1. rest[j].output = n
    BY <1>3, <1>4, <1>11
  <2>2. CASE j = 1
    <3>1. n = k
      BY <1>4a, <1>11, <2>2
    <3>2. more[n] = b + v /\ rest[j].value = w - v
      BY <1>3, <1>8, <1>10, <1>10a, <2>2, <3>1
    <3>3. more[n] + rest[j].value = b + w
      BY <3>2
    <3>4. outs[n] = b + w
      BY <1>5, <1>10, <1>10a, <3>1
    <3> QED
      BY <2>1, <3>3, <3>4
  <2>3. CASE j # 1
    <3>1. n # k
      BY <1>4a, <1>11, <2>3
    <3>2. more[n] = paid[n] /\ rest[j].value = rem[j].value
      BY <1>3, <1>8, <1>11, <2>3, <3>1
    <3>3. paid[n] + rem[j].value = outs[n]
      BY <1>4, <1>11
    <3> QED
      BY <2>1, <3>2, <3>3
  <2> QED
    BY <2>2, <2>3
<1>12. OwedFrom(d, more, rest, outs)
  BY <1>3, <1>4, <1>9, <1>11 DEF OwedFrom
<1> QED
  BY <1>7, <1>12

\* What a group of one or of two payments adds to them.
LEMMA OnePayment ==
  ASSUME NEW gs \in Seq(Group), NEW g \in Group, g.unshield = 0,
         NEW p \in Payment, g.outputs = <<p>>
  PROVE  /\ Payments(Append(gs, g)) = Pays(Payments(gs), p)
         /\ Payments(gs) \in [Nat -> Int]
         /\ UnshieldBy(Append(gs, g)) = UnshieldBy(gs)
<1>1. PICK hs : hs = Append(gs, g)
  OBVIOUS
<1>2. \A n : PaidFor(g.outputs, n) = IF p.output = n THEN p.value ELSE 0
  BY WorthOfOne DEF PaidFor
<1>3. \A n : PaidBy(hs, n) = PaidBy(gs, n) + PaidFor(g.outputs, n) /\ PaidBy(gs, n) \in Int
  BY <1>1, PaidGrows DEF PaidFor
<1>4. p.output \in Nat /\ p.value \in Nat
  BY DEF Payment
<1>5. Payments(gs) \in [Nat -> Int]
  BY <1>3 DEF Payments
<1>6. \A n \in Nat : PaidBy(hs, n) = IF p.output = n THEN PaidBy(gs, n) + p.value ELSE PaidBy(gs, n)
  BY <1>2, <1>3, <1>4
<1>7. Payments(hs) = Pays(Payments(gs), p)
  BY <1>4, <1>6 DEF Payments, Pays
<1>8. UnshieldBy(hs) = UnshieldBy(gs)
  BY <1>1, PaidGrows
<1> QED
  BY <1>1, <1>5, <1>7, <1>8

LEMMA TwoPayments ==
  ASSUME NEW gs \in Seq(Group), NEW g \in Group, g.unshield = 0,
         NEW p \in Payment, NEW q \in Payment, p.output # q.output, g.outputs = <<p, q>>
  PROVE  /\ Payments(Append(gs, g)) = Pays(Pays(Payments(gs), p), q)
         /\ Payments(gs) \in [Nat -> Int]
         /\ UnshieldBy(Append(gs, g)) = UnshieldBy(gs)
<1>1. PICK hs : hs = Append(gs, g)
  OBVIOUS
<1>2. \A n : PaidFor(g.outputs, n) =
               IF p.output = n THEN p.value ELSE IF q.output = n THEN q.value ELSE 0
  BY WorthOfTwo DEF PaidFor
<1>3. \A n : PaidBy(hs, n) = PaidBy(gs, n) + PaidFor(g.outputs, n) /\ PaidBy(gs, n) \in Int
  BY <1>1, PaidGrows DEF PaidFor
<1>4. p.output \in Nat /\ p.value \in Nat /\ q.output \in Nat /\ q.value \in Nat
  BY DEF Payment
<1>5. Payments(gs) \in [Nat -> Int]
  BY <1>3 DEF Payments
<1>6. \A n \in Nat : PaidBy(hs, n) = IF p.output = n THEN PaidBy(gs, n) + p.value
                                     ELSE IF q.output = n THEN PaidBy(gs, n) + q.value
                                     ELSE PaidBy(gs, n)
  <2> SUFFICES ASSUME NEW n \in Nat
               PROVE  PaidBy(hs, n) = IF p.output = n THEN PaidBy(gs, n) + p.value
                                      ELSE IF q.output = n THEN PaidBy(gs, n) + q.value
                                      ELSE PaidBy(gs, n)
    OBVIOUS
  <2>1. PaidBy(hs, n) = PaidBy(gs, n) + PaidFor(g.outputs, n) /\ PaidBy(gs, n) \in Int
    BY <1>3
  <2>2. PaidFor(g.outputs, n) =
          IF p.output = n THEN p.value ELSE IF q.output = n THEN q.value ELSE 0
    BY <1>2
  <2> QED
    BY <2>1, <2>2
<1>7. Payments(hs) = Pays(Pays(Payments(gs), p), q)
  BY <1>4, <1>6 DEF Payments, Pays
<1>8. UnshieldBy(hs) = UnshieldBy(gs)
  BY <1>1, PaidGrows
<1> QED
  BY <1>1, <1>5, <1>7, <1>8

LEMMA FirstLeft ==
  ASSUME NEW rem \in Seq(Payment), rem # <<>>
  PROVE  rem[1] \in Payment /\ Tail(rem) \in Seq(Payment)
BY TailIs

\* The ways in which a group pays outputs: the first one that remains,
LEMMA PaysFirst ==
  ASSUME NEW gs \in Seq(Group), NEW g \in Group, g.unshield = 0,
         NEW outs, NEW rem \in Seq(Payment), OutputsOwed(gs, rem, outs),
         rem # <<>>, g.outputs = <<rem[1]>>
  PROVE  OutputsOwed(Append(gs, g), Tail(rem), outs)
<1>1. PICK p \in Payment : p = rem[1]
  BY FirstLeft
<1>2. PICK d \in Nat : OwedFrom(d, Payments(gs), rem, outs)
  BY DEF OutputsOwed
<1>3. /\ Payments(Append(gs, g)) = Pays(Payments(gs), p) /\ Payments(gs) \in [Nat -> Int]
      /\ UnshieldBy(Append(gs, g)) = UnshieldBy(gs)
  BY <1>1, OnePayment
<1>4. PICK paid \in [Nat -> Int] : paid = Payments(gs)
  BY <1>3
<1>5. OwedFrom(d + 1, Pays(paid, rem[1]), Tail(rem), outs)
  BY <1>2, <1>4, FirstPaid
<1>6. OwedFrom(d + 1, Payments(Append(gs, g)), Tail(rem), outs)
  BY <1>1, <1>3, <1>4, <1>5
<1>7. d + 1 \in Nat /\ UnshieldBy(Append(gs, g)) = 0
  BY <1>3 DEF OutputsOwed
<1> QED
  BY <1>6, <1>7 DEF OutputsOwed

\* a part of it,
LEMMA PaysPart ==
  ASSUME NEW gs \in Seq(Group), NEW g \in Group, g.unshield = 0,
         NEW outs, NEW rem \in Seq(Payment), OutputsOwed(gs, rem, outs),
         rem # <<>>, NEW v \in Nat, v <= rem[1].value,
         NEW p \in Payment, NEW rest, SplitOff(p, rest, rem, v), g.outputs = <<p>>
  PROVE  OutputsOwed(Append(gs, g), rest, outs)
<1>1. PICK d \in Nat : OwedFrom(d, Payments(gs), rem, outs)
  BY DEF OutputsOwed
<1>2. /\ Payments(Append(gs, g)) = Pays(Payments(gs), p) /\ Payments(gs) \in [Nat -> Int]
      /\ UnshieldBy(Append(gs, g)) = UnshieldBy(gs)
  BY OnePayment
<1>3. PICK paid \in [Nat -> Int] : paid = Payments(gs)
  BY <1>2
<1>4. OwedFrom(d, Pays(paid, p), rest, outs)
  BY <1>1, <1>3, PartPaid
<1> QED
  BY <1>2, <1>3, <1>4 DEF OutputsOwed

\* the first two,
LEMMA PaysTwo ==
  ASSUME NEW gs \in Seq(Group), NEW g \in Group, g.unshield = 0,
         NEW outs, NEW rem \in Seq(Payment), OutputsOwed(gs, rem, outs),
         Len(rem) > 1, g.outputs = <<rem[1], rem[2]>>
  PROVE  OutputsOwed(Append(gs, g), Tail(Tail(rem)), outs)
<1>1. rem # <<>>
  BY EmptySeq
<1>2. PICK tl \in Seq(Payment) : tl = Tail(rem)
  BY <1>1, TailIs
<1>3. Len(tl) = Len(rem) - 1 /\ Len(rem) \in Nat /\ tl[1] = rem[2]
  <2>1. Len(rem) \in Nat /\ Len(tl) = Len(rem) - 1
        /\ \A j \in 1..(Len(rem) - 1) : tl[j] = rem[j + 1]
    BY <1>1, <1>2, TailIs
  <2>2. 1 \in 1..(Len(rem) - 1)
    BY <2>1
  <2> QED
    BY <2>1, <2>2
<1>4. tl # <<>>
  BY <1>3, EmptySeq
<1>5. PICK p \in Payment : p = rem[1]
  BY <1>1, FirstLeft
<1>6. PICK q \in Payment : q = rem[2] /\ q = tl[1]
  BY <1>3, <1>4, FirstLeft
<1>7. PICK d \in Nat : OwedFrom(d, Payments(gs), rem, outs)
  BY DEF OutputsOwed
<1>8. Payments(gs) \in [Nat -> Int]
  BY PaidGrows DEF Payments
<1>9. PICK paid \in [Nat -> Int] : paid = Payments(gs)
  BY <1>8
<1>10. /\ Pays(paid, p) \in [Nat -> Int] /\ p.output = d + 1
       /\ OwedFrom(d + 1, Pays(paid, p), tl, outs)
  BY <1>1, <1>2, <1>5, <1>7, <1>9, FirstPaid
<1>11. PICK more \in [Nat -> Int] : more = Pays(paid, p)
  BY <1>10
<1>12. PICK e \in Nat : e = d + 1
  OBVIOUS
<1>13. q.output = e + 1 /\ OwedFrom(e + 1, Pays(more, q), Tail(tl), outs)
  BY <1>4, <1>6, <1>10, <1>11, <1>12, FirstPaid
<1>14. p.output # q.output
  BY <1>10, <1>12, <1>13
<1>15. /\ Payments(Append(gs, g)) = Pays(Pays(Payments(gs), p), q)
       /\ UnshieldBy(Append(gs, g)) = UnshieldBy(gs)
  BY <1>5, <1>6, <1>14, TwoPayments
<1>16. OwedFrom(e + 1, Payments(Append(gs, g)), Tail(Tail(rem)), outs)
  BY <1>2, <1>9, <1>11, <1>13, <1>15
<1>17. e + 1 \in Nat /\ UnshieldBy(Append(gs, g)) = 0
  BY <1>15 DEF OutputsOwed
<1> QED
  BY <1>16, <1>17 DEF OutputsOwed

\* the first one and a part of the next.
LEMMA PaysNext ==
  ASSUME NEW gs \in Seq(Group), NEW g \in Group, g.unshield = 0,
         NEW outs, NEW rem \in Seq(Payment), OutputsOwed(gs, rem, outs),
         rem # <<>>, NEW tl \in Seq(Payment), tl = Tail(rem), tl # <<>>,
         NEW v \in Nat, v <= tl[1].value,
         NEW q \in Payment, NEW rest, SplitOff(q, rest, tl, v), g.outputs = <<rem[1], q>>
  PROVE  OutputsOwed(Append(gs, g), rest, outs)
<1>5. PICK p \in Payment : p = rem[1]
  BY FirstLeft
<1>6. PICK s \in Payment : s = tl[1]
  BY FirstLeft
<1>7. PICK d \in Nat : OwedFrom(d, Payments(gs), rem, outs)
  BY DEF OutputsOwed
<1>8. Payments(gs) \in [Nat -> Int]
  BY PaidGrows DEF Payments
<1>9. PICK paid \in [Nat -> Int] : paid = Payments(gs)
  BY <1>8
<1>10. /\ Pays(paid, p) \in [Nat -> Int] /\ p.output = d + 1
       /\ OwedFrom(d + 1, Pays(paid, p), tl, outs)
  BY <1>5, <1>7, <1>9, FirstPaid
<1>11. PICK more \in [Nat -> Int] : more = Pays(paid, p)
  BY <1>10
<1>12. PICK e \in Nat : e = d + 1
  OBVIOUS
<1>13. s.output = e + 1
  <2>1. OwedFrom(e, more, tl, outs)
    BY <1>10, <1>11, <1>12
  <2>2. tl[1].output = e + 1
    BY <2>1, FirstPaid
  <2> QED
    BY <1>6, <2>2
<1>14. OwedFrom(e, Pays(more, q), rest, outs)
  BY <1>10, <1>11, <1>12, PartPaid
<1>15. q.output = s.output
  BY <1>6 DEF SplitOff, Payment
<1>16. p.output # q.output
  BY <1>10, <1>12, <1>13, <1>15
<1>17. /\ Payments(Append(gs, g)) = Pays(Pays(Payments(gs), p), q)
       /\ UnshieldBy(Append(gs, g)) = UnshieldBy(gs)
  BY <1>5, <1>16, TwoPayments
<1>18. OwedFrom(e, Payments(Append(gs, g)), rest, outs)
  BY <1>9, <1>11, <1>14, <1>17
<1>19. UnshieldBy(Append(gs, g)) = 0
  BY <1>17 DEF OutputsOwed
<1> QED
  BY <1>18, <1>19 DEF OutputsOwed

\* What is left of the list when a part of the second output is paid as well
LEMMA TailOfLess ==
  ASSUME NEW rem \in Seq(Payment), Len(rem) > 1, NEW v \in Nat, v <= rem[2].value
  PROVE  /\ Tail(rem) # <<>> /\ Tail(rem)[1] = rem[2] /\ Len(Tail(rem)) = Len(rem) - 1
         /\ SplitOff([rem[2] EXCEPT !.value = v], Tail([rem EXCEPT ![2].value = @ - v]),
                     Tail(rem), v)
         /\ Tail([rem EXCEPT ![2].value = @ - v]) \in Seq(Payment)
<1>1. rem # <<>>
  BY EmptySeq
<1>2. PICK r \in Nat : r = Len(rem) /\ r > 1
  BY LenProperties
<1>3. PICK tl \in Seq(Payment) : tl = Tail(rem)
  BY <1>1, TailIs
<1>4. Len(tl) = r - 1 /\ DOMAIN tl = 1..(r - 1) /\ DOMAIN rem = 1..r
      /\ \A j \in 1..(r - 1) : tl[j] = rem[j + 1]
  BY <1>1, <1>2, <1>3, TailIs
<1>5. tl # <<>> /\ tl[1] = rem[2] /\ 2 \in DOMAIN rem /\ 1 \in DOMAIN tl
  BY <1>2, <1>4, EmptySeq
<1>6. PICK less : less = [rem EXCEPT ![2].value = @ - v]
  OBVIOUS
<1>7. IsLess(less, rem, 2, v)
  BY <1>5, <1>6, LessIs
<1>8. less \in Seq(Payment) /\ Len(less) = r /\ less # <<>>
  BY <1>2, <1>7, EmptySeq DEF IsLess
<1>9. PICK lt \in Seq(Payment) : lt = Tail(less)
  BY <1>8, TailIs
<1>10. DOMAIN lt = 1..(r - 1) /\ \A j \in 1..(r - 1) : lt[j] = less[j + 1]
  BY <1>8, <1>9, TailIs
<1>11. PICK other : other = [tl EXCEPT ![1].value = @ - v]
  OBVIOUS
<1>12. PICK q : q = [rem[2] EXCEPT !.value = rem[2].value - v]
  OBVIOUS
<1>13. less = [rem EXCEPT ![2] = q] /\ other = [tl EXCEPT ![1] = q]
  BY <1>5, <1>6, <1>11, <1>12
<1>14. \A j \in 1..(r - 1) : lt[j] = other[j]
  <2> SUFFICES ASSUME NEW j \in 1..(r - 1) PROVE lt[j] = other[j]
    OBVIOUS
  <2>1. PICK i \in 1..r : i = j + 1
    BY <1>2
  <2>2. lt[j] = less[i] /\ tl[j] = rem[i]
    BY <1>4, <1>10, <2>1
  <2>3. CASE j = 1
    BY <1>4, <1>5, <1>13, <2>1, <2>2, <2>3
  <2>4. CASE j # 1
    <3>1. less[i] = rem[i]
      BY <1>4, <1>13, <2>1, <2>4
    <3>2. other[j] = tl[j]
      BY <1>4, <1>13, <2>4
    <3> QED
      BY <2>2, <3>1, <3>2
  <2> QED
    BY <2>3, <2>4
<1>15. lt = other
  <2>1. lt = [j \in 1..(r - 1) |-> lt[j]]
    BY <1>10, SeqDef
  <2>2. other = [j \in 1..(r - 1) |-> other[j]]
    BY <1>4, <1>13, SeqDef
  <2> QED
    BY <1>14, <2>1, <2>2
<1>16. SplitOff([rem[2] EXCEPT !.value = v], lt, tl, v)
  BY <1>5, <1>11, <1>15 DEF SplitOff
<1> QED
  BY <1>2, <1>3, <1>4, <1>5, <1>6, <1>9, <1>16

\* When all outputs are paid the unshield is owed.
LEMMA OutputsPaid ==
  ASSUME NEW gs, NEW outs \in Seq(Nat), OutputsOwed(gs, <<>>, outs),
         NEW rest, Len(rest) <= 1, Sum(rest) \in Int
  PROVE  UnshieldOwed(gs, rest, outs, Sum(rest))
<1>1. PICK d \in Nat : OwedFrom(d, Payments(gs), <<>>, outs)
  BY DEF OutputsOwed
<1>2. d = Len(outs)
  BY <1>1 DEF OwedFrom
<1>3. \A n \in DOMAIN outs : n \in Nat /\ n >= 1 /\ n <= d
  BY <1>2, LenProperties
<1>4. \A n \in DOMAIN outs : PaidBy(gs, n) = outs[n]
  BY <1>1, <1>3 DEF OwedFrom, Payments
<1> QED
  BY <1>4 DEF UnshieldOwed, OutputsOwed

LEMMA SumIsOf ==
  /\ Sum(<<>>) = 0
  /\ \A p \in Payment : Sum(<<p>>) = p.value
  /\ \A p, q \in Payment : Sum(<<p, q>>) = p.value + q.value
<1>1. Sum(<<>>) = 0
  BY WorthOfNone DEF Sum
<1>2. ASSUME NEW p \in Payment PROVE Sum(<<p>>) = p.value
  BY WorthOfOne DEF Sum
<1>3. ASSUME NEW p \in Payment, NEW q \in Payment PROVE Sum(<<p, q>>) = p.value + q.value
  BY WorthOfTwo DEF Sum
<1> QED
  BY <1>1, <1>2, <1>3

-----------------------------------------------------------------------------
(* The accounts of a batch.                                                  *)

Chosen == {"build", "done", "tooManyOutputs"}

OwedNow ==
  IF unshielding THEN UnshieldOwed(groups, remaining, request.outputs, request.unshield)
  ELSE OutputsOwed(groups, remaining, request.outputs)

Books ==
  /\ spend = Total(Value, utxos)
  /\ \A i \in DOMAIN groups : Over(Value, groups[i]) >= 0
  /\ stage = "start" => ~unshielding
  /\ stage \in Searching => OwedNow
  /\ stage = "outputs" /\ unshielding /\ remaining # <<>> => Primary.value > 0
  /\ stage \in Chosen => UnshieldOwed(groups, <<>>, request.outputs, request.unshield)

LEMMA SameValue ==
  ASSUME UNCHANGED wallet
  PROVE  Value' = Value /\ request' = request
BY SameWallet DEF Value

LEMMA RequestIs ==
  ASSUME TypeOK
  PROVE  /\ request.outputs \in Seq(Nat) /\ request.unshield \in Nat
         /\ Len(request.outputs) \in Nat /\ DOMAIN request.outputs = 1..Len(request.outputs)
<1>1. request.outputs \in Seq(Nat) /\ request.unshield \in Nat
  BY RequestsAreTyped DEF TypeOK
<1> QED
  BY <1>1, LenProperties

LEMMA LastIsGroup ==
  ASSUME NEW gs \in Seq(Group), NEW g, Append(gs, g) \in Seq(Group)
  PROVE  /\ g \in Group
         /\ DOMAIN Append(gs, g) = DOMAIN gs \union {Len(gs) + 1}
         /\ \A i \in DOMAIN gs : Append(gs, g)[i] = gs[i]
         /\ Append(gs, g)[Len(gs) + 1] = g
<1> DEFINE S == Group \union {g}
<1>1. gs \in Seq(S) /\ g \in S
  <2>1. Len(gs) \in Nat /\ gs \in [1..Len(gs) -> Group]
    BY LenProperties, ElementOfSeq
  <2>2. gs \in [1..Len(gs) -> S]
    BY <2>1
  <2> QED
    BY <2>1, <2>2, SeqDef
<1> HIDE DEF S
<1>2. /\ DOMAIN Append(gs, g) = DOMAIN gs \union {Len(gs) + 1}
      /\ \A i \in DOMAIN gs : Append(gs, g)[i] = gs[i]
      /\ Append(gs, g)[Len(gs) + 1] = g
  BY <1>1, Appended
<1>3. PICK hs \in Seq(Group) : hs = Append(gs, g)
  OBVIOUS
<1>4. \A i \in DOMAIN hs : hs[i] \in Group
  BY LenProperties, ElementOfSeq
<1>5. g \in Group
  BY <1>2, <1>3, <1>4
<1> QED
  BY <1>2, <1>5

\* A group that has its notes' worth over keeps the accounts of the others.
LEMMA OverGrows ==
  ASSUME UNCHANGED wallet, NEW g, groups \in Seq(Group), groups' \in Seq(Group),
         groups' = Append(groups, g),
         \A i \in DOMAIN groups : Over(Value, groups[i]) >= 0, Over(Value, g) >= 0
  PROVE  \A i \in DOMAIN groups' : Over(Value', groups'[i]) >= 0
<1>1. /\ DOMAIN groups' = DOMAIN groups \union {Len(groups) + 1}
      /\ \A i \in DOMAIN groups : groups'[i] = groups[i]
      /\ groups'[Len(groups) + 1] = g
  BY LastIsGroup
<1>2. \A i \in DOMAIN groups' : Over(Value, groups'[i]) >= 0
  BY <1>1
<1> QED
  BY <1>2, SameValue

\* Steps that choose no note and pay nothing
LEMMA QuietBooks ==
  ASSUME Inv, Books,
         \/ TooLow \/ StartOutput \/ NextTree \/ Exhausted \/ StartBatch \/ EndBatch
         \/ Build \/ Answered \/ UNCHANGED vars
  PROVE  Books'
<1>1. /\ UNCHANGED wallet /\ groups' = groups /\ unshielding' = unshielding
      /\ remaining' = remaining /\ utxos' = utxos /\ spend' = spend
  BY DEF TooLow, StartOutput, NextTree, Exhausted, StartBatch, EndBatch, Build, Answered,
         vars, batch
<1>2. /\ stage' \in Searching => stage \in Searching
      /\ stage' \in Chosen => stage \in Chosen
      /\ stage' = "start" => stage = "start"
      /\ stage' = "outputs" => stage = "outputs"
  BY DEF TooLow, StartOutput, NextTree, Exhausted, StartBatch, EndBatch, Build, Answered,
         vars, Searching, Chosen
<1>3. Value' = Value /\ request' = request /\ Primary' = Primary
  BY <1>1, SameValue DEF Primary
<1>4. OwedNow' = OwedNow
  BY <1>1, <1>3 DEF OwedNow
<1> QED
  BY <1>1, <1>2, <1>3, <1>4 DEF Books

LEMMA BatchBooks ==
  ASSUME Inv, Books, ExactMatch \/ Push
  PROVE  Books'
<1>1. /\ UNCHANGED wallet /\ groups' = groups /\ unshielding' = unshielding
      /\ remaining' = remaining
      /\ stage \in Searching /\ stage' \in Searching /\ stage' # "outputs" /\ stage' \notin Chosen
      /\ stage' # "start"
  BY DEF ExactMatch, Push, Searching, Chosen
<1>2. Value' = Value /\ request' = request
  BY <1>1, SameValue
<1>3. OwedNow' = OwedNow
  BY <1>1, <1>2 DEF OwedNow
<1>4. Available \subseteq Utxo
  BY NonZeroNotes DEF Available
<1> HIDE DEF Available
<1>5. spend' = Total(Value, utxos')
  <2>1. CASE ExactMatch
    <3>1. PICK u \in Exact(Available, Primary.value) : utxos' = {u}
      BY <2>1 DEF ExactMatch
    <3>2. u \in Utxo /\ note[u].value = Primary.value /\ spend' = Primary.value
      BY <1>4, <2>1, <3>1 DEF Exact, ExactMatch
    <3>3. Value[u] = Primary.value /\ Value[u] \in Int
      BY <3>2, ValuesAreNumbers DEF Inv
    <3> QED
      BY <3>1, <3>2, <3>3, TotalOne
  <2>2. CASE Push
    <3>1. PICK u \in Available \ utxos :
            utxos' = utxos \union {u} /\ spend' = spend + note[u].value
      BY <2>2 DEF Push
    <3>2. utxos \subseteq Utxo /\ IsFiniteSet(utxos) /\ u \in Utxo /\ u \notin utxos
      BY <1>4, NotesAreNumbered, FS_Subset DEF Inv, TypeOK
    <3>3. note[u].value \in Nat /\ Value[u] = note[u].value
          /\ \A x \in utxos \union {u} : Value[x] \in Int
      BY <3>2, ValuesAreNumbers DEF Inv
    <3>4. Total(Value, utxos \union {u}) = Value[u] + Total(Value, utxos)
          /\ Total(Value, utxos) \in Int
      BY <3>2, <3>3, TotalAdds
    <3> QED
      BY <3>1, <3>3, <3>4 DEF Books
  <2> QED
    BY <2>1, <2>2
<1> QED
  BY <1>1, <1>2, <1>3, <1>5 DEF Books

\* What the outputs of a request are worth, each and all
LEMMA OutputsAreWorth ==
  ASSUME TypeOK
  PROVE  /\ \A n \in DOMAIN request.outputs : PaidFor(Outputs, n) = request.outputs[n]
         /\ Sum(Outputs) \in Nat
         /\ TotalRequired = Sum(Outputs) + request.unshield
<1>1. PICK outs \in Seq(Payment) : outs = Outputs
  BY OutputsArePayments
<1>2. DOMAIN outs = DOMAIN request.outputs
      /\ \A n \in DOMAIN outs : outs[n].output = n /\ outs[n].value = request.outputs[n]
  BY <1>1 DEF Outputs
<1>3. ASSUME NEW n \in DOMAIN outs PROVE PaidFor(outs, n) = request.outputs[n]
  <2>1. For(outs, n) = {n}
    BY <1>2 DEF For
  <2>2. Worth(outs)[n] = request.outputs[n] /\ Worth(outs)[n] \in Int
    BY <1>2, WorthIs
  <2> QED
    BY <2>1, <2>2, TotalOne DEF PaidFor
<1>4. \A k \in DOMAIN outs : Worth(outs)[k] \in Int /\ Worth(outs)[k] >= 0
  BY WorthIs
<1>5. Sum(outs) \in Nat
  BY <1>4, WorthIs, TotalInt DEF Sum
<1> QED
  BY <1>1, <1>2, <1>3, <1>5, RequiredIsTotal DEF Sum

LEMMA StartBooks ==
  ASSUME Inv, Books, Simple \/ Complex, Inv'
  PROVE  Books'
<1>1. /\ UNCHANGED wallet /\ unshielding' = unshielding /\ ~unshielding
      /\ utxos' = utxos /\ spend' = spend /\ stage = "start" /\ groups = <<>>
  BY DEF Simple, Complex, batch, Books, Inv, Booked
<1>2. Value' = Value /\ request' = request
  BY <1>1, SameValue
<1>3. request.outputs \in Seq(Nat) /\ request.unshield \in Nat
  BY RequestIs DEF Inv
<1>4. CASE Simple
  <2>1. /\ stage' = "build"
        /\ \E t \in SpendingTrees : \E us \in SimpleUtxos(t) :
             groups' = <<[tree |-> t, utxos |-> us, outputs |-> Outputs,
                          unshield |-> request.unshield]>>
    BY <1>4 DEF Simple
  <2>2. PICK t \in SpendingTrees : \E us \in SimpleUtxos(t) :
             groups' = <<[tree |-> t, utxos |-> us, outputs |-> Outputs,
                          unshield |-> request.unshield]>>
    BY <2>1
  <2>3. PICK us \in SimpleUtxos(t) :
             groups' = <<[tree |-> t, utxos |-> us, outputs |-> Outputs,
                          unshield |-> request.unshield]>>
    BY <2>2
  <2>4. PICK g : g = [tree |-> t, utxos |-> us, outputs |-> Outputs,
                      unshield |-> request.unshield]
    OBVIOUS
  <2>5. g.utxos = us /\ g.outputs = Outputs /\ g.unshield = request.unshield
    BY <2>4
  <2>6. groups' = <<g>> /\ groups' \in Seq(Group)
    BY <2>3, <2>4 DEF Inv, TypeOK
  <2>7. g \in Group
    BY <2>6
  <2>8. <<>> \in Seq(Group) /\ Append(<<>>, g) = <<g>>
    BY EmptySeq
  <2>9. \A n : PaidBy(<<g>>, n) = PaidFor(Outputs, n)
    <3>1. ASSUME NEW n PROVE PaidBy(Append(<<>>, g), n) = PaidFor(g.outputs, n)
      <4>1. PaidBy(Append(<<>>, g), n) = PaidBy(<<>>, n) + PaidFor(g.outputs, n)
        BY <2>7, <2>8, PaidGrows, Zenon DEF PaidFor
      <4>2. PaidFor(g.outputs, n) \in Nat
        BY <2>7, GroupIs, Zenon DEF PaidFor
      <4>3. PaidBy(<<>>, n) = 0
        BY NothingPaid
      <4> QED
        BY <4>1, <4>2, <4>3
    <3> QED
      BY <2>5, <2>8, <3>1
  <2>10. UnshieldBy(<<g>>) = request.unshield
    <3>1. UnshieldBy(Append(<<>>, g)) = UnshieldBy(<<>>) + g.unshield
      BY <2>7, <2>8, PaidGrows
    <3> QED
      BY <1>3, <2>5, <2>8, <3>1, NothingPaid
  <2>11. UnshieldOwed(groups', <<>>, request.outputs, request.unshield)
    <3>1. \A n \in DOMAIN request.outputs : PaidBy(groups', n) = request.outputs[n]
      BY <2>6, <2>9, OutputsAreWorth DEF Inv
    <3>2. UnshieldBy(groups') + Sum(<<>>) = request.unshield
      BY <1>3, <2>6, <2>10, SumIsOf
    <3> QED
      BY <3>1, <3>2 DEF UnshieldOwed
  <2>12. Over(Value, g) >= 0
    <3>1. us \subseteq Utxo
      BY SolutionsAreNotes
    <3>2. Total(Value, us) >= TotalRequired /\ NullUtxo \notin us
      BY <3>1, SpendIsTotal, NullIsNoNote DEF SimpleUtxos
    <3>3. Total(Value, us) \in Nat
      BY <3>1, ValuesAreNumbers DEF Inv
    <3>4. TotalRequired = Sum(Outputs) + request.unshield /\ Sum(Outputs) \in Nat
      BY OutputsAreWorth DEF Inv
    <3>5. Over(Value, g) = Total(Value, us) - Sum(Outputs) - request.unshield
      BY <2>5, <3>2 DEF Over
    <3> QED
      BY <1>3, <3>2, <3>3, <3>4, <3>5
  <2>13. \A i \in DOMAIN groups' : Over(Value', groups'[i]) >= 0
    <3>1. \A i \in DOMAIN groups' : groups'[i] = g
      BY <2>6
    <3> QED
      BY <1>2, <2>12, <3>1
  <2> QED
    BY <1>1, <1>2, <2>1, <2>11, <2>13 DEF Books, Chosen, Searching
<1>5. CASE Complex
  <2>1. stage' = "outputs" /\ remaining' = Outputs /\ groups' = <<>>
    BY <1>1, <1>5 DEF Complex
  <2>2. PICK outs \in Seq(Payment) : outs = Outputs
    BY OutputsArePayments DEF Inv
  <2>3. DOMAIN outs = DOMAIN request.outputs
        /\ \A n \in DOMAIN outs : outs[n].output = n /\ outs[n].value = request.outputs[n]
    BY <2>2 DEF Outputs
  <2>4. PICK m \in Nat : m = Len(outs) /\ m = Len(request.outputs)
    <3>1. /\ Len(outs) \in Nat /\ DOMAIN outs = 1..Len(outs)
          /\ Len(request.outputs) \in Nat /\ DOMAIN request.outputs = 1..Len(request.outputs)
      BY <1>3, LenProperties
    <3>2. PICK a \in Nat, b \in Nat : a = Len(outs) /\ b = Len(request.outputs)
      BY <3>1
    <3>3. 1..a = 1..b
      BY <2>3, <3>1, <3>2
    <3>4. a = b
      BY <3>3
    <3> QED
      BY <3>2, <3>4
  <2>4a. DOMAIN outs = 1..m
    BY <2>4, LenProperties
  <2>5. \A n \in Nat : Payments(<<>>)[n] = 0
    BY NothingPaid DEF Payments
  <2>6. OwedFrom(0, Payments(<<>>), outs, request.outputs)
    <3>1. ASSUME NEW n \in Nat, NEW j \in Nat, j >= 1, j <= m, n = 0 + j
          PROVE  outs[j].output = n /\ Payments(<<>>)[n] + outs[j].value = request.outputs[n]
      <4>1. j = n /\ j \in DOMAIN outs
        BY <2>4a, <3>1
      <4>2. outs[n].value \in Nat
        BY <4>1, WorthIs
      <4> QED
        BY <2>3, <2>5, <4>1, <4>2
    <3> QED
      BY <2>4, <3>1 DEF OwedFrom
  <2>7. OutputsOwed(<<>>, outs, request.outputs)
    BY <2>6, NothingPaid DEF OutputsOwed
  <2>8. OwedNow'
    BY <1>1, <1>2, <2>1, <2>2, <2>7 DEF OwedNow
  <2>9. \A i \in DOMAIN groups' : Over(Value', groups'[i]) >= 0
    BY <2>1
  <2> QED
    BY <1>1, <1>2, <2>1, <2>8, <2>9 DEF Books, Chosen
<1> QED
  BY <1>4, <1>5

\* The group that becomes of the batch
TheGroup(g, outs, n) ==
  /\ groups' = Append(groups, g)
  /\ g.outputs = (IF unshielding THEN <<>> ELSE outs)
  /\ g.unshield = (IF unshielding THEN n ELSE 0)
  /\ Over(Value, g) = spend - Sum(g.outputs) - g.unshield

LEMMA AGroup ==
  ASSUME Inv, Books, Inv', NEW outs, NEW n, AddGroup(outs, n)
  PROVE  \E g \in Group : TheGroup(g, outs, n)
<1>1. PICK g : g = [tree |-> SpendingTree, utxos |-> utxos,
                    outputs  |-> IF unshielding THEN <<>> ELSE outs,
                    unshield |-> IF unshielding THEN n ELSE 0]
  OBVIOUS
<1>2. groups' = Append(groups, g)
  BY <1>1 DEF AddGroup
<1>3. /\ g.utxos = utxos
      /\ g.outputs = (IF unshielding THEN <<>> ELSE outs)
      /\ g.unshield = (IF unshielding THEN n ELSE 0)
  BY <1>1
<1>4. groups \in Seq(Group) /\ groups' \in Seq(Group)
  BY DEF Inv, TypeOK
<1>5. g \in Group
  BY <1>2, <1>4, LastIsGroup
<1>6. NullUtxo \notin g.utxos
  BY <1>3, NullIsNoNote DEF Inv, TypeOK
<1>7. Over(Value, g) = spend - Sum(g.outputs) - g.unshield
  BY <1>3, <1>6 DEF Over, Books
<1> QED
  BY <1>2, <1>3, <1>5, <1>7 DEF TheGroup

LEMMA AfterGroup ==
  ASSUME Inv, Books, Inv', NEW outs, NEW n, AddGroup(outs, n), stage' \in {"trees", "outputs"},
         NEW g \in Group, TheGroup(g, outs, n), Over(Value, g) >= 0, OwedNow',
         stage' = "outputs" /\ unshielding => remaining' = <<>>
  PROVE  Books'
<1>1. UNCHANGED wallet /\ unshielding' = unshielding /\ utxos' = {} /\ spend' = 0
  BY DEF AddGroup
<1>2. spend' = Total(Value', utxos')
  BY <1>1, TotalEmpty
<1>3. \A i \in DOMAIN groups' : Over(Value', groups'[i]) >= 0
  BY <1>1, OverGrows DEF Inv, TypeOK, Books, TheGroup
<1> QED
  BY <1>1, <1>2, <1>3 DEF Books, Chosen

\* What is known when a group is made
LEMMA PayingNow ==
  ASSUME Inv, Books, stage \in Paying
  PROVE  /\ remaining \in Seq(Payment) /\ remaining # <<>> /\ Primary = remaining[1]
         /\ Primary \in Payment /\ Primary.value \in Nat /\ Primary.value > 0
         /\ spend \in Nat /\ OwedNow /\ request.outputs \in Seq(Nat) /\ groups \in Seq(Group)
         /\ unshielding => remaining = <<Primary>>
<1>1. remaining \in Seq(Payment) /\ remaining # <<>> /\ Primary.value > 0
      /\ spend \in Nat /\ groups \in Seq(Group)
  BY DEF Inv, TypeOK, Batched
<1>2. Primary \in Payment /\ Primary.value \in Nat /\ Primary = remaining[1]
  BY <1>1, FirstLeft DEF Primary, Payment
<1>3. OwedNow
  BY DEF Books, Searching, Paying
<1>4. ASSUME unshielding PROVE remaining = <<Primary>>
  <2>1. Len(remaining) <= 1
    BY <1>3, <1>4 DEF OwedNow, UnshieldOwed
  <2>2. Len(remaining) \in Nat /\ Len(remaining) >= 1
    BY <1>1, TailIs
  <2>3. Len(remaining) = 1
    BY <2>1, <2>2
  <2>4. remaining = [j \in 1..1 |-> remaining[j]]
    BY <1>1, <2>3, SeqDef
  <2> QED
    BY <1>2, <2>4
<1> QED
  BY <1>1, <1>2, <1>3, <1>4, RequestIs DEF Inv

LEMMA PartBooks ==
  ASSUME Inv, Books, PayPart, Inv'
  PROVE  Books'
<1>1. PICK p : p = [Primary EXCEPT !.value = spend]
  OBVIOUS
<1>2. PICK rest : rest = [remaining EXCEPT ![1].value = @ - spend]
  OBVIOUS
<1>3. /\ stage = "group" /\ spend < Primary.value /\ AddGroup(<<p>>, spend)
      /\ remaining' = rest /\ stage' = "trees"
  BY <1>1, <1>2 DEF PayPart
<1>4. /\ remaining \in Seq(Payment) /\ remaining # <<>> /\ Primary = remaining[1]
      /\ Primary \in Payment /\ Primary.value \in Nat
      /\ spend \in Nat /\ OwedNow /\ request.outputs \in Seq(Nat) /\ groups \in Seq(Group)
      /\ unshielding => remaining = <<Primary>>
  BY <1>3, PayingNow DEF Paying
<1>5. p \in Payment /\ p.value = spend /\ SplitOff(p, rest, remaining, spend)
  BY <1>1, <1>2, <1>4 DEF Payment, SplitOff
<1>6. PICK g \in Group : TheGroup(g, <<p>>, spend)
  BY <1>3, AGroup
<1>7. UNCHANGED wallet /\ unshielding' = unshielding /\ request' = request /\ rest \in Seq(Payment)
  BY <1>3, SameValue DEF AddGroup, Inv, TypeOK
<1>8. CASE unshielding
  <2>1. g.outputs = <<>> /\ g.unshield = spend /\ Over(Value, g) = spend - Sum(<<>>) - spend
        /\ groups' = Append(groups, g)
    BY <1>6, <1>8 DEF TheGroup
  <2>2. Over(Value, g) >= 0
    BY <1>4, <2>1, SumIsOf
  <2>3. UnshieldOwed(groups, remaining, request.outputs, request.unshield)
    BY <1>4, <1>8 DEF OwedNow
  <2>4. PICK q : q = [Primary EXCEPT !.value = Primary.value - spend]
    OBVIOUS
  <2>4a. Primary.value - spend \in Nat
    BY <1>3, <1>4
  <2>5. q \in Payment /\ q.value = Primary.value - spend
    BY <1>4, <2>4, <2>4a DEF Payment
  <2>6. rest = <<q>>
    BY <1>2, <1>4, <1>8, <2>4
  <2>7. Len(rest) <= 1 /\ Sum(rest) = Primary.value - spend /\ Sum(remaining) = Primary.value
    BY <1>4, <1>8, <2>5, <2>6, SumIsOf
  <2>8. UnshieldOwed(Append(groups, g), rest, request.outputs, request.unshield)
    <3>1. Sum(rest) \in Int /\ Sum(remaining) = g.unshield + Sum(rest)
      BY <1>4, <2>1, <2>7
    <3> QED
      BY <1>4, <1>7, <2>1, <2>3, <2>7, <3>1, GroupUnshields
  <2>9. OwedNow'
    BY <1>3, <1>7, <1>8, <2>1, <2>8 DEF OwedNow
  <2> QED
    BY <1>3, <1>6, <2>2, <2>9, AfterGroup
<1>9. CASE ~unshielding
  <2>1. g.outputs = <<p>> /\ g.unshield = 0 /\ Over(Value, g) = spend - Sum(<<p>>) - 0
        /\ groups' = Append(groups, g)
    BY <1>6, <1>9 DEF TheGroup
  <2>2. Over(Value, g) >= 0
    BY <1>4, <1>5, <2>1, SumIsOf
  <2>3. OutputsOwed(groups, remaining, request.outputs)
    BY <1>4, <1>9 DEF OwedNow
  <2>4. OutputsOwed(Append(groups, g), rest, request.outputs)
    <3>1. spend <= remaining[1].value
      BY <1>3, <1>4
    <3> QED
      BY <1>4, <1>5, <2>1, <2>3, <3>1, PaysPart
  <2>5. OwedNow'
    BY <1>3, <1>7, <1>9, <2>1, <2>4 DEF OwedNow
  <2> QED
    BY <1>3, <1>6, <2>2, <2>5, AfterGroup
<1> QED
  BY <1>8, <1>9

LEMMA RestBooks ==
  ASSUME Inv, Books, PayRest, Inv'
  PROVE  Books'
<1>1. PICK p : p = Primary
  OBVIOUS
<1>2. PICK rest : rest = Tail(remaining)
  OBVIOUS
<1>3. /\ stage = "group" /\ spend >= p.value /\ AddGroup(<<p>>, p.value)
      /\ remaining' = rest /\ stage' = "outputs"
  BY <1>1, <1>2 DEF PayRest
<1>4. /\ remaining \in Seq(Payment) /\ remaining # <<>> /\ p = remaining[1]
      /\ p \in Payment /\ p.value \in Nat
      /\ spend \in Nat /\ OwedNow /\ request.outputs \in Seq(Nat) /\ groups \in Seq(Group)
      /\ unshielding => remaining = <<p>>
  BY <1>1, <1>3, PayingNow DEF Paying
<1>5. PICK g \in Group : TheGroup(g, <<p>>, p.value)
  BY <1>3, AGroup
<1>6. UNCHANGED wallet /\ unshielding' = unshielding /\ request' = request /\ rest \in Seq(Payment)
  BY <1>3, SameValue DEF AddGroup, Inv, TypeOK
<1>7. CASE unshielding
  <2>1. g.outputs = <<>> /\ g.unshield = p.value /\ Over(Value, g) = spend - Sum(<<>>) - p.value
        /\ groups' = Append(groups, g)
    BY <1>5, <1>7 DEF TheGroup
  <2>2. Over(Value, g) >= 0
    BY <1>3, <1>4, <2>1, SumIsOf
  <2>3. UnshieldOwed(groups, remaining, request.outputs, request.unshield)
    BY <1>4, <1>7 DEF OwedNow
  <2>4. rest = <<>>
    BY <1>2, <1>4, <1>7
  <2>5. Len(rest) <= 1 /\ Sum(rest) = 0 /\ Sum(remaining) = p.value
    BY <1>4, <1>7, <2>4, SumIsOf
  <2>6. UnshieldOwed(Append(groups, g), rest, request.outputs, request.unshield)
    <3>1. Sum(rest) \in Int /\ Sum(remaining) = g.unshield + Sum(rest)
      BY <1>4, <2>1, <2>5
    <3> QED
      BY <1>4, <1>6, <2>1, <2>3, <2>5, <3>1, GroupUnshields
  <2>7. OwedNow'
    BY <1>3, <1>6, <1>7, <2>1, <2>6 DEF OwedNow
  <2> QED
    BY <1>3, <1>5, <2>2, <2>4, <2>7, AfterGroup
<1>8. CASE ~unshielding
  <2>1. g.outputs = <<p>> /\ g.unshield = 0 /\ Over(Value, g) = spend - Sum(<<p>>) - 0
        /\ groups' = Append(groups, g)
    BY <1>5, <1>8 DEF TheGroup
  <2>2. Over(Value, g) >= 0
    BY <1>3, <1>4, <2>1, SumIsOf
  <2>3. OutputsOwed(groups, remaining, request.outputs)
    BY <1>4, <1>8 DEF OwedNow
  <2>4. OutputsOwed(Append(groups, g), rest, request.outputs)
    BY <1>2, <1>4, <2>1, <2>3, PaysFirst
  <2>5. OwedNow'
    BY <1>3, <1>6, <1>8, <2>1, <2>4 DEF OwedNow
  <2> QED
    BY <1>3, <1>5, <1>8, <2>2, <2>5, AfterGroup
<1> QED
  BY <1>7, <1>8

LEMMA SecondBooks ==
  ASSUME Inv, Books, PaySecondary, Inv'
  PROVE  Books'
<1>1. PICK p : p = Primary
  OBVIOUS
<1>2. PICK s : s = Secondary /\ s = remaining[2]
  BY DEF Secondary
<1>3. PICK change : change = Change /\ change = spend - p.value
  BY <1>1 DEF Change
<1>4. /\ stage = "group" /\ spend >= p.value /\ stage' = "outputs"
      /\ ~unshielding /\ Len(remaining) > 1 /\ change > 0
  BY <1>1, <1>3 DEF PaySecondary, UsesChange
<1>5. /\ remaining \in Seq(Payment) /\ remaining # <<>> /\ p = remaining[1]
      /\ p \in Payment /\ p.value \in Nat
      /\ spend \in Nat /\ OwedNow /\ request.outputs \in Seq(Nat) /\ groups \in Seq(Group)
  BY <1>1, <1>4, PayingNow DEF Paying
<1>6. change \in Nat
  BY <1>3, <1>4, <1>5
<1>7. s \in Payment /\ s.value \in Nat
  <2>1. 2 \in 1..Len(remaining) /\ \A j \in 1..Len(remaining) : remaining[j] \in Payment
    BY <1>4, <1>5, TailIs
  <2>2. s \in Payment
    BY <1>2, <2>1
  <2> QED
    BY <2>2 DEF Payment
<1>8. OutputsOwed(groups, remaining, request.outputs)
  BY <1>4, <1>5 DEF OwedNow
<1>9. CASE s.value < change
  <2>1. AddGroup(<<p, s>>, 0) /\ remaining' = Tail(Tail(remaining))
    BY <1>1, <1>2, <1>3, <1>9 DEF PaySecondary
  <2>2. PICK g \in Group : TheGroup(g, <<p, s>>, 0)
    BY <2>1, AGroup
  <2>3. g.outputs = <<p, s>> /\ g.unshield = 0 /\ Over(Value, g) = spend - Sum(<<p, s>>) - 0
        /\ groups' = Append(groups, g)
    BY <1>4, <2>2 DEF TheGroup
  <2>4. Sum(<<p, s>>) = p.value + s.value
    BY <1>5, <1>7, SumIsOf
  <2>5. Over(Value, g) >= 0
    BY <1>3, <1>5, <1>7, <1>9, <2>3, <2>4
  <2>6. OutputsOwed(Append(groups, g), Tail(Tail(remaining)), request.outputs)
    BY <1>2, <1>4, <1>5, <1>8, <2>3, PaysTwo
  <2>7. unshielding' = unshielding /\ request' = request
    BY <2>1, SameValue DEF AddGroup
  <2>8. OwedNow'
    BY <1>4, <2>1, <2>3, <2>6, <2>7 DEF OwedNow
  <2> QED
    BY <1>4, <2>1, <2>2, <2>5, <2>8, AfterGroup
<1>10. CASE ~(s.value < change)
  <2>1. PICK q : q = [s EXCEPT !.value = change]
    OBVIOUS
  <2>2. PICK less : less = [remaining EXCEPT ![2].value = @ - change]
    OBVIOUS
  <2>3. /\ AddGroup(<<p, q>>, 0)
        /\ remaining' = IF s.value > change THEN Tail(less) ELSE Tail(Tail(remaining))
    BY <1>1, <1>2, <1>3, <1>10, <2>1, <2>2 DEF PaySecondary
  <2>4. q \in Payment /\ q.value = change
    BY <1>6, <1>7, <2>1 DEF Payment
  <2>5. PICK g \in Group : TheGroup(g, <<p, q>>, 0)
    BY <2>3, AGroup
  <2>6. g.outputs = <<p, q>> /\ g.unshield = 0 /\ Over(Value, g) = spend - Sum(<<p, q>>) - 0
        /\ groups' = Append(groups, g)
    BY <1>4, <2>5 DEF TheGroup
  <2>7. Sum(<<p, q>>) = p.value + change
    BY <1>5, <2>4, SumIsOf
  <2>8. Over(Value, g) >= 0
    BY <1>3, <1>5, <1>6, <2>6, <2>7
  <2>9. unshielding' = unshielding /\ request' = request
    BY <2>3, SameValue DEF AddGroup
  <2>10. OutputsOwed(Append(groups, g), remaining', request.outputs)
    <3>1. CASE s.value > change
      <4>1. change <= remaining[2].value
        BY <1>2, <1>6, <1>7, <3>1
      <4>2. /\ Tail(remaining) # <<>> /\ Tail(remaining)[1] = remaining[2]
            /\ SplitOff([remaining[2] EXCEPT !.value = change],
                        Tail([remaining EXCEPT ![2].value = @ - change]), Tail(remaining), change)
        BY <1>4, <1>5, <1>6, <4>1, TailOfLess
      <4>3. PICK tl \in Seq(Payment) : tl = Tail(remaining)
        BY <1>5, TailIs
      <4>4. SplitOff(q, Tail(less), tl, change) /\ tl # <<>> /\ change <= tl[1].value
        BY <1>2, <2>1, <2>2, <4>1, <4>2, <4>3
      <4>5. OutputsOwed(Append(groups, g), Tail(less), request.outputs)
        BY <1>5, <1>6, <1>8, <2>4, <2>6, <4>3, <4>4, PaysNext
      <4> QED
        BY <2>3, <3>1, <4>5
    <3>2. CASE ~(s.value > change)
      <4>1. s.value = change
        BY <1>6, <1>7, <1>10, <3>2
      <4>2. q = s
        BY <1>7, <2>1, <4>1 DEF Payment
      <4>3. OutputsOwed(Append(groups, g), Tail(Tail(remaining)), request.outputs)
        BY <1>2, <1>4, <1>5, <1>8, <2>6, <4>2, PaysTwo
      <4> QED
        BY <2>3, <3>2, <4>3
    <3> QED
      BY <3>1, <3>2
  <2>11. OwedNow'
    BY <1>4, <2>6, <2>9, <2>10 DEF OwedNow
  <2> QED
    BY <1>4, <2>3, <2>5, <2>8, <2>11, AfterGroup
<1> QED
  BY <1>9, <1>10

LEMMA ZeroBooks ==
  ASSUME Inv, Books, ZeroOutput, Inv'
  PROVE  Books'
<1>1. PICK p : p = Primary
  OBVIOUS
<1>2. PICK g : g = [tree |-> 0, utxos |-> {NullUtxo}, outputs |-> <<p>>, unshield |-> 0]
  OBVIOUS
<1>3. /\ groups' = Append(groups, g) /\ remaining' = Tail(remaining)
      /\ remaining # <<>> /\ p.value = 0 /\ stage = "outputs" /\ stage' = "outputs"
      /\ UNCHANGED wallet /\ unshielding' = unshielding /\ utxos' = utxos /\ spend' = spend
  BY <1>1, <1>2 DEF ZeroOutput, batch
<1>4. remaining \in Seq(Payment) /\ groups \in Seq(Group) /\ groups' \in Seq(Group)
  BY DEF Inv, TypeOK
<1>5. p \in Payment /\ p = remaining[1]
  BY <1>1, <1>3, <1>4, FirstLeft DEF Primary
<1>6. g.outputs = <<p>> /\ g.unshield = 0 /\ g.utxos = {NullUtxo}
  BY <1>2
<1>7. g \in Group
  BY <1>3, <1>4, LastIsGroup
<1>8. ~unshielding
  BY <1>1, <1>3 DEF Books
<1>9. OutputsOwed(groups, remaining, request.outputs)
  BY <1>3, <1>8 DEF Books, OwedNow, Searching
<1>10. OutputsOwed(Append(groups, g), Tail(remaining), request.outputs)
  BY <1>3, <1>4, <1>5, <1>6, <1>7, <1>9, PaysFirst
<1>11. Value' = Value /\ request' = request
  BY <1>3, SameValue
<1>12. OwedNow'
  BY <1>3, <1>8, <1>10, <1>11 DEF OwedNow
<1>13. Over(Value, g) >= 0
  BY <1>3, <1>5, <1>6, SumIsOf DEF Over
<1>14. \A i \in DOMAIN groups' : Over(Value', groups'[i]) >= 0
  BY <1>3, <1>4, <1>13, OverGrows DEF Books
<1> QED
  BY <1>3, <1>8, <1>11, <1>12, <1>14 DEF Books, Chosen

LEMMA EndBooks ==
  ASSUME Inv, Books, StartUnshield \/ AllPaid, Inv'
  PROVE  Books'
<1>1. /\ UNCHANGED wallet /\ groups' = groups /\ utxos' = utxos /\ spend' = spend
      /\ stage = "outputs" /\ remaining = <<>>
  BY DEF StartUnshield, AllPaid, batch
<1>2. Value' = Value /\ request' = request
  BY <1>1, SameValue
<1>3. request.outputs \in Seq(Nat) /\ request.unshield \in Nat
  BY RequestIs DEF Inv
<1>4. OwedNow
  BY <1>1 DEF Books, Searching
<1>5. CASE StartUnshield
  <2>1. PICK p : p = [output |-> Unshield, value |-> request.unshield]
    OBVIOUS
  <2>2. /\ stage' = "outputs" /\ remaining' = <<p>> /\ unshielding' = TRUE /\ ~unshielding
        /\ request.unshield > 0
    BY <1>5, <2>1 DEF StartUnshield
  <2>3. p \in Payment /\ p.value = request.unshield
    BY <1>3, <2>1 DEF Payment, Unshield
  <2>4. PICK rest : rest = <<p>>
    OBVIOUS
  <2>5. Len(rest) <= 1 /\ Sum(rest) = request.unshield /\ rest # <<>> /\ rest[1] = p
    BY <2>3, <2>4, SumIsOf
  <2>6. OutputsOwed(groups, <<>>, request.outputs)
    BY <1>1, <1>4, <2>2 DEF OwedNow
  <2>7. UnshieldOwed(groups, rest, request.outputs, request.unshield)
    <3>1. UnshieldOwed(groups, rest, request.outputs, Sum(rest))
      BY <1>3, <2>5, <2>6, OutputsPaid
    <3> QED
      BY <2>5, <3>1
  <2>8. OwedNow'
    BY <1>1, <1>2, <2>2, <2>4, <2>7 DEF OwedNow
  <2>9. Primary' = p
    BY <2>2, <2>4, <2>5 DEF Primary
  <2> QED
    BY <1>1, <1>2, <2>2, <2>3, <2>8, <2>9 DEF Books, Chosen
<1>6. CASE AllPaid
  <2>1. /\ stage' = "build" /\ remaining' = remaining /\ unshielding' = unshielding
        /\ request.unshield = 0 \/ unshielding
    BY <1>6 DEF AllPaid
  <2>2. UnshieldOwed(groups, <<>>, request.outputs, request.unshield)
    <3>1. CASE unshielding
      BY <1>1, <1>4, <3>1 DEF OwedNow
    <3>2. CASE ~unshielding
      <4>1. OutputsOwed(groups, <<>>, request.outputs)
        BY <1>1, <1>4, <3>2 DEF OwedNow
      <4>2. Sum(<<>>) = 0 /\ Len(<<>>) <= 1 /\ request.unshield = 0
        BY <2>1, <3>2, SumIsOf
      <4>3. UnshieldOwed(groups, <<>>, request.outputs, Sum(<<>>))
        BY <1>3, <4>1, <4>2, OutputsPaid
      <4> QED
        BY <4>2, <4>3
    <3> QED
      BY <3>1, <3>2
  <2> QED
    BY <1>1, <1>2, <2>1, <2>2 DEF Books, Chosen, Searching
<1> QED
  BY <1>5, <1>6

LEMMA BooksStart == Init => Books
<1>1. SUFFICES ASSUME Init PROVE Books
  OBVIOUS
<1>2. spend = Total(Value, utxos)
  BY <1>1, TotalEmpty DEF Init
<1> QED
  BY <1>1, <1>2 DEF Init, Books, Searching, Chosen

LEMMA BooksStep ==
  ASSUME Inv, Books, [Next]_vars, Inv'
  PROVE  Books'
<1>1. CASE \/ TooLow \/ StartOutput \/ NextTree \/ Exhausted \/ StartBatch \/ EndBatch
           \/ Build \/ Answered \/ UNCHANGED vars
  BY <1>1, QuietBooks
<1>2. CASE ExactMatch \/ Push
  BY <1>2, BatchBooks
<1>3. CASE Simple \/ Complex
  BY <1>3, StartBooks
<1>4. CASE ZeroOutput
  BY <1>4, ZeroBooks
<1>5. CASE PayPart
  BY <1>5, PartBooks
<1>6. CASE PayRest
  BY <1>6, RestBooks
<1>7. CASE PaySecondary
  BY <1>7, SecondBooks
<1>8. CASE StartUnshield \/ AllPaid
  BY <1>8, EndBooks
<1> QED
  BY <1>1, <1>2, <1>3, <1>4, <1>5, <1>6, <1>7, <1>8 DEF Next

\* The accounts of a batch are right.
THEOREM BooksAreKept == Spec => []Books
<1>1. Inv /\ Books /\ [Next]_vars /\ Inv' => Books'
  BY BooksStep
<1> QED
  BY <1>1, BooksStart, SelectionInvariant, PTL DEF Spec

LEMMA OverIsChange ==
  ASSUME TypeOK, NEW g \in Group
  PROVE  ChangeOf(g) = Over(Value, g)
<1>1. NoteTotal(g.outputs) = Sum(g.outputs)
  BY NoteTotalIsTotal DEF Sum
<1>2. ASSUME NullUtxo \notin g.utxos PROVE TotalSpend(g.utxos) = Total(Value, g.utxos)
  <2>1. g.utxos \in SUBSET Utxo
    BY <1>2 DEF Group
  <2> QED
    BY <2>1, SpendIsTotal
<1> QED
  BY <1>1, <1>2 DEF ChangeOf, Over

LEMMA PaidIsTotal ==
  /\ \A n : Paid(n) = PaidBy(groups, n)
  /\ UnshieldPaid = UnshieldBy(groups)
<1>1. ASSUME NEW n PROVE Paid(n) = PaidBy(groups, n)
  <2>1. \A outs : PaidIn(outs, n) = PaidFor(outs, n)
    BY PaidInIsTotal DEF PaidFor
  <2>2. Paid(n) = Total([i \in DOMAIN groups |-> PaidIn(groups[i].outputs, n)], DOMAIN groups)
    BY DEF Paid, MapThenSumSet, MapThenFoldSet, Total, IsSum, SumStep, Pick
  <2> QED
    BY <2>1, <2>2 DEF PaidBy, PaidFor
<1>2. UnshieldPaid = UnshieldBy(groups)
  BY DEF UnshieldPaid, MapThenSumSet, MapThenFoldSet, Total, IsSum, SumStep, Pick, UnshieldBy
<1> QED
  BY <1>1, <1>2

\* What is asked for is paid, to the last unit, and no transaction pays out more
\* than its notes are worth.
THEOREM OutputsGetPaid == Spec => []OutputsArePaid
<1>1. Inv /\ Books => OutputsArePaid
  <2>1. SUFFICES ASSUME Inv, Books PROVE OutputsArePaid
    OBVIOUS
  <2>2. ASSUME NEW i \in DOMAIN groups PROVE ChangeOf(groups[i]) >= 0
    <3>1. groups[i] \in Group
      BY <2>1, LenProperties, ElementOfSeq DEF Inv, TypeOK
    <3> QED
      BY <2>1, <3>1, OverIsChange DEF Inv, Books
  <2>3. ASSUME stage \in Chosen
        PROVE  /\ \A n \in DOMAIN request.outputs : Paid(n) = request.outputs[n]
               /\ UnshieldPaid = request.unshield
    <3>1. UnshieldOwed(groups, <<>>, request.outputs, request.unshield)
      BY <2>1, <2>3 DEF Books
    <3>2. UnshieldBy(groups) \in Int
      <4>1. groups \in Seq(Group)
        BY <2>1 DEF Inv, TypeOK
      <4>2. IsFiniteSet(DOMAIN groups) /\ \A i \in DOMAIN groups : groups[i].unshield \in Int
        <5>1. \A i \in DOMAIN groups : groups[i] \in Group
          BY <4>1, LenProperties, ElementOfSeq
        <5> QED
          BY <4>1, <5>1, LenProperties, FS_Interval DEF Group
      <4>3. PICK f : f = [i \in DOMAIN groups |-> groups[i].unshield]
        OBVIOUS
      <4>4. \A i \in DOMAIN groups : f[i] \in Int
        BY <4>2, <4>3
      <4> QED
        BY <4>2, <4>3, <4>4, TotalInt DEF UnshieldBy
    <3>3. Sum(<<>>) = 0
      BY SumIsOf
    <3> QED
      BY <3>1, <3>2, <3>3, PaidIsTotal DEF UnshieldOwed
  <2> QED
    BY <2>2, <2>3 DEF OutputsArePaid, Chosen
<1> QED
  BY <1>1, BooksAreKept, SelectionInvariant, PTL

-----------------------------------------------------------------------------
(* Batches that do not fail: of two outputs, or of an unshield alone.        *)

FewOutputs == Len(request.outputs) <= 2 /\ (request.outputs = <<>> \/ request.unshield = 0)

Required == Sum(Outputs) + request.unshield

\* Until the last output is being paid nothing is wasted: the notes that are taken
\* and what is left to pay add up to what is required, which the wallet has.
Thrifty ==
  /\ stage \in Searching => Required <= Total(Value, Utxo)
  /\ stage \in Searching /\ ~unshielding /\ request.outputs = <<>> =>
       remaining = <<>> /\ excluded = {}
  /\ stage \in Searching /\ remaining # <<>> =>
       Total(Value, excluded) + Sum(remaining) = Required
  /\ stage # "utxosExhausted"
Thrift == FewOutputs => Thrifty

LEMMA OneOrTwo ==
  ASSUME NEW rem \in Seq(Payment)
  PROVE  /\ Len(rem) = 1 => rem = <<rem[1]>>
         /\ Len(rem) = 2 => rem = <<rem[1], rem[2]>>
<1>1. rem = [j \in 1..Len(rem) |-> rem[j]]
  BY SeqDef
<1> QED
  BY <1>1

LEMMA SameRequired ==
  ASSUME UNCHANGED wallet
  PROVE  /\ Required' = Required /\ FewOutputs' = FewOutputs /\ Value' = Value
         /\ request' = request
BY SameValue DEF Required, FewOutputs, Outputs

\* What is left has at most two elements, and of a list of outputs no unshield is asked.
LEMMA FewRemain ==
  ASSUME Inv, Books, FewOutputs, stage \in Searching, remaining # <<>>
  PROVE  /\ remaining \in Seq(Payment)
         /\ \/ \E p \in Payment : remaining = <<p>>
            \/ ~unshielding /\ \E p, q \in Payment : remaining = <<p, q>>
         /\ Primary = remaining[1]
<1>1. remaining \in Seq(Payment) /\ Len(remaining) \in Nat /\ Len(remaining) >= 1
      /\ \A j \in 1..Len(remaining) : remaining[j] \in Payment
  BY TailIs DEF Inv, TypeOK
<1>1a. PICK r \in Nat : r = Len(remaining) /\ r >= 1
  BY <1>1
<1>2. OwedNow
  BY DEF Books
<1>3. CASE unshielding
  <2>0. Len(remaining) <= 1
    BY <1>2, <1>3 DEF OwedNow, UnshieldOwed
  <2>1. Len(remaining) = 1
    BY <1>1a, <2>0
  <2>2. remaining = <<remaining[1]>> /\ remaining[1] \in Payment
    BY <1>1, <2>1, OneOrTwo
  <2> QED
    BY <1>1, <2>2 DEF Primary
<1>4. CASE ~unshielding
  <2>1. PICK d \in Nat : Len(request.outputs) = d + Len(remaining)
    BY <1>2, <1>4 DEF OwedNow, OutputsOwed, OwedFrom
  <2>1a. Len(request.outputs) <= 2
    BY DEF FewOutputs
  <2>2. Len(remaining) = 1 \/ Len(remaining) = 2
    BY <1>1a, <2>1, <2>1a
  <2>3. CASE Len(remaining) = 1
    <3>1. remaining = <<remaining[1]>> /\ remaining[1] \in Payment
      BY <1>1, <2>3, OneOrTwo
    <3> QED
      BY <1>1, <3>1 DEF Primary
  <2>4. CASE Len(remaining) = 2
    <3>1. remaining = <<remaining[1], remaining[2]>> /\ remaining[1] \in Payment
          /\ remaining[2] \in Payment
      BY <1>1, <2>4, OneOrTwo
    <3> QED
      BY <1>1, <1>4, <3>1 DEF Primary
  <2> QED
    BY <2>2, <2>3, <2>4
<1> QED
  BY <1>3, <1>4

LEMMA TakenIs ==
  ASSUME Inv
  PROVE  /\ Total(Value, excluded) \in Nat /\ Total(Value, Utxo) \in Nat
         /\ Total(Value, excluded \union utxos) = Total(Value, excluded) + Total(Value, utxos)
<1>1. excluded \subseteq Utxo /\ utxos \subseteq Utxo /\ utxos \intersect excluded = {}
  BY DEF Inv, TypeOK, Batched
<1>2. Total(Value, excluded) \in Nat /\ Total(Value, Utxo) \in Nat
  BY <1>1, ValuesAreNumbers DEF Inv
<1>3. IsFiniteSet(excluded) /\ IsFiniteSet(utxos) /\ excluded \intersect utxos = {}
      /\ \A x \in excluded \union utxos : Value[x] \in Int
  BY <1>1, ValuesAreNumbers DEF Inv
<1> QED
  BY <1>2, <1>3, TotalJoins

LEMMA QuietThrift ==
  ASSUME Inv, Books, Thrift,
         \/ TooLow \/ Simple \/ StartOutput \/ NextTree \/ StartBatch \/ EndBatch \/ ExactMatch
         \/ Push \/ AllPaid \/ Build \/ Answered \/ UNCHANGED vars
  PROVE  Thrift'
<1>1. /\ UNCHANGED wallet /\ unshielding' = unshielding /\ remaining' = remaining
      /\ excluded' = excluded
      /\ stage' \in Searching => stage \in Searching
      /\ stage' = "utxosExhausted" => stage = "utxosExhausted"
  BY DEF TooLow, Simple, StartOutput, NextTree, StartBatch, EndBatch, ExactMatch, Push, AllPaid,
         Build, Answered, vars, Searching
<1>2. Required' = Required /\ FewOutputs' = FewOutputs /\ Value' = Value /\ request' = request
  BY <1>1, SameRequired
<1> QED
  BY <1>1, <1>2 DEF Thrift, Thrifty

LEMMA ComplexThrift ==
  ASSUME Inv, Books, Thrift, Complex
  PROVE  Thrift'
<1>1. /\ UNCHANGED wallet /\ unshielding' = unshielding /\ remaining' = Outputs
      /\ excluded' = excluded /\ stage' = "outputs" /\ stage = "start"
      /\ TotalRequired <= TokenBalance
  BY DEF Complex
<1>2. Required' = Required /\ FewOutputs' = FewOutputs /\ Value' = Value /\ request' = request
  BY <1>1, SameRequired
<1>3. excluded = {} /\ ~unshielding
  BY <1>1 DEF Inv, Booked, Books
<1>4. Required = TotalRequired /\ Sum(Outputs) \in Nat
  BY OutputsAreWorth DEF Required, Inv
<1>5. TokenBalance = Total(Value, Utxo)
  BY SpendIsTotal DEF TokenBalance
<1>6. request.outputs = <<>> => Outputs = <<>>
  BY DEF Outputs
<1>7. SUFFICES ASSUME FewOutputs, Outputs # <<>>
      PROVE  Total(Value, {}) + Sum(Outputs) = Required
  BY <1>1, <1>2, <1>3, <1>4, <1>5, <1>6 DEF Thrift, Thrifty
<1>8. request.unshield = 0
  BY <1>6, <1>7 DEF FewOutputs
<1> QED
  BY <1>4, <1>8, TotalEmpty DEF Required

LEMMA ZeroThrift ==
  ASSUME Inv, Books, Thrift, ZeroOutput
  PROVE  Thrift'
<1>1. /\ UNCHANGED wallet /\ unshielding' = unshielding /\ remaining' = Tail(remaining)
      /\ excluded' = excluded /\ stage = "outputs" /\ stage' = "outputs"
      /\ remaining # <<>> /\ Primary.value = 0
  BY DEF ZeroOutput
<1>2. Required' = Required /\ FewOutputs' = FewOutputs /\ Value' = Value /\ request' = request
  BY <1>1, SameRequired
<1>3. SUFFICES ASSUME FewOutputs, Tail(remaining) # <<>>
      PROVE  Sum(Tail(remaining)) = Sum(remaining)
  BY <1>1, <1>2, <1>3 DEF Thrift, Thrifty, Searching
<1>4. /\ \/ \E p \in Payment : remaining = <<p>>
         \/ ~unshielding /\ \E p, q \in Payment : remaining = <<p, q>>
      /\ Primary = remaining[1]
  BY <1>1, <1>3, FewRemain DEF Searching
<1>5. PICK p \in Payment, q \in Payment : remaining = <<p, q>>
  BY <1>3, <1>4
<1>6. Tail(remaining) = <<q>> /\ p.value = 0 /\ q.value \in Nat
  BY <1>1, <1>4, <1>5 DEF Payment
<1>7. Sum(remaining) = p.value + q.value
  BY <1>5, SumIsOf
<1>8. Sum(<<q>>) = q.value
  BY SumIsOf
<1>9. Sum(Tail(remaining)) = q.value
  BY <1>6, <1>8, Zenon
<1> QED
  BY <1>6, <1>7, <1>9

\* When the search has come to its end all notes are taken, so that it has not.
LEMMA ExhaustedThrift ==
  ASSUME Inv, Books, Thrift, Exhausted
  PROVE  Thrift'
<1>1. UNCHANGED wallet /\ stage = "trees" /\ treesLeft = {} /\ stage \in Searching
  BY DEF Exhausted, Searching
<1>2. FewOutputs' = FewOutputs
  BY <1>1, SameRequired
<1>3. SUFFICES ASSUME FewOutputs PROVE FALSE
  BY <1>2 DEF Thrift
<1>4. Thrifty
  BY <1>3 DEF Thrift
<1>5. remaining # <<>> /\ Primary.value > 0
  BY <1>1 DEF Inv, Batched, Paying
<1>6. Total(Value, excluded) + Sum(remaining) = Required /\ Required <= Total(Value, Utxo)
  BY <1>1, <1>4, <1>5 DEF Thrifty
<1>7. Total(Value, excluded) = Total(Value, Utxo)
  <2>1. \A u \in Utxo : note[u].value # 0 => u \in excluded
    BY <1>1 DEF Inv, Left, Paying, SpendingTrees, NonZero
  <2>2. \A u \in Utxo : Value[u] \in Int /\ Value[u] = note[u].value
    BY ValuesAreNumbers DEF Inv
  <2>3. \A u \in Utxo \ excluded : Value[u] = 0
    BY <2>1, <2>2
  <2>4. excluded \in SUBSET Utxo /\ IsFiniteSet(Utxo)
    BY NotesAreNumbered DEF Inv, TypeOK
  <2> QED
    BY <2>2, <2>3, <2>4, TotalIgnores
<1>8. Sum(remaining) \in Nat /\ Sum(remaining) > 0
  <2>1. /\ \/ \E p \in Payment : remaining = <<p>>
           \/ ~unshielding /\ \E p, q \in Payment : remaining = <<p, q>>
        /\ Primary = remaining[1]
    BY <1>1, <1>3, <1>5, FewRemain
  <2>2. CASE \E p \in Payment : remaining = <<p>>
    <3>1. PICK p \in Payment : remaining = <<p>>
      BY <2>2
    <3>2. p.value \in Nat /\ p.value > 0
      BY <1>5, <2>1, <3>1 DEF Payment
    <3> QED
      BY <3>1, <3>2, SumIsOf
  <2>3. CASE \E p, q \in Payment : remaining = <<p, q>>
    <3>1. PICK p \in Payment, q \in Payment : remaining = <<p, q>>
      BY <2>3
    <3>2. p.value \in Nat /\ p.value > 0 /\ q.value \in Nat
      BY <1>5, <2>1, <3>1 DEF Payment
    <3>3. Sum(remaining) = p.value + q.value
      BY <3>1, SumIsOf
    <3> QED
      BY <3>2, <3>3
  <2> QED
    BY <2>1, <2>2, <2>3
<1>9. Total(Value, Utxo) \in Nat
  BY TakenIs
<1> QED
  BY <1>6, <1>7, <1>8, <1>9

\* The payments of a group: of its notes' value as much is taken off what is left.
LEMMA PaidThrift ==
  ASSUME Inv, Books, Thrift, stage = "group", NEW outs, NEW n, AddGroup(outs, n),
         stage' \in {"trees", "outputs"},
         FewOutputs /\ remaining' # <<>> => Sum(remaining') = Sum(remaining) - spend,
         Sum(remaining) \in Int
  PROVE  Thrift'
<1>1. /\ UNCHANGED wallet /\ unshielding' = unshielding /\ excluded' = excluded \union utxos
  BY DEF AddGroup
<1>2. Required' = Required /\ FewOutputs' = FewOutputs /\ Value' = Value /\ request' = request
  BY <1>1, SameRequired
<1>3. remaining # <<>> /\ stage \in Searching
  BY DEF Inv, Batched, Paying, Searching
<1>4. SUFFICES ASSUME FewOutputs
      PROVE  /\ Required <= Total(Value, Utxo)
             /\ ~(~unshielding /\ request.outputs = <<>>)
             /\ remaining' # <<>> =>
                  Total(Value, excluded \union utxos) + Sum(remaining') = Required
  BY <1>1, <1>2 DEF Thrift, Thrifty
<1>5. Thrifty
  BY <1>4 DEF Thrift
<1>6. Required <= Total(Value, Utxo) /\ ~(~unshielding /\ request.outputs = <<>>)
      /\ Total(Value, excluded) + Sum(remaining) = Required
  BY <1>3, <1>5 DEF Thrifty
<1>7. /\ Total(Value, excluded \union utxos) = Total(Value, excluded) + spend
      /\ Total(Value, excluded) \in Nat /\ spend \in Nat
  BY TakenIs DEF Books, Inv, TypeOK
<1>8. ASSUME remaining' # <<>>
      PROVE  Total(Value, excluded \union utxos) + Sum(remaining') = Required
  <2>1. Sum(remaining') = Sum(remaining) - spend
    BY <1>4, <1>8
  <2>2. PICK a \in Int, b \in Int : a = Total(Value, excluded) /\ b = Sum(remaining)
    BY <1>7
  <2> QED
    BY <1>6, <1>7, <2>1, <2>2
<1> QED
  BY <1>6, <1>8

LEMMA PartThrift ==
  ASSUME Inv, Books, Thrift, PayPart
  PROVE  Thrift'
<1>1. PICK rest : rest = [remaining EXCEPT ![1].value = @ - spend]
  OBVIOUS
<1>2. /\ stage = "group" /\ spend < Primary.value /\ stage' = "trees" /\ remaining' = rest
      /\ \E outs, n : AddGroup(outs, n)
  BY <1>1 DEF PayPart
<1>3. PICK outs, n : AddGroup(outs, n)
  BY <1>2
<1>4. remaining # <<>> /\ remaining \in Seq(Payment) /\ spend \in Nat
  BY <1>2 DEF Inv, TypeOK, Batched, Paying
<1>5. Sum(remaining) \in Int
  BY <1>4, WorthIs, TotalInt DEF Sum
<1>6. ASSUME FewOutputs PROVE Sum(rest) = Sum(remaining) - spend
  <2>1. /\ \/ \E p \in Payment : remaining = <<p>>
           \/ ~unshielding /\ \E p, q \in Payment : remaining = <<p, q>>
        /\ Primary = remaining[1]
    BY <1>2, <1>4, <1>6, FewRemain DEF Searching
  <2>2. PICK p : p = Primary
    OBVIOUS
  <2>3. p \in Payment /\ p.value \in Nat /\ spend < p.value
    BY <1>2, <2>1, <2>2 DEF Payment
  <2>4. PICK less : less = [p EXCEPT !.value = p.value - spend]
    OBVIOUS
  <2>5. less \in Payment /\ less.value = p.value - spend
    <3>1. p.value - spend \in Nat
      BY <1>4, <2>3
    <3> QED
      BY <2>3, <2>4, <3>1 DEF Payment
  <2>6. rest = [remaining EXCEPT ![1] = less]
    BY <1>1, <2>1, <2>2, <2>4
  <2>7. CASE \E r \in Payment : remaining = <<r>>
    <3>1. remaining = <<p>>
      BY <2>1, <2>2, <2>7
    <3>2. rest = <<less>>
      BY <2>6, <3>1
    <3>3. Sum(rest) = less.value /\ Sum(remaining) = p.value
      BY <2>3, <2>5, <3>1, <3>2, SumIsOf
    <3> QED
      BY <2>5, <3>3
  <2>8. CASE \E r, q \in Payment : remaining = <<r, q>>
    <3>1. PICK q \in Payment : remaining = <<p, q>>
      BY <2>1, <2>2, <2>8
    <3>2. rest = <<less, q>>
      BY <2>6, <3>1
    <3>3. Sum(rest) = less.value + q.value /\ Sum(remaining) = p.value + q.value /\ q.value \in Nat
      <4>1. q.value \in Nat
        BY DEF Payment
      <4>2. Sum(rest) = less.value + q.value
        BY <2>5, <3>2, SumIsOf
      <4>3. Sum(remaining) = p.value + q.value
        BY <2>3, <3>1, SumIsOf
      <4> QED
        BY <4>1, <4>2, <4>3
    <3> QED
      BY <1>4, <2>3, <2>5, <3>3
  <2> QED
    BY <2>1, <2>7, <2>8
<1> QED
  BY <1>2, <1>3, <1>5, <1>6, PaidThrift

\* Is an output paid with the next one left, there was no change, or the next one
\* takes it.
LEMMA FullThrift ==
  ASSUME Inv, Books, Thrift, PayRest \/ PaySecondary
  PROVE  Thrift'
<1>1. PICK p : p = Primary
  OBVIOUS
<1>2. PICK change : change = Change /\ change = spend - p.value
  BY <1>1 DEF Change
<1>3. /\ stage = "group" /\ spend >= p.value /\ stage' = "outputs"
      /\ \E outs, n : AddGroup(outs, n)
  BY <1>1 DEF PayRest, PaySecondary
<1>4. PICK outs, n : AddGroup(outs, n)
  BY <1>3
<1>5. remaining # <<>> /\ remaining \in Seq(Payment) /\ spend \in Nat
  BY <1>3 DEF Inv, TypeOK, Batched, Paying
<1>6. Sum(remaining) \in Int
  BY <1>5, WorthIs, TotalInt DEF Sum
<1>7. ASSUME FewOutputs, remaining' # <<>> PROVE Sum(remaining') = Sum(remaining) - spend
  <2>1. /\ \/ \E r \in Payment : remaining = <<r>>
           \/ ~unshielding /\ \E r, q \in Payment : remaining = <<r, q>>
        /\ p = remaining[1]
    BY <1>1, <1>3, <1>5, <1>7, FewRemain DEF Searching
  <2>2. CASE \E r \in Payment : remaining = <<r>>
    <3>1. Tail(remaining) = <<>> /\ Len(remaining) = 1
      BY <2>2
    <3>2. ~UsesChange
      BY <3>1 DEF UsesChange
    <3>3. PayRest
      BY <3>2 DEF PaySecondary
    <3>4. remaining' = <<>>
      BY <3>1, <3>3 DEF PayRest
    <3> QED
      BY <1>7, <3>4
  <2>3. CASE ~unshielding /\ \E r, q \in Payment : remaining = <<r, q>>
    <3>1. PICK q \in Payment : remaining = <<p, q>> /\ p \in Payment
      BY <2>1, <2>3
    <3>2. p.value \in Nat /\ q.value \in Nat
      BY <3>1 DEF Payment
    <3>3. /\ Len(remaining) = 2 /\ Tail(remaining) = <<q>> /\ Tail(Tail(remaining)) = <<>>
          /\ remaining[2] = q
      BY <3>1
    <3>4. Sum(remaining) = p.value + q.value
      BY <3>1, SumIsOf
    <3>5. CASE UsesChange
      <4>1. PaySecondary
        BY <3>5 DEF PayRest
      <4>2. q = Secondary
        BY <3>3 DEF Secondary
      <4>3. PICK less : less = [remaining EXCEPT ![2].value = @ - change]
        OBVIOUS
      <4>4. remaining' = IF q.value > change THEN Tail(less) ELSE Tail(Tail(remaining))
        <5>1. CASE q.value < change
          <6>1. remaining' = Tail(Tail(remaining))
            BY <1>2, <4>1, <4>2, <5>1 DEF PaySecondary
          <6>2. ~(q.value > change)
            BY <1>2, <1>5, <3>2, <5>1
          <6> QED
            BY <6>1, <6>2
        <5>2. CASE ~(q.value < change)
          BY <1>2, <4>1, <4>2, <4>3, <5>2 DEF PaySecondary
        <5> QED
          BY <5>1, <5>2
      <4>5. q.value > change /\ remaining' = Tail(less)
        BY <1>7, <3>3, <4>4
      <4>6. PICK s : s = [q EXCEPT !.value = q.value - change]
        OBVIOUS
      <4>7. s \in Payment /\ s.value = q.value - change
        <5>1. q.value - change \in Nat
          BY <1>2, <1>3, <1>5, <3>2, <4>5
        <5> QED
          BY <4>6, <5>1 DEF Payment
      <4>8. less = <<p, s>>
        <5>1. less = [remaining EXCEPT ![2] = s]
          BY <3>3, <4>3, <4>6
        <5> QED
          BY <3>1, <5>1
      <4>9. remaining' = <<s>>
        BY <4>5, <4>8
      <4>10. Sum(remaining') = s.value
        BY <4>7, <4>9, SumIsOf
      <4> QED
        BY <1>2, <1>5, <3>2, <3>4, <4>7, <4>10
    <3>6. CASE ~UsesChange
      <4>1. PayRest
        BY <3>6 DEF PaySecondary
      <4>2. ~(change > 0)
        <5>1. Len(remaining) > 1
          BY <3>3
        <5> QED
          BY <1>2, <2>3, <3>6, <5>1 DEF UsesChange
      <4>3. remaining' = <<q>>
        BY <3>3, <4>1 DEF PayRest
      <4>4. Sum(remaining') = q.value
        BY <4>3, SumIsOf
      <4>5. spend = p.value
        BY <1>2, <1>3, <1>5, <3>2, <4>2
      <4> QED
        BY <3>2, <3>4, <4>4, <4>5
    <3> QED
      BY <3>5, <3>6
  <2> QED
    BY <2>1, <2>2, <2>3
<1> QED
  BY <1>3, <1>4, <1>6, <1>7, PaidThrift

LEMMA UnshieldThrift ==
  ASSUME Inv, Books, Thrift, StartUnshield
  PROVE  Thrift'
<1>1. PICK p : p = [output |-> Unshield, value |-> request.unshield]
  OBVIOUS
<1>2. /\ UNCHANGED wallet /\ remaining' = <<p>> /\ excluded' = excluded
      /\ stage = "outputs" /\ stage' = "outputs" /\ remaining = <<>>
      /\ request.unshield > 0 /\ ~unshielding /\ unshielding' = TRUE
  BY <1>1 DEF StartUnshield
<1>3. Required' = Required /\ FewOutputs' = FewOutputs /\ Value' = Value /\ request' = request
  BY <1>2, SameRequired
<1>4. SUFFICES ASSUME FewOutputs
      PROVE  Required <= Total(Value, Utxo) /\ Total(Value, excluded) + Sum(<<p>>) = Required
  BY <1>2, <1>3 DEF Thrift, Thrifty
<1>5. Thrifty
  BY <1>4 DEF Thrift
<1>6. request.unshield \in Nat
  BY RequestIs DEF Inv
<1>7. request.outputs = <<>>
  BY <1>2, <1>4, <1>6 DEF FewOutputs
<1>8. excluded = {} /\ Required <= Total(Value, Utxo)
  BY <1>2, <1>5, <1>7 DEF Thrifty, Searching
<1>9. Outputs = <<>>
  BY <1>7 DEF Outputs
<1>10. Required = request.unshield
  BY <1>6, <1>9, SumIsOf DEF Required
<1>11. p \in Payment /\ p.value = request.unshield
  BY <1>1, <1>6 DEF Payment, Unshield
<1>12. Sum(<<p>>) = request.unshield
  BY <1>11, SumIsOf
<1>13. Total(Value, excluded) = 0
  BY <1>8, TotalEmpty
<1> QED
  BY <1>6, <1>8, <1>10, <1>12, <1>13

LEMMA ThriftStep ==
  ASSUME Inv, Books, Thrift, [Next]_vars
  PROVE  Thrift'
<1>1. CASE \/ TooLow \/ Simple \/ StartOutput \/ NextTree \/ StartBatch \/ EndBatch \/ ExactMatch
           \/ Push \/ AllPaid \/ Build \/ Answered \/ UNCHANGED vars
  BY <1>1, QuietThrift
<1>2. CASE Complex
  BY <1>2, ComplexThrift
<1>3. CASE ZeroOutput
  BY <1>3, ZeroThrift
<1>4. CASE Exhausted
  BY <1>4, ExhaustedThrift
<1>5. CASE PayPart
  BY <1>5, PartThrift
<1>6. CASE PayRest \/ PaySecondary
  BY <1>6, FullThrift
<1>7. CASE StartUnshield
  BY <1>7, UnshieldThrift
<1> QED
  BY <1>1, <1>2, <1>3, <1>4, <1>5, <1>6, <1>7 DEF Next

\* A batch of at most two outputs, or of an unshield alone, finds its notes.
THEOREM FewOutputsSucceed == Spec => []TwoOutputsSucceed
<1>1. Init => Thrift
  BY DEF Init, Thrift, Thrifty, Searching
<1>2. Inv /\ Books /\ Thrift /\ [Next]_vars => Thrift'
  BY ThriftStep
<1>3. Inv /\ Thrift => TwoOutputsSucceed
  <2>1. SUFFICES ASSUME Inv, Thrift, stage = "utxosExhausted"
        PROVE  Len(request.outputs) > 2 \/ (request.outputs # <<>> /\ request.unshield > 0)
    BY DEF TwoOutputsSucceed
  <2>2. ~FewOutputs
    BY <2>1 DEF Thrift, Thrifty
  <2>3. Len(request.outputs) \in Nat /\ request.unshield \in Nat
    BY <2>1, RequestIs DEF Inv
  <2> QED
    BY <2>2, <2>3 DEF FewOutputs
<1> QED
  BY <1>1, <1>2, <1>3, BooksAreKept, SelectionInvariant, PTL DEF Spec
=============================================================================
