------------------------- MODULE MCSpendingSolutions -------------------------
(* Small instances of the choice of notes.                                   *)
EXTENDS SpendingSolutions

FourNotes == 1..4
TwoTrees  == {0, 1}
SmallNote == [tree : TwoTrees, value : {0, 1, 2, 4}]

\* which of two different notes comes first in the wallet is all the same: the
\* notes are sorted by tree and value before anything depends on their order
Sorted == {b \in [FourNotes -> SmallNote] :
             \A u \in 1..3 : LET v == u + 1
                             IN 10 * b[u].tree + b[u].value <= 10 * b[v].tree + b[v].value}

OutputLists == UNION {[1..n -> 0..3] : n \in 0..3}
SmallRequests == [outputs : OutputLists, unshield : {0, 1, 3}]
=============================================================================
