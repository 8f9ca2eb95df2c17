---------------------------- MODULE CommitmentLog ----------------------------
(* What a UTXO merkletree promises its readers: a log of commitments per tree
   that holds only what the contract emitted, in the contract's order and
   without gaps.  While the application runs, one log at a time grows at its
   end and nothing else changes; a restart may lose the end of logs, or
   recover an end that had not been announced.                               *)
EXTENDS Integers, Sequences

CONSTANTS Trees, TreeMaxItems, Genuine

VARIABLES log,        \* log[t]: the commitments of tree t, position by position
          restarts    \* how often the application has started again

vars == <<log, restarts>>

Genuines(n) == [i \in 1..n |-> Genuine]
Logs == {Genuines(n) : n \in 0..TreeMaxItems}

Init == /\ log = [t \in Trees |-> << >>]
        /\ restarts = 0

Grow(t) == /\ \E n \in 1..TreeMaxItems :
                /\ Len(log[t]) + n <= TreeMaxItems
                /\ log' = [log EXCEPT ![t] = @ \o Genuines(n)]
           /\ UNCHANGED restarts

Restart == /\ log' \in [Trees -> Logs]
           /\ restarts' = restarts + 1

Next == Restart \/ \E t \in Trees : Grow(t)

Spec == Init /\ [][Next]_vars
==============================================================================
