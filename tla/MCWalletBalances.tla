-------------------------- MODULE MCWalletBalances --------------------------
(* A small instance of a wallet: two versions of the trees, of two leaves each. *)
EXTENDS WalletBalances, TLC

Note(v, t, i) == [version |-> v, tree |-> t, index |-> i]
CONSTANTS v2, v3
TwoNotes == {Note(v2, 1, 0), Note(v3, 0, 0)}
OneNft == {Note(v3, 0, 0)}
InTurn == (v2 :> v3) @@ (v3 :> v2)
CreatedAt == (v2 :> [tree |-> 0, index |-> 1]) @@ (v3 :> None)
LeavesAtStart == (v2 :> 3) @@ (v3 :> 0)
Leaves == (v2 :> 3) @@ (v3 :> 1)
=============================================================================
