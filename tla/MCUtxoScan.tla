---------------------------- MODULE MCUtxoScan ----------------------------
(* Small instances of the scans.                                             *)
EXTENDS UtxoScan, TLC

\* a shield, then a transact and a shield in one block
ThreeCommitments == (0 :> 1) @@ (1 :> 2) @@ (2 :> 2)
Shielded == {0, 2}
\* two transacts, with a block between them that has a nullifier only
TwoCommitments == (0 :> 1) @@ (1 :> 3)
NoShields == {}
SpentBetween == {2}
\* one nullifier comes with an unshield, in a block without commitments
Spent == {2, 3}
=============================================================================
