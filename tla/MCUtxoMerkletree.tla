-------------------------- MODULE MCUtxoMerkletree --------------------------
(* Small instances of the UTXO merkletree.                                   *)
EXTENDS UtxoMerkletree

OneTree == {0}

\* leaves 0 and 1 came in one transaction, so did 2 and 3
PairedHistory  == {2, 4}
SingleHistory  == {1, 2}

Ladder421 == <<4, 2, 1>>
Ladder21  == <<2, 1>>
=============================================================================
