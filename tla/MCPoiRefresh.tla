--------------------------- MODULE MCPoiRefresh ---------------------------
(* A small instance of the refreshes.                                        *)
EXTENDS PoiRefresh, TLC

\* a blocked shield is spent before the launch of POIs, its change later
SpentNotes == <<{1}, {2}>>
\* change; change and an unshield
MadeItems  == <<{2}, {3, 4}>>

OneVersion   == [i \in Item |-> "V2"]
OneTxVersion == [t \in Tx |-> "V2"]
=============================================================================
