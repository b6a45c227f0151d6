--------------------------- MODULE MCDisclosures ---------------------------
(* The instance of Disclosures that TLC checks.                              *)
EXTENDS Disclosures, TLC

MCRcepts == 1 .. 2
Symmetry == Permutations(Groups) \cup Permutations(Txs)
=============================================================================
