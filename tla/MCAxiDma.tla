------------------------------ MODULE MCAxiDma ------------------------------
(* Small instances of AxiDma for TLC.                                      *)
EXTENDS AxiDma, TLC

Symmetry == Permutations(Clients) \cup Permutations(Values)
=============================================================================
