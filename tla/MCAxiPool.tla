------------------------------ MODULE MCAxiPool ------------------------------
(* Small instance of AxiPool for TLC: three devices share one aperture, a  *)
(* fourth has its own.                                                     *)
EXTENDS AxiPool, TLC

CONSTANTS d1, d2, d3, d4, shared, other

MCDevices  == {d1, d2, d3, d4}
MCAperture == [d \in MCDevices |-> IF d = d4 THEN other ELSE shared]
Symmetry   == Permutations(Pools) \cup Permutations({d1, d2, d3})
=============================================================================
