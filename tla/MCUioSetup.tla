------------------------------ MODULE MCUioSetup ------------------------------
(* Small instances of UioSetup for TLC. *)
EXTENDS UioSetup

\* The console's feature banks differ.
ConsoleFeatures == [b \in {0, 1} |-> IF b = 0 THEN 1 ELSE 3]
=============================================================================
