------------------------------ MODULE MCWasmShell ------------------------------
(* Model values and symmetry for checking WasmShell with TLC. *)
EXTENDS WasmShell, TLC

Symmetry == Permutations(Execs) \cup Permutations(Files)
=============================================================================
