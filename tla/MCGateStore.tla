----------------------------- MODULE MCGateStore -----------------------------
(* GateStore for TLC: the processes are interchangeable.                     *)
EXTENDS GateStore, TLC

Symmetry == Permutations(Procs)
=============================================================================
