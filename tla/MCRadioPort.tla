----------------------------- MODULE MCRadioPort -----------------------------
(* Instances of RadioPort for TLC. *)
EXTENDS RadioPort, TLC

ProcSymmetry == Permutations(Procs)
=============================================================================
