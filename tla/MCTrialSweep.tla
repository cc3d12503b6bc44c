---------------------------- MODULE MCTrialSweep ----------------------------
(* Small instances of TrialSweep for TLC. *)
EXTENDS TrialSweep, TLC

(* Used for safety properties only. *)
Symmetry == Permutations(Org) \cup Permutations(Job)

=============================================================================
