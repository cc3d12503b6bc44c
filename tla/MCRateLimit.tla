---------------------------- MODULE MCRateLimit ----------------------------
(* Small instances of RateLimit for TLC. *)
EXTENDS RateLimit, TLC

(* Used for safety properties only. *)
Symmetry == Permutations(Key) \cup Permutations(Proc)

=============================================================================
