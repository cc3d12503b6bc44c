------------------------- MODULE MCAccountRecovery -------------------------
(* Small instances of AccountRecovery for TLC. *)
EXTENDS AccountRecovery, TLC

(* Used for safety properties only. *)
Symmetry == Permutations(ResetToken) \cup Permutations(Family)
              \cup Permutations(Hash) \cup Permutations(Proc)
              \cup Permutations(Password) \cup Permutations(User)

=============================================================================
