--------------------------- MODULE MCInvitations ---------------------------
(* Small instances of Invitations for TLC. *)
EXTENDS Invitations, TLC

(* Used for safety properties only. *)
Symmetry == Permutations(Org) \cup Permutations(Email)
              \cup Permutations(Invitation) \cup Permutations(Proc)

=============================================================================
