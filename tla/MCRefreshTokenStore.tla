------------------------ MODULE MCRefreshTokenStore ------------------------
(* Small instances of RefreshTokenStore for TLC. *)
EXTENDS RefreshTokenStore, TLC

(* Hashes, families, users and goroutines are interchangeable: every       *)
(* property checked under this symmetry is a safety property.              *)
Symmetry == Permutations(Hash) \cup Permutations(Family)
              \cup Permutations(User) \cup Permutations(Proc)

=============================================================================
