----------------------------- MODULE MCCatalog -----------------------------
(* Small instances of Catalog for TLC. *)
EXTENDS Catalog, TLC

(* Used for safety properties only. *)
Symmetry == Permutations(Org) \cup Permutations(Item)
              \cup Permutations(Tax) \cup Permutations(Proc)

=============================================================================
