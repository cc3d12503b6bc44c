------------------------------- MODULE MCAccess -------------------------------
(* Instances of Access for TLC. *)
EXTENDS Access, TLC

(* Organizations, users and processes are never told apart. *)
Symmetry ==
    Permutations(Org) \cup Permutations(User) \cup Permutations(Proc)
=============================================================================
