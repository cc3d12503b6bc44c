------------------------ MODULE MCEmailConfirmation ------------------------
(* A small instance of EmailConfirmation for TLC.  It has liveness         *)
(* properties, so it takes no symmetry.                                    *)
EXTENDS EmailConfirmation

=============================================================================
