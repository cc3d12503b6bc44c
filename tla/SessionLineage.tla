--------------------------- MODULE SessionLineage ---------------------------
(***************************************************************************)
(* What the refresh-token store promises its callers, with every key,      *)
(* tombstone and expiry time left out.                                     *)
(*                                                                         *)
(* A sign-in opens a lineage (the code's "token family").  While the       *)
(* lineage is open exactly one token bears it; rotating replaces that      *)
(* token by one that was never minted before; closing takes it away.  A    *)
(* closed lineage never bears a token again.                               *)
(*                                                                         *)
(* RefreshTokenStore is shown to implement this specification, by TLC on a *)
(* small instance and by TLAPS for every value of the constants.           *)
(***************************************************************************)
EXTENDS Naturals, FiniteSets

CONSTANTS
    Lineage,    \* token families
    Token       \* refresh tokens

VARIABLES
    bearer,     \* bearer[f]: the tokens that can still be rotated in f
    opened,     \* the lineages a sign-in has opened
    minted      \* the tokens ever handed out

vars == <<bearer, opened, minted>>

TypeOK ==
    /\ bearer \in [Lineage -> SUBSET Token]
    /\ opened \subseteq Lineage
    /\ minted \subseteq Token

Init ==
    /\ bearer = [f \in Lineage |-> {}]
    /\ opened = {}
    /\ minted = {}

(* A sign-in opens lineage f with the fresh token t. *)
Open(f, t) ==
    /\ f \notin opened
    /\ t \notin minted
    /\ bearer' = [bearer EXCEPT ![f] = {t}]
    /\ opened' = opened \cup {f}
    /\ minted' = minted \cup {t}

(* The bearer t of f is exchanged for the fresh token new. *)
Rotate(f, t, new) ==
    /\ bearer[f] = {t}
    /\ new \notin minted
    /\ bearer' = [bearer EXCEPT ![f] = {new}]
    /\ minted' = minted \cup {new}
    /\ UNCHANGED opened

(* Log-out, detected reuse, a password reset and the passing of time all   *)
(* close lineages, several at once where a whole account is revoked.       *)
Close(S) ==
    /\ bearer' = [f \in Lineage |-> IF f \in S THEN {} ELSE bearer[f]]
    /\ UNCHANGED <<opened, minted>>

Next ==
    \/ \E S \in SUBSET Lineage : Close(S)
    \/ \E f \in Lineage, t \in Token : Open(f, t)
    \/ \E f \in Lineage, t, new \in Token : Rotate(f, t, new)

Spec == Init /\ [][Next]_vars

=============================================================================
