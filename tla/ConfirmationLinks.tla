-------------------------- MODULE ConfirmationLinks --------------------------
(***************************************************************************)
(* What the confirmation of e-mail addresses promises, with requests,      *)
(* mails, expiry and the life of the server left out.                      *)
(*                                                                         *)
(* An account is registered with a first link, or admitted as confirmed.   *)
(* A link is open until it is redeemed or withdrawn, for good in either    *)
(* case.  Redeeming confirms the account the link was made for in the same *)
(* step, and the first link that does so keeps the credit.                 *)
(*                                                                         *)
(* EmailConfirmation is shown to implement this specification.             *)
(***************************************************************************)

CONSTANTS
    User,       \* accounts
    Token,      \* links
    None        \* the value of a link that does not exist

VARIABLES
    account,    \* [User -> "absent", "unconfirmed" or "confirmed"]
    link,       \* [Token -> its account and state, or None]
    creditedTo  \* [User -> the link that confirmed the account, or None]

vars == <<account, link, creditedTo>>

LinkState == {"open", "redeemed", "withdrawn"}

TypeOK ==
    /\ account    \in [User -> {"absent", "unconfirmed", "confirmed"}]
    /\ link       \in [Token -> [user : User, state : LinkState] \cup {None}]
    /\ creditedTo \in [User -> Token \cup {None}]

Init ==
    /\ account    = [u \in User |-> "absent"]
    /\ link       = [t \in Token |-> None]
    /\ creditedTo = [u \in User |-> None]

Offer(u, t) ==
    /\ link[t] = None
    /\ link' = [link EXCEPT ![t] = [user |-> u, state |-> "open"]]
    /\ UNCHANGED creditedTo

(* A new account and its first link. *)
Register(u, t) ==
    /\ account[u] = "absent"
    /\ account' = [account EXCEPT ![u] = "unconfirmed"]
    /\ Offer(u, t)

(* An account that needs no link. *)
Admit(u) ==
    /\ account[u] = "absent"
    /\ account' = [account EXCEPT ![u] = "confirmed"]
    /\ UNCHANGED <<link, creditedTo>>

(* One more link for an account. *)
Renew(u, t) ==
    /\ account[u] # "absent"
    /\ Offer(u, t)
    /\ UNCHANGED account

OpenFor(u) == {t \in Token : link[t] = [user |-> u, state |-> "open"]}

(* Open links of an account are withdrawn. *)
Withdraw(u, S) ==
    /\ S \subseteq OpenFor(u)
    /\ link' = [t \in Token |->
                  IF t \in S THEN [user |-> u, state |-> "withdrawn"] ELSE link[t]]
    /\ UNCHANGED <<account, creditedTo>>

(* The one step that confirms an account that was registered. *)
Redeem(u, t) ==
    /\ t \in OpenFor(u)
    /\ link'       = [link EXCEPT ![t] = [user |-> u, state |-> "redeemed"]]
    /\ account'    = [account EXCEPT ![u] = "confirmed"]
    /\ creditedTo' = IF account[u] = "confirmed" THEN creditedTo
                     ELSE [creditedTo EXCEPT ![u] = t]

Next ==
    \/ \E u \in User, t \in Token : Register(u, t) \/ Renew(u, t) \/ Redeem(u, t)
    \/ \E u \in User : Admit(u) \/ \E S \in SUBSET Token : Withdraw(u, S)

Spec == Init /\ [][Next]_vars

=============================================================================
