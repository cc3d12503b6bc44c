--------------------------- MODULE AccountRecovery ---------------------------
(***************************************************************************)
(* Sign-in, refresh, log-out and the two halves of a password reset        *)
(* (internal/core/identity/application), as they interleave.               *)
(*                                                                         *)
(* The use cases share three stores and no lock spans two of them: the     *)
(* users table (the password digest), the password_reset_tokens table and  *)
(* the refresh-token store.  The last one is SessionLineage, which         *)
(* RefreshTokenStore is proved to implement.  Each SQL statement or        *)
(* transaction that changes something, and each store operation, is one    *)
(* action; what a request has read before it is kept in call.              *)
(***************************************************************************)
EXTENDS Naturals, FiniteSets

CONSTANTS
    User,       \* accounts
    Password,   \* passwords (stored as bcrypt digests)
    ResetToken, \* password reset tokens, each minted once
    Family,     \* refresh-token families
    Hash,       \* refresh tokens
    Proc,       \* requests being served
    None        \* the value of a row or request that does not exist

VARIABLES
    digest,     \* users.password_digest
    reset,      \* rows of password_reset_tokens
    bearer,     \* the refresh-token store,
    opened,     \*   as SessionLineage
    minted,     \*   sees it
    owner,      \* the user a family was saved for (user_sessions, user_id)
    call,       \* requests in flight, with what they have read
    (***********************************************************************)
    (* History.                                                            *)
    (***********************************************************************)
    epoch,      \* how many resets of a user have been committed
    revoked,    \* the last of them whose sessions were revoked
    openedWith, \* the password a session was opened with
    savedAt,    \* the user's epoch when the session was saved
    redeemed    \* how many committed resets a reset token paid for

lineage == <<bearer, opened, minted>>
history == <<epoch, revoked, openedWith, savedAt, redeemed>>
vars    == <<digest, reset, lineage, owner, call, history>>

Store == INSTANCE SessionLineage WITH Lineage <- Family, Token <- Hash

(* A reset token is live, about as old as its expiry (the database clock   *)
(* and the application clock may disagree on it), or expired.              *)
Age == {"live", "borderline", "expired"}

ResetRow == [user : User, age : Age, used : BOOLEAN, burns : SUBSET ResetToken]

SigninCall  == [op : {"signin"}, user : User, password : Password]
RequestCall == [op : {"request"}, user : User, burns : SUBSET ResetToken]
ConfirmCall == [op : {"confirm"}, token : ResetToken, password : Password]
RevokeCall  == [op : {"revoke"}, user : User, epoch : Nat]
Call == SigninCall \cup RequestCall \cup ConfirmCall \cup RevokeCall

(* A row or request is told apart from its absence. *)
ASSUME NoneAssumption == None \notin ResetRow \cup Call

Init ==
    /\ digest   \in [User -> Password]
    /\ reset    = [t \in ResetToken |-> None]
    /\ Store!Init
    /\ owner    = [f \in Family |-> None]
    /\ call     = [p \in Proc |-> None]
    /\ epoch    = [u \in User |-> 0]
    /\ revoked  = [u \in User |-> 0]
    /\ openedWith = [f \in Family |-> None]
    /\ savedAt  = [f \in Family |-> 0]
    /\ redeemed = [t \in ResetToken |-> 0]

InFlight(p, op) == call[p] # None /\ call[p].op = op
Finish(p) == call' = [call EXCEPT ![p] = None]

-----------------------------------------------------------------------------
(***************************************************************************)
(* Sign-in, refresh, log-out.                                              *)
(***************************************************************************)

(* FindByEmail and the bcrypt comparison.  A wrong password changes        *)
(* nothing and is left out.                                                *)
SigninRead(p, u, password) ==
    /\ call[p] = None
    /\ digest[u] = password
    /\ call' = [call EXCEPT ![p] = [op |-> "signin", user |-> u, password |-> password]]
    /\ UNCHANGED <<digest, reset, lineage, owner, history>>

(* refreshStore.Save, after the access token has been issued. *)
SigninSave(p, f, t) ==
    /\ InFlight(p, "signin")
    /\ Store!Open(f, t)
    /\ owner'      = [owner EXCEPT ![f] = call[p].user]
    /\ openedWith' = [openedWith EXCEPT ![f] = call[p].password]
    /\ savedAt'    = [savedAt EXCEPT ![f] = epoch[call[p].user]]
    /\ Finish(p)
    /\ UNCHANGED <<digest, reset, epoch, revoked, redeemed>>

(* Refresh changes state in one store operation.  Issuing the access token *)
(* comes after it and may fail, which loses the new token, not the state.  *)
Refresh(f, t, new) ==
    /\ Store!Rotate(f, t, new)
    /\ UNCHANGED <<digest, reset, owner, call, history>>

(* Log-out, detected reuse or expiry. *)
EndSession(f) ==
    /\ bearer[f] # {}
    /\ Store!Close({f})
    /\ UNCHANGED <<digest, reset, owner, call, history>>

-----------------------------------------------------------------------------
(***************************************************************************)
(* Requesting a reset: two statements, no transaction around them.         *)
(***************************************************************************)

Issued(u) == {t \in ResetToken : reset[t] # None /\ reset[t].user = u}

(* Regression: the comparison with now() the wrong way round. *)
ActiveReversed(u) ==
    {S \in SUBSET Issued(u) : \A t \in Issued(u) :
        /\ reset[t].age = "live" => t \notin S
        /\ reset[t].age = "expired" => t \in S}

(* user_id = u AND expires_at > now(), as the database clock has it. *)
Active(u) ==
    {S \in SUBSET Issued(u) : \A t \in Issued(u) :
        /\ reset[t].age = "live" => t \in S
        /\ reset[t].age = "expired" => t \notin S}

(* InvalidateActiveForUser stamps the active tokens used. *)
RequestInvalidate(p, u) ==
    /\ call[p] = None
    /\ \E S \in Active(u) :
          reset' = [t \in ResetToken |-> IF t \in S THEN [reset[t] EXCEPT !.used = TRUE]
                                                    ELSE reset[t]]
    /\ call' = [call EXCEPT ![p] = [op |-> "request", user |-> u, burns |-> Issued(u)]]
    /\ UNCHANGED <<digest, lineage, owner, history>>

(* Create inserts the new token; publishing the mail never fails the call. *)
RequestCreate(p, t) ==
    /\ InFlight(p, "request")
    /\ reset[t] = None
    /\ reset' = [reset EXCEPT ![t] = [user |-> call[p].user, age |-> "live",
                                      used |-> FALSE, burns |-> call[p].burns]]
    /\ Finish(p)
    /\ UNCHANGED <<digest, lineage, owner, history>>

-----------------------------------------------------------------------------
(***************************************************************************)
(* Confirming a reset: read, transaction, revocation.                      *)
(***************************************************************************)

(* FindByDigest and Validate: used first, then expired. *)
ConfirmRead(p, t, password) ==
    /\ call[p] = None
    /\ reset[t] # None
    /\ ~ reset[t].used
    /\ reset[t].age # "expired"
    /\ call' = [call EXCEPT ![p] = [op |-> "confirm", token |-> t, password |-> password]]
    /\ UNCHANGED <<digest, reset, lineage, owner, history>>

(* Regression: the transaction changes the password only. *)
MarkUsedForgotten(t) == reset

(* Regression: the row is rewritten without its expiry. *)
MarkUsedUndated(t) ==
    [reset EXCEPT ![t] = [user |-> reset[t].user, used |-> TRUE, burns |-> reset[t].burns]]

(* MarkUsed.  Its WHERE used_at IS NULL may match no row: nobody looks. *)
MarkUsed(t) == [reset EXCEPT ![t] = [reset[t] EXCEPT !.used = TRUE]]

(* UpdatePasswordDigest and MarkUsed, committed together.  The row lock on *)
(* the user serialises two of these.                                       *)
ConfirmCommit(p) ==
    /\ InFlight(p, "confirm")
    /\ LET t == call[p].token
           u == reset[t].user
       IN /\ digest'   = [digest EXCEPT ![u] = call[p].password]
          /\ reset'    = MarkUsed(t)
          /\ epoch'    = [epoch EXCEPT ![u] = epoch[u] + 1]
          /\ redeemed' = [redeemed EXCEPT ![t] = redeemed[t] + 1]
          /\ call'     = [call EXCEPT ![p] =
                             [op |-> "revoke", user |-> u, epoch |-> epoch[u] + 1]]
    /\ UNCHANGED <<lineage, owner, revoked, openedWith, savedAt>>

(* Regression: only sessions of the current password are looked for. *)
FamiliesOfEpoch(u) ==
    {f \in Family : owner[f] = u /\ savedAt[f] = epoch[u]}

FamiliesOf(u) == {f \in Family : owner[f] = u}

Larger(a, b) == IF a >= b THEN a ELSE b

(* RevokeAllForUser. *)
ConfirmRevoke(p) ==
    /\ InFlight(p, "revoke")
    /\ LET u == call[p].user
       IN /\ Store!Close(FamiliesOf(u))
          /\ revoked' = [revoked EXCEPT ![u] = Larger(revoked[u], call[p].epoch)]
    /\ Finish(p)
    /\ UNCHANGED <<digest, reset, owner, epoch, openedWith, savedAt, redeemed>>

(* The process dies, the client goes away, the database refuses, no        *)
(* membership is found or Redis cannot be reached: the request stops where *)
(* it is.  A failed revocation is only logged.                             *)
Abandon(p) ==
    /\ call[p] # None
    /\ Finish(p)
    /\ UNCHANGED <<digest, reset, lineage, owner, history>>

(* Time passes. *)
AgeToken(t) ==
    /\ reset[t] # None
    /\ reset[t].age # "expired"
    /\ reset' = [reset EXCEPT ![t] = [reset[t] EXCEPT !.age =
                    IF reset[t].age = "live" THEN "borderline" ELSE "expired"]]
    /\ UNCHANGED <<digest, lineage, owner, call, history>>

-----------------------------------------------------------------------------

Signin(p) ==
    \/ \E u \in User, password \in Password : SigninRead(p, u, password)
    \/ \E f \in Family, t \in Hash : SigninSave(p, f, t)

RequestPasswordReset(p) ==
    \/ \E u \in User : RequestInvalidate(p, u)
    \/ \E t \in ResetToken : RequestCreate(p, t)

ConfirmPasswordReset(p) ==
    \/ \E t \in ResetToken, password \in Password : ConfirmRead(p, t, password)
    \/ ConfirmCommit(p)
    \/ ConfirmRevoke(p)

Next ==
    \/ \E p \in Proc :
          Signin(p) \/ RequestPasswordReset(p) \/ ConfirmPasswordReset(p) \/ Abandon(p)
    \/ \E f \in Family, t, new \in Hash : Refresh(f, t, new)
    \/ \E f \in Family : EndSession(f)
    \/ \E t \in ResetToken : AgeToken(t)

Spec == Init /\ [][Next]_vars

-----------------------------------------------------------------------------
(***************************************************************************)
(* Properties.                                                             *)
(***************************************************************************)

(* Every row, request and counter has its type. *)
TypeOK ==
    /\ digest   \in [User -> Password]
    /\ reset    \in [ResetToken -> ResetRow \cup {None}]
    /\ Store!TypeOK
    /\ owner    \in [Family -> User \cup {None}]
    /\ call     \in [Proc -> Call \cup {None}]
    /\ epoch    \in [User -> Nat]
    /\ revoked  \in [User -> Nat]
    /\ openedWith \in [Family -> Password \cup {None}]
    /\ savedAt  \in [Family -> Nat]
    /\ redeemed \in [ResetToken -> Nat]

(* A session saved before a reset was committed is closed once the reset   *)
(* has revoked the user's sessions, however often it was refreshed in the  *)
(* meantime and however many resets run at once.                           *)
NoSavedSessionSurvivesReset ==
    \A f \in Family : bearer[f] # {} => savedAt[f] >= revoked[owner[f]]

(* What the test of confirm_password_reset says: "every session the old    *)
(* password could have opened is gone".  A sign-in that compared the old   *)
(* digest before the reset was committed, and saves after the revocation,  *)
(* opens one.                                                              *)
NoSessionOfOldPassword ==
    \A f \in Family :
        bearer[f] # {} /\ 0 < epoch[owner[f]] /\ epoch[owner[f]] = revoked[owner[f]]
            => openedWith[f] = digest[owner[f]]

(* A token that paid for a reset is burned in the same transaction, so no  *)
(* confirmation that starts later can spend it again.                      *)
RedeemedTokenIsBurned ==
    \A t \in ResetToken : redeemed[t] > 0 => reset[t].used

(* What the test of the reset endpoint says: "the token cannot be spent    *)
(* twice".  Two confirmations that both read it unused do.                 *)
TokenSpentOnce ==
    \A t \in ResetToken : redeemed[t] <= 1

(* Requesting a reset burns every token the user had when the request came *)
(* in, so that only the newest mail still works; tokens past their expiry  *)
(* are left to Validate.                                                   *)
SupersededTokensAreBurned ==
    \A t \in ResetToken : reset[t] # None =>
        \A old \in reset[t].burns : reset[old].age = "live" => reset[old].used

=============================================================================
