------------------------ MODULE AccountRecovery_proofs ------------------------
(***************************************************************************)
(* TLAPS proofs about AccountRecovery, for any accounts, passwords, tokens *)
(* and requests in flight.                                                 *)
(***************************************************************************)
EXTENDS AccountRecovery, TLAPS

USE NoneAssumption

(***************************************************************************)
(* The inductive invariant.                                                *)
(***************************************************************************)

(* The token was issued, and a link to it is worth nothing any more. *)
Burned(t) == reset[t] # None /\ (reset[t].age = "live" => reset[t].used)

(* What a row of password_reset_tokens says about others, and what a reset *)
(* leaves of the token that paid for it.                                   *)
ResetsConsistent ==
    \A t \in ResetToken :
        /\ reset[t] # None => \A old \in reset[t].burns : Burned(old)
        /\ redeemed[t] > 0 => reset[t] # None /\ reset[t].used

(* What a request carries is still true when it goes on. *)
CallsConsistent ==
    \A p \in Proc :
        /\ InFlight(p, "request") => \A old \in call[p].burns : Burned(old)
        /\ InFlight(p, "confirm") => reset[call[p].token] # None
        /\ InFlight(p, "revoke") => call[p].epoch <= epoch[call[p].user]

(* Sessions are those that a sign-in saved, in an epoch there has been. *)
SessionsConsistent ==
    /\ \A u \in User : revoked[u] <= epoch[u]
    /\ \A f \in opened : owner[f] \in User /\ savedAt[f] <= epoch[owner[f]]
    /\ \A f \in Family : bearer[f] # {} => f \in opened

IInv ==
    /\ TypeOK
    /\ ResetsConsistent
    /\ CallsConsistent
    /\ SessionsConsistent
    /\ NoSavedSessionSurvivesReset

-----------------------------------------------------------------------------
(***************************************************************************)
(* Lemmas.                                                                 *)
(***************************************************************************)

(* The kind of a request tells its record. *)
LEMMA CallTypes ==
    ASSUME TypeOK, NEW p \in Proc
    PROVE  /\ InFlight(p, "signin") => call[p] \in SigninCall
           /\ InFlight(p, "request") => call[p] \in RequestCall
           /\ InFlight(p, "confirm") => call[p] \in ConfirmCall
           /\ InFlight(p, "revoke") => call[p] \in RevokeCall
    BY DEF TypeOK, InFlight, Call, SigninCall, RequestCall, ConfirmCall, RevokeCall

(* The steps of the store, by what they do to its three variables.         *)
LEMMA StoreTypes ==
    ASSUME Store!TypeOK, [Store!Next]_(Store!vars)
    PROVE  Store!TypeOK'
    BY DEF Store!TypeOK, Store!Next, Store!vars, Store!Open, Store!Rotate, Store!Close

(* Every step of a use case is a step of the store, or none.               *)
LEMMA StepRefines == [Next]_vars => [Store!Next]_(Store!vars)
<1> SUFFICES ASSUME [Next]_vars PROVE [Store!Next]_(Store!vars)
    OBVIOUS
<1>1. ASSUME NEW p \in Proc, Signin(p) \/ RequestPasswordReset(p) \/ Abandon(p)
      PROVE  [Store!Next]_(Store!vars)
    BY <1>1
    DEF Signin, SigninRead, SigninSave, RequestPasswordReset, RequestInvalidate, RequestCreate,
        Abandon, lineage, Store!Next, Store!vars
<1>2. ASSUME NEW p \in Proc, ConfirmPasswordReset(p)
      PROVE  [Store!Next]_(Store!vars)
  <2>1. CASE ConfirmRevoke(p)
    <3>1. FamiliesOf(call[p].user) \in SUBSET Family
      BY DEF FamiliesOf
    <3>2. QED
      BY <2>1, <3>1 DEF ConfirmRevoke, Store!Next
  <2>2. QED
    BY <1>2, <2>1 DEF ConfirmPasswordReset, ConfirmRead, ConfirmCommit, lineage, Store!vars
<1>3. ASSUME NEW f \in Family, NEW t \in Hash, NEW new \in Hash, Refresh(f, t, new)
      PROVE  Store!Next
    BY <1>3 DEF Refresh, Store!Next
<1>4. ASSUME NEW f \in Family, EndSession(f) PROVE Store!Next
    BY <1>4 DEF EndSession, Store!Next
<1>5. ASSUME NEW t \in ResetToken, AgeToken(t) PROVE UNCHANGED Store!vars
    BY <1>5 DEF AgeToken, lineage, Store!vars
<1>6. ASSUME UNCHANGED vars PROVE UNCHANGED Store!vars
    BY <1>6 DEF vars, lineage, Store!vars
<1>7. QED
    BY <1>1, <1>2, <1>3, <1>4, <1>5, <1>6 DEF Next

-----------------------------------------------------------------------------
(***************************************************************************)
(* Types.                                                                  *)
(***************************************************************************)

LEMMA InitType == Init => TypeOK
    BY DEF Init, TypeOK, Store!Init, Store!TypeOK

LEMMA StepType == TypeOK /\ CallsConsistent /\ [Next]_vars => TypeOK'
<1> SUFFICES ASSUME TypeOK, CallsConsistent, [Next]_vars PROVE TypeOK'
    OBVIOUS
<1>0. Store!TypeOK'
    BY StepRefines, StoreTypes DEF TypeOK
<1>1. ASSUME NEW p \in Proc, NEW u \in User, NEW w \in Password, SigninRead(p, u, w)
      PROVE  TypeOK'
  <2>1. [op |-> "signin", user |-> u, password |-> w] \in Call
    BY DEF Call, SigninCall
  <2>2. QED
    BY <1>0, <1>1, <2>1 DEF SigninRead, TypeOK, history, lineage
<1>2. ASSUME NEW p \in Proc, NEW f \in Family, NEW t \in Hash, SigninSave(p, f, t)
      PROVE  TypeOK'
  <2>1. call[p].user \in User /\ call[p].password \in Password
    BY <1>2, CallTypes DEF SigninSave, SigninCall
  <2>2. QED
    BY <1>0, <1>2, <2>1 DEF SigninSave, Finish, TypeOK
<1>3. ASSUME NEW p \in Proc, NEW u \in User, RequestInvalidate(p, u) PROVE TypeOK'
  <2>1. [op |-> "request", user |-> u, burns |-> Issued(u)] \in Call
    BY DEF Call, RequestCall, Issued
  <2>2. PICK S \in Active(u) :
            reset' = [t \in ResetToken |-> IF t \in S THEN [reset[t] EXCEPT !.used = TRUE]
                                                      ELSE reset[t]]
    BY <1>3 DEF RequestInvalidate
  <2>3. ASSUME NEW t \in ResetToken PROVE reset'[t] \in ResetRow \cup {None}
    <3>1. CASE t \in S
      <4>1. reset[t] \in ResetRow
        BY <3>1 DEF Active, Issued, TypeOK
      <4>2. QED
        BY <2>2, <3>1, <4>1 DEF ResetRow
    <3>2. CASE t \notin S
      BY <2>2, <3>2 DEF TypeOK
    <3>3. QED
      BY <3>1, <3>2
  <2>4. reset' \in [ResetToken -> ResetRow \cup {None}]
    BY <2>2, <2>3
  <2>5. QED
    BY <1>0, <1>3, <2>1, <2>4 DEF RequestInvalidate, TypeOK, history, lineage
<1>4. ASSUME NEW p \in Proc, NEW t \in ResetToken, RequestCreate(p, t) PROVE TypeOK'
  <2> DEFINE row == [user |-> call[p].user, age |-> "live", used |-> FALSE,
                     burns |-> call[p].burns]
  <2>1. row \in ResetRow
    BY <1>4, CallTypes DEF RequestCreate, RequestCall, ResetRow, Age
  <2>2. reset' = [reset EXCEPT ![t] = row]
    BY <1>4 DEF RequestCreate
  <2>3. QED
    BY <1>0, <1>4, <2>1, <2>2 DEF RequestCreate, Finish, TypeOK, history, lineage
<1>5. ASSUME NEW p \in Proc, NEW t \in ResetToken, NEW w \in Password, ConfirmRead(p, t, w)
      PROVE  TypeOK'
  <2>1. [op |-> "confirm", token |-> t, password |-> w] \in Call
    BY DEF Call, ConfirmCall
  <2>2. QED
    BY <1>0, <1>5, <2>1 DEF ConfirmRead, TypeOK, history, lineage
<1>6. ASSUME NEW p \in Proc, ConfirmCommit(p) PROVE TypeOK'
  <2>1. call[p] \in ConfirmCall /\ reset[call[p].token] # None
    BY <1>6, CallTypes DEF ConfirmCommit, CallsConsistent
  <2> DEFINE t == call[p].token
             u == reset[t].user
  <2>2. t \in ResetToken /\ call[p].password \in Password
    BY <2>1 DEF ConfirmCall
  <2>3. reset[t] \in ResetRow
    BY <2>1, <2>2 DEF TypeOK
  <2>4. u \in User /\ [reset[t] EXCEPT !.used = TRUE] \in ResetRow
    BY <2>3 DEF ResetRow
  <2>5. reset' \in [ResetToken -> ResetRow \cup {None}]
    BY <1>6, <2>4 DEF ConfirmCommit, MarkUsed, TypeOK
  <2>6. epoch' \in [User -> Nat] /\ redeemed' \in [ResetToken -> Nat]
    BY <1>6, <2>2, <2>4 DEF ConfirmCommit, TypeOK
  <2>7. [op |-> "revoke", user |-> u, epoch |-> epoch[u] + 1] \in Call
    BY <2>4 DEF Call, RevokeCall, TypeOK
  <2>8. call' \in [Proc -> Call \cup {None}] /\ digest' \in [User -> Password]
    BY <1>6, <2>2, <2>4, <2>7 DEF ConfirmCommit, TypeOK
  <2>9. QED
    BY <1>0, <1>6, <2>5, <2>6, <2>8 DEF ConfirmCommit, TypeOK
<1>7. ASSUME NEW p \in Proc, ConfirmRevoke(p) PROVE TypeOK'
  <2>1. call[p].user \in User /\ call[p].epoch \in Nat
    BY <1>7, CallTypes DEF ConfirmRevoke, RevokeCall
  <2>2. revoked' \in [User -> Nat]
    BY <1>7, <2>1 DEF ConfirmRevoke, Larger, TypeOK
  <2>3. QED
    BY <1>0, <1>7, <2>2 DEF ConfirmRevoke, Finish, TypeOK
<1>8. ASSUME NEW p \in Proc, Abandon(p) PROVE TypeOK'
    BY <1>0, <1>8 DEF Abandon, Finish, TypeOK, history, lineage
<1>9. ASSUME NEW f \in Family, NEW t \in Hash, NEW new \in Hash, Refresh(f, t, new)
      PROVE  TypeOK'
    BY <1>0, <1>9 DEF Refresh, TypeOK, history
<1>10. ASSUME NEW f \in Family, EndSession(f) PROVE TypeOK'
    BY <1>0, <1>10 DEF EndSession, TypeOK, history
<1>11. ASSUME NEW t \in ResetToken, AgeToken(t) PROVE TypeOK'
  <2> DEFINE age == IF reset[t].age = "live" THEN "borderline" ELSE "expired"
  <2>1. reset[t] \in ResetRow
    BY <1>11 DEF AgeToken, TypeOK
  <2>2. [reset[t] EXCEPT !.age = age] \in ResetRow
    BY <2>1 DEF ResetRow, Age
  <2>3. QED
    BY <1>0, <1>11, <2>2 DEF AgeToken, TypeOK, history, lineage
<1>12. ASSUME UNCHANGED vars PROVE TypeOK'
    BY <1>0, <1>12 DEF vars, TypeOK, history
<1>13. QED
    BY <1>1, <1>2, <1>3, <1>4, <1>5, <1>6, <1>7, <1>8, <1>9, <1>10, <1>11, <1>12
    DEF Next, Signin, RequestPasswordReset, ConfirmPasswordReset

-----------------------------------------------------------------------------
(***************************************************************************)
(* What no step takes back.                                                *)
(***************************************************************************)

(* A reset token stays issued and burned, and says what it said.           *)
RowsAreKept ==
    \A t \in ResetToken : reset[t] # None =>
        /\ reset'[t] # None
        /\ reset'[t].burns = reset[t].burns
        /\ reset[t].used => reset'[t].used
        /\ reset'[t].age = "live" => reset[t].age = "live"

LEMMA StepKeeps ==
    ASSUME TypeOK, CallsConsistent, [Next]_vars
    PROVE  RowsAreKept /\ \A u \in User : epoch[u] <= epoch'[u]
<1>0. TypeOK'
    BY StepType
<1>1. ASSUME NEW t \in ResetToken, reset[t] # None PROVE reset[t] \in ResetRow
    BY <1>1 DEF TypeOK
<1>2. ASSUME NEW t \in ResetToken, reset' = [reset EXCEPT ![t] = [reset[t] EXCEPT !.used = TRUE]],
             reset[t] # None
      PROVE  RowsAreKept
    BY <1>0, <1>1, <1>2 DEF RowsAreKept, TypeOK, ResetRow
<1>3. ASSUME NEW p \in Proc, NEW u \in User, RequestInvalidate(p, u) PROVE RowsAreKept
  <2>1. PICK S \in Active(u) :
            reset' = [t \in ResetToken |-> IF t \in S THEN [reset[t] EXCEPT !.used = TRUE]
                                                      ELSE reset[t]]
    BY <1>3 DEF RequestInvalidate
  <2>2. ASSUME NEW t \in ResetToken, reset[t] # None
        PROVE  \/ reset'[t] = reset[t]
               \/ reset'[t] = [reset[t] EXCEPT !.used = TRUE]
    BY <2>1
  <2>3. ASSUME NEW t \in ResetToken, reset[t] # None
        PROVE  [reset[t] EXCEPT !.used = TRUE] \in ResetRow
    BY <1>1, <2>3 DEF ResetRow
  <2>4. QED
    BY <1>1, <2>2, <2>3 DEF RowsAreKept, ResetRow
<1>4. ASSUME NEW p \in Proc, NEW t \in ResetToken, RequestCreate(p, t) PROVE RowsAreKept
    BY <1>0, <1>4 DEF RequestCreate, RowsAreKept, TypeOK
<1>5. ASSUME NEW p \in Proc, ConfirmCommit(p) PROVE RowsAreKept
    BY <1>2, <1>5, CallTypes DEF ConfirmCommit, MarkUsed, ConfirmCall, CallsConsistent
<1>6. ASSUME NEW t \in ResetToken, AgeToken(t) PROVE RowsAreKept
  <2>1. reset[t] \in ResetRow
    BY <1>1, <1>6 DEF AgeToken
  <2>2. PICK age \in Age : age # "live" /\ reset' = [reset EXCEPT ![t] = [reset[t] EXCEPT !.age = age]]
    BY <1>6 DEF AgeToken, Age
  <2>3. QED
    BY <1>0, <1>1, <2>1, <2>2 DEF RowsAreKept, TypeOK, ResetRow
<1>7. ASSUME UNCHANGED reset PROVE RowsAreKept
    BY <1>7 DEF RowsAreKept
<1>8. RowsAreKept
    BY <1>3, <1>4, <1>5, <1>6, <1>7
    DEF Next, Signin, SigninRead, SigninSave, RequestPasswordReset, ConfirmPasswordReset,
        ConfirmRead, ConfirmRevoke, Abandon, Refresh, EndSession, vars
<1>9. ASSUME NEW u \in User PROVE epoch'[u] = epoch[u] \/ epoch'[u] = epoch[u] + 1
  <2>1. ASSUME NEW p \in Proc, ConfirmCommit(p) PROVE epoch'[u] = epoch[u] \/ epoch'[u] = epoch[u] + 1
    BY <2>1 DEF ConfirmCommit, TypeOK
  <2>2. QED
    BY <2>1
    DEF Next, Signin, SigninRead, SigninSave, RequestPasswordReset, RequestInvalidate,
        RequestCreate, ConfirmPasswordReset, ConfirmRead, ConfirmRevoke, Abandon, Refresh,
        EndSession, AgeToken, vars, history
<1>10. \A u \in User : epoch[u] <= epoch'[u]
    BY <1>9 DEF TypeOK
<1>11. QED
    BY <1>8, <1>10

(* What is worth nothing stays so.                                         *)
LEMMA BurnedIsKept ==
    ASSUME RowsAreKept, NEW t \in ResetToken, Burned(t)
    PROVE  Burned(t)'
    BY DEF RowsAreKept, Burned

(* Tokens are issued by the second half of a request only.                 *)
LEMMA NewRow ==
    ASSUME TypeOK, CallsConsistent, [Next]_vars,
           NEW t \in ResetToken, reset[t] = None, reset'[t] # None
    PROVE  \E p \in Proc : RequestCreate(p, t)
<1>1. ASSUME NEW p \in Proc, NEW u \in User PROVE ~ RequestInvalidate(p, u)
    BY DEF RequestInvalidate, Active, Issued
<1>2. ASSUME NEW p \in Proc PROVE ~ ConfirmCommit(p)
    BY CallTypes DEF ConfirmCommit, MarkUsed, CallsConsistent, ConfirmCall, TypeOK
<1>3. ASSUME NEW s \in ResetToken PROVE ~ AgeToken(s)
    BY DEF AgeToken, TypeOK
<1>4. ASSUME NEW p \in Proc, NEW s \in ResetToken, RequestCreate(p, s) PROVE s = t
    BY <1>4 DEF RequestCreate, TypeOK
<1>5. QED
    BY <1>1, <1>2, <1>3, <1>4
    DEF Next, Signin, SigninRead, SigninSave, RequestPasswordReset, ConfirmPasswordReset,
        ConfirmRead, ConfirmRevoke, Abandon, Refresh, EndSession, vars

(* A request takes up something new in four ways.                          *)
LEMMA NewCall ==
    ASSUME TypeOK, [Next]_vars, NEW p \in Proc, call'[p] # call[p], call'[p] # None
    PROVE  \/ \E u \in User, w \in Password : SigninRead(p, u, w)
           \/ \E u \in User : RequestInvalidate(p, u)
           \/ \E t \in ResetToken, w \in Password : ConfirmRead(p, t, w)
           \/ ConfirmCommit(p)
<1>1. ASSUME NEW q \in Proc, Finish(q) PROVE FALSE
    BY <1>1 DEF Finish, TypeOK
<1>2. ASSUME NEW q \in Proc, NEW c, call' = [call EXCEPT ![q] = c] PROVE q = p
    BY <1>2 DEF TypeOK
<1>3. UNCHANGED call => FALSE
    OBVIOUS
<1>4. ASSUME NEW q \in Proc, Signin(q) \/ RequestPasswordReset(q) \/ ConfirmPasswordReset(q)
      PROVE  q = p
    BY <1>1, <1>2, <1>4
    DEF Signin, SigninRead, SigninSave, RequestPasswordReset, RequestInvalidate, RequestCreate,
        ConfirmPasswordReset, ConfirmRead, ConfirmCommit, ConfirmRevoke
<1>5. QED
    BY <1>1, <1>3, <1>4
    DEF Next, Signin, SigninSave, RequestPasswordReset, RequestCreate, ConfirmPasswordReset,
        ConfirmRevoke, Abandon, Refresh, EndSession, AgeToken, vars

-----------------------------------------------------------------------------
(***************************************************************************)
(* The steps keep the invariant.                                           *)
(***************************************************************************)

LEMMA StepResets == IInv /\ [Next]_vars => ResetsConsistent'
<1> SUFFICES ASSUME IInv, [Next]_vars PROVE ResetsConsistent'
    OBVIOUS
<1>0. TypeOK /\ TypeOK' /\ ResetsConsistent /\ CallsConsistent /\ RowsAreKept
    BY StepType, StepKeeps DEF IInv
<1>1. ASSUME NEW t \in ResetToken, reset'[t] # None
      PROVE  \A old \in reset'[t].burns : Burned(old)'
  <2>1. CASE reset[t] # None
    <3>1. reset'[t].burns = reset[t].burns /\ reset[t].burns \subseteq ResetToken
      BY <1>0, <2>1 DEF RowsAreKept, TypeOK, ResetRow
    <3>2. QED
      BY <1>0, <2>1, <3>1, BurnedIsKept DEF ResetsConsistent
  <2>2. CASE reset[t] = None
    <3>1. PICK p \in Proc : RequestCreate(p, t)
      BY <1>0, <1>1, <2>2, NewRow
    <3>2. call[p] \in RequestCall /\ \A old \in call[p].burns : Burned(old)
      BY <1>0, <3>1, CallTypes DEF RequestCreate, CallsConsistent
    <3>3. reset'[t].burns = call[p].burns
      BY <1>0, <3>1 DEF RequestCreate, TypeOK
    <3>4. QED
      BY <1>0, <3>2, <3>3, BurnedIsKept DEF RequestCall
  <2>3. QED
    BY <2>1, <2>2
<1>2. ASSUME NEW t \in ResetToken, redeemed'[t] > 0 PROVE reset'[t] # None /\ reset'[t].used
  <2>1. CASE redeemed'[t] = redeemed[t]
    BY <1>0, <1>2, <2>1 DEF ResetsConsistent, RowsAreKept
  <2>2. ASSUME NEW p \in Proc, ConfirmCommit(p), redeemed'[t] # redeemed[t]
        PROVE  reset'[t] # None /\ reset'[t].used
    <3>1. t = call[p].token
      BY <1>0, <2>2 DEF ConfirmCommit, TypeOK
    <3>2. reset[t] \in ResetRow
      BY <1>0, <2>2, <3>1 DEF ConfirmCommit, CallsConsistent, TypeOK
    <3>3. reset'[t] = [reset[t] EXCEPT !.used = TRUE]
      BY <1>0, <2>2, <3>1 DEF ConfirmCommit, MarkUsed, TypeOK
    <3>4. [reset[t] EXCEPT !.used = TRUE] \in ResetRow
      BY <3>2 DEF ResetRow
    <3>5. QED
      BY <3>2, <3>3, <3>4 DEF ResetRow
  <2>3. QED
    BY <2>1, <2>2
    DEF Next, Signin, SigninRead, SigninSave, RequestPasswordReset, RequestInvalidate,
        RequestCreate, ConfirmPasswordReset, ConfirmRead, ConfirmRevoke, Abandon, Refresh,
        EndSession, AgeToken, vars, history
<1>3. QED
    BY <1>1, <1>2 DEF ResetsConsistent

LEMMA StepCalls == IInv /\ [Next]_vars => CallsConsistent'
<1> SUFFICES ASSUME IInv, [Next]_vars, NEW p \in Proc
             PROVE  /\ InFlight(p, "request")' => \A old \in call'[p].burns : Burned(old)'
                    /\ InFlight(p, "confirm")' => reset'[call'[p].token] # None
                    /\ InFlight(p, "revoke")' => call'[p].epoch <= epoch'[call'[p].user]
    BY DEF CallsConsistent
<1>0. /\ TypeOK /\ TypeOK' /\ CallsConsistent /\ RowsAreKept
      /\ \A u \in User : epoch[u] <= epoch'[u]
    BY StepType, StepKeeps DEF IInv
<1>1. CASE call'[p] = call[p]
  <2>1. InFlight(p, "request")' => \A old \in call'[p].burns : Burned(old)'
    BY <1>0, <1>1, CallTypes, BurnedIsKept DEF InFlight, CallsConsistent, RequestCall
  <2>2. InFlight(p, "confirm")' => reset'[call'[p].token] # None
    BY <1>0, <1>1, CallTypes DEF InFlight, CallsConsistent, ConfirmCall, RowsAreKept
  <2>3. ASSUME InFlight(p, "revoke")' PROVE call'[p].epoch <= epoch'[call'[p].user]
    <3>1. call[p] \in RevokeCall /\ call[p].epoch <= epoch[call[p].user]
      BY <1>0, <1>1, <2>3, CallTypes DEF InFlight, CallsConsistent
    <3>2. call[p].user \in User /\ call[p].epoch \in Nat
      BY <3>1 DEF RevokeCall
    <3>3. epoch[call[p].user] \in Nat /\ epoch'[call[p].user] \in Nat
      BY <1>0, <3>2 DEF TypeOK
    <3>4. QED
      BY <1>0, <1>1, <3>1, <3>2, <3>3
  <2>4. QED
    BY <2>1, <2>2, <2>3
<1>2. ASSUME NEW u \in User, RequestInvalidate(p, u)
      PROVE  /\ ~ InFlight(p, "confirm")' /\ ~ InFlight(p, "revoke")'
             /\ \A old \in call'[p].burns : Burned(old)'
  <2>1. PICK S \in Active(u) :
            reset' = [t \in ResetToken |-> IF t \in S THEN [reset[t] EXCEPT !.used = TRUE]
                                                      ELSE reset[t]]
    BY <1>2 DEF RequestInvalidate
  <2>2. call'[p] = [op |-> "request", user |-> u, burns |-> Issued(u)]
    BY <1>0, <1>2 DEF RequestInvalidate, TypeOK
  <2>3. ASSUME NEW old \in Issued(u) PROVE Burned(old)'
    <3>1. old \in ResetToken /\ reset[old] # None /\ reset[old] \in ResetRow
      BY <1>0 DEF Issued, TypeOK
    <3>2. CASE old \in S
      <4>1. reset'[old] = [reset[old] EXCEPT !.used = TRUE]
        BY <2>1, <3>1, <3>2
      <4>2. QED
        BY <1>0, <3>1, <4>1 DEF ResetRow, Burned, RowsAreKept
    <3>3. CASE old \notin S
      <4>1. reset'[old] = reset[old] /\ reset[old].age # "live"
        BY <2>1, <3>1, <3>3 DEF Active
      <4>2. QED
        BY <3>1, <4>1 DEF Burned
    <3>4. QED
      BY <3>2, <3>3
  <2>4. QED
    BY <2>2, <2>3 DEF InFlight
<1>3. ASSUME NEW t \in ResetToken, NEW w \in Password, ConfirmRead(p, t, w)
      PROVE  /\ ~ InFlight(p, "request")' /\ ~ InFlight(p, "revoke")'
             /\ reset'[call'[p].token] # None
    BY <1>0, <1>3 DEF ConfirmRead, InFlight, TypeOK
<1>4. ASSUME ConfirmCommit(p)
      PROVE  /\ ~ InFlight(p, "request")' /\ ~ InFlight(p, "confirm")'
             /\ call'[p].epoch <= epoch'[call'[p].user]
  <2> DEFINE u == reset[call[p].token].user
  <2>1. u \in User
    BY <1>0, <1>4, CallTypes DEF ConfirmCommit, CallsConsistent, ConfirmCall, TypeOK, ResetRow
  <2>2. call'[p] = [op |-> "revoke", user |-> u, epoch |-> epoch[u] + 1]
    BY <1>0, <1>4 DEF ConfirmCommit, TypeOK
  <2>3. epoch'[u] = epoch[u] + 1 /\ epoch'[u] \in Nat
    BY <1>0, <1>4, <2>1 DEF ConfirmCommit, TypeOK
  <2>4. QED
    BY <2>2, <2>3 DEF InFlight
<1>5. ASSUME NEW u \in User, NEW w \in Password, SigninRead(p, u, w)
      PROVE  ~ InFlight(p, "request")' /\ ~ InFlight(p, "confirm")' /\ ~ InFlight(p, "revoke")'
    BY <1>0, <1>5 DEF SigninRead, InFlight, TypeOK
<1>6. CASE call'[p] = None
    BY <1>6 DEF InFlight
<1>7. QED
    BY <1>0, <1>1, <1>2, <1>3, <1>4, <1>5, <1>6, NewCall

LEMMA StepSessions ==
    IInv /\ [Next]_vars => SessionsConsistent' /\ NoSavedSessionSurvivesReset'
<1> SUFFICES ASSUME IInv, [Next]_vars
             PROVE  SessionsConsistent' /\ NoSavedSessionSurvivesReset'
    OBVIOUS
<1> DEFINE Kept == SessionsConsistent' /\ NoSavedSessionSurvivesReset'
<1>0. /\ TypeOK /\ TypeOK' /\ SessionsConsistent /\ NoSavedSessionSurvivesReset
      /\ CallsConsistent /\ \A u \in User : epoch[u] <= epoch'[u]
    BY StepType, StepKeeps DEF IInv
<1>1. ASSUME NEW u \in User
      PROVE  epoch[u] \in Nat /\ epoch'[u] \in Nat /\ revoked[u] \in Nat /\ revoked[u] <= epoch[u]
    BY <1>0 DEF TypeOK, SessionsConsistent
<1>2. \A f \in Family : savedAt[f] \in Nat
    BY <1>0 DEF TypeOK
<1>3. opened \subseteq Family
    BY <1>0 DEF TypeOK, Store!TypeOK
<1>4. ASSUME UNCHANGED <<opened, owner, savedAt, revoked>>,
             \A f \in Family : bearer'[f] # {} => bearer[f] # {}
      PROVE  Kept
  <2>1. \A u \in User : revoked'[u] <= epoch'[u]
    BY <1>0, <1>1, <1>4
  <2>2. \A f \in opened' : owner'[f] \in User /\ savedAt'[f] <= epoch'[owner'[f]]
    BY <1>0, <1>1, <1>2, <1>3, <1>4 DEF SessionsConsistent
  <2>3. QED
    BY <1>0, <1>4, <2>1, <2>2 DEF SessionsConsistent, NoSavedSessionSurvivesReset
<1>5. ASSUME NEW p \in Proc, NEW f \in Family, NEW t \in Hash, SigninSave(p, f, t) PROVE Kept
  <2> DEFINE u == call[p].user
  <2>1. u \in User
    BY <1>0, <1>5, CallTypes DEF SigninSave, SigninCall
  <2>2. f \notin opened /\ opened' = opened \cup {f}
    BY <1>5 DEF SigninSave, Store!Open
  <2>3. owner'[f] = u /\ savedAt'[f] = epoch[u]
    BY <1>0, <1>5 DEF SigninSave, TypeOK
  <2>4. \A g \in Family \ {f} :
           owner'[g] = owner[g] /\ savedAt'[g] = savedAt[g] /\ bearer'[g] = bearer[g]
    BY <1>0, <1>5 DEF SigninSave, TypeOK, Store!Open, Store!TypeOK
  <2>5. epoch' = epoch /\ revoked' = revoked
    BY <1>5 DEF SigninSave
  <2>6. \A g \in opened' : owner'[g] \in User /\ savedAt'[g] <= epoch'[owner'[g]]
    BY <1>0, <1>1, <1>3, <2>1, <2>2, <2>3, <2>4, <2>5 DEF SessionsConsistent
  <2>7. SessionsConsistent'
    BY <1>0, <2>2, <2>4, <2>5, <2>6 DEF SessionsConsistent
  <2>8. \A g \in Family : bearer'[g] # {} => savedAt'[g] >= revoked'[owner'[g]]
    BY <1>0, <1>1, <2>1, <2>3, <2>4, <2>5 DEF NoSavedSessionSurvivesReset
  <2>9. QED
    BY <2>7, <2>8 DEF NoSavedSessionSurvivesReset
<1>6. ASSUME NEW p \in Proc, ConfirmRevoke(p) PROVE Kept
  <2> DEFINE u == call[p].user
  <2>1. u \in User /\ call[p].epoch \in Nat /\ call[p].epoch <= epoch[u]
    BY <1>0, <1>6, CallTypes DEF ConfirmRevoke, CallsConsistent, RevokeCall
  <2>2. revoked' = [revoked EXCEPT ![u] = Larger(revoked[u], call[p].epoch)]
    BY <1>6 DEF ConfirmRevoke
  <2>3. \A v \in User : revoked'[v] <= epoch[v]
    BY <1>0, <1>1, <2>1, <2>2 DEF Larger, TypeOK
  <2>4. UNCHANGED <<owner, epoch, savedAt, opened>>
    BY <1>6 DEF ConfirmRevoke, Store!Close
  <2>5. \A f \in Family : bearer'[f] = IF owner[f] = u THEN {} ELSE bearer[f]
    BY <1>6 DEF ConfirmRevoke, Store!Close, FamiliesOf
  <2>6. SessionsConsistent'
    BY <1>0, <2>3, <2>4, <2>5 DEF SessionsConsistent
  <2>7. ASSUME NEW f \in Family, bearer'[f] # {} PROVE savedAt'[f] >= revoked'[owner'[f]]
    <3>1. bearer[f] # {} /\ owner[f] # u /\ owner[f] \in User
      BY <1>0, <2>5, <2>7 DEF SessionsConsistent
    <3>2. revoked'[owner[f]] = revoked[owner[f]]
      BY <1>0, <2>2, <3>1 DEF TypeOK
    <3>3. QED
      BY <1>0, <2>4, <3>1, <3>2 DEF NoSavedSessionSurvivesReset
  <2>8. QED
    BY <2>6, <2>7 DEF NoSavedSessionSurvivesReset
<1>7. ASSUME NEW f \in Family, NEW t \in Hash, NEW new \in Hash, Refresh(f, t, new) PROVE Kept
    BY <1>0, <1>4, <1>7 DEF Refresh, Store!Rotate, TypeOK, Store!TypeOK, history
<1>8. ASSUME NEW f \in Family, EndSession(f) PROVE Kept
    BY <1>4, <1>8 DEF EndSession, Store!Close, history
<1>9. CASE UNCHANGED <<bearer, opened, owner, savedAt, revoked>>
    BY <1>4, <1>9
<1>10. QED
    BY <1>5, <1>6, <1>7, <1>8, <1>9
    DEF Next, Signin, SigninRead, RequestPasswordReset, RequestInvalidate, RequestCreate,
        ConfirmPasswordReset, ConfirmRead, ConfirmCommit, Abandon, AgeToken, vars, lineage, history

LEMMA InitIInv == Init => IInv
<1> SUFFICES ASSUME Init PROVE IInv
    OBVIOUS
<1>1. ResetsConsistent /\ CallsConsistent
    BY DEF Init, ResetsConsistent, CallsConsistent, InFlight
<1>2. SessionsConsistent /\ NoSavedSessionSurvivesReset
    BY DEF Init, Store!Init, SessionsConsistent, NoSavedSessionSurvivesReset
<1>3. QED
    BY <1>1, <1>2, InitType DEF IInv

LEMMA StepIInv == IInv /\ [Next]_vars => IInv'
    BY StepType, StepResets, StepCalls, StepSessions DEF IInv

-----------------------------------------------------------------------------
(***************************************************************************)
(* Theorems.                                                               *)
(***************************************************************************)

(* What requests carry, what rows of reset tokens say of each other and    *)
(* what sessions belong to agree in every reachable state.                 *)
THEOREM Consistent == Spec => []IInv
    BY InitIInv, StepIInv, PTL DEF Spec

(* Every row, request and counter has its type.                            *)
THEOREM TypeCorrect == Spec => []TypeOK
    BY Consistent, PTL DEF IInv

(* A reset that has revoked its user's sessions leaves none that was saved *)
(* before it was committed.                                                *)
THEOREM ResetEndsSessions == Spec => []NoSavedSessionSurvivesReset
    BY Consistent, PTL DEF IInv

(* A token that paid for a reset is used.                                  *)
THEOREM RedeemedBurned == Spec => []RedeemedTokenIsBurned
<1>1. IInv => RedeemedTokenIsBurned
    BY DEF IInv, ResetsConsistent, RedeemedTokenIsBurned
<1>2. QED
    BY <1>1, Consistent, PTL

(* A new reset token leaves no older live one of the user unused.          *)
THEOREM SupersededBurned == Spec => []SupersededTokensAreBurned
<1>1. IInv => SupersededTokensAreBurned
    BY DEF IInv, ResetsConsistent, Burned, SupersededTokensAreBurned
<1>2. QED
    BY <1>1, Consistent, PTL

(* The use cases use the refresh-token store as SessionLineage promises    *)
(* it, however their steps interleave: they are steps of its.              *)
THEOREM StoreAsPromised == Spec => Store!Spec
<1>1. Init => Store!Init
    BY DEF Init
<1>2. QED
    BY <1>1, StepRefines, PTL DEF Spec, Store!Spec

=============================================================================
