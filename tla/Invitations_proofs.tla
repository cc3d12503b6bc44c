------------------------- MODULE Invitations_proofs -------------------------
(***************************************************************************)
(* TLAPS proofs about Invitations, for every number of organizations,      *)
(* addresses, invitations and requests in flight.                          *)
(***************************************************************************)
EXTENDS Invitations, TLAPS

USE NoneAssumption

(***************************************************************************)
(* The inductive invariant.  The properties of Invitations are about the   *)
(* database; to be inductive they need what a request has established when *)
(* it comes to write, and why that is still true then.                     *)
(***************************************************************************)

(* An organization comes into being with its founder. *)
MembersHaveFounder ==
    \A o \in Org, e \in Email : member[o][e] # None => founder[o] # None

(* Nobody is made a member by an invitation that was not issued. *)
JoinedWereIssued == joined \subseteq Issued

(* A revoked invitation has a user who revoked it.                         *)
RevokersAreNoted ==
    \A i \in Issued : invitation[i].revoked => revoker[i] \in Email

(* Who is about to issue an invitation may: memberships do not change. *)
CreatorsMay ==
    \A p \in Proc : InFlight(p, "create") =>
        Outranks(call[p].org, call[p].by, call[p].role)

(* Who is about to revoke one may: the row keeps its organization and role. *)
RevokersMay ==
    \A p \in Proc : InFlight(p, "revoke") =>
        /\ call[p].inv \in Issued
        /\ Outranks(invitation[call[p].inv].org, call[p].by, invitation[call[p].inv].role)

(* What a request to accept has established: that there is an invitation,  *)
(* and on each way on, what it decided on.                                 *)
HasRead(c) ==
    LET row == invitation[c.inv]
    IN /\ c.inv \in Issued
       /\ c.todo = "mark" => member[row.org][row.email] # None
       /\ c.todo = "join" => row.email \in registered
       /\ c.todo \in {"join", "signup"} => Valid(c)
       /\ c.late => \/ c.expired
                    \/ c.todo = "find" /\ (row.accepted \/ row.revoked)
                    \/ c.todo # "find" /\ (c.accepted \/ c.revoked)

AcceptsRead == \A p \in Proc : InFlight(p, "accept") => HasRead(call[p])

IInv ==
    /\ TypeOK
    /\ MembersHaveFounder
    /\ JoinedWereIssued
    /\ RevokersAreNoted
    /\ CreatorsMay
    /\ RevokersMay
    /\ AcceptsRead
    /\ OneInPlayPerAddress
    /\ MembersWereInvited
    /\ AcceptanceIsAtomic
    /\ NoEscalation

-----------------------------------------------------------------------------
(***************************************************************************)
(* Lemmas.                                                                 *)
(***************************************************************************)

(* The kind of a request tells its record. *)
LEMMA CallTypes ==
    ASSUME TypeOK, NEW p \in Proc
    PROVE  /\ InFlight(p, "create") => call[p] \in CreateCall
           /\ InFlight(p, "accept") => call[p] \in AcceptCall
           /\ InFlight(p, "revoke") => call[p] \in RevokeCall
    BY DEF TypeOK, InFlight, Call, CreateCall, AcceptCall, RevokeCall

(* An issued invitation is a row. *)
LEMMA RowType ==
    ASSUME TypeOK, NEW i \in Issued
    PROVE  i \in Invitation /\ invitation[i] \in InvitationRow
    BY DEF TypeOK, Issued

(* The two UPDATEs stamp one row and change nothing else. *)
LEMMA MarkValue ==
    ASSUME TypeOK, NEW i \in Issued
    PROVE  /\ MarkAccepted(i) \in [Invitation -> InvitationRow \cup {None}]
           /\ MarkRevoked(i) \in [Invitation -> InvitationRow \cup {None}]
           /\ \A j \in Invitation : j # i => /\ MarkAccepted(i)[j] = invitation[j]
                                             /\ MarkRevoked(i)[j] = invitation[j]
           /\ MarkAccepted(i)[i] = [invitation[i] EXCEPT !.accepted = TRUE]
           /\ MarkRevoked(i)[i] = [invitation[i] EXCEPT !.revoked = TRUE]
           /\ MarkAccepted(i)[i] \in InvitationRow
           /\ MarkRevoked(i)[i] \in InvitationRow
<1>1. /\ i \in Invitation
      /\ invitation[i] \in InvitationRow
      /\ invitation \in [Invitation -> InvitationRow \cup {None}]
    BY RowType DEF TypeOK
<1>2. /\ [invitation[i] EXCEPT !.accepted = TRUE] \in InvitationRow
      /\ [invitation[i] EXCEPT !.revoked = TRUE] \in InvitationRow
    BY <1>1 DEF InvitationRow
<1>3. QED
    BY <1>1, <1>2 DEF MarkAccepted, MarkRevoked

(* A new member has the role the invitation offered; nobody else changes. *)
LEMMA EnrolledValue ==
    ASSUME TypeOK, NEW i \in Issued
    PROVE  LET row == invitation[i]
           IN /\ Enrolled(i) \in [Org -> [Email -> Role \cup {None}]]
              /\ \A o \in Org, e \in Email :
                    Enrolled(i)[o][e] = IF o = row.org /\ e = row.email
                                        THEN row.role ELSE member[o][e]
<1>1. /\ invitation[i].org \in Org
      /\ invitation[i].email \in Email
      /\ invitation[i].role \in Role
    BY RowType DEF InvitationRow
<1>2. member \in [Org -> [Email -> Role \cup {None}]]
    BY DEF TypeOK
<1>3. QED
    BY <1>1, <1>2 DEF Enrolled

(* The steps that write to the database, and all the others. *)
database == <<registered, member, invitation, founder, revoker, joined>>

LEMMA Writers ==
    ASSUME [Next]_vars
    PROVE  \/ UNCHANGED database
           \/ \E e \in Email, o \in Org : Signup(e, o)
           \/ \E p \in Proc, i \in Invitation : CreateInsert(p, i)
           \/ \E p \in Proc : AcceptMark(p) \/ AcceptJoin(p) \/ RevokeWrite(p)
           \/ \E i \in Invitation : AgeInvitation(i)
<1> DEFINE Reads(p) == \/ \E by, e \in Email, o \in Org, role \in Role : CreateBegin(p, by, o, e, role)
                       \/ CreateCheck(p)
                       \/ \E i \in Invitation, signup \in BOOLEAN : AcceptBegin(p, i, signup)
                       \/ AcceptFind(p)
                       \/ AcceptResolve(p)
                       \/ \E by \in Email, o \in Org, i \in Invitation : RevokeBegin(p, by, o, i)
                       \/ Abandon(p)
<1>1. ASSUME NEW p \in Proc, Reads(p) PROVE UNCHANGED database
  <2> USE DEF database, history
  <2>1. CASE \E by, e \in Email, o \in Org, role \in Role : CreateBegin(p, by, o, e, role)
    BY <2>1 DEF CreateBegin
  <2>2. CASE CreateCheck(p)
    BY <2>2 DEF CreateCheck
  <2>3. CASE \E i \in Invitation, signup \in BOOLEAN : AcceptBegin(p, i, signup)
    BY <2>3 DEF AcceptBegin
  <2>4. CASE AcceptFind(p)
    BY <2>4 DEF AcceptFind
  <2>5. CASE AcceptResolve(p)
    BY <2>5 DEF AcceptResolve
  <2>6. CASE \E by \in Email, o \in Org, i \in Invitation : RevokeBegin(p, by, o, i)
    BY <2>6 DEF RevokeBegin
  <2>7. CASE Abandon(p)
    BY <2>7 DEF Abandon
  <2>8. QED
    BY <1>1, <2>1, <2>2, <2>3, <2>4, <2>5, <2>6, <2>7
<1>2. CASE UNCHANGED vars
    BY <1>2 DEF vars, database
<1>3. CASE Next
  <2>1. \/ \E e \in Email, o \in Org : Signup(e, o)
        \/ \E p \in Proc, i \in Invitation : CreateInsert(p, i)
        \/ \E p \in Proc : AcceptMark(p) \/ AcceptJoin(p) \/ RevokeWrite(p)
        \/ \E i \in Invitation : AgeInvitation(i)
        \/ \E p \in Proc : Reads(p)
    BY <1>3, Zenon DEF Next, CreateInvitation, AcceptInvitation, RevokeInvitation
  <2> HIDE DEF Reads
  <2>2. QED
    BY <1>1, <2>1, Zenon
<1>4. QED
    BY <1>2, <1>3

-----------------------------------------------------------------------------
(***************************************************************************)
(* Type correctness.  An update of a row needs the row to exist, so the    *)
(* step takes in that requests refer to invitations that were issued.      *)
(***************************************************************************)

LEMMA InitType == Init => TypeOK
    BY DEF Init, TypeOK

LEMMA StepType == TypeOK /\ AcceptsRead /\ RevokersMay /\ [Next]_vars => TypeOK'
<1> SUFFICES ASSUME TypeOK, AcceptsRead, RevokersMay, [Next]_vars PROVE TypeOK'
    OBVIOUS
<1> USE DEF TypeOK, history, Finish, Proceed
<1>1. ASSUME NEW e \in Email, NEW o \in Org, Signup(e, o) PROVE TypeOK'
  <2>1. [member EXCEPT ![o][e] = "manager"] \in [Org -> [Email -> Role \cup {None}]]
    BY DEF Role
  <2>2. QED
    BY <1>1, <2>1 DEF Signup
<1>2. ASSUME NEW p \in Proc, NEW by \in Email, NEW e \in Email, NEW o \in Org,
             NEW role \in Role, CreateBegin(p, by, o, e, role)
      PROVE  TypeOK'
    BY <1>2 DEF CreateBegin, Call, CreateCall
<1>3. ASSUME NEW p \in Proc, CreateCheck(p) PROVE TypeOK'
  <2>1. [call[p] EXCEPT !.checked = TRUE] \in Call
    BY <1>3, CallTypes DEF CreateCheck, Call, CreateCall
  <2>2. QED
    BY <1>3, <2>1 DEF CreateCheck
<1>4. ASSUME NEW p \in Proc, NEW i \in Invitation, CreateInsert(p, i) PROVE TypeOK'
  <2>1. call[p] \in CreateCall
    BY <1>4, CallTypes DEF CreateInsert
  <2>2. [org |-> call[p].org, email |-> call[p].email, role |-> call[p].role,
         by |-> call[p].by, age |-> "live", accepted |-> FALSE, revoked |-> FALSE]
        \in InvitationRow
    BY <2>1 DEF CreateCall, InvitationRow, Age
  <2>3. QED
    BY <1>4, <2>2 DEF CreateInsert
<1>5. ASSUME NEW p \in Proc, NEW i \in Invitation, NEW signup \in BOOLEAN,
             AcceptBegin(p, i, signup)
      PROVE  TypeOK'
  <2>1. PICK expired \in ReadExpired(invitation[i].age) :
           call' = [call EXCEPT ![p] =
              [op |-> "accept", inv |-> i, signup |-> signup, expired |-> expired,
               accepted |-> FALSE, revoked |-> FALSE, late |-> OutOfPlay(i), todo |-> "find"]]
    BY <1>5 DEF AcceptBegin
  <2>2. invitation[i] \in InvitationRow
    BY <1>5, RowType DEF AcceptBegin
  <2>3. expired \in BOOLEAN
    BY <2>1, <2>2 DEF ReadExpired, InvitationRow, Age
  <2>4. OutOfPlay(i) \in BOOLEAN
    BY <2>2 DEF OutOfPlay, InvitationRow
  <2>5. [op |-> "accept", inv |-> i, signup |-> signup, expired |-> expired,
         accepted |-> FALSE, revoked |-> FALSE, late |-> OutOfPlay(i), todo |-> "find"]
        \in AcceptCall
    BY <2>3, <2>4 DEF AcceptCall
  <2>6. QED
    BY <1>5, <2>1, <2>5 DEF AcceptBegin, Call
<1>6. ASSUME NEW p \in Proc, AcceptFind(p) PROVE TypeOK'
  <2>1. call[p] \in AcceptCall /\ call[p].inv \in Issued
    BY <1>6, CallTypes DEF AcceptFind, AcceptsRead, HasRead
  <2>2. invitation[call[p].inv] \in InvitationRow
    BY <2>1, RowType
  <2>3. [call[p] EXCEPT !.accepted = invitation[call[p].inv].accepted,
                        !.revoked = invitation[call[p].inv].revoked,
                        !.todo = "resolve"] \in AcceptCall
    BY <2>1, <2>2 DEF AcceptCall, InvitationRow
  <2>4. QED
    BY <1>6, <2>3 DEF AcceptFind, Call
<1>7. ASSUME NEW p \in Proc, AcceptResolve(p) PROVE TypeOK'
  <2>1. call[p] \in AcceptCall
    BY <1>7, CallTypes DEF AcceptResolve
  <2>2. \A todo \in {"mark", "join", "signup"} : [call[p] EXCEPT !.todo = todo] \in AcceptCall
    BY <2>1 DEF AcceptCall
  <2>3. PICK todo \in {"mark", "join", "signup"} :
           call' = [call EXCEPT ![p] = [call[p] EXCEPT !.todo = todo]]
    BY <1>7 DEF AcceptResolve
  <2>4. QED
    BY <1>7, <2>2, <2>3 DEF AcceptResolve, Call
<1>8. ASSUME NEW p \in Proc, AcceptMark(p) PROVE TypeOK'
  <2>1. call[p].inv \in Issued
    BY <1>8 DEF AcceptMark, AcceptsRead, HasRead
  <2>2. QED
    BY <1>8, <2>1, MarkValue DEF AcceptMark
<1>9. ASSUME NEW p \in Proc, AcceptJoin(p) PROVE TypeOK'
  <2>1. call[p].inv \in Issued
    BY <1>9 DEF AcceptJoin, AcceptsRead, HasRead
  <2>2. invitation[call[p].inv].email \in Email /\ call[p].inv \in Invitation
    BY <2>1, RowType DEF InvitationRow
  <2>3. registered' \subseteq Email
    BY <1>9, <2>2 DEF AcceptJoin, Registered
  <2>4. member' \in [Org -> [Email -> Role \cup {None}]]
    BY <1>9, <2>1, EnrolledValue DEF AcceptJoin
  <2>5. invitation' \in [Invitation -> InvitationRow \cup {None}]
    BY <1>9, <2>1, MarkValue DEF AcceptJoin
  <2>6. QED
    BY <1>9, <2>2, <2>3, <2>4, <2>5 DEF AcceptJoin
<1>10. ASSUME NEW p \in Proc, NEW by \in Email, NEW o \in Org, NEW i \in Invitation,
              RevokeBegin(p, by, o, i)
       PROVE  TypeOK'
    BY <1>10 DEF RevokeBegin, Call, RevokeCall
<1>11. ASSUME NEW p \in Proc, RevokeWrite(p) PROVE TypeOK'
  <2>1. call[p].inv \in Issued /\ call[p].by \in Email
    BY <1>11, CallTypes DEF RevokeWrite, RevokersMay, RevokeCall
  <2>2. QED
    BY <1>11, <2>1, MarkValue DEF RevokeWrite
<1>12. ASSUME NEW p \in Proc, Abandon(p) PROVE TypeOK'
    BY <1>12 DEF Abandon
<1>13. ASSUME NEW i \in Invitation, AgeInvitation(i) PROVE TypeOK'
  <2>1. invitation[i] \in InvitationRow
    BY <1>13, RowType DEF AgeInvitation
  <2>2. [invitation[i] EXCEPT !.age = IF invitation[i].age = "live"
                                      THEN "borderline" ELSE "expired"] \in InvitationRow
    BY <2>1 DEF InvitationRow, Age
  <2>3. QED
    BY <1>13, <2>2 DEF AgeInvitation
<1>14. CASE UNCHANGED vars
    BY <1>14 DEF vars
<1> HIDE DEF TypeOK, history, Finish, Proceed
<1>15. QED
    BY <1>1, <1>2, <1>3, <1>4, <1>5, <1>6, <1>7, <1>8, <1>9, <1>10, <1>11, <1>12,
       <1>13, <1>14, Zenon DEF Next, CreateInvitation, AcceptInvitation, RevokeInvitation

-----------------------------------------------------------------------------
(***************************************************************************)
(* What no step changes.                                                   *)
(***************************************************************************)

(* A row that says what another said, and is stamped at least as it was.  *)
Says(new, row) ==
    /\ new \in InvitationRow
    /\ new.org = row.org
    /\ new.email = row.email
    /\ new.role = row.role
    /\ new.by = row.by
    /\ row.accepted => new.accepted
    /\ row.revoked => new.revoked

LEMMA StampedRow ==
    ASSUME NEW row \in InvitationRow
    PROVE  /\ Says(row, row)
           /\ Says([row EXCEPT !.accepted = TRUE], row)
           /\ Says([row EXCEPT !.revoked = TRUE], row)
           /\ \A age \in Age : Says([row EXCEPT !.age = age], row)
    BY DEF Says, InvitationRow

(* A row keeps what it says; it is only ever stamped, and only ages.  A    *)
(* new row is put where there was none, by a request to create it.         *)
LEMMA RowsAreKept ==
    ASSUME TypeOK, AcceptsRead, RevokersMay, [Next]_vars, NEW i \in Issued
    PROVE  i \in Issued' /\ Says(invitation'[i], invitation[i])
<1> DEFINE Kept == Says(invitation'[i], invitation[i])
<1>1. /\ i \in Invitation
      /\ invitation[i] \in InvitationRow
      /\ invitation \in [Invitation -> InvitationRow \cup {None}]
    BY RowType DEF TypeOK
<1>2. ASSUME invitation' = invitation PROVE Kept
    BY <1>1, <1>2, StampedRow
<1>3. ASSUME NEW p \in Proc, NEW j \in Invitation, CreateInsert(p, j) PROVE Kept
  <2>1. invitation'[i] = invitation[i]
    BY <1>1, <1>3 DEF CreateInsert, Issued
  <2>2. QED
    BY <1>1, <2>1, StampedRow
<1>4. ASSUME NEW p \in Proc, AcceptMark(p) \/ AcceptJoin(p) PROVE Kept
  <2>1. call[p].inv \in Issued /\ invitation' = MarkAccepted(call[p].inv)
    BY <1>4 DEF AcceptMark, AcceptJoin, AcceptsRead, HasRead
  <2>2. invitation'[i] \in {invitation[i], [invitation[i] EXCEPT !.accepted = TRUE]}
    BY <1>1, <2>1, MarkValue
  <2>3. QED
    BY <1>1, <2>2, StampedRow
<1>5. ASSUME NEW p \in Proc, RevokeWrite(p) PROVE Kept
  <2>1. call[p].inv \in Issued /\ invitation' = MarkRevoked(call[p].inv)
    BY <1>5 DEF RevokeWrite, RevokersMay
  <2>2. invitation'[i] \in {invitation[i], [invitation[i] EXCEPT !.revoked = TRUE]}
    BY <1>1, <2>1, MarkValue
  <2>3. QED
    BY <1>1, <2>2, StampedRow
<1>6. ASSUME NEW j \in Invitation, AgeInvitation(j) PROVE Kept
  <2>1. invitation[j] \in InvitationRow
    BY <1>6, RowType DEF AgeInvitation
  <2>2. PICK age \in Age :
           invitation' = [invitation EXCEPT ![j] = [invitation[j] EXCEPT !.age = age]]
    BY <1>6 DEF AgeInvitation, Age
  <2>3. invitation'[i] \in {invitation[i], [invitation[i] EXCEPT !.age = age]}
    BY <1>1, <2>2
  <2>4. QED
    BY <1>1, <2>3, StampedRow
<1>7. ASSUME NEW e \in Email, NEW o \in Org, Signup(e, o) PROVE invitation' = invitation
    BY <1>7 DEF Signup
<1>8. UNCHANGED database => invitation' = invitation
    BY DEF database
<1> HIDE DEF Kept
<1>9. Kept
    BY <1>2, <1>3, <1>4, <1>5, <1>6, <1>7, <1>8, Writers, Zenon DEF Kept
<1>10. QED
    BY <1>1, <1>9 DEF Kept, Says, Issued

(* A membership is for good: sign-up founds an organization that has no    *)
(* member yet, and accepting inserts one only where there is none.         *)
LEMMA MembersAreKept ==
    ASSUME TypeOK, AcceptsRead, MembersHaveFounder, [Next]_vars,
           NEW o \in Org, NEW e \in Email, member[o][e] # None
    PROVE  member'[o][e] = member[o][e]
<1>1. ASSUME NEW f \in Email, NEW q \in Org, Signup(f, q)
      PROVE  member'[o][e] = member[o][e]
    BY <1>1 DEF Signup, MembersHaveFounder, TypeOK
<1>2. ASSUME NEW p \in Proc, AcceptJoin(p) PROVE member'[o][e] = member[o][e]
  <2>1. call[p].inv \in Issued /\ member' = Enrolled(call[p].inv)
    BY <1>2 DEF AcceptJoin, AcceptsRead, HasRead
  <2>2. member[invitation[call[p].inv].org][invitation[call[p].inv].email] = None
    BY <1>2 DEF AcceptJoin, MembershipAdmits
  <2>3. QED
    BY <2>1, <2>2, EnrolledValue
<1>3. ASSUME NEW p \in Proc, AcceptMark(p) \/ RevokeWrite(p) PROVE member' = member
    BY <1>3 DEF AcceptMark, RevokeWrite
<1>4. ASSUME NEW p \in Proc, NEW i \in Invitation, CreateInsert(p, i) PROVE member' = member
    BY <1>4 DEF CreateInsert
<1>5. ASSUME NEW i \in Invitation, AgeInvitation(i) PROVE member' = member
    BY <1>5 DEF AgeInvitation
<1>6. UNCHANGED database => member' = member
    BY DEF database
<1>7. QED
    BY <1>1, <1>2, <1>3, <1>4, <1>5, <1>6, Writers, Zenon

(* Nor does who outranks what in an organization. *)
LEMMA RanksAreKept ==
    ASSUME TypeOK, AcceptsRead, MembersHaveFounder, [Next]_vars,
           NEW o \in Org, NEW e \in Email, NEW role, Outranks(o, e, role)
    PROVE  Outranks(o, e, role)'
<1>1. member[o][e] # None
    BY DEF Outranks, Role
<1>2. member'[o][e] = member[o][e]
    BY <1>1, MembersAreKept
<1>3. QED
    BY <1>2 DEF Outranks

-----------------------------------------------------------------------------
(***************************************************************************)
(* The requests in flight.                                                 *)
(***************************************************************************)

(* A step leaves a request alone, ends it, or is a step of that request.   *)
LEMMA RequestSteps ==
    ASSUME TypeOK, [Next]_vars, NEW p \in Proc
    PROVE  \/ call'[p] \in {call[p], None}
           \/ \E by, e \in Email, o \in Org, role \in Role : CreateBegin(p, by, o, e, role)
           \/ CreateCheck(p)
           \/ \E i \in Invitation, signup \in BOOLEAN : AcceptBegin(p, i, signup)
           \/ AcceptFind(p)
           \/ AcceptResolve(p)
           \/ \E by \in Email, o \in Org, i \in Invitation : RevokeBegin(p, by, o, i)
<1> DEFINE Alone == call'[p] \in {call[p], None}
<1>1. call \in [Proc -> Call \cup {None}]
    BY DEF TypeOK
<1>2. \A q \in Proc : \A c : Proceed(q, c) /\ q # p => Alone
    BY <1>1 DEF Proceed
<1>3. \A q \in Proc : Finish(q) => Alone
    BY <1>1 DEF Finish
<1>4. call' = call => Alone
    OBVIOUS
<1> HIDE DEF Alone
<1>5. ASSUME NEW q \in Proc, q # p, NEW by \in Email, NEW e \in Email, NEW o \in Org,
             NEW role \in Role, CreateBegin(q, by, o, e, role)
      PROVE  Alone
    BY <1>2, <1>5, Zenon DEF CreateBegin
<1>6. ASSUME NEW q \in Proc, q # p, CreateCheck(q) PROVE Alone
    BY <1>2, <1>6, Zenon DEF CreateCheck
<1>7. ASSUME NEW q \in Proc, NEW i \in Invitation, CreateInsert(q, i) PROVE Alone
    BY <1>3, <1>7, Zenon DEF CreateInsert
<1>8. ASSUME NEW q \in Proc, q # p, NEW i \in Invitation, NEW signup \in BOOLEAN,
             AcceptBegin(q, i, signup)
      PROVE  Alone
    BY <1>2, <1>8, Zenon DEF AcceptBegin
<1>9. ASSUME NEW q \in Proc, q # p, AcceptFind(q) PROVE Alone
    BY <1>2, <1>9, Zenon DEF AcceptFind
<1>10. ASSUME NEW q \in Proc, q # p, AcceptResolve(q) PROVE Alone
    BY <1>2, <1>10, Zenon DEF AcceptResolve
<1>11. ASSUME NEW q \in Proc, AcceptMark(q) \/ AcceptJoin(q) \/ RevokeWrite(q) \/ Abandon(q)
       PROVE  Alone
    BY <1>3, <1>11, Zenon DEF AcceptMark, AcceptJoin, RevokeWrite, Abandon
<1>12. ASSUME NEW q \in Proc, q # p, NEW by \in Email, NEW o \in Org, NEW i \in Invitation,
              RevokeBegin(q, by, o, i)
       PROVE  Alone
    BY <1>2, <1>12, Zenon DEF RevokeBegin
<1>13. ASSUME NEW e \in Email, NEW o \in Org, Signup(e, o) PROVE Alone
    BY <1>4, <1>13 DEF Signup
<1>14. ASSUME NEW i \in Invitation, AgeInvitation(i) PROVE Alone
    BY <1>4, <1>14 DEF AgeInvitation
<1>15. CASE UNCHANGED vars
    BY <1>4, <1>15 DEF vars, Alone
<1>16. ASSUME NEW q \in Proc, CreateInvitation(q), ~ Alone
       PROVE  \/ \E by, e \in Email, o \in Org, role \in Role : CreateBegin(p, by, o, e, role)
              \/ CreateCheck(p)
    BY <1>5, <1>6, <1>7, <1>16, Zenon DEF CreateInvitation
<1>17. ASSUME NEW q \in Proc, AcceptInvitation(q), ~ Alone
       PROVE  \/ \E i \in Invitation, signup \in BOOLEAN : AcceptBegin(p, i, signup)
              \/ AcceptFind(p)
              \/ AcceptResolve(p)
    BY <1>8, <1>9, <1>10, <1>11, <1>17, Zenon DEF AcceptInvitation
<1>18. ASSUME NEW q \in Proc, RevokeInvitation(q), ~ Alone
       PROVE  \E by \in Email, o \in Org, i \in Invitation : RevokeBegin(p, by, o, i)
    BY <1>11, <1>12, <1>18, Zenon DEF RevokeInvitation
<1>19. QED
  <2>1. CASE Alone
    BY <2>1 DEF Alone
  <2>2. CASE ~ Alone /\ Next
    BY <1>11, <1>13, <1>14, <1>16, <1>17, <1>18, <2>2, Zenon DEF Next
  <2>3. QED
    BY <1>15, <2>1, <2>2

(* The steps of a request are those of its kind. *)
LEMMA RequestKinds ==
    ASSUME TypeOK, [Next]_vars, NEW p \in Proc, call'[p] # call[p]
    PROVE  /\ InFlight(p, "create")' =>
                 \/ \E by, e \in Email, o \in Org, role \in Role : CreateBegin(p, by, o, e, role)
                 \/ CreateCheck(p)
           /\ InFlight(p, "accept")' =>
                 \/ \E i \in Invitation, signup \in BOOLEAN : AcceptBegin(p, i, signup)
                 \/ AcceptFind(p)
                 \/ AcceptResolve(p)
           /\ InFlight(p, "revoke")' =>
                 \E by \in Email, o \in Org, i \in Invitation : RevokeBegin(p, by, o, i)
<1>1. call \in [Proc -> Call \cup {None}]
    BY DEF TypeOK
<1>2. ASSUME NEW by \in Email, NEW e \in Email, NEW o \in Org, NEW role \in Role,
             CreateBegin(p, by, o, e, role)
      PROVE  call'[p].op = "create"
    BY <1>1, <1>2 DEF CreateBegin, Proceed
<1>3. ASSUME CreateCheck(p) PROVE call'[p].op = "create"
  <2>1. call[p] \in CreateCall /\ call'[p] = [call[p] EXCEPT !.checked = TRUE]
    BY <1>1, <1>3, CallTypes DEF CreateCheck, Proceed
  <2>2. QED
    BY <2>1 DEF CreateCall
<1>4. ASSUME NEW i \in Invitation, NEW signup \in BOOLEAN, AcceptBegin(p, i, signup)
      PROVE  call'[p].op = "accept"
    BY <1>1, <1>4 DEF AcceptBegin, Proceed
<1>5. ASSUME AcceptFind(p) PROVE call'[p].op = "accept"
  <2>1. call[p] \in AcceptCall
    BY <1>5, CallTypes DEF AcceptFind
  <2>2. QED
    BY <1>1, <1>5, <2>1 DEF AcceptFind, Proceed, AcceptCall
<1>6. ASSUME AcceptResolve(p) PROVE call'[p].op = "accept"
  <2>1. call[p] \in AcceptCall
    BY <1>6, CallTypes DEF AcceptResolve
  <2>2. PICK todo \in {"mark", "join", "signup"} : call'[p] = [call[p] EXCEPT !.todo = todo]
    BY <1>1, <1>6 DEF AcceptResolve, Proceed
  <2>3. QED
    BY <2>1, <2>2 DEF AcceptCall
<1>7. ASSUME NEW by \in Email, NEW o \in Org, NEW i \in Invitation, RevokeBegin(p, by, o, i)
      PROVE  call'[p].op = "revoke"
    BY <1>1, <1>7 DEF RevokeBegin, Proceed
<1>8. \A op : InFlight(p, op)' => call'[p] # None /\ call'[p].op = op
    BY DEF InFlight
<1>9. ASSUME InFlight(p, "create")'
      PROVE  \/ \E by, e \in Email, o \in Org, role \in Role : CreateBegin(p, by, o, e, role)
             \/ CreateCheck(p)
  <2>1. call'[p] \notin {call[p], None} /\ call'[p].op = "create"
    BY <1>8, <1>9
  <2>2. QED
    BY <1>4, <1>5, <1>6, <1>7, <2>1, RequestSteps
<1>10. ASSUME InFlight(p, "accept")'
       PROVE  \/ \E i \in Invitation, signup \in BOOLEAN : AcceptBegin(p, i, signup)
              \/ AcceptFind(p)
              \/ AcceptResolve(p)
  <2>1. call'[p] \notin {call[p], None} /\ call'[p].op = "accept"
    BY <1>8, <1>10
  <2>2. QED
    BY <1>2, <1>3, <1>7, <2>1, RequestSteps
<1>11. ASSUME InFlight(p, "revoke")'
       PROVE  \E by \in Email, o \in Org, i \in Invitation : RevokeBegin(p, by, o, i)
  <2>1. call'[p] \notin {call[p], None} /\ call'[p].op = "revoke"
    BY <1>8, <1>11
  <2>2. QED
    BY <1>2, <1>3, <1>4, <1>5, <1>6, <2>1, RequestSteps
<1>12. QED
    BY <1>9, <1>10, <1>11

LEMMA StepCreatorsMay ==
    TypeOK /\ AcceptsRead /\ MembersHaveFounder /\ CreatorsMay /\ [Next]_vars => CreatorsMay'
<1> SUFFICES ASSUME TypeOK, AcceptsRead, MembersHaveFounder, CreatorsMay, [Next]_vars,
                    NEW p \in Proc, InFlight(p, "create")'
             PROVE  Outranks(call[p].org, call[p].by, call[p].role)'
    BY DEF CreatorsMay
<1> DEFINE Goal == Outranks(call[p].org, call[p].by, call[p].role)'
<1>1. call \in [Proc -> Call \cup {None}]
    BY DEF TypeOK
<1>2. ASSUME InFlight(p, "create"), call'[p].org = call[p].org, call'[p].by = call[p].by,
             call'[p].role = call[p].role
      PROVE  Goal
  <2>1. call[p].org \in Org /\ call[p].by \in Email
    BY <1>2, CallTypes DEF CreateCall
  <2>2. Outranks(call[p].org, call[p].by, call[p].role)
    BY <1>2 DEF CreatorsMay
  <2>3. QED
    BY <1>2, <2>1, <2>2, RanksAreKept DEF Outranks
<1>3. CASE call'[p] = call[p]
    BY <1>2, <1>3 DEF InFlight
<1>4. ASSUME NEW by \in Email, NEW e \in Email, NEW o \in Org, NEW role \in Role,
             CreateBegin(p, by, o, e, role)
      PROVE  Goal
  <2>1. call'[p] = [op |-> "create", org |-> o, by |-> by, email |-> e,
                    role |-> role, checked |-> FALSE]
    BY <1>1, <1>4 DEF CreateBegin, Proceed
  <2>2. Outranks(o, by, role) /\ member' = member
    BY <1>4 DEF CreateBegin, CanInvite, Outranks
  <2>3. QED
    BY <2>1, <2>2 DEF Outranks
<1>5. CASE CreateCheck(p)
  <2>1. InFlight(p, "create") /\ call'[p] = [call[p] EXCEPT !.checked = TRUE]
    BY <1>1, <1>5 DEF CreateCheck, Proceed
  <2>2. call[p] \in CreateCall
    BY <2>1, CallTypes
  <2>3. QED
    BY <1>2, <2>1, <2>2 DEF CreateCall
<1>6. QED
    BY <1>3, <1>4, <1>5, RequestKinds

LEMMA StepRevokersMay ==
    TypeOK /\ AcceptsRead /\ MembersHaveFounder /\ RevokersMay /\ [Next]_vars => RevokersMay'
<1> SUFFICES ASSUME TypeOK, AcceptsRead, MembersHaveFounder, RevokersMay, [Next]_vars,
                    NEW p \in Proc, InFlight(p, "revoke")'
             PROVE  (/\ call[p].inv \in Issued
                     /\ Outranks(invitation[call[p].inv].org, call[p].by,
                                 invitation[call[p].inv].role))'
    BY DEF RevokersMay
<1> DEFINE May(i, e) == i \in Issued /\ Outranks(invitation[i].org, e, invitation[i].role)
<1>1. call \in [Proc -> Call \cup {None}]
    BY DEF TypeOK
<1>2. ASSUME NEW i, NEW e \in Email, May(i, e) PROVE May(i, e)'
  <2>1. i \in Issued /\ Outranks(invitation[i].org, e, invitation[i].role)
    BY <1>2
  <2>2. i \in Issued' /\ Says(invitation'[i], invitation[i])
    BY <2>1, RowsAreKept
  <2>3. invitation[i].org \in Org
    BY <2>1, RowType DEF InvitationRow
  <2>4. member'[invitation[i].org][e] = member[invitation[i].org][e]
    BY <2>1, <2>3, MembersAreKept DEF Outranks, Role
  <2>5. QED
    BY <2>1, <2>2, <2>4 DEF Outranks, Says
<1>3. CASE call'[p] = call[p]
  <2>1. call[p].by \in Email /\ May(call[p].inv, call[p].by)
    BY <1>3, CallTypes DEF RevokersMay, RevokeCall, InFlight
  <2>2. May(call[p].inv, call[p].by)'
    BY <1>2, <1>3, <2>1
  <2>3. QED
    BY <2>2
<1>4. ASSUME NEW by \in Email, NEW o \in Org, NEW i \in Invitation, RevokeBegin(p, by, o, i)
      PROVE  May(i, by)' /\ call'[p].inv = i /\ call'[p].by = by
  <2>1. call'[p] = [op |-> "revoke", inv |-> i, by |-> by]
    BY <1>1, <1>4 DEF RevokeBegin, Proceed
  <2>2. May(i, by) /\ UNCHANGED <<member, invitation>>
    BY <1>4 DEF RevokeBegin, CanRevokeInvitation, Outranks
  <2>3. QED
    BY <2>1, <2>2 DEF Outranks, Issued
<1>5. QED
    BY <1>3, <1>4, RequestKinds

(* A user stays registered. *)
LEMMA UsersAreKept ==
    ASSUME [Next]_vars PROVE registered \subseteq registered'
<1>1. ASSUME NEW e \in Email, NEW o \in Org, Signup(e, o) PROVE registered \subseteq registered'
    BY <1>1 DEF Signup
<1>2. ASSUME NEW p \in Proc, NEW i \in Invitation, CreateInsert(p, i)
      PROVE  registered' = registered
    BY <1>2 DEF CreateInsert
<1>3. ASSUME NEW p \in Proc, AcceptMark(p) \/ RevokeWrite(p) PROVE registered' = registered
    BY <1>3 DEF AcceptMark, RevokeWrite
<1>4. ASSUME NEW p \in Proc, AcceptJoin(p) PROVE registered \subseteq registered'
    BY <1>4 DEF AcceptJoin, Registered
<1>5. ASSUME NEW i \in Invitation, AgeInvitation(i) PROVE registered' = registered
    BY <1>5 DEF AgeInvitation
<1>6. UNCHANGED database => registered' = registered
    BY DEF database
<1>7. QED
    BY <1>1, <1>2, <1>3, <1>4, <1>5, <1>6, Writers

(* What a request has read stays true of the committed rows, except that   *)
(* its own reading of the stamps may be out of date.                       *)
LEMMA StepAcceptsRead ==
    TypeOK /\ RevokersMay /\ MembersHaveFounder /\ AcceptsRead /\ [Next]_vars => AcceptsRead'
<1> SUFFICES ASSUME TypeOK, RevokersMay, MembersHaveFounder, AcceptsRead, [Next]_vars,
                    NEW p \in Proc, InFlight(p, "accept")'
             PROVE  HasRead(call[p])'
    BY DEF AcceptsRead
<1>1. call \in [Proc -> Call \cup {None}]
    BY DEF TypeOK
<1>2. ASSUME NEW i \in Issued
      PROVE  LET row == invitation[i]
             IN /\ i \in Issued'
                /\ Says(invitation'[i], row)
                /\ member[row.org][row.email] # None => member'[row.org][row.email] # None
  <2>1. invitation[i].org \in Org /\ invitation[i].email \in Email
    BY RowType DEF InvitationRow
  <2>2. QED
    BY <2>1, RowsAreKept, MembersAreKept
<1>3. ASSUME call'[p] = call[p] PROVE HasRead(call[p])'
  <2>1. InFlight(p, "accept") /\ HasRead(call[p])
    BY <1>3 DEF InFlight, AcceptsRead
  <2>2. LET i == call[p].inv
            row == invitation[i]
        IN /\ i \in Issued'
           /\ Says(invitation'[i], row)
           /\ member[row.org][row.email] # None => member'[row.org][row.email] # None
    BY <1>2, <2>1 DEF HasRead
  <2>3. registered \subseteq registered'
    BY UsersAreKept
  <2>4. QED
    BY <1>3, <2>1, <2>2, <2>3 DEF HasRead, Says, Valid
<1>4. ASSUME NEW i \in Invitation, NEW signup \in BOOLEAN, AcceptBegin(p, i, signup)
      PROVE  HasRead(call[p])'
  <2>1. PICK expired \in ReadExpired(invitation[i].age) :
           call'[p] = [op |-> "accept", inv |-> i, signup |-> signup, expired |-> expired,
                       accepted |-> FALSE, revoked |-> FALSE, late |-> OutOfPlay(i),
                       todo |-> "find"]
    BY <1>1, <1>4 DEF AcceptBegin, Proceed
  <2>2. i \in Issued /\ invitation' = invitation
    BY <1>4 DEF AcceptBegin
  <2>3. invitation[i].age = "expired" => expired
    BY <2>1 DEF ReadExpired
  <2>4. QED
    BY <2>1, <2>2, <2>3 DEF HasRead, OutOfPlay, Issued
<1>5. ASSUME AcceptFind(p) PROVE HasRead(call[p])'
  <2>1. call[p] \in AcceptCall /\ HasRead(call[p]) /\ call[p].todo = "find"
    BY <1>5, CallTypes DEF AcceptFind, AcceptsRead
  <2>2. call'[p] = [call[p] EXCEPT !.accepted = invitation[call[p].inv].accepted,
                                   !.revoked = invitation[call[p].inv].revoked,
                                   !.todo = "resolve"]
    BY <1>1, <1>5 DEF AcceptFind, Proceed
  <2>3. invitation' = invitation
    BY <1>5 DEF AcceptFind
  <2>4. QED
    BY <2>1, <2>2, <2>3 DEF HasRead, AcceptCall, Issued
<1>6. ASSUME AcceptResolve(p) PROVE HasRead(call[p])'
  <2> DEFINE c == call[p]
             row == invitation[c.inv]
  <2>1. c \in AcceptCall /\ HasRead(c) /\ c.todo = "resolve"
    BY <1>6, CallTypes DEF AcceptResolve, AcceptsRead
  <2>2. PICK todo \in {"mark", "join", "signup"} :
           /\ call'[p] = [c EXCEPT !.todo = todo]
           /\ todo = "mark" => member[row.org][row.email] # None
           /\ todo = "join" => row.email \in registered
           /\ todo \in {"join", "signup"} => Valid(c)
    BY <1>1, <1>6 DEF AcceptResolve, Proceed
  <2>3. UNCHANGED <<registered, member, invitation>>
    BY <1>6 DEF AcceptResolve
  <2>4. QED
    BY <2>1, <2>2, <2>3 DEF HasRead, AcceptCall, Issued, Valid
<1>7. QED
    BY <1>3, <1>4, <1>5, <1>6, RequestKinds

-----------------------------------------------------------------------------
(***************************************************************************)
(* The inductive invariant: the part about the database.                   *)
(***************************************************************************)

(* The invariant a step starts from, by parts the lemmas cite. *)
Requests == TypeOK /\ MembersHaveFounder /\ CreatorsMay /\ RevokersMay /\ AcceptsRead

(* Who becomes a member in a step, and how. *)
LEMMA NewMembers ==
    ASSUME Requests, [Next]_vars, NEW o \in Org, NEW e \in Email,
           member[o][e] = None, member'[o][e] # None
    PROVE  \/ /\ Signup(e, o)
              /\ member'[o][e] = "manager"
           \/ \E p \in Proc : /\ AcceptJoin(p)
                             /\ call[p].inv \in Issued
                             /\ invitation[call[p].inv].org = o
                             /\ invitation[call[p].inv].email = e
                             /\ member'[o][e] = invitation[call[p].inv].role
<1> DEFINE Joins(p) == /\ AcceptJoin(p)
                       /\ call[p].inv \in Issued
                       /\ invitation[call[p].inv].org = o
                       /\ invitation[call[p].inv].email = e
                       /\ member'[o][e] = invitation[call[p].inv].role
<1>1. ASSUME NEW f \in Email, NEW q \in Org, Signup(f, q)
      PROVE  f = e /\ q = o /\ member'[o][e] = "manager"
    BY <1>1 DEF Signup, Requests, TypeOK
<1>2. ASSUME NEW p \in Proc, AcceptJoin(p) PROVE Joins(p)
  <2>1. call[p].inv \in Issued /\ member' = Enrolled(call[p].inv)
    BY <1>2 DEF AcceptJoin, AcceptsRead, HasRead, Requests
  <2>2. QED
    BY <1>2, <2>1, EnrolledValue DEF Requests
<1>3. ASSUME NEW p \in Proc, AcceptMark(p) \/ RevokeWrite(p) PROVE member' = member
    BY <1>3 DEF AcceptMark, RevokeWrite
<1>4. ASSUME NEW p \in Proc, NEW i \in Invitation, CreateInsert(p, i) PROVE member' = member
    BY <1>4 DEF CreateInsert
<1>5. ASSUME NEW i \in Invitation, AgeInvitation(i) PROVE member' = member
    BY <1>5 DEF AgeInvitation
<1>6. UNCHANGED database => member' = member
    BY DEF database
<1>7. member' # member
    OBVIOUS
<1> HIDE DEF Joins
<1>8. \/ Signup(e, o) /\ member'[o][e] = "manager"
      \/ \E p \in Proc : Joins(p)
    BY <1>1, <1>2, <1>3, <1>4, <1>5, <1>6, <1>7, Writers
<1>9. QED
    BY <1>8 DEF Joins

(* An organization keeps its founder, and what joined has joined. *)
LEMMA FoundersAreKept ==
    ASSUME Requests, [Next]_vars
    PROVE  /\ \A o \in Org : founder[o] # None => founder'[o] = founder[o]
           /\ joined \subseteq joined'
<1> DEFINE Kept == /\ \A o \in Org : founder[o] # None => founder'[o] = founder[o]
                   /\ joined \subseteq joined'
<1>1. ASSUME NEW e \in Email, NEW q \in Org, Signup(e, q) PROVE Kept
    BY <1>1 DEF Signup, Requests, TypeOK
<1>2. ASSUME NEW p \in Proc, AcceptMark(p) \/ RevokeWrite(p) PROVE Kept
    BY <1>2 DEF AcceptMark, RevokeWrite, history
<1>3. ASSUME NEW p \in Proc, AcceptJoin(p) PROVE Kept
    BY <1>3 DEF AcceptJoin
<1>4. ASSUME NEW p \in Proc, NEW i \in Invitation, CreateInsert(p, i) PROVE Kept
    BY <1>4 DEF CreateInsert, history
<1>5. ASSUME NEW i \in Invitation, AgeInvitation(i) PROVE Kept
    BY <1>5 DEF AgeInvitation, history
<1>6. UNCHANGED database => Kept
    BY DEF database
<1> HIDE DEF Kept
<1>7. Kept
    BY <1>1, <1>2, <1>3, <1>4, <1>5, <1>6, Writers, Zenon
<1>8. QED
    BY <1>7 DEF Kept

LEMMA StepMembersHaveFounder ==
    Requests /\ NoEscalation /\ [Next]_vars => MembersHaveFounder'
<1> SUFFICES ASSUME Requests, NoEscalation, [Next]_vars,
                    NEW o \in Org, NEW e \in Email, member'[o][e] # None
             PROVE  founder'[o] # None
    BY DEF MembersHaveFounder
<1>1. founder[o] # None => founder'[o] # None
    BY FoundersAreKept
<1>2. CASE member[o][e] # None
    BY <1>1, <1>2 DEF Requests, MembersHaveFounder
<1>3. CASE Signup(e, o)
    BY <1>3 DEF Signup, Requests, TypeOK
<1>4. ASSUME NEW i \in Issued, invitation[i].org = o PROVE founder'[o] # None
  <2>1. invitation[i].by \in Email
    BY <1>4, RowType DEF InvitationRow, Requests
  <2>2. member[o][invitation[i].by] # None
    BY <1>4 DEF NoEscalation, Outranks, Role
  <2>3. QED
    BY <1>1, <2>1, <2>2 DEF Requests, MembersHaveFounder
<1>5. QED
    BY <1>2, <1>3, <1>4, NewMembers

(* Which rows a step makes, and which it stamps. *)
LEMMA NewRows ==
    ASSUME Requests, [Next]_vars, NEW i \in Issued', i \notin Issued
    PROVE  \E p \in Proc : /\ CreateInsert(p, i)
                         /\ call[p] \in CreateCall
                         /\ invitation'[i].org = call[p].org
                         /\ invitation'[i].email = call[p].email
                         /\ invitation'[i].role = call[p].role
                         /\ invitation'[i].by = call[p].by
                         /\ ~ invitation'[i].accepted
                         /\ ~ invitation'[i].revoked
<1>1. /\ i \in Invitation
      /\ invitation[i] = None
      /\ invitation'[i] # None
      /\ invitation \in [Invitation -> InvitationRow \cup {None}]
    BY DEF Issued, Requests, TypeOK
<1>2. ASSUME NEW p \in Proc, NEW j \in Invitation, CreateInsert(p, j)
      PROVE  j = i
    BY <1>1, <1>2 DEF CreateInsert
<1>3. ASSUME NEW p \in Proc, CreateInsert(p, i)
      PROVE  /\ call[p] \in CreateCall
             /\ invitation'[i].org = call[p].org
             /\ invitation'[i].email = call[p].email
             /\ invitation'[i].role = call[p].role
             /\ invitation'[i].by = call[p].by
             /\ ~ invitation'[i].accepted
             /\ ~ invitation'[i].revoked
    BY <1>1, <1>3, CallTypes DEF CreateInsert, Requests
<1>4. ASSUME NEW p \in Proc, AcceptMark(p) \/ AcceptJoin(p) \/ RevokeWrite(p) PROVE FALSE
  <2>1. /\ call[p].inv \in Issued
        /\ invitation' \in {MarkAccepted(call[p].inv), MarkRevoked(call[p].inv)}
    BY <1>4 DEF AcceptMark, AcceptJoin, RevokeWrite, AcceptsRead, HasRead, RevokersMay, Requests
  <2>2. call[p].inv # i
    BY <2>1
  <2>3. /\ MarkAccepted(call[p].inv)[i] = invitation[i]
        /\ MarkRevoked(call[p].inv)[i] = invitation[i]
    BY <1>1, <2>1, <2>2, MarkValue DEF Requests
  <2>4. QED
    BY <1>1, <2>1, <2>3
<1>5. ASSUME NEW j \in Invitation, AgeInvitation(j) PROVE FALSE
    BY <1>1, <1>5 DEF AgeInvitation, Issued
<1>6. ASSUME NEW e \in Email, NEW o \in Org, Signup(e, o) PROVE FALSE
    BY <1>1, <1>6 DEF Signup
<1>7. ~ UNCHANGED database
    BY <1>1 DEF database
<1>8. PICK p \in Proc : CreateInsert(p, i)
    BY <1>2, <1>4, <1>5, <1>6, <1>7, Writers
<1>9. QED
    BY <1>3, <1>8

LEMMA StepJoinedWereIssued ==
    Requests /\ JoinedWereIssued /\ [Next]_vars => JoinedWereIssued'
<1> SUFFICES ASSUME Requests, JoinedWereIssued, [Next]_vars, NEW i \in joined'
             PROVE  i \in Issued'
    BY DEF JoinedWereIssued
<1>1. i \in Issued => i \in Issued'
    BY RowsAreKept DEF Requests
<1>2. CASE i \in joined
    BY <1>1, <1>2 DEF JoinedWereIssued
<1>3. ASSUME NEW p \in Proc, AcceptJoin(p) PROVE i \in joined \/ i \in Issued
    BY <1>3 DEF AcceptJoin, AcceptsRead, HasRead, Requests
<1>4. ASSUME NEW p \in Proc, AcceptMark(p) \/ RevokeWrite(p) PROVE joined' = joined
    BY <1>4 DEF AcceptMark, RevokeWrite, history
<1>5. ASSUME NEW p \in Proc, NEW j \in Invitation, CreateInsert(p, j) PROVE joined' = joined
    BY <1>5 DEF CreateInsert, history
<1>6. ASSUME NEW j \in Invitation, AgeInvitation(j) PROVE joined' = joined
    BY <1>6 DEF AgeInvitation, history
<1>7. ASSUME NEW e \in Email, NEW o \in Org, Signup(e, o) PROVE joined' = joined
    BY <1>7 DEF Signup
<1>8. UNCHANGED database => joined' = joined
    BY DEF database
<1>9. QED
    BY <1>1, <1>2, <1>3, <1>4, <1>5, <1>6, <1>7, <1>8, Writers

(* A row is stamped as revoked by a request to revoke it, which is noted. *)
LEMMA Revocations ==
    ASSUME Requests, [Next]_vars, NEW i \in Issued, invitation'[i].revoked
    PROVE  \/ invitation[i].revoked /\ revoker'[i] = revoker[i]
           \/ \E p \in Proc : /\ RevokeWrite(p)
                             /\ call[p].inv = i
                             /\ revoker'[i] = call[p].by
<1> DEFINE Old == invitation[i].revoked /\ revoker'[i] = revoker[i]
           By(p) == RevokeWrite(p) /\ call[p].inv = i /\ revoker'[i] = call[p].by
<1>1. /\ i \in Invitation
      /\ invitation[i] \in InvitationRow
      /\ invitation \in [Invitation -> InvitationRow \cup {None}]
      /\ revoker \in [Invitation -> Email \cup {None}]
    BY RowType DEF Requests, TypeOK
<1>2. ASSUME NEW p \in Proc, RevokeWrite(p) PROVE Old \/ By(p)
  <2>1. /\ call[p].inv \in Issued
        /\ invitation' = MarkRevoked(call[p].inv)
        /\ revoker' = [revoker EXCEPT ![call[p].inv] = call[p].by]
    BY <1>2 DEF RevokeWrite, RevokersMay, Requests
  <2>2. CASE call[p].inv = i
    BY <1>1, <1>2, <2>1, <2>2
  <2>3. CASE call[p].inv # i
    <3>1. MarkRevoked(call[p].inv)[i] = invitation[i]
      BY <1>1, <2>1, <2>3, MarkValue DEF Requests
    <3>2. QED
      BY <1>1, <2>1, <2>3, <3>1
  <2>4. QED
    BY <2>2, <2>3
<1>3. ASSUME NEW p \in Proc, AcceptMark(p) \/ AcceptJoin(p) PROVE Old
  <2>1. /\ call[p].inv \in Issued
        /\ invitation' = MarkAccepted(call[p].inv)
        /\ revoker' = revoker
    BY <1>3 DEF AcceptMark, AcceptJoin, AcceptsRead, HasRead, Requests, history
  <2>2. CASE call[p].inv = i
    <3>1. invitation'[i] = [invitation[i] EXCEPT !.accepted = TRUE]
      BY <2>1, <2>2, MarkValue DEF Requests
    <3>2. QED
      BY <1>1, <2>1, <3>1 DEF InvitationRow
  <2>3. CASE call[p].inv # i
    <3>1. MarkAccepted(call[p].inv)[i] = invitation[i]
      BY <1>1, <2>1, <2>3, MarkValue DEF Requests
    <3>2. QED
      BY <2>1, <3>1
  <2>4. QED
    BY <2>2, <2>3
<1>4. ASSUME NEW p \in Proc, NEW j \in Invitation, CreateInsert(p, j) PROVE Old
    BY <1>1, <1>4 DEF CreateInsert, Issued, history
<1>5. ASSUME NEW j \in Invitation, AgeInvitation(j) PROVE Old
  <2>1. /\ invitation[j] \in InvitationRow
        /\ revoker' = revoker
    BY <1>5, RowType DEF AgeInvitation, Requests, history
  <2>2. PICK age \in Age :
           invitation' = [invitation EXCEPT ![j] = [invitation[j] EXCEPT !.age = age]]
    BY <1>5 DEF AgeInvitation, Age
  <2>3. invitation'[i] \in {invitation[i], [invitation[i] EXCEPT !.age = age]}
    BY <1>1, <2>2
  <2>4. QED
    BY <1>1, <2>1, <2>3 DEF InvitationRow
<1>6. ASSUME NEW e \in Email, NEW o \in Org, Signup(e, o) PROVE Old
    BY <1>6 DEF Signup
<1>7. UNCHANGED database => Old
    BY DEF database
<1> HIDE DEF Old, By
<1>8. Old \/ \E p \in Proc : By(p)
    BY <1>2, <1>3, <1>4, <1>5, <1>6, <1>7, Writers
<1>9. QED
    BY <1>8 DEF Old, By

(* A row is stamped as accepted by a request to accept it, which has found *)
(* its addressee a member or makes a member of them.                       *)
LEMMA Acceptances ==
    ASSUME Requests, [Next]_vars, NEW i \in Issued,
           ~ invitation[i].accepted, invitation'[i].accepted
    PROVE  \E p \in Proc : (AcceptMark(p) \/ AcceptJoin(p)) /\ call[p].inv = i
<1>1. /\ i \in Invitation
      /\ invitation[i] \in InvitationRow
      /\ invitation \in [Invitation -> InvitationRow \cup {None}]
    BY RowType DEF Requests, TypeOK
<1>2. ASSUME NEW p \in Proc, RevokeWrite(p) PROVE FALSE
  <2>1. call[p].inv \in Issued /\ invitation' = MarkRevoked(call[p].inv)
    BY <1>2 DEF RevokeWrite, RevokersMay, Requests
  <2>2. invitation'[i] \in {invitation[i], [invitation[i] EXCEPT !.revoked = TRUE]}
    BY <1>1, <2>1, MarkValue DEF Requests
  <2>3. QED
    BY <1>1, <2>2 DEF InvitationRow
<1>3. ASSUME NEW p \in Proc, AcceptMark(p) \/ AcceptJoin(p) PROVE call[p].inv = i
  <2>1. call[p].inv \in Issued /\ invitation' = MarkAccepted(call[p].inv)
    BY <1>3 DEF AcceptMark, AcceptJoin, AcceptsRead, HasRead, Requests
  <2>2. call[p].inv # i => MarkAccepted(call[p].inv)[i] = invitation[i]
    BY <1>1, <2>1, MarkValue DEF Requests
  <2>3. QED
    BY <2>1, <2>2
<1>4. ASSUME NEW p \in Proc, NEW j \in Invitation, CreateInsert(p, j) PROVE FALSE
    BY <1>1, <1>4 DEF CreateInsert, Issued
<1>5. ASSUME NEW j \in Invitation, AgeInvitation(j) PROVE FALSE
  <2>1. PICK age \in Age :
           invitation' = [invitation EXCEPT ![j] = [invitation[j] EXCEPT !.age = age]]
    BY <1>5 DEF AgeInvitation, Age
  <2>2. invitation'[i] \in {invitation[i], [invitation[i] EXCEPT !.age = age]}
    BY <1>1, <2>1
  <2>3. QED
    BY <1>1, <2>2 DEF InvitationRow
<1>6. ASSUME NEW e \in Email, NEW o \in Org, Signup(e, o) PROVE FALSE
    BY <1>6 DEF Signup
<1>7. ~ UNCHANGED database
    BY DEF database
<1>8. QED
    BY <1>2, <1>3, <1>4, <1>5, <1>6, <1>7, Writers

LEMMA StepRevokersAreNoted ==
    Requests /\ RevokersAreNoted /\ [Next]_vars => RevokersAreNoted'
<1> SUFFICES ASSUME Requests, RevokersAreNoted, [Next]_vars,
                    NEW i \in Issued', invitation'[i].revoked
             PROVE  revoker'[i] \in Email
    BY DEF RevokersAreNoted
<1>1. i \in Issued
    BY NewRows
<1>2. ASSUME NEW p \in Proc, RevokeWrite(p) PROVE call[p].by \in Email
    BY <1>2, CallTypes DEF RevokeWrite, RevokeCall, Requests
<1>3. QED
    BY <1>1, <1>2, Revocations DEF RevokersAreNoted

LEMMA StepNoEscalation ==
    Requests /\ RevokersAreNoted /\ NoEscalation /\ [Next]_vars => NoEscalation'
<1> SUFFICES ASSUME Requests, RevokersAreNoted, NoEscalation, [Next]_vars, NEW i \in Issued'
             PROVE  (LET row == invitation[i]
                     IN /\ Outranks(row.org, row.by, row.role)
                        /\ row.revoked => Outranks(row.org, revoker[i], row.role))'
    BY DEF NoEscalation
<1>1. CASE i \notin Issued
  <2>1. PICK p \in Proc : /\ InFlight(p, "create")
                          /\ call[p] \in CreateCall
                          /\ invitation'[i].org = call[p].org
                          /\ invitation'[i].role = call[p].role
                          /\ invitation'[i].by = call[p].by
                          /\ ~ invitation'[i].revoked
    BY <1>1, NewRows DEF CreateInsert
  <2>2. call[p].org \in Org /\ call[p].by \in Email
    BY <2>1 DEF CreateCall
  <2>3. Outranks(call[p].org, call[p].by, call[p].role)
    BY <2>1 DEF Requests, CreatorsMay
  <2>4. member'[call[p].org][call[p].by] = member[call[p].org][call[p].by]
    BY <2>2, <2>3, MembersAreKept DEF Outranks, Role, Requests
  <2>5. QED
    BY <2>1, <2>3, <2>4 DEF Outranks
<1>2. CASE i \in Issued
  <2> DEFINE row == invitation[i]
             StillOutranks(e) ==
                /\ member'[row.org][e] \in {"manager", "admin"}
                /\ row.role = "manager" => member'[row.org][e] = "manager"
  <2>1. Says(invitation'[i], row)
    BY <1>2, RowsAreKept DEF Requests
  <2>2. row.org \in Org /\ row.by \in Email
    BY <1>2, RowType DEF InvitationRow, Requests
  <2>3. ASSUME NEW e \in Email, Outranks(row.org, e, row.role)
        PROVE  StillOutranks(e)
    <3>1. member'[row.org][e] = member[row.org][e]
      BY <2>2, <2>3, MembersAreKept DEF Outranks, Role, Requests
    <3>2. QED
      BY <2>3, <3>1 DEF Outranks
  <2>4. StillOutranks(row.by)
    BY <1>2, <2>2, <2>3 DEF NoEscalation
  <2>5. ASSUME invitation'[i].revoked
        PROVE  StillOutranks(revoker'[i])
    <3>1. CASE row.revoked /\ revoker'[i] = revoker[i]
      <4>1. Outranks(row.org, revoker[i], row.role) /\ revoker[i] \in Email
        BY <1>2, <3>1 DEF NoEscalation, RevokersAreNoted
      <4>2. QED
        BY <2>3, <3>1, <4>1
    <3>2. ASSUME NEW p \in Proc, RevokeWrite(p), call[p].inv = i, revoker'[i] = call[p].by
          PROVE  StillOutranks(revoker'[i])
      <4>1. call[p].by \in Email /\ Outranks(row.org, call[p].by, row.role)
        BY <3>2, CallTypes DEF RevokeWrite, RevokersMay, RevokeCall, Requests
      <4>2. QED
        BY <2>3, <3>2, <4>1
    <3>3. QED
      BY <1>2, <2>5, <3>1, <3>2, Revocations
  <2>6. QED
    BY <2>1, <2>4, <2>5 DEF Outranks, Says
<1>3. QED
    BY <1>1, <1>2

LEMMA StepOneInPlay ==
    Requests /\ OneInPlayPerAddress /\ [Next]_vars => OneInPlayPerAddress'
<1> SUFFICES ASSUME Requests, OneInPlayPerAddress, [Next]_vars, NEW o \in Org, NEW e \in Email,
                    NEW i \in InPlay(o, e)', NEW j \in InPlay(o, e)'
             PROVE  i = j
    BY DEF OneInPlayPerAddress
<1>1. ASSUME NEW k \in InPlay(o, e)', k \in Issued PROVE k \in InPlay(o, e)
  <2>1. Says(invitation'[k], invitation[k])
    BY <1>1, RowsAreKept DEF Requests
  <2>2. QED
    BY <1>1, <2>1 DEF InPlay, Says
<1>2. ASSUME NEW k \in InPlay(o, e)', k \notin Issued, NEW l \in InPlay(o, e)'
      PROVE  k = l
  <2>1. k \in Issued'
    BY <1>2 DEF InPlay
  <2>2. PICK p \in Proc : /\ CreateInsert(p, k)
                          /\ invitation'[k].org = call[p].org
                          /\ invitation'[k].email = call[p].email
    BY <1>2, <2>1, NewRows
  <2>3. call[p].org = o /\ call[p].email = e
    BY <1>2, <2>2 DEF InPlay
  <2>4. InPlay(o, e) = {}
    BY <2>2, <2>3 DEF CreateInsert, IndexAdmits
  <2>5. l \in Issued => FALSE
    BY <1>1, <1>2, <2>4
  <2>6. l # k => invitation'[l] = invitation[l]
    BY <2>2 DEF CreateInsert, Requests, TypeOK
  <2>7. l \in Invitation /\ invitation'[l] # None
    BY <1>2 DEF InPlay, Issued
  <2>8. QED
    BY <2>5, <2>6, <2>7 DEF Issued
<1>3. CASE i \in Issued /\ j \in Issued
    BY <1>1, <1>3 DEF OneInPlayPerAddress
<1>4. QED
    BY <1>2, <1>3

LEMMA StepMembersWereInvited ==
    Requests /\ JoinedWereIssued /\ MembersWereInvited /\ [Next]_vars => MembersWereInvited'
<1> DEFINE Invited(o, e) == \E i \in joined : /\ invitation[i].org = o
                                              /\ invitation[i].email = e
                                              /\ invitation[i].role = member[o][e]
                                              /\ invitation[i].accepted
           Founded(o, e) == founder[o] = e /\ member[o][e] = "manager"
<1> SUFFICES ASSUME Requests, JoinedWereIssued, MembersWereInvited, [Next]_vars,
                    NEW o \in Org, NEW e \in Email, member'[o][e] # None
             PROVE  Founded(o, e)' \/ Invited(o, e)'
    BY DEF MembersWereInvited
<1>1. CASE member[o][e] # None
  <2>1. member'[o][e] = member[o][e]
    BY <1>1, MembersAreKept DEF Requests
  <2>2. CASE Founded(o, e)
    <3>1. founder'[o] = e
      BY <2>2, FoundersAreKept
    <3>2. QED
      BY <2>1, <2>2, <3>1
  <2>3. CASE Invited(o, e)
    <3>1. PICK i \in joined : /\ invitation[i].org = o
                              /\ invitation[i].email = e
                              /\ invitation[i].role = member[o][e]
                              /\ invitation[i].accepted
      BY <2>3
    <3>2. i \in joined' /\ Says(invitation'[i], invitation[i])
      BY FoundersAreKept, RowsAreKept DEF JoinedWereIssued, Requests
    <3>3. QED
      BY <2>1, <3>1, <3>2 DEF Says
  <2>4. QED
    BY <1>1, <2>2, <2>3 DEF MembersWereInvited
<1>2. CASE Signup(e, o) /\ member'[o][e] = "manager"
    BY <1>2 DEF Signup, Requests, TypeOK
<1>3. ASSUME NEW p \in Proc, AcceptJoin(p), call[p].inv \in Issued,
             invitation[call[p].inv].org = o, invitation[call[p].inv].email = e,
             member'[o][e] = invitation[call[p].inv].role
      PROVE  Invited(o, e)'
  <2> DEFINE i == call[p].inv
  <2>1. i \in joined' /\ invitation' = MarkAccepted(i)
    BY <1>3 DEF AcceptJoin
  <2>2. invitation[i] \in InvitationRow
    BY <1>3, RowType DEF Requests
  <2>3. invitation'[i] = [invitation[i] EXCEPT !.accepted = TRUE]
    BY <1>3, <2>1, MarkValue DEF Requests
  <2>4. /\ invitation'[i].org = o
        /\ invitation'[i].email = e
        /\ invitation'[i].role = member'[o][e]
        /\ invitation'[i].accepted
    BY <1>3, <2>2, <2>3 DEF InvitationRow
  <2> HIDE DEF i
  <2>5. QED
    BY <2>1, <2>4
<1>4. QED
  <2> HIDE DEF Invited, Founded
  <2>1. QED
    BY <1>1, <1>2, <1>3, NewMembers

LEMMA StepAcceptanceIsAtomic ==
    Requests /\ AcceptanceIsAtomic /\ [Next]_vars => AcceptanceIsAtomic'
<1> SUFFICES ASSUME Requests, AcceptanceIsAtomic, [Next]_vars PROVE AcceptanceIsAtomic'
    OBVIOUS
<1>1. ASSUME NEW i \in Issued', invitation'[i].accepted
      PROVE  member'[invitation'[i].org][invitation'[i].email] # None
  <2> DEFINE row == invitation[i]
  <2>1. i \in Issued
    BY <1>1, NewRows
  <2>2. row.org \in Org /\ row.email \in Email /\ row.role \in Role
    BY <2>1, RowType DEF InvitationRow, Requests
  <2>3. Says(invitation'[i], row)
    BY <2>1, RowsAreKept DEF Requests
  <2>4. member[row.org][row.email] # None => member'[row.org][row.email] # None
    BY <2>2, MembersAreKept DEF Requests
  <2>5. CASE row.accepted
    BY <2>1, <2>3, <2>4, <2>5 DEF AcceptanceIsAtomic, Says
  <2>6. ASSUME NEW p \in Proc, AcceptMark(p), call[p].inv = i
        PROVE  member[row.org][row.email] # None
    BY <2>6 DEF AcceptMark, AcceptsRead, HasRead, Requests
  <2>7. ASSUME NEW p \in Proc, AcceptJoin(p), call[p].inv = i
        PROVE  member'[row.org][row.email] # None
    <3>1. member' = Enrolled(i)
      BY <2>7 DEF AcceptJoin
    <3>2. member'[row.org][row.email] = row.role
      BY <2>1, <2>2, <3>1, EnrolledValue DEF Requests
    <3>3. QED
      BY <2>2, <3>2
  <2>8. QED
    BY <1>1, <2>1, <2>3, <2>4, <2>5, <2>6, <2>7, Acceptances DEF Says
<1>2. ASSUME NEW o \in Org, NEW e \in Email, member'[o][e] # None PROVE e \in registered'
  <2>1. CASE member[o][e] # None
    BY <2>1, UsersAreKept DEF AcceptanceIsAtomic
  <2>2. CASE Signup(e, o)
    BY <2>2 DEF Signup
  <2>3. ASSUME NEW p \in Proc, AcceptJoin(p), invitation[call[p].inv].email = e
        PROVE  e \in registered'
    BY <2>3 DEF AcceptJoin, Registered, AcceptsRead, HasRead, Requests
  <2>4. QED
    BY <1>2, <2>1, <2>2, <2>3, NewMembers
<1>3. QED
    BY <1>1, <1>2 DEF AcceptanceIsAtomic

-----------------------------------------------------------------------------
(***************************************************************************)
(* The theorems.                                                           *)
(***************************************************************************)

LEMMA InitIInv == Init => IInv
<1> SUFFICES ASSUME Init PROVE IInv
    OBVIOUS
<1> USE DEF Init
<1>1. TypeOK
    BY InitType
<1>2. /\ \A o \in Org, e \in Email : member[o][e] = None
      /\ Issued = {}
      /\ joined = {}
      /\ \A p \in Proc : \A op : ~ InFlight(p, op)
    BY DEF Issued, InFlight
<1>3. /\ MembersHaveFounder /\ MembersWereInvited /\ AcceptanceIsAtomic
      /\ JoinedWereIssued /\ RevokersAreNoted /\ NoEscalation
    BY <1>2 DEF MembersHaveFounder, MembersWereInvited, AcceptanceIsAtomic,
                JoinedWereIssued, RevokersAreNoted, NoEscalation
<1>4. CreatorsMay /\ RevokersMay /\ AcceptsRead
    BY <1>2 DEF CreatorsMay, RevokersMay, AcceptsRead
<1>5. OneInPlayPerAddress
    BY <1>2 DEF OneInPlayPerAddress, InPlay
<1>6. QED
    BY <1>1, <1>3, <1>4, <1>5 DEF IInv

LEMMA StepIInv == IInv /\ [Next]_vars => IInv'
<1> SUFFICES ASSUME IInv, [Next]_vars PROVE IInv'
    OBVIOUS
<1> USE DEF IInv, Requests
<1>1. TypeOK'
    BY StepType
<1>2. MembersHaveFounder'
    BY StepMembersHaveFounder
<1>3. JoinedWereIssued' /\ RevokersAreNoted'
    BY StepJoinedWereIssued, StepRevokersAreNoted
<1>4. CreatorsMay' /\ RevokersMay' /\ AcceptsRead'
    BY StepCreatorsMay, StepRevokersMay, StepAcceptsRead
<1>5. OneInPlayPerAddress'
    BY StepOneInPlay
<1>6. MembersWereInvited' /\ AcceptanceIsAtomic'
    BY StepMembersWereInvited, StepAcceptanceIsAtomic
<1>7. NoEscalation'
    BY StepNoEscalation
<1>8. QED
    BY <1>1, <1>2, <1>3, <1>4, <1>5, <1>6, <1>7

(* The inductive invariant: the database and the requests in flight agree  *)
(* in every reachable state.                                               *)
THEOREM Consistent == Spec => []IInv
    BY InitIInv, StepIInv, PTL DEF Spec

(* Every row and request has its type. *)
THEOREM TypeCorrect == Spec => []TypeOK
<1>1. IInv => TypeOK
    BY DEF IInv
<1>2. QED
    BY <1>1, Consistent, PTL

(* The partial unique index keeps invitations in play unique per address,  *)
(* however many requests create, check and insert at once.                 *)
THEOREM OneInPlay == Spec => []OneInPlayPerAddress
<1>1. IInv => OneInPlayPerAddress
    BY DEF IInv
<1>2. QED
    BY <1>1, Consistent, PTL

(* Only founders and those who accepted an invitation are members, with    *)
(* the role that was offered.                                              *)
THEOREM InvitedOnly == Spec => []MembersWereInvited
<1>1. IInv => MembersWereInvited
    BY DEF IInv
<1>2. QED
    BY <1>1, Consistent, PTL

(* The accepting transaction leaves nothing half done. *)
THEOREM AtomicAcceptance == Spec => []AcceptanceIsAtomic
<1>1. IInv => AcceptanceIsAtomic
    BY DEF IInv
<1>2. QED
    BY <1>1, Consistent, PTL

(* Through any chain of invitations and however requests interleave, roles *)
(* are handed out and invitations taken back only by those who may.        *)
THEOREM RolesDoNotEscalate == Spec => []NoEscalation
<1>1. IInv => NoEscalation
    BY DEF IInv
<1>2. QED
    BY <1>1, Consistent, PTL

(* An invitation accepted, revoked or expired before a request to accept   *)
(* it comes in makes nobody a member.                                      *)
THEOREM NoLateJoin == Spec => []LateRequestsJoinNobody
<1>1. IInv => LateRequestsJoinNobody
  <2> SUFFICES ASSUME IInv, NEW p \in Proc, InFlight(p, "accept"), call[p].late
               PROVE  call[p].todo \notin {"join", "signup"}
      BY DEF LateRequestsJoinNobody
  <2>1. HasRead(call[p])
      BY DEF IInv, AcceptsRead
  <2>2. QED
      BY <2>1 DEF HasRead, Valid
<1>2. QED
    BY <1>1, Consistent, PTL

(* Memberships.  A sign-up founds: its organization has no member before   *)
(* its founder, and its user, who was not registered, none of his own.     *)
LEMMA SignupFounds ==
    ASSUME IInv, NEW e \in Email, NEW o \in Org, Signup(e, o)
    PROVE  Members!Found(o, e)
<1>1. \A v \in Email : member[o][v] = None
    BY DEF Signup, IInv, MembersHaveFounder
<1>2. \A q \in Org : member[q][e] = None
    BY DEF Signup, IInv, AcceptanceIsAtomic
<1>3. QED
    BY <1>1, <1>2 DEF Signup, Members!Found

(* An acceptance joins: whoever issued the invitation is still a member    *)
(* who may grant its role.                                                 *)
LEMMA AcceptanceJoins ==
    ASSUME IInv, NEW p \in Proc, AcceptJoin(p)
    PROVE  \E o \in Org, by, e \in Email, role \in Role : Members!Join(o, by, e, role)
<1> DEFINE row == invitation[call[p].inv]
<1>1. call[p].inv \in Issued
    BY DEF AcceptJoin, IInv, AcceptsRead, HasRead
<1>2. row.org \in Org /\ row.by \in Email /\ row.email \in Email /\ row.role \in Role
    BY <1>1, RowType DEF IInv, InvitationRow
<1>3. Members!MayGrant(member[row.org][row.by], row.role)
    BY <1>1, <1>2 DEF IInv, NoEscalation, Outranks, Members!MayGrant, Role
<1>4. /\ member[row.org][row.email] = None
      /\ member' = [member EXCEPT ![row.org][row.email] = row.role]
    BY DEF AcceptJoin, MembershipAdmits, Enrolled
<1>5. Members!Join(row.org, row.by, row.email, row.role)
    BY <1>3, <1>4 DEF Members!Join
<1>6. QED
    BY <1>2, <1>5

LEMMA StepMemberships ==
    ASSUME IInv, [Next]_vars
    PROVE  [Members!Next]_member
<1>1. ASSUME NEW e \in Email, NEW o \in Org, Signup(e, o) PROVE Members!Next
    BY <1>1, SignupFounds DEF Members!Next
<1>2. ASSUME NEW p \in Proc, AcceptJoin(p) PROVE Members!Next
    BY <1>2, AcceptanceJoins DEF Members!Next, Members!Role, Role
<1>3. ASSUME NEW p \in Proc, AcceptMark(p) \/ RevokeWrite(p) PROVE UNCHANGED member
    BY <1>3 DEF AcceptMark, RevokeWrite
<1>4. ASSUME NEW p \in Proc, NEW i \in Invitation, CreateInsert(p, i) PROVE UNCHANGED member
    BY <1>4 DEF CreateInsert
<1>5. ASSUME NEW i \in Invitation, AgeInvitation(i) PROVE UNCHANGED member
    BY <1>5 DEF AgeInvitation
<1>6. UNCHANGED database => UNCHANGED member
    BY DEF database
<1>7. QED
    BY <1>1, <1>2, <1>3, <1>4, <1>5, <1>6, Writers

(* Sign-ups and invitations keep what Memberships promises of who belongs  *)
(* to an organization and how one comes to.                                *)
THEOREM MembershipsAsPromised == Spec => ImplementsMemberships
<1>1. Init => Members!Init
    BY DEF Init, Members!Init
<1>2. IInv /\ [Next]_vars => [Members!Next]_member
    BY StepMemberships
<1>3. QED
    BY <1>1, <1>2, Consistent, PTL DEF Spec, ImplementsMemberships, Members!Spec

=============================================================================
