---------------------------- MODULE Access_proofs ----------------------------
(***************************************************************************)
(* TLAPS proofs about Access, for any organizations, users, records,       *)
(* requests in flight and number of joining transactions.                  *)
(***************************************************************************)
EXTENDS Access, TLAPS

USE BoundAssumption, NoneAssumption

(***************************************************************************)
(* The inductive invariant.                                                *)
(***************************************************************************)

(* The clock behind created_at has not gone further than begun. *)
TimesConsistent ==
    /\ \A o \in Org, u \in User :
          membership[o][u] # None => membership[o][u].created <= begun
    /\ \A p \in Proc :
          InFlight(p, "signup") \/ InFlight(p, "accept") => call[p].began <= begun

(* A token names a membership. *)
TokensConsistent ==
    \A t \in token : membership[t[2]][t[1]] # None

(* So does a request; on a route for managers, once it is permitted, that  *)
(* of a manager; and it touches records of its organization only, after it *)
(* was permitted.                                                          *)
RequestHolds(q) ==
    /\ membership[q.org][q.user] # None
    /\ q.op = "managers" /\ q.permitted => membership[q.org][q.user].role \in CanManageMembers
    /\ q.touched # {} => q.permitted
    /\ \A r \in q.touched : record[r] # None /\ record[r].org = q.org

RequestsConsistent ==
    \A p \in Proc : call[p] # None /\ call[p].op \in Route => RequestHolds(call[p])

(* An organization has a manager as soon as it has a member, and no two    *)
(* sign-ups in flight, nor anybody else, found the same one.               *)
ManagersExist ==
    \A o \in Org : Founded(o) =>
        \E u \in User : membership[o][u] # None /\ membership[o][u].role = "manager"

SignupsAlone ==
    \A p \in Proc : InFlight(p, "signup") =>
        /\ ~ Founded(call[p].org)
        /\ \A q \in Proc : InFlight(q, "signup") /\ call[q].org = call[p].org => q = p

IInv ==
    /\ TypeOK
    /\ TimesConsistent
    /\ TokensConsistent
    /\ RequestsConsistent
    /\ ManagersExist
    /\ SignupsAlone

-----------------------------------------------------------------------------
(***************************************************************************)
(* Lemmas.                                                                 *)
(***************************************************************************)

(* The kind of a request tells its record. *)
LEMMA CallTypes ==
    ASSUME TypeOK, NEW p \in Proc, call[p] # None
    PROVE  /\ call[p] \in Call
           /\ call[p].op = "signup" => call[p] \in SignupCall
           /\ call[p].op = "accept" => call[p] \in AcceptCall
           /\ call[p].op \in Route => call[p] \in Request
    BY DEF TypeOK, Call, SignupCall, AcceptCall, Request, Route

(* What a request puts into its call is a call. *)
LEMMA CallUpdate ==
    ASSUME TypeOK, NEW p \in Proc, NEW c \in Call \cup {None}, call' = [call EXCEPT ![p] = c]
    PROVE  call' \in [Proc -> Call \cup {None}]
    BY DEF TypeOK

(* A request that has touched something goes on as a request. *)
LEMMA TouchType ==
    ASSUME TypeOK, NEW p \in Proc, NEW route \in Route, InFlight(p, route),
           NEW S \in SUBSET Record, Touch(p, S)
    PROVE  call' \in [Proc -> Call \cup {None}]
<1>1. CASE S = {}
    BY <1>1, CallUpdate DEF Touch, Finish
<1>2. CASE S # {}
  <2>1. call[p] \in Request
    BY CallTypes DEF InFlight
  <2>2. [call[p] EXCEPT !.touched = S] \in Call
    BY <2>1 DEF Request, Call
  <2>3. call' = [call EXCEPT ![p] = [call[p] EXCEPT !.touched = S]]
    BY <1>2, <2>1 DEF Touch, TypeOK
  <2>4. QED
    BY <2>2, <2>3, CallUpdate
<1>3. QED
    BY <1>1, <1>2

(* Each handler reads records of its request's organization, or writes one *)
(* that is new or belongs to it.                                           *)
HandlerReads(p) ==
    \E route \in Route, S \in SUBSET Record :
        /\ Handles(p, route)
        /\ Read(p, S)
        /\ \A r \in S : record[r] # None /\ record[r].org = call[p].org

HandlerWrites(p) ==
    \E r \in Record, row \in RecordRow :
        /\ Handles(p, "managers")
        /\ Write(p, r, row)
        /\ row.org = call[p].org
        /\ record[r] # None => record[r].org = call[p].org

LEMMA HandlerCases ==
    ASSUME TypeOK, NEW p \in Proc,
           CustomerHandler(p) \/ ItemHandler(p) \/ InvitationHandler(p)
    PROVE  HandlerReads(p) \/ HandlerWrites(p)
<1>1. ASSUME Handles(p, "managers"), NEW r \in Record, NEW o \in Org, o = call[p].org,
             record[r] = None, Write(p, r, Inserted(o))
      PROVE  HandlerWrites(p)
  <2>1. Inserted(o) \in RecordRow /\ Inserted(o).org = o
    BY DEF Inserted, RecordRow
  <2>2. QED
    BY <1>1, <2>1 DEF HandlerWrites
<1>2. ASSUME Handles(p, "managers"), NEW r \in Record, record[r] # None,
             record[r].org = call[p].org,
             Write(p, r, record[r]) \/ Write(p, r, SoftDeleted(record[r]))
      PROVE  HandlerWrites(p)
  <2>1. record[r] \in RecordRow
    BY <1>2 DEF TypeOK
  <2>2. SoftDeleted(record[r]) \in RecordRow /\ SoftDeleted(record[r]).org = record[r].org
    BY <2>1 DEF SoftDeleted, RecordRow
  <2>3. QED
    BY <1>2, <2>1, <2>2 DEF HandlerWrites
<1>3. ASSUME NEW route \in Route, Handles(p, route), NEW S \in SUBSET Record, Read(p, S),
             \A r \in S : record[r] # None /\ record[r].org = call[p].org
      PROVE  HandlerReads(p)
    BY <1>3 DEF HandlerReads
<1>4. "members" \in Route /\ "managers" \in Route
    BY DEF Route
<1>5. ASSUME NEW route \in Route, Handles(p, route) PROVE call[p].org \in Org
    BY <1>5, CallTypes DEF Handles, InFlight, Request
<1>6. ASSUME NEW Kind \in SUBSET Record,
             \/ \E r \in Kind : Create(p, r) \/ Get(p, r) \/ Update(p, r) \/ Delete(p, r)
             \/ List(p, Kind)
      PROVE  HandlerReads(p) \/ HandlerWrites(p)
  <2>1. ASSUME NEW r \in Kind, Create(p, r) PROVE HandlerWrites(p)
    BY <1>1, <1>4, <1>5, <2>1 DEF Create
  <2>2. ASSUME NEW r \in Kind, Get(p, r) PROVE HandlerReads(p)
    BY <1>3, <1>4, <2>2 DEF Get, Found
  <2>3. ASSUME NEW r \in Kind, Update(p, r) \/ Delete(p, r) PROVE HandlerWrites(p)
    BY <1>2, <2>3 DEF Update, Delete, Found
  <2>4. ASSUME List(p, Kind) PROVE HandlerReads(p)
    BY <1>3, <1>4, <2>4 DEF List, Found
  <2>5. QED
    BY <1>6, <2>1, <2>2, <2>3, <2>4
<1>7. CASE CustomerHandler(p)
    BY <1>6, <1>7 DEF CustomerHandler, Record
<1>8. CASE ItemHandler(p)
    BY <1>6, <1>8 DEF ItemHandler, Record
<1>9. CASE InvitationHandler(p)
  <2>1. ASSUME NEW o \in Org, NEW v \in Invitation, CreateInvitation(p, o, v)
        PROVE  HandlerWrites(p)
    BY <1>1, <2>1 DEF CreateInvitation, AuthorizedOrganization, Record
  <2>2. ASSUME NEW o \in Org, NEW v \in Invitation, RevokeInvitation(p, o, v)
        PROVE  HandlerWrites(p)
    BY <1>2, <2>2 DEF RevokeInvitation, AuthorizedOrganization, Record
  <2>3. ASSUME NEW o \in Org, ListInvitations(p, o) PROVE HandlerReads(p)
    BY <1>3, <1>4, <2>3 DEF ListInvitations, AuthorizedOrganization, Record
  <2>4. QED
    BY <1>9, <2>1, <2>2, <2>3 DEF InvitationHandler
<1>10. QED
    BY <1>7, <1>8, <1>9

-----------------------------------------------------------------------------
(***************************************************************************)
(* Types.                                                                  *)
(***************************************************************************)

LEMMA InitType == Init => TypeOK
    BY DEF Init, TypeOK

(* A transaction that begins moves the clock on. *)
LEMMA BeginType ==
    ASSUME TypeOK, NEW p \in Proc, NEW c \in Call, Begin(p, c)
    PROVE  TypeOK'
<1>1. call' \in [Proc -> Call \cup {None}]
    BY CallUpdate DEF Begin
<1>2. begun' \in 0 .. MaxBegun
    BY DEF TypeOK, Begin
<1>3. QED
    BY <1>1, <1>2 DEF TypeOK, Begin

(* A membership is added. *)
LEMMA EnrolType ==
    ASSUME TypeOK, NEW o \in Org, NEW u \in User, NEW row \in MembershipRow,
           membership' = [membership EXCEPT ![o][u] = row]
    PROVE  membership' \in [Org -> [User -> MembershipRow \cup {None}]]
    BY DEF TypeOK

LEMMA StepType == TypeOK /\ [Next]_vars => TypeOK'
<1> SUFFICES ASSUME TypeOK, [Next]_vars PROVE TypeOK'
    OBVIOUS
<1>1. ASSUME NEW p \in Proc, NEW u \in User, NEW o \in Org, SignupBegin(p, u, o) PROVE TypeOK'
  <2>1. [op |-> "signup", user |-> u, org |-> o, began |-> begun + 1] \in Call
    BY <1>1 DEF SignupBegin, Begin, TypeOK, Call, SignupCall
  <2>2. QED
    BY <1>1, <2>1, BeginType DEF SignupBegin
<1>2. ASSUME NEW p \in Proc, NEW u \in User, NEW o \in Org, NEW role \in Role,
             AcceptBegin(p, u, o, role)
      PROVE  TypeOK'
  <2>1. [op |-> "accept", user |-> u, org |-> o, role |-> role, began |-> begun + 1] \in Call
    BY <1>2 DEF AcceptBegin, Begin, TypeOK, Call, AcceptCall
  <2>2. QED
    BY <1>2, <2>1, BeginType DEF AcceptBegin
<1>3. ASSUME NEW p \in Proc, SignupCommit(p) PROVE TypeOK'
  <2>1. call[p] \in SignupCall
    BY <1>3, CallTypes DEF SignupCommit, InFlight
  <2>2. Row("manager", call[p].began) \in MembershipRow
    BY <2>1 DEF SignupCall, Row, MembershipRow, Role
  <2>3. membership' \in [Org -> [User -> MembershipRow \cup {None}]]
    BY <1>3, <2>1, <2>2, EnrolType DEF SignupCommit, SignupCall
  <2>4. call' \in [Proc -> Call \cup {None}]
    BY <1>3, CallUpdate DEF SignupCommit, Finish
  <2>5. QED
    BY <1>3, <2>3, <2>4 DEF SignupCommit, TypeOK
<1>4. ASSUME NEW p \in Proc, AcceptCommit(p) PROVE TypeOK'
  <2>1. call[p] \in AcceptCall
    BY <1>4, CallTypes DEF AcceptCommit, InFlight
  <2>2. Row(call[p].role, call[p].began) \in MembershipRow
    BY <2>1 DEF AcceptCall, Row, MembershipRow
  <2>3. membership' \in [Org -> [User -> MembershipRow \cup {None}]]
    BY <1>4, <2>1, <2>2, EnrolType DEF AcceptCommit, AcceptCall, TypeOK
  <2>4. call' \in [Proc -> Call \cup {None}]
    BY <1>4, CallUpdate DEF AcceptCommit, Finish
  <2>5. QED
    BY <1>4, <2>3, <2>4 DEF AcceptCommit, TypeOK
<1>5. ASSUME NEW u \in User, IssueAccessToken(u) PROVE TypeOK'
    BY <1>5 DEF IssueAccessToken, TypeOK
<1>6. ASSUME NEW t \in token, ExpireAccessToken(t) PROVE TypeOK'
    BY <1>6 DEF ExpireAccessToken, TypeOK
<1>7. ASSUME NEW p \in Proc, NEW t \in token, NEW route \in Route, Authenticate(p, t, route)
      PROVE  TypeOK'
  <2>1. [op |-> route, user |-> t[1], org |-> t[2],
         permitted |-> route = "members", touched |-> {}] \in Call
    BY DEF TypeOK, Call, Request
  <2>2. call' \in [Proc -> Call \cup {None}]
    BY <1>7, <2>1, CallUpdate DEF Authenticate
  <2>3. QED
    BY <1>7, <2>2 DEF Authenticate, TypeOK
<1>8. ASSUME NEW p \in Proc, Permit(p) PROVE TypeOK'
  <2>1. call[p] \in Request
    BY <1>8, CallTypes DEF Permit, InFlight, Route
  <2>2. [call[p] EXCEPT !.permitted = TRUE] \in Call
    BY <2>1 DEF Call, Request
  <2>3. call' = [call EXCEPT ![p] = [call[p] EXCEPT !.permitted = TRUE]]
    BY <1>8 DEF Permit, TypeOK
  <2>4. call' \in [Proc -> Call \cup {None}]
    BY <2>2, <2>3, CallUpdate
  <2>5. QED
    BY <1>8, <2>4 DEF Permit, TypeOK
<1>9. ASSUME NEW p \in Proc, HandlerReads(p) PROVE TypeOK'
  <2>1. call' \in [Proc -> Call \cup {None}]
    BY <1>9, TouchType DEF HandlerReads, Handles, Read
  <2>2. QED
    BY <1>9, <2>1 DEF HandlerReads, Read, TypeOK
<1>10. ASSUME NEW p \in Proc, HandlerWrites(p) PROVE TypeOK'
  <2>1. PICK r \in Record, row \in RecordRow : Handles(p, "managers") /\ Write(p, r, row)
    BY <1>10 DEF HandlerWrites
  <2>2. call' \in [Proc -> Call \cup {None}]
    BY <2>1, TouchType DEF Handles, Write, Route
  <2>3. record' \in [Record -> RecordRow \cup {None}]
    BY <2>1 DEF Write, TypeOK
  <2>4. QED
    BY <2>1, <2>2, <2>3 DEF Write, TypeOK
<1>11. ASSUME NEW p \in Proc, EndOfRequest(p) PROVE TypeOK'
  <2>1. call' \in [Proc -> Call \cup {None}]
    BY <1>11, CallUpdate DEF EndOfRequest, Finish
  <2>2. QED
    BY <1>11, <2>1 DEF EndOfRequest, TypeOK
<1>12. ASSUME UNCHANGED vars PROVE TypeOK'
    BY <1>12 DEF vars, TypeOK
<1>13. QED
    BY <1>1, <1>2, <1>3, <1>4, <1>5, <1>6, <1>7, <1>8, <1>9, <1>10, <1>11, <1>12, HandlerCases
    DEF Next, Join, Serve

-----------------------------------------------------------------------------
(***************************************************************************)
(* What no step takes back.                                                *)
(***************************************************************************)

(* A membership stays, with its role and its date. *)
MembersAreKept ==
    \A o \in Org, u \in User : membership[o][u] # None => membership'[o][u] = membership[o][u]

(* A record stays in its organization. *)
RecordsAreKept ==
    \A r \in Record : record[r] # None => record'[r] # None /\ record'[r].org = record[r].org

(* The two transactions write the one row that did not exist. *)
LEMMA JoinKeeps ==
    ASSUME TypeOK, NEW p \in Proc, SignupCommit(p) \/ AcceptCommit(p)
    PROVE  /\ call[p].org \in Org /\ call[p].user \in User
           /\ \A o \in Org, u \in User :
                 \/ membership'[o][u] = membership[o][u]
                 \/ /\ o = call[p].org /\ u = call[p].user
                    /\ membership[o][u] = None
                    /\ membership'[o][u].created = call[p].began
<1>1. CASE SignupCommit(p)
  <2>1. call[p] \in SignupCall
    BY <1>1, CallTypes DEF SignupCommit, InFlight
  <2>2. membership[call[p].org][call[p].user] = None
    BY <1>1, <2>1 DEF SignupCommit, Registered, SignupCall
  <2>3. QED
    BY <1>1, <2>1, <2>2 DEF SignupCommit, SignupCall, Row, TypeOK
<1>2. CASE AcceptCommit(p)
  <2>1. call[p] \in AcceptCall
    BY <1>2, CallTypes DEF AcceptCommit, InFlight
  <2>2. QED
    BY <1>2, <2>1 DEF AcceptCommit, AcceptCall, Row, TypeOK
<1>3. QED
    BY <1>1, <1>2

(* Everything else leaves memberships alone. *)
LEMMA StepMembers ==
    ASSUME TypeOK, [Next]_vars
    PROVE  \/ UNCHANGED membership
           \/ \E p \in Proc : SignupCommit(p) \/ AcceptCommit(p)
    BY HandlerCases
    DEF Next, Join, Serve, SignupBegin, AcceptBegin, Begin, IssueAccessToken, ExpireAccessToken,
        Authenticate, Permit, HandlerReads, HandlerWrites, Read, Write, EndOfRequest, vars

LEMMA StepKeeps ==
    ASSUME TypeOK, [Next]_vars
    PROVE  MembersAreKept /\ RecordsAreKept
<1>1. MembersAreKept
    BY StepMembers, JoinKeeps DEF MembersAreKept
<1>2. ASSUME UNCHANGED record PROVE RecordsAreKept
    BY <1>2 DEF RecordsAreKept
<1>3. ASSUME NEW p \in Proc, HandlerWrites(p) PROVE RecordsAreKept
    BY <1>3 DEF HandlerWrites, Write, RecordsAreKept, RecordRow, TypeOK
<1>4. RecordsAreKept
    BY <1>2, <1>3, HandlerCases
    DEF Next, Join, Serve, SignupBegin, AcceptBegin, Begin, SignupCommit, AcceptCommit,
        IssueAccessToken, ExpireAccessToken, Authenticate, Permit, HandlerReads, Read,
        EndOfRequest, vars
<1>5. QED
    BY <1>1, <1>4

(* A transaction in flight is one that was in flight, or begins now.       *)
LEMMA JoiningSteps ==
    ASSUME TypeOK, [Next]_vars, NEW p \in Proc,
           InFlight(p, "signup")' \/ InFlight(p, "accept")'
    PROVE  \/ call'[p] = call[p]
           \/ \E u \in User, o \in Org : SignupBegin(p, u, o)
           \/ \E u \in User, o \in Org, role \in Role : AcceptBegin(p, u, o, role)
<1>1. ASSUME NEW q \in Proc, NEW c, Begin(q, c), q # p PROVE call'[p] = call[p]
    BY <1>1 DEF Begin, TypeOK
<1>2. ASSUME NEW q \in Proc, NEW S, NEW route \in Route, InFlight(q, route), Touch(q, S)
      PROVE  call'[p] = call[p]
  <2>1. call[q] \in Request
    BY <1>2, CallTypes DEF InFlight
  <2>2. call'[q] = None \/ call'[q].op = call[q].op
    BY <1>2, <2>1 DEF Touch, Finish, TypeOK, Request
  <2>3. QED
    BY <1>2, <2>2 DEF Touch, Finish, TypeOK, InFlight, Route
<1>3. ASSUME NEW q \in Proc, HandlerReads(q) \/ HandlerWrites(q) PROVE call'[p] = call[p]
    BY <1>2, <1>3 DEF HandlerReads, HandlerWrites, Read, Write, Handles, Route
<1>4. ASSUME NEW q \in Proc, Finish(q) PROVE call'[p] = call[p]
    BY <1>4 DEF Finish, TypeOK, InFlight
<1>5. ASSUME NEW q \in Proc, NEW t \in token, NEW route \in Route, Authenticate(q, t, route)
      PROVE  call'[p] = call[p]
    BY <1>5 DEF Authenticate, TypeOK, InFlight, Route
<1>6. ASSUME NEW q \in Proc, Permit(q) PROVE call'[p] = call[p]
    BY <1>6 DEF Permit, TypeOK, InFlight
<1>7. QED
    BY <1>1, <1>3, <1>4, <1>5, <1>6, HandlerCases
    DEF Next, Join, Serve, SignupBegin, AcceptBegin, SignupCommit, AcceptCommit,
        IssueAccessToken, ExpireAccessToken, EndOfRequest, vars

LEMMA JoiningBegins ==
    ASSUME TypeOK, [Next]_vars, NEW p \in Proc,
           InFlight(p, "signup")' \/ InFlight(p, "accept")'
    PROVE  \/ call'[p] = call[p]
           \/ call'[p].began = begun + 1 /\ begun' = begun + 1
<1>1. ASSUME NEW c, Begin(p, c), c.began = begun + 1
      PROVE  call'[p].began = begun + 1 /\ begun' = begun + 1
    BY <1>1 DEF Begin, TypeOK
<1>2. QED
    BY <1>1, JoiningSteps DEF SignupBegin, AcceptBegin

(* An organization that has members now, and had none, has been founded.   *)
LEMMA NewlyFounded ==
    ASSUME TypeOK, [Next]_vars, NEW o \in Org, Founded(o)', ~ Founded(o)
    PROVE  \E p \in Proc : /\ SignupCommit(p)
                           /\ call[p] \in SignupCall
                           /\ call[p].org = o
<1>1. PICK u \in User : membership'[o][u] # None /\ membership[o][u] = None
    BY DEF Founded
<1>2. PICK p \in Proc : SignupCommit(p) \/ AcceptCommit(p)
    BY <1>1, StepMembers
<1>3. call[p].org = o
    BY <1>1, <1>2, JoinKeeps
<1>4. ~ AcceptCommit(p)
    BY <1>3 DEF AcceptCommit
<1>5. QED
    BY <1>2, <1>3, <1>4, CallTypes DEF SignupCommit, InFlight

-----------------------------------------------------------------------------
(***************************************************************************)
(* The steps keep the invariant.                                           *)
(***************************************************************************)

LEMMA StepTimes == IInv /\ [Next]_vars => TimesConsistent'
<1> SUFFICES ASSUME IInv, [Next]_vars PROVE TimesConsistent'
    OBVIOUS
<1>0. TypeOK /\ TimesConsistent /\ TypeOK'
    BY StepType DEF IInv
<1>1. begun <= begun'
  <2>1. begun' = begun \/ begun' = begun + 1
    BY <1>0, HandlerCases
    DEF Next, Join, Serve, SignupBegin, AcceptBegin, Begin, SignupCommit, AcceptCommit,
        IssueAccessToken, ExpireAccessToken, Authenticate, Permit, HandlerReads, HandlerWrites,
        Read, Write, EndOfRequest, vars
  <2>2. begun \in Nat
    BY <1>0 DEF TypeOK
  <2>3. QED
    BY <2>1, <2>2
<1>2. ASSUME NEW p \in Proc, SignupCommit(p) \/ AcceptCommit(p)
      PROVE  call[p].began <= begun /\ call[p].began \in Nat
    BY <1>0, <1>2, CallTypes
    DEF SignupCommit, AcceptCommit, InFlight, TimesConsistent, SignupCall, AcceptCall
<1>3. ASSUME NEW o \in Org, NEW u \in User, membership'[o][u] # None
      PROVE  membership'[o][u].created <= begun'
  <2>1. membership[o][u] # None => membership[o][u].created <= begun /\ membership[o][u].created \in Nat
    BY <1>0 DEF TimesConsistent, TypeOK, MembershipRow
  <2>2. begun \in Nat /\ begun' \in Nat
    BY <1>0 DEF TypeOK
  <2>3. CASE UNCHANGED membership
    BY <1>1, <1>3, <2>1, <2>2, <2>3
  <2>4. CASE \E p \in Proc : SignupCommit(p) \/ AcceptCommit(p)
    BY <1>0, <1>1, <1>2, <1>3, <2>1, <2>2, <2>4, JoinKeeps
  <2>5. QED
    BY <1>0, <2>3, <2>4, StepMembers
<1>4. ASSUME NEW p \in Proc, InFlight(p, "signup")' \/ InFlight(p, "accept")'
      PROVE  call'[p].began <= begun'
  <2>1. begun \in Nat
    BY <1>0 DEF TypeOK
  <2>2. CASE call'[p] = call[p]
    <3>1. call[p].began <= begun /\ call[p].began \in Nat
      BY <1>0, <1>4, <2>2, CallTypes DEF InFlight, TimesConsistent, SignupCall, AcceptCall
    <3>2. QED
      BY <1>0, <1>1, <2>2, <3>1 DEF TypeOK
  <2>3. CASE call'[p].began = begun + 1 /\ begun' = begun + 1
    BY <2>1, <2>3
  <2>4. QED
    BY <1>0, <1>4, <2>2, <2>3, JoiningBegins
<1>5. QED
    BY <1>3, <1>4 DEF TimesConsistent

LEMMA StepTokens == IInv /\ [Next]_vars => TokensConsistent'
<1> SUFFICES ASSUME IInv, [Next]_vars PROVE TokensConsistent'
    OBVIOUS
<1>0. TypeOK /\ TokensConsistent /\ TypeOK'
    BY StepType DEF IInv
<1>1. MembersAreKept
    BY <1>0, StepKeeps
<1>2. ASSUME token' \subseteq token PROVE TokensConsistent'
  <2>1. \A t \in token' : t[1] \in User /\ t[2] \in Org
    BY <1>0, <1>2 DEF TypeOK
  <2>2. QED
    BY <1>0, <1>1, <1>2, <2>1 DEF TokensConsistent, MembersAreKept
<1>3. ASSUME NEW u \in User, IssueAccessToken(u) PROVE TokensConsistent'
  <2>1. PICK o \in Org : Oldest(u, o) /\ token' = token \cup {<<u, o>>}
    BY <1>3 DEF IssueAccessToken
  <2>2. \A t \in token' : membership[t[2]][t[1]] # None
    BY <1>0, <2>1 DEF Oldest, TokensConsistent
  <2>3. QED
    BY <1>3, <2>2 DEF TokensConsistent, IssueAccessToken
<1>4. QED
    BY <1>0, <1>2, <1>3, HandlerCases
    DEF Next, Join, Serve, SignupBegin, AcceptBegin, Begin, SignupCommit, AcceptCommit,
        ExpireAccessToken, Authenticate, Permit, HandlerReads, HandlerWrites, Read, Write,
        EndOfRequest, vars

LEMMA StepRequests == IInv /\ [Next]_vars => RequestsConsistent'
<1> SUFFICES ASSUME IInv, [Next]_vars PROVE RequestsConsistent'
    OBVIOUS
<1>0. TypeOK /\ TokensConsistent /\ RequestsConsistent /\ TypeOK'
    BY StepType DEF IInv
<1>1. MembersAreKept /\ RecordsAreKept
    BY <1>0, StepKeeps
<1>2. ASSUME NEW p \in Proc, call[p] # None, call[p].op \in Route PROVE RequestHolds(call[p])
    BY <1>0, <1>2 DEF RequestsConsistent
<1>3. ASSUME NEW p \in Proc, NEW c \in Call \cup {None}, call' = [call EXCEPT ![p] = c],
             c # None /\ c.op \in Route => c \in Request /\ RequestHolds(c)
      PROVE  RequestsConsistent'
  <2>1. ASSUME NEW q \in Proc, call'[q] # None, call'[q].op \in Route
        PROVE  call'[q] \in Request /\ RequestHolds(call'[q])
    <3>1. CASE q = p
      BY <1>0, <1>3, <2>1, <3>1 DEF TypeOK
    <3>2. CASE q # p
      <4>1. call'[q] = call[q]
        BY <1>0, <1>3, <3>2 DEF TypeOK
      <4>2. QED
        BY <1>0, <1>2, <2>1, <4>1, CallTypes
    <3>3. QED
      BY <3>1, <3>2
  <2>2. QED
    BY <1>0, <1>1, <2>1 DEF RequestsConsistent, RequestHolds, Request, MembersAreKept, RecordsAreKept
<1>4. ASSUME UNCHANGED call PROVE RequestsConsistent'
  <2>1. ASSUME NEW q \in Proc, call[q] # None, call[q].op \in Route
        PROVE  call[q] \in Request /\ RequestHolds(call[q])
    BY <1>0, <1>2, <2>1, CallTypes
  <2>2. QED
    BY <1>0, <1>1, <1>4, <2>1
    DEF RequestsConsistent, RequestHolds, Request, MembersAreKept, RecordsAreKept
<1>5. ASSUME NEW p \in Proc, Finish(p) PROVE RequestsConsistent'
    BY <1>3, <1>5 DEF Finish
<1>6. ASSUME NEW p \in Proc, NEW u \in User, NEW o \in Org, SignupBegin(p, u, o)
      PROVE  RequestsConsistent'
  <2> DEFINE c == [op |-> "signup", user |-> u, org |-> o, began |-> begun + 1]
  <2>1. c \in Call /\ c.op \notin Route
    BY <1>0, <1>6 DEF SignupBegin, Begin, TypeOK, Call, SignupCall, Route
  <2>2. call' = [call EXCEPT ![p] = c]
    BY <1>6 DEF SignupBegin, Begin
  <2>3. QED
    BY <1>3, <2>1, <2>2
<1>7. ASSUME NEW p \in Proc, NEW u \in User, NEW o \in Org, NEW role \in Role,
             AcceptBegin(p, u, o, role)
      PROVE  RequestsConsistent'
  <2> DEFINE c == [op |-> "accept", user |-> u, org |-> o, role |-> role, began |-> begun + 1]
  <2>1. c \in Call /\ c.op \notin Route
    BY <1>0, <1>7 DEF AcceptBegin, Begin, TypeOK, Call, AcceptCall, Route
  <2>2. call' = [call EXCEPT ![p] = c]
    BY <1>7 DEF AcceptBegin, Begin
  <2>3. QED
    BY <1>3, <2>1, <2>2
<1>8. ASSUME NEW p \in Proc, NEW t \in token, NEW route \in Route, Authenticate(p, t, route)
      PROVE  RequestsConsistent'
  <2> DEFINE c == [op |-> route, user |-> t[1], org |-> t[2],
                   permitted |-> route = "members", touched |-> {}]
  <2>1. c \in Request
    BY <1>0 DEF TypeOK, Request
  <2>2. RequestHolds(c)
    BY <1>0 DEF RequestHolds, TokensConsistent
  <2>3. call' = [call EXCEPT ![p] = c]
    BY <1>8 DEF Authenticate
  <2>4. QED
    BY <1>3, <2>1, <2>2, <2>3 DEF Call
<1>9. ASSUME NEW p \in Proc, Permit(p) PROVE RequestsConsistent'
  <2> DEFINE c == [call[p] EXCEPT !.permitted = TRUE]
  <2>1. call[p] \in Request /\ RequestHolds(call[p])
    BY <1>0, <1>2, <1>9, CallTypes DEF Permit, InFlight, Route
  <2>2. c \in Request /\ RequestHolds(c)
    BY <1>9, <2>1 DEF Request, RequestHolds, Permit, HasRole
  <2>3. call' = [call EXCEPT ![p] = c]
    BY <1>0, <1>9 DEF Permit, TypeOK
  <2>4. QED
    BY <1>3, <2>2, <2>3 DEF Call
<1>10. ASSUME NEW p \in Proc, HandlerReads(p) PROVE RequestsConsistent'
  <2>1. PICK route \in Route, S \in SUBSET Record :
            /\ Handles(p, route)
            /\ Read(p, S)
            /\ \A r \in S : record[r] # None /\ record[r].org = call[p].org
    BY <1>10 DEF HandlerReads
  <2> DEFINE c == [call[p] EXCEPT !.touched = S]
  <2>2. call[p] \in Request /\ RequestHolds(call[p])
    BY <1>0, <1>2, <2>1, CallTypes DEF Handles, InFlight
  <2>3. c \in Request /\ RequestHolds(c)
    BY <2>1, <2>2 DEF Request, RequestHolds, Handles
  <2>4. Finish(p) \/ call' = [call EXCEPT ![p] = c]
    BY <1>0, <2>1 DEF Read, Touch, TypeOK
  <2>5. QED
    BY <1>3, <1>5, <2>3, <2>4 DEF Call
<1>11. ASSUME NEW p \in Proc, HandlerWrites(p) PROVE RequestsConsistent'
  <2>1. PICK r \in Record, row \in RecordRow :
            /\ Handles(p, "managers")
            /\ Write(p, r, row)
            /\ row.org = call[p].org
            /\ record[r] # None => record[r].org = call[p].org
    BY <1>11 DEF HandlerWrites
  <2>2. call[p] \in Request /\ RequestHolds(call[p]) /\ call[p].permitted
    BY <1>0, <1>2, <2>1, CallTypes DEF Handles, InFlight, Route
  <2>3. call' = [call EXCEPT ![p] = [call[p] EXCEPT !.touched = {r}]]
    BY <1>0, <2>1 DEF Write, Touch, TypeOK
  <2>4. record'[r] = row /\ record'[r] # None
    BY <1>0, <2>1 DEF Write, TypeOK
  <2>5. ASSUME NEW q \in Proc, call'[q] # None, call'[q].op \in Route PROVE RequestHolds(call[q])'
    <3>1. CASE q = p
      <4>1. call'[q] = [call[p] EXCEPT !.touched = {r}]
        BY <1>0, <2>3, <3>1 DEF TypeOK
      <4>2. /\ call'[q].org = call[p].org /\ call'[q].user = call[p].user
            /\ call'[q].op = call[p].op /\ call'[q].permitted /\ call'[q].touched = {r}
        BY <2>2, <4>1 DEF Request
      <4>3. call[p].org \in Org /\ call[p].user \in User
        BY <2>2 DEF Request
      <4>4. QED
        BY <1>1, <2>1, <2>2, <2>4, <4>2, <4>3 DEF RequestHolds, MembersAreKept
    <3>2. CASE q # p
      <4>1. call'[q] = call[q]
        BY <1>0, <2>3, <3>2 DEF TypeOK
      <4>2. call[q] \in Request /\ RequestHolds(call[q])
        BY <1>0, <1>2, <2>5, <4>1, CallTypes
      <4>3. QED
        BY <1>1, <4>1, <4>2 DEF RequestHolds, Request, MembersAreKept, RecordsAreKept
    <3>3. QED
      BY <3>1, <3>2
  <2>6. QED
    BY <2>5 DEF RequestsConsistent
<1>12. QED
    BY <1>0, <1>4, <1>5, <1>6, <1>7, <1>8, <1>9, <1>10, <1>11, HandlerCases
    DEF Next, Join, Serve, SignupCommit, AcceptCommit, IssueAccessToken, ExpireAccessToken,
        EndOfRequest, vars

LEMMA StepManagersExist == IInv /\ [Next]_vars => ManagersExist'
<1> SUFFICES ASSUME IInv, [Next]_vars, NEW o \in Org, Founded(o)'
             PROVE  \E u \in User : membership'[o][u] # None /\ membership'[o][u].role = "manager"
    BY DEF ManagersExist
<1>0. TypeOK /\ ManagersExist /\ MembersAreKept
    BY StepKeeps DEF IInv
<1>1. CASE Founded(o)
    BY <1>0, <1>1 DEF ManagersExist, MembersAreKept
<1>2. CASE ~ Founded(o)
  <2>1. PICK p \in Proc : SignupCommit(p) /\ call[p] \in SignupCall /\ call[p].org = o
    BY <1>0, <1>2, NewlyFounded
  <2>2. /\ call[p].user \in User
        /\ membership'[o][call[p].user] = Row("manager", call[p].began)
    BY <1>0, <2>1 DEF SignupCommit, SignupCall, TypeOK
  <2>3. Row("manager", call[p].began) \in MembershipRow
    BY <2>1 DEF SignupCall, Row, MembershipRow, Role
  <2>4. QED
    BY <2>2, <2>3 DEF Row
<1>3. QED
    BY <1>1, <1>2

LEMMA StepSignupsAlone == IInv /\ [Next]_vars => SignupsAlone'
<1> SUFFICES ASSUME IInv, [Next]_vars, NEW p \in Proc, InFlight(p, "signup")'
             PROVE  /\ ~ Founded(call[p].org)'
                    /\ \A q \in Proc : InFlight(q, "signup")' /\ call'[q].org = call'[p].org => q = p
    BY DEF SignupsAlone
<1>0. TypeOK /\ SignupsAlone
    BY DEF IInv
<1>1. ASSUME NEW q \in Proc, InFlight(q, "signup")'
      PROVE  \/ InFlight(q, "signup") /\ call'[q] = call[q] /\ call[q] \in SignupCall
             \/ \E u \in User, o \in Org : SignupBegin(q, u, o) /\ call'[q].org = o
  <2>1. CASE call'[q] = call[q]
    BY <1>0, <1>1, <2>1, CallTypes DEF InFlight
  <2>2. ASSUME NEW u \in User, NEW o \in Org, SignupBegin(q, u, o) PROVE call'[q].org = o
    BY <1>0, <2>2 DEF SignupBegin, Begin, TypeOK
  <2>3. ASSUME NEW u \in User, NEW o \in Org, NEW role \in Role, AcceptBegin(q, u, o, role)
        PROVE  FALSE
    BY <1>0, <1>1, <2>3 DEF AcceptBegin, Begin, InFlight, TypeOK
  <2>4. QED
    BY <1>0, <1>1, <2>1, <2>2, <2>3, JoiningSteps
<1>2. ASSUME NEW q \in Proc, NEW u \in User, NEW o \in Org, SignupBegin(q, u, o),
             NEW r \in Proc, r # q, InFlight(r, "signup")'
      PROVE  call'[r].org # o
    BY <1>0, <1>2 DEF SignupBegin, Begin, InFlight, TypeOK
<1>3. ASSUME NEW q \in Proc, InFlight(q, "signup")', call'[q].org = call'[p].org PROVE q = p
    BY <1>0, <1>1, <1>2, <1>3 DEF SignupsAlone
<1>4. ~ Founded(call[p].org)'
  <2>1. CASE InFlight(p, "signup") /\ call'[p] = call[p] /\ call[p] \in SignupCall
    <3>1. ~ Founded(call[p].org) /\ call[p].org \in Org
      BY <1>0, <2>1 DEF SignupsAlone, SignupCall
    <3>2. ASSUME NEW q \in Proc, SignupCommit(q), call[q].org = call[p].org PROVE FALSE
      <4>1. q = p
        BY <1>0, <2>1, <3>2 DEF SignupsAlone, SignupCommit
      <4>2. call'[p] = None
        BY <1>0, <3>2, <4>1 DEF SignupCommit, Finish, TypeOK
      <4>3. QED
        BY <4>2 DEF InFlight
    <3>3. ASSUME NEW o \in Org, o = call[p].org PROVE ~ Founded(o)'
      BY <1>0, <3>1, <3>2, <3>3, NewlyFounded
    <3>4. QED
      BY <2>1, <3>1, <3>3 DEF Founded
  <2>2. ASSUME NEW u \in User, NEW o \in Org, SignupBegin(p, u, o), call'[p].org = o
        PROVE  ~ Founded(call[p].org)'
    BY <2>2 DEF SignupBegin, Begin, Founded
  <2>3. QED
    BY <1>1, <2>1, <2>2
<1>5. QED
    BY <1>3, <1>4

LEMMA InitIInv == Init => IInv
<1> SUFFICES ASSUME Init PROVE IInv
    OBVIOUS
<1>1. /\ TimesConsistent /\ TokensConsistent /\ RequestsConsistent
      /\ ManagersExist /\ SignupsAlone
    BY DEF Init, TimesConsistent, TokensConsistent, RequestsConsistent, ManagersExist,
           SignupsAlone, Founded, InFlight
<1>2. QED
    BY <1>1, InitType DEF IInv

LEMMA StepIInv == IInv /\ [Next]_vars => IInv'
    BY StepType, StepTimes, StepTokens, StepRequests, StepManagersExist, StepSignupsAlone DEF IInv

-----------------------------------------------------------------------------
(***************************************************************************)
(* Theorems.                                                               *)
(***************************************************************************)

(* What tokens and requests in flight say of memberships and records is    *)
(* true in every reachable state, however old they are.                    *)
THEOREM Consistent == Spec => []IInv
    BY InitIInv, StepIInv, PTL DEF Spec

(* Every row, token and request has its type.                              *)
THEOREM TypeCorrect == Spec => []TypeOK
    BY Consistent, PTL DEF IInv

(* Whoever writes a record or is shown invitations is a manager or an      *)
(* admin of their organization.                                            *)
THEOREM ManagersManage == Spec => []OnlyManagersManage
<1>1. IInv => OnlyManagersManage
  <2> SUFFICES ASSUME IInv, NEW p \in Proc, InFlight(p, "managers"), NEW r \in call[p].touched
               PROVE  LET m == membership[record[r].org][call[p].user]
                      IN m # None /\ m.role \in {"manager", "admin"}
    BY DEF OnlyManagersManage
  <2>1. RequestHolds(call[p]) /\ call[p].op = "managers"
    BY DEF IInv, RequestsConsistent, InFlight, Route
  <2>2. QED
    BY <2>1 DEF RequestHolds, CanManageMembers
<1>2. QED
    BY <1>1, Consistent, PTL

(* Whoever is given a record to read is a member of its organization.      *)
THEOREM AnswersInside == Spec => []AnswersStayInside
<1>1. IInv => AnswersStayInside
  <2> SUFFICES ASSUME IInv, NEW p \in Proc, InFlight(p, "members"), NEW r \in call[p].touched
               PROVE  membership[record[r].org][call[p].user] # None
    BY DEF AnswersStayInside
  <2>1. RequestHolds(call[p])
    BY DEF IInv, RequestsConsistent, InFlight, Route
  <2>2. QED
    BY <2>1 DEF RequestHolds
<1>2. QED
    BY <1>1, Consistent, PTL

(* The oldest membership of a settled user is older than whatever is about *)
(* to be added, so it stays the oldest.                                    *)
LEMMA StepSettled ==
    ASSUME IInv, [Next]_vars, NEW u \in User, NEW o \in Org, Settled(u), Oldest(u, o)
    PROVE  Settled(u)' /\ Oldest(u, o)'
<1>0. TypeOK /\ TypeOK' /\ TimesConsistent /\ MembersAreKept
    BY StepType, StepKeeps DEF IInv
<1> DEFINE home == membership[o][u].created
<1>1. /\ membership[o][u] # None
      /\ membership'[o][u] = membership[o][u]
      /\ home \in Nat
      /\ home <= begun /\ begun \in Nat
    BY <1>0 DEF Oldest, MembersAreKept, TimesConsistent, TypeOK, MembershipRow
<1>2. ASSUME NEW p \in Proc, InFlight(p, "accept"), call[p].user = u
      PROVE  home < call[p].began
  <2>1. PICK h \in Org : Oldest(u, h) /\ membership[h][u].created < call[p].began
    BY <1>2 DEF Settled
  <2>2. membership[h][u].created \in Nat
    BY <1>0, <2>1 DEF Oldest, TypeOK, MembershipRow
  <2>3. home <= membership[h][u].created /\ membership[h][u].created <= home
    BY <2>1 DEF Oldest
  <2>4. QED
    BY <1>1, <2>1, <2>2, <2>3
<1>3. ASSUME NEW q \in Org, membership'[q][u] # None
      PROVE  home <= membership'[q][u].created
  <2>1. CASE membership'[q][u] = membership[q][u]
    BY <1>3, <2>1 DEF Oldest
  <2>2. CASE membership'[q][u] # membership[q][u]
    <3>1. PICK p \in Proc : SignupCommit(p) \/ AcceptCommit(p)
      BY <1>0, <2>2, StepMembers
    <3>2. call[p].user = u /\ membership'[q][u].created = call[p].began
      BY <1>0, <2>2, <3>1, JoinKeeps
    <3>3. ~ SignupCommit(p)
      BY <1>1, <3>2 DEF SignupCommit, Registered
    <3>4. InFlight(p, "accept")
      BY <3>1, <3>3 DEF AcceptCommit
    <3>5. call[p].began \in Nat
      BY <1>0, <3>4, CallTypes DEF InFlight, AcceptCall
    <3>6. QED
      BY <1>1, <1>2, <3>2, <3>4, <3>5
  <2>3. QED
    BY <2>1, <2>2
<1>4. Oldest(u, o)'
    BY <1>1, <1>3 DEF Oldest
<1>5. ASSUME NEW p \in Proc, InFlight(p, "accept")', call'[p].user = u
      PROVE  home < call'[p].began
  <2>1. CASE call'[p] = call[p]
    BY <1>2, <1>5, <2>1 DEF InFlight
  <2>2. CASE call'[p].began = begun + 1
    BY <1>1, <2>2
  <2>3. QED
    BY <1>0, <1>5, <2>1, <2>2, JoiningBegins
<1>6. QED
    BY <1>1, <1>4, <1>5 DEF Settled

(* A user's tokens name one organization for good, once the acceptances    *)
(* that began before his oldest membership are over.                       *)
THEOREM HomeSettled == Spec => HomeIsSettled
<1> DEFINE Step == \A u \in User, o \in Org : Settled(u) /\ Oldest(u, o) =>
                      Settled(u)' /\ Oldest(u, o)'
<1>1. IInv /\ [Next]_vars => Step
    BY StepSettled
<1>2. IInv /\ [Next]_vars => [Step]_vars
    BY <1>1
<1>3. Spec => [][Step]_vars
    BY Consistent, <1>2, PTL DEF Spec
<1>4. QED
    BY <1>3 DEF HomeIsSettled

(* Memberships.  A row that is written shows as its role. *)
LEMMA RoleWritten ==
    ASSUME TypeOK, NEW o \in Org, NEW u \in User, NEW row \in MembershipRow,
           membership' = [membership EXCEPT ![o][u] = row]
    PROVE  roleOf' = [roleOf EXCEPT ![o][u] = row.role]
<1>1. ASSUME NEW q \in Org, NEW v \in User
      PROVE  membership'[q][v] = IF q = o /\ v = u THEN row ELSE membership[q][v]
    BY DEF TypeOK
<1>2. row # None
    OBVIOUS
<1>3. roleOf' = [q \in Org |-> [v \in User |->
                    IF q = o /\ v = u THEN row.role ELSE roleOf[q][v]]]
    BY <1>1, <1>2 DEF roleOf
<1>4. roleOf = [q \in Org |-> [v \in User |-> roleOf[q][v]]]
    BY DEF roleOf
<1>5. QED
    BY <1>3, <1>4

(* A sign-up founds: its organization is still without a member, and its   *)
(* user without an organization.                                           *)
LEMMA SignupFounds ==
    ASSUME IInv, NEW p \in Proc, SignupCommit(p)
    PROVE  \E o \in Org, u \in User : Members!Found(o, u)
<1> DEFINE o == call[p].org
           u == call[p].user
<1>1. call[p] \in SignupCall /\ o \in Org /\ u \in User /\ TypeOK
    BY CallTypes DEF SignupCommit, InFlight, IInv, SignupCall
<1>2. \A v \in User : membership[o][v] = None
    BY <1>1 DEF IInv, SignupsAlone, SignupCommit, Founded
<1>3. \A q \in Org : membership[q][u] = None
    BY DEF SignupCommit, Registered
<1>4. Row("manager", call[p].began) \in MembershipRow
    BY <1>1 DEF SignupCall, Row, MembershipRow, Role
<1>5. membership' = [membership EXCEPT ![o][u] = Row("manager", call[p].began)]
    BY DEF SignupCommit
<1>6. roleOf' = [roleOf EXCEPT ![o][u] = "manager"]
    BY <1>1, <1>4, <1>5, RoleWritten DEF Row
<1>7. Members!Found(o, u)
    BY <1>1, <1>2, <1>3, <1>6 DEF Members!Found, roleOf
<1>8. QED
    BY <1>1, <1>7

(* An acceptance joins: any manager there is may have granted the role.    *)
LEMMA AcceptanceJoins ==
    ASSUME IInv, NEW p \in Proc, AcceptCommit(p), membership' # membership
    PROVE  \E o \in Org, by, u \in User, role \in Role : Members!Join(o, by, u, role)
<1> DEFINE o == call[p].org
           u == call[p].user
           role == call[p].role
<1>1. call[p] \in AcceptCall /\ o \in Org /\ u \in User /\ role \in Role /\ TypeOK
    BY CallTypes DEF AcceptCommit, InFlight, IInv, AcceptCall
<1>2. PICK by \in User : membership[o][by] # None /\ membership[o][by].role = "manager"
    BY <1>1 DEF IInv, ManagersExist, AcceptCommit
<1>3. PICK row \in MembershipRow :
          /\ row.role = role
          /\ membership[o][u] = None
          /\ membership' = [membership EXCEPT ![o][u] = row]
  <2>1. Row(role, call[p].began) \in MembershipRow /\ Row(role, call[p].began).role = role
    BY <1>1 DEF AcceptCall, Row, MembershipRow
  <2>2. QED
    BY <2>1 DEF AcceptCommit
<1>4. roleOf' = [roleOf EXCEPT ![o][u] = row.role]
    BY <1>1, <1>3, RoleWritten
<1>5. Members!MayGrant(roleOf[o][by], role)
    BY <1>1, <1>2 DEF Members!MayGrant, roleOf
<1>6. Members!Join(o, by, u, role)
    BY <1>1, <1>3, <1>4, <1>5 DEF Members!Join, roleOf
<1>7. QED
    BY <1>1, <1>6

LEMMA StepMemberships ==
    ASSUME IInv, [Next]_vars
    PROVE  [Members!Next]_roleOf
<1>1. CASE UNCHANGED membership
    BY <1>1 DEF roleOf
<1>2. ASSUME NEW p \in Proc, SignupCommit(p) PROVE Members!Next
    BY <1>2, SignupFounds DEF Members!Next
<1>3. ASSUME NEW p \in Proc, AcceptCommit(p), membership' # membership PROVE Members!Next
    BY <1>3, AcceptanceJoins DEF Members!Next, Members!Role, Role
<1>4. QED
    BY <1>1, <1>2, <1>3, StepMembers DEF IInv

(* Acceptance as one commit, which is how this module sees it, keeps what  *)
(* Memberships promises, as the requests of Invitations do.                *)
THEOREM MembershipsAsPromised == Spec => Members!Spec
<1>1. Init => Members!Init
    BY DEF Init, Members!Init, roleOf
<1>2. IInv /\ [Next]_vars => [Members!Next]_roleOf
    BY StepMemberships
<1>3. QED
    BY <1>1, <1>2, Consistent, PTL DEF Spec, Members!Spec

=============================================================================
