-------------------------------- MODULE Access --------------------------------
(***************************************************************************)
(* Who may act on the data of an organization: access tokens, the          *)
(* middleware that checks them, and the handlers behind the middleware, of *)
(* customers, items and invitations (internal/http, internal/core).        *)
(*                                                                         *)
(* An access token names its user and one organization, that of the user's *)
(* oldest membership when the token was issued; nothing revokes it.  A     *)
(* request carries on with what its token said, looks its membership up in *)
(* a statement of its own on a route for managers, and reaches the records *)
(* by a last statement.  That of a customer or an item is scoped to the    *)
(* token's organization, that of an invitation to the one in the path of   *)
(* the request, which its handler has compared with the token's.           *)
(*                                                                         *)
(* memberships.created_at is now(): the time its transaction BEGAN.  A     *)
(* sign-up registers its user by what it commits; an acceptance may have   *)
(* begun before that and find the user registered all the same.  No two    *)
(* transactions begin at the same microsecond.  A user is registered by    *)
(* the transaction that gives the first membership, and no code changes or *)
(* removes a membership.                                                   *)
(*                                                                         *)
(* Unique indexes, rate limits and the validation of requests only ever    *)
(* refuse; EndOfRequest stands for that.  What the three kinds of records  *)
(* hold is the matter of Catalog and Invitations.                          *)
(***************************************************************************)
EXTENDS Naturals, FiniteSets

CONSTANTS
    Org,       \* organizations
    User,      \* users, by their e-mail address
    Customer,  \* customers, items and invitations, by their ids
    Item,
    Invitation,
    Proc,      \* requests being served
    None,      \* the value of a row or request that does not exist
    MaxBegun   \* bound on the transactions that join users, for model checking

VARIABLES
    membership, \* rows of memberships
    begun,      \* transactions begun so far: the clock behind created_at
    token,      \* access tokens that have not expired: user and organization
    record,     \* rows of customers, items and invitations
    call        \* requests in flight, with what they carry and have read

vars == <<membership, begun, token, record, call>>

Role == {"manager", "admin", "member"}
MembershipRow == [role : Role, created : 1 .. MaxBegun]

Record    == Customer \cup Item \cup Invitation
RecordRow == [org : Org, gone : BOOLEAN]

SignupCall == [op : {"signup"}, user : User, org : Org, began : 1 .. MaxBegun]
AcceptCall == [op : {"accept"}, user : User, org : Org, role : Role, began : 1 .. MaxBegun]

(* The routes, by their middleware: every member's, and the managers'.     *)
(* touched holds what the request has read to answer with, or has written. *)
Route   == {"members", "managers"}
Request == [op : Route, user : User, org : Org, permitted : BOOLEAN, touched : SUBSET Record]
Call == SignupCall \cup AcceptCall \cup Request

ASSUME BoundAssumption == MaxBegun \in Nat

(* A row or request is told apart from its absence. *)
ASSUME NoneAssumption == None \notin MembershipRow \cup RecordRow \cup Call

Init ==
    /\ membership = [o \in Org |-> [u \in User |-> None]]
    /\ begun      = 0
    /\ token      = {}
    /\ record     = [r \in Record |-> None]
    /\ call       = [p \in Proc |-> None]

InFlight(p, op) == call[p] # None /\ call[p].op = op
Finish(p) == call' = [call EXCEPT ![p] = None]

Founded(o)    == \E u \in User : membership[o][u] # None
Registered(u) == \E o \in Org : membership[o][u] # None

-----------------------------------------------------------------------------
(***************************************************************************)
(* Transactions that join a user to an organization.                       *)
(***************************************************************************)

(* BEGIN fixes now() for the transaction. *)
Begin(p, c) ==
    /\ call[p] = None
    /\ begun < MaxBegun
    /\ begun' = begun + 1
    /\ call'  = [call EXCEPT ![p] = c]
    /\ UNCHANGED <<membership, token, record>>

(* The organization of a sign-up is new, and its own. *)
SignupBegin(p, u, o) ==
    /\ ~ Founded(o)
    /\ \A q \in Proc : InFlight(q, "signup") => call[q].org # o
    /\ Begin(p, [op |-> "signup", user |-> u, org |-> o, began |-> begun + 1])

AcceptBegin(p, u, o, role) ==
    Begin(p, [op |-> "accept", user |-> u, org |-> o, role |-> role, began |-> begun + 1])

(* Regression: the row is dated before the transaction it comes from. *)
DatedBefore(role, began) == [role |-> role, created |-> began - 1]

(* INSERT INTO memberships: created_at is the transaction's now(). *)
Row(role, began) == [role |-> role, created |-> began]

(* The user, the organization and the membership, in one commit. *)
SignupCommit(p) ==
    /\ InFlight(p, "signup")
    /\ LET c == call[p]
       IN /\ ~ Registered(c.user)
          /\ membership' = [membership EXCEPT ![c.org][c.user] = Row("manager", c.began)]
    /\ Finish(p)
    /\ UNCHANGED <<begun, token, record>>

(* joinOrganization, for a user who exists or who is created on the way;   *)
(* nothing is written for a member.  (Modelled in full by Invitations.)    *)
AcceptCommit(p) ==
    /\ InFlight(p, "accept")
    /\ LET c == call[p]
       IN /\ Founded(c.org)
          /\ membership' = IF membership[c.org][c.user] = None
                           THEN [membership EXCEPT ![c.org][c.user] = Row(c.role, c.began)]
                           ELSE membership
    /\ Finish(p)
    /\ UNCHANGED <<begun, token, record>>

-----------------------------------------------------------------------------
(***************************************************************************)
(* Access tokens.                                                          *)
(***************************************************************************)

(* Regression: ORDER BY created_at DESC. *)
Newest(u, o) ==
    /\ membership[o][u] # None
    /\ \A q \in Org : membership[q][u] # None =>
          membership[q][u].created <= membership[o][u].created

(* findMembershipByUserID: ORDER BY created_at LIMIT 1. *)
Oldest(u, o) ==
    /\ membership[o][u] # None
    /\ \A q \in Org : membership[q][u] # None =>
          membership[o][u].created <= membership[q][u].created

(* A sign-in or a refresh of u succeeds. *)
IssueAccessToken(u) ==
    /\ \E o \in Org : Oldest(u, o) /\ token' = token \cup {<<u, o>>}
    /\ UNCHANGED <<membership, begun, record, call>>

ExpireAccessToken(t) ==
    /\ t \in token
    /\ token' = token \ {t}
    /\ UNCHANGED <<membership, begun, record, call>>

-----------------------------------------------------------------------------
(***************************************************************************)
(* Requests.                                                               *)
(***************************************************************************)

(* RequireAuth: from here on the request is its token's user and organization. *)
Authenticate(p, t, route) ==
    /\ call[p] = None
    /\ t \in token
    /\ call' = [call EXCEPT ![p] =
          [op |-> route, user |-> t[1], org |-> t[2],
           permitted |-> route = "members", touched |-> {}]]
    /\ UNCHANGED <<membership, begun, token, record>>

(* Regression: RequireCanViewOrganization in front of the managers' routes. *)
CanView == Role

CanManageMembers == {"manager", "admin"}

(* The membership of the request's user in an organization, at this moment. *)
HasRole(q, o, roles) ==
    LET m == membership[o][q.user] IN m # None /\ m.role \in roles

(* RequireOrganizationPermission re-reads the membership; a request that   *)
(* it refuses ends, by EndOfRequest.                                       *)
Permit(p) ==
    /\ InFlight(p, "managers")
    /\ ~ call[p].permitted
    /\ HasRole(call[p], call[p].org, CanManageMembers)
    /\ call' = [call EXCEPT ![p].permitted = TRUE]
    /\ UNCHANGED <<membership, begun, token, record>>

(* The request is with the handler, which has yet to do its work. *)
Handles(p, route) ==
    /\ InFlight(p, route)
    /\ call[p].permitted
    /\ call[p].touched = {}

(* An answer with nothing in it ends the request at once. *)
Touch(p, S) == IF S = {} THEN Finish(p) ELSE call' = [call EXCEPT ![p].touched = S]

Read(p, S) ==
    /\ Touch(p, S)
    /\ UNCHANGED <<membership, begun, token, record>>

Write(p, r, row) ==
    /\ record' = [record EXCEPT ![r] = row]
    /\ Touch(p, {r})
    /\ UNCHANGED <<membership, begun, token>>

(* Regression: WHERE id = $1, whatever the organization. *)
FoundAnywhere(o, r) == record[r] # None /\ ~ record[r].gone

(* WHERE id = $1 AND organization_id = $2 AND deleted_at IS NULL. *)
Found(o, r) == record[r] # None /\ record[r].org = o /\ ~ record[r].gone

Inserted(o) == [org |-> o, gone |-> FALSE]
SoftDeleted(row) == [row EXCEPT !.gone = TRUE]

-----------------------------------------------------------------------------
(***************************************************************************)
(* Customers and items: the organization is the token's.                   *)
(***************************************************************************)

(* The id is new. *)
Create(p, r) ==
    /\ Handles(p, "managers")
    /\ record[r] = None
    /\ Write(p, r, Inserted(call[p].org))

Get(p, r) ==
    /\ Handles(p, "members")
    /\ Found(call[p].org, r)
    /\ Read(p, {r})

List(p, Kind) ==
    /\ Handles(p, "members")
    /\ Read(p, {r \in Kind : Found(call[p].org, r)})

Update(p, r) ==
    /\ Handles(p, "managers")
    /\ Found(call[p].org, r)
    /\ Write(p, r, record[r])

Delete(p, r) ==
    /\ Handles(p, "managers")
    /\ Found(call[p].org, r)
    /\ Write(p, r, SoftDeleted(record[r]))

CustomerHandler(p) ==
    \/ \E c \in Customer : Create(p, c) \/ Get(p, c) \/ Update(p, c) \/ Delete(p, c)
    \/ List(p, Customer)

ItemHandler(p) ==
    \/ \E i \in Item : Create(p, i) \/ Get(p, i) \/ Update(p, i) \/ Delete(p, i)
    \/ List(p, Item)

-----------------------------------------------------------------------------
(***************************************************************************)
(* Invitations: the organization is that of the path, o.                   *)
(***************************************************************************)

(* Regression: the path is not compared with the token. *)
AnyOrganization(q, o) == TRUE

AuthorizedOrganization(q, o) == q.org = o

(* AuthorizationService.Authorize and the policy: another look at the      *)
(* membership, now in the organization of the path.                        *)
CreateInvitation(p, o, v) ==
    /\ Handles(p, "managers")
    /\ AuthorizedOrganization(call[p], o)
    /\ HasRole(call[p], o, CanManageMembers)
    /\ record[v] = None
    /\ Write(p, v, Inserted(o))

(* The list has every invitation there has been, and looks no role up. *)
ListInvitations(p, o) ==
    /\ Handles(p, "managers")
    /\ AuthorizedOrganization(call[p], o)
    /\ Read(p, {v \in Invitation : record[v] # None /\ record[v].org = o})

(* One that is over is left as it is. *)
RevokeInvitation(p, o, v) ==
    /\ Handles(p, "managers")
    /\ AuthorizedOrganization(call[p], o)
    /\ HasRole(call[p], o, CanManageMembers)
    /\ record[v] # None
    /\ record[v].org = o
    /\ Write(p, v, SoftDeleted(record[v]))

InvitationHandler(p) ==
    \E o \in Org :
        \/ \E v \in Invitation : CreateInvitation(p, o, v) \/ RevokeInvitation(p, o, v)
        \/ ListInvitations(p, o)

-----------------------------------------------------------------------------

(* A request is answered, refused or cancelled, or its transaction rolls back. *)
EndOfRequest(p) ==
    /\ call[p] # None
    /\ Finish(p)
    /\ UNCHANGED <<membership, begun, token, record>>

-----------------------------------------------------------------------------

Join(p) ==
    \/ \E u \in User, o \in Org :
          \/ SignupBegin(p, u, o)
          \/ \E role \in Role : AcceptBegin(p, u, o, role)
    \/ SignupCommit(p)
    \/ AcceptCommit(p)

Serve(p) ==
    \/ \E t \in token, route \in Route : Authenticate(p, t, route)
    \/ Permit(p)
    \/ CustomerHandler(p)
    \/ ItemHandler(p)
    \/ InvitationHandler(p)
    \/ EndOfRequest(p)

Next ==
    \/ \E p \in Proc : Join(p) \/ Serve(p)
    \/ \E u \in User : IssueAccessToken(u)
    \/ \E t \in token : ExpireAccessToken(t)

Spec == Init /\ [][Next]_vars

-----------------------------------------------------------------------------
(***************************************************************************)
(* Properties.                                                             *)
(***************************************************************************)

(* Every row, token and request has its type. *)
TypeOK ==
    /\ membership \in [Org -> [User -> MembershipRow \cup {None}]]
    /\ begun \in 0 .. MaxBegun
    /\ token \subseteq User \X Org
    /\ record \in [Record -> RecordRow \cup {None}]
    /\ call \in [Proc -> Call \cup {None}]

(* Whoever creates, changes, deletes or revokes a record, and whoever is   *)
(* shown invitations, is a manager or an admin of the organization that    *)
(* the records belong to: the token, the path, the membership that is      *)
(* looked up and the statement each know only part of it.                  *)
OnlyManagersManage ==
    \A p \in Proc : InFlight(p, "managers") =>
        \A r \in call[p].touched :
            LET m == membership[record[r].org][call[p].user]
            IN m # None /\ m.role \in {"manager", "admin"}

(* What a request has been given to answer belongs to an organization its  *)
(* user is a member of, although reads pass no permission check at all.    *)
AnswersStayInside ==
    \A p \in Proc : InFlight(p, "members") =>
        \A r \in call[p].touched : membership[record[r].org][call[p].user] # None

(* No acceptance in flight for u began before the membership that u's      *)
(* tokens come from.                                                       *)
Settled(u) ==
    \E o \in Org :
        /\ Oldest(u, o)
        /\ \A p \in Proc : InFlight(p, "accept") /\ call[p].user = u =>
              membership[o][u].created < call[p].began

(* Once the acceptances that overlapped a sign-up are over, a user's       *)
(* tokens name the same organization for good: joining others, in any      *)
(* order of commits, never moves the user out of it.                       *)
HomeIsSettled ==
    [][\A u \in User, o \in Org : Settled(u) /\ Oldest(u, o) =>
          Settled(u)' /\ Oldest(u, o)']_vars

-----------------------------------------------------------------------------
(***************************************************************************)
(* What this module assumes of joining: sign-ups and acceptances that      *)
(* commit in whatever order use memberships as Memberships promises, which *)
(* Invitations, where the requests to join are, implements too.            *)
(***************************************************************************)

(* memberships.role, for whoever does not look at created_at. *)
roleOf ==
    [o \in Org |-> [u \in User |->
        IF membership[o][u] = None THEN None ELSE membership[o][u].role]]

Members == INSTANCE Memberships WITH member <- roleOf

=============================================================================
