----------------------------- MODULE Invitations -----------------------------
(***************************************************************************)
(* Organization invitations: create, accept and revoke                     *)
(* (internal/core/organization/application), with the sign-up that founds  *)
(* an organization.                                                        *)
(*                                                                         *)
(* Creating and revoking run statement by statement without a transaction. *)
(* Accepting is one READ COMMITTED transaction: its reads see whatever is  *)
(* committed when each runs, and its writes take effect together, when it  *)
(* commits.  A unique violation aborts it: PostgreSQL makes the second of  *)
(* two transactions that insert the same key wait for the first, so the    *)
(* index is checked against what is committed by then.                     *)
(*                                                                         *)
(* A user is named by an e-mail address (users.email is unique).  No code  *)
(* changes or removes a membership or a user, so what Authorize and        *)
(* ensureNotAlreadyMember of a member read stays true.                     *)
(***************************************************************************)
EXTENDS Naturals, FiniteSets

CONSTANTS
    Org,        \* organizations
    Email,      \* addresses, and the users registered under them
    Invitation, \* invitations, each with its random token
    Proc,       \* requests being served
    None        \* the value of a row or request that does not exist

VARIABLES
    registered, \* addresses that have a row in users
    member,     \* memberships.role
    invitation, \* rows of invitations
    call,       \* requests in flight, with what they have read
    (***********************************************************************)
    (* History.                                                            *)
    (***********************************************************************)
    founder,    \* who signed up with an organization
    revoker,    \* who revoked an invitation
    joined      \* invitations that made somebody a member

history == <<founder, revoker, joined>>
vars == <<registered, member, invitation, call, founder, revoker, joined>>

Role == {"manager", "admin", "member"}

(* An invitation is live, about as old as its expiry (the database clock   *)
(* and the application clocks may disagree on it), or expired.             *)
Age == {"live", "borderline", "expired"}

InvitationRow == [org : Org, email : Email, role : Role, by : Email,
                  age : Age, accepted : BOOLEAN, revoked : BOOLEAN]

CreateCall == [op : {"create"}, org : Org, by : Email, email : Email,
               role : Role, checked : BOOLEAN]
AcceptCall == [op : {"accept"}, inv : Invitation, signup : BOOLEAN, expired : BOOLEAN,
               accepted : BOOLEAN, revoked : BOOLEAN, late : BOOLEAN,
               todo : {"find", "resolve", "mark", "join", "signup"}]
RevokeCall == [op : {"revoke"}, inv : Invitation, by : Email]
Call == CreateCall \cup AcceptCall \cup RevokeCall

(* A row or request is told apart from its absence. *)
ASSUME NoneAssumption == None \notin Role \cup InvitationRow \cup Call \cup Email

Init ==
    /\ registered = {}
    /\ member     = [o \in Org |-> [e \in Email |-> None]]
    /\ invitation = [i \in Invitation |-> None]
    /\ call       = [p \in Proc |-> None]
    /\ founder    = [o \in Org |-> None]
    /\ revoker    = [i \in Invitation |-> None]
    /\ joined     = {}

InFlight(p, op) == call[p] # None /\ call[p].op = op
Finish(p) == call' = [call EXCEPT ![p] = None]
Proceed(p, c) == call' = [call EXCEPT ![p] = c]

Issued == {i \in Invitation : invitation[i] # None}

-----------------------------------------------------------------------------
(***************************************************************************)
(* authorization_policy.go.                                                *)
(***************************************************************************)

(* CanCreateInvitation and CanAssignInvitationRole. *)
CanInvite(role, target) ==
    \/ role = "manager"
    \/ role = "admin" /\ target \in {"admin", "member"}

CanRevokeInvitation(role, target) ==
    \/ role = "manager"
    \/ role = "admin" /\ target \in {"admin", "member"}

-----------------------------------------------------------------------------

(* The sign-up transaction: user, organization and its first manager. *)
Signup(e, o) ==
    /\ e \notin registered
    /\ founder[o] = None
    /\ registered' = registered \cup {e}
    /\ member'     = [member EXCEPT ![o][e] = "manager"]
    /\ founder'    = [founder EXCEPT ![o] = e]
    /\ UNCHANGED <<invitation, call, revoker, joined>>

-----------------------------------------------------------------------------
(***************************************************************************)
(* Create: two checks, then the INSERT.                                    *)
(***************************************************************************)

(* Authorize and ensureNotAlreadyMember. *)
CreateBegin(p, by, o, e, role) ==
    /\ call[p] = None
    /\ member[o][by] # None
    /\ CanInvite(member[o][by], role)
    /\ member[o][e] = None
    /\ Proceed(p, [op |-> "create", org |-> o, by |-> by, email |-> e,
                   role |-> role, checked |-> FALSE])
    /\ UNCHANGED <<registered, member, invitation, history>>

(* The invitations of e to o that are neither accepted nor revoked. *)
InPlay(o, e) ==
    {i \in Issued : /\ invitation[i].org = o
                    /\ invitation[i].email = e
                    /\ ~ invitation[i].accepted
                    /\ ~ invitation[i].revoked}

(* ensureNoPendingInvitation: nothing in play has expires_at > now(). *)
CreateCheck(p) ==
    /\ InFlight(p, "create")
    /\ ~ call[p].checked
    /\ \A i \in InPlay(call[p].org, call[p].email) : invitation[i].age # "live"
    /\ Proceed(p, [call[p] EXCEPT !.checked = TRUE])
    /\ UNCHANGED <<registered, member, invitation, history>>

(* Regression: no unique index behind the check. *)
Unindexed(o, e) == TRUE

(* invitations_pending_organization_id_email_idx, which cannot know what   *)
(* time it is.                                                             *)
IndexAdmits(o, e) == InPlay(o, e) = {}

CreateInsert(p, i) ==
    /\ InFlight(p, "create")
    /\ call[p].checked
    /\ invitation[i] = None
    /\ IndexAdmits(call[p].org, call[p].email)
    /\ invitation' = [invitation EXCEPT ![i] =
          [org |-> call[p].org, email |-> call[p].email, role |-> call[p].role,
           by |-> call[p].by, age |-> "live", accepted |-> FALSE, revoked |-> FALSE]]
    /\ Finish(p)
    /\ UNCHANGED <<registered, member, history>>

-----------------------------------------------------------------------------
(***************************************************************************)
(* Accept: one transaction.                                                *)
(***************************************************************************)

(* What an application clock makes of the age of an invitation. *)
ReadExpired(age) ==
    CASE age = "live"       -> {FALSE}
      [] age = "borderline" -> BOOLEAN
      [] age = "expired"    -> {TRUE}

OutOfPlay(i) ==
    \/ invitation[i].accepted
    \/ invitation[i].revoked
    \/ invitation[i].age = "expired"

(* The clock is read before the transaction begins.  The request carries a *)
(* name and a password (signup) or neither; one without the other is       *)
(* refused on either path.  late is history: no guard reads it.            *)
AcceptBegin(p, i, signup) ==
    /\ call[p] = None
    /\ i \in Issued
    /\ \E expired \in ReadExpired(invitation[i].age) :
          Proceed(p, [op |-> "accept", inv |-> i, signup |-> signup, expired |-> expired,
                      accepted |-> FALSE, revoked |-> FALSE, late |-> OutOfPlay(i),
                      todo |-> "find"])
    /\ UNCHANGED <<registered, member, invitation, history>>

(* FindByTokenDigest. *)
AcceptFind(p) ==
    /\ InFlight(p, "accept")
    /\ call[p].todo = "find"
    /\ LET row == invitation[call[p].inv]
       IN Proceed(p, [call[p] EXCEPT !.accepted = row.accepted,
                                     !.revoked = row.revoked, !.todo = "resolve"])
    /\ UNCHANGED <<registered, member, invitation, history>>

(* Regression: a revoked invitation passes. *)
ValidUnlessAccepted(c) == ~ c.accepted /\ ~ c.expired

(* Invitation.Validate. *)
Valid(c) == ~ c.accepted /\ ~ c.revoked /\ ~ c.expired

(* FindByEmail and FindByUserAndOrganization choose one of three ways on.  *)
(* Whoever is a member already gets the invitation stamped, without        *)
(* Validate.  The way of a member whose invitation is stamped already, and *)
(* every refusal, ends here without a write: see Abandon.                  *)
AcceptResolve(p) ==
    /\ InFlight(p, "accept")
    /\ call[p].todo = "resolve"
    /\ LET c == call[p]
           o == invitation[c.inv].org
           e == invitation[c.inv].email
       IN \/ /\ e \in registered
             /\ ~ c.signup
             /\ member[o][e] # None
             /\ ~ c.accepted
             /\ Proceed(p, [c EXCEPT !.todo = "mark"])
          \/ /\ e \in registered
             /\ ~ c.signup
             /\ member[o][e] = None
             /\ Valid(c)
             /\ Proceed(p, [c EXCEPT !.todo = "join"])
          \/ /\ e \notin registered
             /\ c.signup
             /\ Valid(c)
             /\ Proceed(p, [c EXCEPT !.todo = "signup"])
    /\ UNCHANGED <<registered, member, invitation, history>>

(* MarkAccepted and MarkRevoked: UPDATE ... WHERE id, whatever the row holds. *)
MarkAccepted(i) == [invitation EXCEPT ![i] = [invitation[i] EXCEPT !.accepted = TRUE]]
MarkRevoked(i)  == [invitation EXCEPT ![i] = [invitation[i] EXCEPT !.revoked = TRUE]]

AcceptMark(p) ==
    /\ InFlight(p, "accept")
    /\ call[p].todo = "mark"
    /\ invitation' = MarkAccepted(call[p].inv)
    /\ Finish(p)
    /\ UNCHANGED <<registered, member, history>>

(* Regression: an existing membership is overwritten, not refused. *)
UpsertAdmits(o, e) == TRUE

(* memberships_org_user_unique. *)
MembershipAdmits(o, e) == member[o][e] = None

(* Regression: the membership is made with the role of the inviter. *)
EnrolledAsInviter(i) ==
    LET row == invitation[i]
    IN [member EXCEPT ![row.org][row.email] = member[row.org][row.by]]

(* Regression: the membership is made without setting its role. *)
EnrolledWithZeroRole(i) ==
    LET row == invitation[i]
    IN [member EXCEPT ![row.org][row.email] = ""]

(* INSERT INTO memberships with the role of the invitation. *)
Enrolled(i) ==
    LET row == invitation[i]
    IN [member EXCEPT ![row.org][row.email] = row.role]

(* Regression: the new user is lost. *)
NotRegistered(e, signup) == registered

(* createConfirmedUser on the sign-up path. *)
Registered(e, signup) == IF signup THEN registered \cup {e} ELSE registered

(* createConfirmedUser (if the user is new), memberships.Create,           *)
(* MarkAccepted and COMMIT.                                                *)
AcceptJoin(p) ==
    /\ InFlight(p, "accept")
    /\ call[p].todo \in {"join", "signup"}
    /\ LET i == call[p].inv
           e == invitation[i].email
       IN /\ call[p].todo = "signup" => e \notin registered
          /\ MembershipAdmits(invitation[i].org, e)
          /\ registered' = Registered(e, call[p].todo = "signup")
          /\ member'     = Enrolled(i)
          /\ invitation' = MarkAccepted(i)
          /\ joined'     = joined \cup {i}
    /\ Finish(p)
    /\ UNCHANGED <<founder, revoker>>

-----------------------------------------------------------------------------
(***************************************************************************)
(* Revoke: read, then write.                                               *)
(***************************************************************************)

(* Regression: an invitation of any organization is revoked.               *)
RevokeElsewhere(p, by, o, i) ==
    /\ call[p] = None
    /\ member[o][by] # None
    /\ i \in Issued
    /\ CanRevokeInvitation(member[o][by], invitation[i].role)
    /\ ~ OutOfPlay(i)
    /\ Proceed(p, [op |-> "revoke", inv |-> i, by |-> by])
    /\ UNCHANGED <<registered, member, invitation, history>>

(* Authorize, FindByID, the organization and role checks, and the early    *)
(* return for an invitation that is out of play.                           *)
RevokeBegin(p, by, o, i) ==
    /\ call[p] = None
    /\ member[o][by] # None
    /\ i \in Issued
    /\ invitation[i].org = o
    /\ CanRevokeInvitation(member[o][by], invitation[i].role)
    /\ ~ OutOfPlay(i)
    /\ Proceed(p, [op |-> "revoke", inv |-> i, by |-> by])
    /\ UNCHANGED <<registered, member, invitation, history>>

RevokeWrite(p) ==
    /\ InFlight(p, "revoke")
    /\ invitation' = MarkRevoked(call[p].inv)
    /\ revoker'    = [revoker EXCEPT ![call[p].inv] = call[p].by]
    /\ Finish(p)
    /\ UNCHANGED <<registered, member, founder, joined>>

(* A request is refused, rolled back, or stops where it is. *)
Abandon(p) ==
    /\ call[p] # None
    /\ Finish(p)
    /\ UNCHANGED <<registered, member, invitation, history>>

(* Time passes. *)
AgeInvitation(i) ==
    /\ i \in Issued
    /\ invitation[i].age # "expired"
    /\ invitation' = [invitation EXCEPT ![i] = [invitation[i] EXCEPT !.age =
                        IF invitation[i].age = "live" THEN "borderline" ELSE "expired"]]
    /\ UNCHANGED <<registered, member, call, history>>

-----------------------------------------------------------------------------

CreateInvitation(p) ==
    \/ \E by, e \in Email, o \in Org, role \in Role : CreateBegin(p, by, o, e, role)
    \/ CreateCheck(p)
    \/ \E i \in Invitation : CreateInsert(p, i)

AcceptInvitation(p) ==
    \/ \E i \in Invitation, signup \in BOOLEAN : AcceptBegin(p, i, signup)
    \/ AcceptFind(p)
    \/ AcceptResolve(p)
    \/ AcceptMark(p)
    \/ AcceptJoin(p)

RevokeInvitation(p) ==
    \/ \E by \in Email, o \in Org, i \in Invitation : RevokeBegin(p, by, o, i)
    \/ RevokeWrite(p)

Next ==
    \/ \E e \in Email, o \in Org : Signup(e, o)
    \/ \E p \in Proc :
          CreateInvitation(p) \/ AcceptInvitation(p) \/ RevokeInvitation(p) \/ Abandon(p)
    \/ \E i \in Invitation : AgeInvitation(i)

Spec == Init /\ [][Next]_vars

-----------------------------------------------------------------------------
(***************************************************************************)
(* Properties.                                                             *)
(***************************************************************************)

(* Every row and request has its type. *)
TypeOK ==
    /\ registered \subseteq Email
    /\ member     \in [Org -> [Email -> Role \cup {None}]]
    /\ invitation \in [Invitation -> InvitationRow \cup {None}]
    /\ call       \in [Proc -> Call \cup {None}]
    /\ founder    \in [Org -> Email \cup {None}]
    /\ revoker    \in [Invitation -> Email \cup {None}]
    /\ joined     \subseteq Invitation

(* However many requests create and check at once, an address has at most  *)
(* one invitation to an organization that could still be accepted.         *)
OneInPlayPerAddress ==
    \A o \in Org, e \in Email : \A i, j \in InPlay(o, e) : i = j

(* Nobody is a member but the founder and those who accepted an invitation *)
(* of that organization, to their address, for exactly the role they have. *)
MembersWereInvited ==
    \A o \in Org, e \in Email : member[o][e] # None =>
        \/ founder[o] = e /\ member[o][e] = "manager"
        \/ \E i \in joined : /\ invitation[i].org = o
                             /\ invitation[i].email = e
                             /\ invitation[i].role = member[o][e]
                             /\ invitation[i].accepted

(* Acceptance is all or nothing: an accepted invitation has made its       *)
(* addressee a registered member, and no membership is without its user.   *)
AcceptanceIsAtomic ==
    /\ \A i \in Issued : invitation[i].accepted =>
          member[invitation[i].org][invitation[i].email] # None
    /\ \A o \in Org, e \in Email : member[o][e] # None => e \in registered

(* Roles do not escalate: only a manager of the same organization ever     *)
(* issues or revokes an invitation to become manager, and only a manager   *)
(* or an admin of it any other.                                            *)
Outranks(o, e, role) ==
    /\ member[o][e] \in {"manager", "admin"}
    /\ role = "manager" => member[o][e] = "manager"

NoEscalation ==
    \A i \in Issued :
        LET row == invitation[i]
        IN /\ Outranks(row.org, row.by, row.role)
           /\ row.revoked => Outranks(row.org, revoker[i], row.role)

(* A request to accept an invitation that comes in after the invitation    *)
(* was accepted, revoked or expired makes nobody a member, whatever else   *)
(* is committed while it runs.                                             *)
LateRequestsJoinNobody ==
    \A p \in Proc : InFlight(p, "accept") /\ call[p].late =>
        call[p].todo \notin {"join", "signup"}

Members == INSTANCE Memberships WITH User <- Email

(* Sign-ups and acceptances, however they overlap, use memberships as      *)
(* Memberships promises: an organization is founded once, by a new user;   *)
(* whoever joins it was let in by a member who may grant that role, joins  *)
(* once, and no later step changes the role or ends the membership.        *)
ImplementsMemberships == Members!Spec

(* What the comment above acceptInvitationTerminalFailures promises: the   *)
(* holder of an expired invitation can "ask for a fresh invitation         *)
(* instead".  A request that has found no pending invitation is not        *)
(* refused on account of one that has expired.                             *)
ExpiredNeverBlocks ==
    \A p \in Proc : InFlight(p, "create") /\ call[p].checked =>
        \A i \in InPlay(call[p].org, call[p].email) : invitation[i].age # "expired"

(* What the test of revoke_invitation says: "an accepted invitation must   *)
(* not also gain a revoked_at stamp".                                      *)
AcceptedNeverGainsRevoked ==
    [][\A i \in Issued : invitation[i].accepted /\ ~ invitation[i].revoked =>
          ~ invitation'[i].revoked]_vars

=============================================================================
