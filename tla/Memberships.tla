----------------------------- MODULE Memberships -----------------------------
(***************************************************************************)
(* What the table of memberships promises to everyone who decides by it,   *)
(* with invitations, access tokens and requests left out.                  *)
(*                                                                         *)
(* An organization is founded by somebody who belongs to none.  From then  *)
(* on people join it, each once and for good, let in by a member who may   *)
(* grant the role they get.                                                *)
(*                                                                         *)
(* Invitations, which has the requests that write the table, and Access,   *)
(* which has the requests that decide by it, are both shown to implement   *)
(* this specification.                                                     *)
(***************************************************************************)

CONSTANTS
    Org,        \* organizations
    User,       \* users
    None        \* the role of somebody who is not a member

VARIABLE
    member      \* [Org -> [User -> the user's role, or None]]

Role == {"manager", "admin", "member"}

TypeOK == member \in [Org -> [User -> Role \cup {None}]]

Init == member = [o \in Org |-> [u \in User |-> None]]

(* Only managers make managers, and plain members nobody. *)
MayGrant(granter, role) ==
    \/ granter = "manager"
    \/ granter = "admin" /\ role # "manager"

Found(o, u) ==
    /\ \A v \in User : member[o][v] = None
    /\ \A q \in Org : member[q][u] = None
    /\ member' = [member EXCEPT ![o][u] = "manager"]

Join(o, by, u, role) ==
    /\ MayGrant(member[o][by], role)
    /\ member[o][u] = None
    /\ member' = [member EXCEPT ![o][u] = role]

Next ==
    \E o \in Org, u \in User :
        \/ Found(o, u)
        \/ \E by \in User, role \in Role : Join(o, by, u, role)

Spec == Init /\ [][Next]_member

=============================================================================
