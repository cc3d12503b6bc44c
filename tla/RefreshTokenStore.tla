------------------------- MODULE RefreshTokenStore -------------------------
(***************************************************************************)
(* The Redis refresh-token store of the identity module                    *)
(* (internal/core/identity/persistence/refresh_token_store.go).            *)
(*                                                                         *)
(* Four kinds of keys hold the state: the token record, the family key     *)
(* that names the family's live token, the tombstone of a rotated token    *)
(* and the per-user index of families.  Every Lua script, and the MULTI    *)
(* block of Save, is one atomic action on them.  Two clocks matter: the    *)
(* Redis clock, which expires keys and dates tombstones, and the clock of  *)
(* the application process, which is read BEFORE the script is sent and    *)
(* is therefore up to Skew seconds off and arbitrarily stale by the time   *)
(* the script runs.                                                        *)
(*                                                                         *)
(* Times are seconds.  The 128- and 256-bit random identifiers are fresh   *)
(* members of Family and Hash.                                             *)
(***************************************************************************)
EXTENDS Integers, FiniteSets

CONSTANTS
    Hash,       \* hashes of refresh tokens
    Family,     \* token families: one per sign-in
    User,       \* user ids
    Proc,       \* application goroutines calling the store
    NoKey,      \* the value of a key Redis does not hold
    TTL,        \* lifetime of one token (the ttl argument)
    Lifetime,   \* familyAbsoluteLifetime
    Grace,      \* rotationGraceWindow
    Skew,       \* how far an application clock may be from Redis'
    MaxClock    \* bound on the Redis clock, for model checking

TokenRecord   == [user : User, family : Family,
                  expiresAt : Int, ceiling : Int, exp : Int]
FamilyRecord  == [live : Hash, exp : Int]
UsedRecord    == [family : Family, rotatedAt : Int, exp : Int]
SessionRecord == [families : SUBSET Family, exp : Int]
SaveRequest   == [user : User, now : Int]
RotateRequest == [old : Hash, now : Int]
OpenedRecord  == [user : User, ceiling : Int]
IssuedRecord  == [family : Family, expiresAt : Int]

ASSUME TimeAssumption ==
    /\ TTL \in Nat \ {0}          \* checkTTL
    /\ Lifetime \in Nat \ {0}
    /\ Grace \in Nat
    /\ Skew \in Nat
    /\ MaxClock \in Nat

ASSUME NoKeyAssumption ==
    /\ NoKey \notin TokenRecord
    /\ NoKey \notin FamilyRecord
    /\ NoKey \notin UsedRecord
    /\ NoKey \notin SessionRecord
    /\ NoKey \notin SaveRequest
    /\ NoKey \notin RotateRequest
    /\ NoKey \notin OpenedRecord
    /\ NoKey \notin IssuedRecord
    /\ NoKey \notin Int

VARIABLES
    tokens,     \* refresh_token:<hash>        the token records
    families,   \* refresh_family:<family>     the live token of a family
    used,       \* refresh_token_used:<hash>   the tombstones
    sessions,   \* user_sessions:<user>        the families of a user
    clock,      \* the Redis clock
    saving,     \* calls of Save between reading the clock and the MULTI
    rotating,   \* calls of Rotate between reading the clock and the script
    (***********************************************************************)
    (* History, read by no guard except to keep random identifiers fresh.  *)
    (***********************************************************************)
    opened,     \* owner and absolute ceiling of every family ever opened
    issued,     \* family and nominal expiry of every token ever issued
    spent,      \* when each rotated token was rotated
    ended       \* families that a log-out, a replay or a reset set out to end

store   == <<tokens, families, used, sessions>>
history == <<opened, issued, spent, ended>>
vars    == <<tokens, families, used, sessions, clock, saving, rotating,
             opened, issued, spent, ended>>

-----------------------------------------------------------------------------

Init ==
    /\ tokens   = [h \in Hash   |-> NoKey]
    /\ families = [f \in Family |-> NoKey]
    /\ used     = [h \in Hash   |-> NoKey]
    /\ sessions = [u \in User   |-> NoKey]
    /\ clock    = 0
    /\ saving   = [p \in Proc   |-> NoKey]
    /\ rotating = [p \in Proc   |-> NoKey]
    /\ opened   = [f \in Family |-> NoKey]
    /\ issued   = [h \in Hash   |-> NoKey]
    /\ spent    = [h \in Hash   |-> NoKey]
    /\ ended    = {}

(* What an application clock may read when the Redis clock reads t. *)
AppTime(t) == (t - Skew) .. (t + Skew)

Lesser(a, b) == IF a <= b THEN a ELSE b

Idle(p) == saving[p] = NoKey /\ rotating[p] = NoKey

(* The keys of keyspace K that are left once the Redis clock reads t. *)
Unexpired(K, t) ==
    [k \in DOMAIN K |->
        IF K[k] # NoKey THEN IF K[k].exp <= t THEN NoKey ELSE K[k]
                        ELSE NoKey]

(* Regression: logging out one device drops the index of all of them. *)
SremDropsIndex(u, f) == [sessions EXCEPT ![u] = NoKey]

(* SREM user_sessions:<u> f.  Redis removes a set with its last member. *)
Srem(u, f) ==
    [sessions EXCEPT ![u] =
        IF sessions[u] = NoKey THEN NoKey
        ELSE IF sessions[u].families \subseteq {f} THEN NoKey
        ELSE [families |-> sessions[u].families \ {f}, exp |-> sessions[u].exp]]

(* The token a family key names: the operand of the scripts' second DEL. *)
LiveOf(S) == {families[f].live : f \in {g \in S : families[g] # NoKey}}

(* Regression: the family key is deleted, the token it names is not. *)
LeavesLiveToken(S) == tokens

(* DEL token_pfx..live_hash and DEL family_key for each family of S. *)
WithoutTokens(S)   == [h \in Hash |-> IF h \in LiveOf(S) THEN NoKey ELSE tokens[h]]
WithoutFamilies(S) == [f \in Family |-> IF f \in S THEN NoKey ELSE families[f]]

-----------------------------------------------------------------------------
(***************************************************************************)
(* Save: the first token of a new family.                                  *)
(***************************************************************************)

SaveBegin(p, u) ==
    /\ Idle(p)
    /\ \E now \in AppTime(clock) :
          saving' = [saving EXCEPT ![p] = [user |-> u, now |-> now]]
    /\ UNCHANGED <<store, clock, rotating, history>>

(* SADD and EXPIRE of the user's index. *)
Indexed(u, f) ==
    [families |-> {f} \cup (IF sessions[u] = NoKey THEN {} ELSE sessions[u].families),
     exp      |-> clock + Lifetime]

SaveExec(p, h, f) ==
    /\ saving[p] # NoKey
    /\ issued[h] = NoKey
    /\ opened[f] = NoKey
    /\ LET u   == saving[p].user
           now == saving[p].now
           ttl == Lesser(TTL, Lifetime)
       IN /\ tokens'   = [tokens EXCEPT ![h] =
                            [user |-> u, family |-> f, expiresAt |-> now + ttl,
                             ceiling |-> now + Lifetime, exp |-> clock + ttl]]
          /\ families' = [families EXCEPT ![f] = [live |-> h, exp |-> clock + ttl]]
          /\ sessions' = [sessions EXCEPT ![u] = Indexed(u, f)]
          /\ opened'   = [opened EXCEPT ![f] = [user |-> u, ceiling |-> now + Lifetime]]
          /\ issued'   = [issued EXCEPT ![h] = [family |-> f, expiresAt |-> now + ttl]]
    /\ saving' = [saving EXCEPT ![p] = NoKey]
    /\ UNCHANGED <<used, clock, rotating, spent, ended>>

-----------------------------------------------------------------------------
(***************************************************************************)
(* Rotate: exchange a token for its successor.                             *)
(***************************************************************************)

RotateBegin(p, h) ==
    /\ Idle(p)
    /\ issued[h] # NoKey
    /\ \E now \in AppTime(clock) :
          rotating' = [rotating EXCEPT ![p] = [old |-> h, now |-> now]]
    /\ UNCHANGED <<store, clock, saving, history>>

(* The first element of the rotate script's reply. *)
RotateOutcome(h, now) ==
    IF tokens[h] # NoKey
    THEN IF now >= tokens[h].expiresAt \/ now >= tokens[h].ceiling
         THEN "expired" ELSE "ok"
    ELSE IF used[h] = NoKey THEN "invalid"
    ELSE IF /\ clock - used[h].rotatedAt >= 0
            /\ clock - used[h].rotatedAt <= Grace
         THEN "race" ELSE "reused"

(* Regression: each rotation renews the absolute lifetime. *)
SlidingSuccessor(h, now) ==
    [user      |-> tokens[h].user,
     family    |-> tokens[h].family,
     expiresAt |-> now + TTL,
     ceiling   |-> now + Lifetime,
     exp       |-> clock + TTL]

(* The record the script writes for the successor of a token. *)
Successor(h, now) ==
    LET old == tokens[h]
    IN [user      |-> old.user,
        family    |-> old.family,
        expiresAt |-> Lesser(now + TTL, old.ceiling),
        ceiling   |-> old.ceiling,
        exp       |-> clock + Lesser(TTL, old.ceiling - now)]

(* Regression: the tombstone without its date. *)
UndatedTombstone(h, now) ==
    [family |-> tokens[h].family, exp |-> clock + (tokens[h].expiresAt - now)]

(* Regression: the tombstone is kept for the grace window only. *)
BriefTombstone(h, now) ==
    [family |-> tokens[h].family, rotatedAt |-> clock, exp |-> clock + Grace + 1]

(* SET refresh_token_used:<h> family:TIME EX old_expiry - now. *)
Tombstone(h, now) ==
    [family    |-> tokens[h].family,
     rotatedAt |-> clock,
     exp       |-> clock + (tokens[h].expiresAt - now)]

(* Regression: the exchanged token is not deleted. *)
KeepsOldToken(h, new, rec) == [tokens EXCEPT ![new] = rec]

(* DEL token_key and HSET new_key. *)
Exchanged(h, new, rec) == [tokens EXCEPT ![h] = NoKey, ![new] = rec]

RotateOk(p, new) ==
    /\ rotating[p] # NoKey
    /\ issued[new] = NoKey
    /\ LET h   == rotating[p].old
           now == rotating[p].now
           rec == Successor(h, now)
       IN /\ RotateOutcome(h, now) = "ok"
          /\ tokens'   = Exchanged(h, new, rec)
          /\ used'     = [used EXCEPT ![h] = Tombstone(h, now)]
          /\ families' = [families EXCEPT ![rec.family] = [live |-> new, exp |-> rec.exp]]
          /\ issued'   = [issued EXCEPT ![new] =
                            [family |-> rec.family, expiresAt |-> rec.expiresAt]]
          /\ spent'    = [spent EXCEPT ![h] = clock]
    /\ rotating' = [rotating EXCEPT ![p] = NoKey]
    /\ UNCHANGED <<sessions, clock, saving, opened, ended>>

(* An expired token is deleted; its family key and index entry are left. *)
RotateExpired(p) ==
    /\ rotating[p] # NoKey
    /\ RotateOutcome(rotating[p].old, rotating[p].now) = "expired"
    /\ tokens'   = [tokens EXCEPT ![rotating[p].old] = NoKey]
    /\ rotating' = [rotating EXCEPT ![p] = NoKey]
    /\ UNCHANGED <<families, used, sessions, clock, saving, history>>

(* The owner of family f, read off its live token, if there is one. *)
Victim(f) == {tokens[h].user : h \in {g \in LiveOf({f}) : tokens[g] # NoKey}}

WithoutVictim(f) ==
    IF Victim(f) = {} THEN sessions ELSE Srem(CHOOSE u \in Victim(f) : TRUE, f)

(* A token rotated longer than Grace ago comes back: its family is ended. *)
RotateReused(p) ==
    /\ rotating[p] # NoKey
    /\ RotateOutcome(rotating[p].old, rotating[p].now) = "reused"
    /\ LET f == used[rotating[p].old].family
       IN /\ sessions' = WithoutVictim(f)
          /\ tokens'   = WithoutTokens({f})
          /\ families' = WithoutFamilies({f})
          /\ ended'    = ended \cup {f}
    /\ rotating' = [rotating EXCEPT ![p] = NoKey]
    /\ UNCHANGED <<used, clock, saving, opened, issued, spent>>

(* Unknown token, or a replay within the grace window: nothing is written. *)
RotateRefused(p) ==
    /\ rotating[p] # NoKey
    /\ RotateOutcome(rotating[p].old, rotating[p].now) \in {"invalid", "race"}
    /\ rotating' = [rotating EXCEPT ![p] = NoKey]
    /\ UNCHANGED <<store, clock, saving, history>>

(* The context is cancelled, or Redis is unreachable, before the script    *)
(* (or the MULTI block) takes effect.                                      *)
Abandon(p) ==
    /\ ~Idle(p)
    /\ saving'   = [saving EXCEPT ![p] = NoKey]
    /\ rotating' = [rotating EXCEPT ![p] = NoKey]
    /\ UNCHANGED <<store, clock, history>>

-----------------------------------------------------------------------------
(***************************************************************************)
(* Revoke (log-out) and RevokeAllForUser (password reset).                 *)
(***************************************************************************)

RevokeLive(h) ==
    /\ tokens[h] # NoKey
    /\ LET f == tokens[h].family
       IN /\ tokens'   = [WithoutTokens({f}) EXCEPT ![h] = NoKey]
          /\ families' = WithoutFamilies({f})
          /\ sessions' = Srem(tokens[h].user, f)
          /\ ended'    = ended \cup {f}
    /\ UNCHANGED <<used, clock, saving, rotating, opened, issued, spent>>

RevokeSuperseded(h) ==
    /\ tokens[h] = NoKey
    /\ used[h] # NoKey
    /\ LET f == used[h].family
       IN /\ tokens'   = WithoutTokens({f})
          /\ families' = WithoutFamilies({f})
          /\ sessions' = WithoutVictim(f)
          /\ ended'    = ended \cup {f}
    /\ UNCHANGED <<used, clock, saving, rotating, opened, issued, spent>>

(* Nothing is found under the token.  The caller is told that the log-out  *)
(* succeeded all the same.                                                 *)
RevokeMiss(h) ==
    /\ issued[h] # NoKey
    /\ tokens[h] = NoKey
    /\ used[h] = NoKey
    /\ ended' = ended \cup IF clock < issued[h].expiresAt - Skew
                           THEN {issued[h].family} ELSE {}
    /\ UNCHANGED <<store, clock, saving, rotating, opened, issued, spent>>

Revoke(h) == RevokeLive(h) \/ RevokeSuperseded(h) \/ RevokeMiss(h)

IndexedFamilies(u) == IF sessions[u] = NoKey THEN {} ELSE sessions[u].families

(* The families of u that are not within Skew of their absolute end: those *)
(* that a password reset is meant to end, whatever the index says.         *)
Unfinished(u) ==
    {f \in {g \in Family : opened[g] # NoKey} :
        opened[f].user = u /\ clock + Skew < opened[f].ceiling}

RevokeAllForUser(u) ==
    /\ tokens'   = WithoutTokens(IndexedFamilies(u))
    /\ families' = WithoutFamilies(IndexedFamilies(u))
    /\ sessions' = [sessions EXCEPT ![u] = NoKey]
    /\ ended'    = ended \cup IndexedFamilies(u) \cup Unfinished(u)
    /\ UNCHANGED <<used, clock, saving, rotating, opened, issued, spent>>

(* A second passes, and Redis drops the keys whose time has come. *)
Tick ==
    /\ clock < MaxClock
    /\ clock'    = clock + 1
    /\ tokens'   = Unexpired(tokens, clock + 1)
    /\ families' = Unexpired(families, clock + 1)
    /\ used'     = Unexpired(used, clock + 1)
    /\ sessions' = Unexpired(sessions, clock + 1)
    /\ UNCHANGED <<saving, rotating, history>>

-----------------------------------------------------------------------------

Save(p) ==
    \/ \E u \in User : SaveBegin(p, u)
    \/ \E h \in Hash, f \in Family : SaveExec(p, h, f)

Rotate(p) ==
    \/ \E h \in Hash : RotateBegin(p, h)
    \/ \E new \in Hash : RotateOk(p, new)
    \/ RotateExpired(p)
    \/ RotateReused(p)
    \/ RotateRefused(p)

Next ==
    \/ \E p \in Proc : Save(p) \/ Rotate(p) \/ Abandon(p)
    \/ \E h \in Hash : Revoke(h)
    \/ \E u \in User : RevokeAllForUser(u)
    \/ Tick

Spec == Init /\ [][Next]_vars

-----------------------------------------------------------------------------
(***************************************************************************)
(* Properties.                                                             *)
(***************************************************************************)

(* Every key holds a record of its kind, or does not exist. *)
TypeOK ==
    /\ tokens   \in [Hash   -> TokenRecord   \cup {NoKey}]
    /\ families \in [Family -> FamilyRecord  \cup {NoKey}]
    /\ used     \in [Hash   -> UsedRecord    \cup {NoKey}]
    /\ sessions \in [User   -> SessionRecord \cup {NoKey}]
    /\ clock    \in Nat
    /\ saving   \in [Proc   -> SaveRequest   \cup {NoKey}]
    /\ rotating \in [Proc   -> RotateRequest \cup {NoKey}]
    /\ opened   \in [Family -> OpenedRecord  \cup {NoKey}]
    /\ issued   \in [Hash   -> IssuedRecord  \cup {NoKey}]
    /\ spent    \in [Hash   -> Int \cup {NoKey}]
    /\ ended    \in SUBSET Family

(* A token that can still be rotated is the one its family key names and   *)
(* was never rotated before: however calls interleave, a family has at     *)
(* most one usable token, and of several concurrent rotations of the same  *)
(* token at most one succeeds.                                             *)
OneLiveTokenPerFamily ==
    \A h \in Hash : tokens[h] # NoKey =>
        /\ spent[h] = NoKey
        /\ families[tokens[h].family] # NoKey
        /\ families[tokens[h].family].live = h

(* A session that was to end has no usable token ever again, whatever else *)
(* is in flight.  It is to end when it is logged out of with any of its    *)
(* tokens, the current one or one already exchanged, that has not itself   *)
(* expired; when an exchanged token comes back after the grace window; and *)
(* when its owner's password is reset.  The clock skew is the only slack:  *)
(* a reset can miss a session in the last Skew seconds before its absolute *)
(* end, a log-out a token in the last Skew seconds before its expiry.      *)
EndedSessionsStayDead ==
    \A h \in Hash : tokens[h] # NoKey => tokens[h].family \notin ended

(* However often a session is refreshed, it keeps the owner and the        *)
(* absolute end it was opened with, and no token outlives that end.        *)
AbsoluteLifetime ==
    \A h \in Hash : tokens[h] # NoKey =>
        LET f == tokens[h].family
        IN /\ opened[f] # NoKey
           /\ tokens[h].user = opened[f].user
           /\ tokens[h].ceiling = opened[f].ceiling
           /\ tokens[h].expiresAt <= opened[f].ceiling

(* A token that was already exchanged is recognised for as long as it      *)
(* would have been valid: within the grace window it is taken for a race,  *)
(* afterwards for a theft, and never for an unknown or a good token.       *)
ReplayIsRecognised ==
    \A h \in Hash : spent[h] # NoKey /\ clock < issued[h].expiresAt - Skew =>
        \A now \in AppTime(clock) :
            RotateOutcome(h, now) =
                IF clock - spent[h] <= Grace THEN "race" ELSE "reused"

(* The per-user index names every family that still has a token, up to the *)
(* clock skew before the family's absolute end.                            *)
IndexCoversLiveTokens ==
    \A h \in Hash : tokens[h] # NoKey /\ clock < tokens[h].ceiling - Skew =>
        /\ sessions[tokens[h].user] # NoKey
        /\ tokens[h].family \in sessions[tokens[h].user].families

(* The store implements the lineage of sessions it promises. *)
Bearer == [f \in Family |->
             {h \in {g \in Hash : tokens[g] # NoKey} : tokens[h].family = f}]

Lineages == INSTANCE SessionLineage WITH
    Lineage <- Family,
    Token   <- Hash,
    bearer  <- Bearer,
    opened  <- {f \in Family : opened[f] # NoKey},
    minted  <- {h \in Hash : issued[h] # NoKey}

ImplementsLineage == Lineages!Spec

-----------------------------------------------------------------------------
(***************************************************************************)
(* The inductive invariant behind the theorems of                          *)
(* RefreshTokenStore_proofs, one conjunct per kind of key or of history.   *)
(***************************************************************************)

TokensConsistent ==
    \A h \in Hash : tokens[h] # NoKey =>
        LET f == tokens[h].family
        IN /\ issued[h] # NoKey
           /\ issued[h].family = f
           /\ issued[h].expiresAt = tokens[h].expiresAt
           /\ spent[h] = NoKey
           /\ f \notin ended
           /\ families[f] # NoKey
           /\ families[f].live = h
           /\ families[f].exp = tokens[h].exp
           /\ opened[f] # NoKey
           /\ tokens[h].user = opened[f].user
           /\ tokens[h].ceiling = opened[f].ceiling
           /\ tokens[h].expiresAt <= tokens[h].ceiling
           /\ tokens[h].expiresAt - Skew <= tokens[h].exp

FamiliesConsistent ==
    \A f \in Family : families[f] # NoKey =>
        /\ issued[families[f].live] # NoKey
        /\ issued[families[f].live].family = f

TombstonesConsistent ==
    \A h \in Hash : used[h] # NoKey =>
        /\ spent[h] # NoKey
        /\ issued[h] # NoKey
        /\ used[h].family = issued[h].family
        /\ used[h].rotatedAt = spent[h]
        /\ issued[h].expiresAt - Skew <= used[h].exp

SpentConsistent ==
    \A h \in Hash : spent[h] # NoKey =>
        /\ issued[h] # NoKey
        /\ spent[h] <= clock
        /\ used[h] # NoKey \/ issued[h].expiresAt - Skew <= clock

(* A token never exchanged is there, or ended, or (nearly) past its time.  *)
IssuedConsistent ==
    \A h \in Hash : issued[h] # NoKey =>
        /\ opened[issued[h].family] # NoKey
        /\ \/ spent[h] # NoKey
           \/ tokens[h] # NoKey
           \/ issued[h].family \in ended
           \/ issued[h].expiresAt - Skew <= clock

IndexConsistent ==
    \A u \in User : sessions[u] # NoKey =>
        /\ sessions[u].exp <= clock + Lifetime
        /\ \A f \in sessions[u].families :
              /\ opened[f] # NoKey
              /\ opened[f].ceiling - Skew <= sessions[u].exp

LiveTokensIndexed ==
    \A h \in Hash : tokens[h] # NoKey =>
        \/ tokens[h].ceiling - Skew <= clock
        \/ /\ sessions[tokens[h].user] # NoKey
           /\ tokens[h].family \in sessions[tokens[h].user].families

EndedConsistent == \A f \in ended : opened[f] # NoKey

RequestsConsistent ==
    \A p \in Proc :
        /\ saving[p] # NoKey => saving[p].now <= clock + Skew
        /\ rotating[p] # NoKey => /\ rotating[p].now <= clock + Skew
                                  /\ issued[rotating[p].old] # NoKey

IInv ==
    /\ TypeOK
    /\ TokensConsistent
    /\ FamiliesConsistent
    /\ TombstonesConsistent
    /\ SpentConsistent
    /\ IssuedConsistent
    /\ IndexConsistent
    /\ LiveTokensIndexed
    /\ EndedConsistent
    /\ RequestsConsistent

=============================================================================
