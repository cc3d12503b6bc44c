---------------------- MODULE RefreshTokenStore_proofs ----------------------
(***************************************************************************)
(* TLAPS proofs about RefreshTokenStore, for every value of its constants. *)
(***************************************************************************)
EXTENDS RefreshTokenStore, TLAPS

USE TimeAssumption, NoKeyAssumption

(***************************************************************************)
(* Lemmas about the operators that rewrite keyspaces.                      *)
(***************************************************************************)

(* DEL of the live tokens and family keys of S keeps the keyspaces typed.  *)
LEMMA WithoutType ==
    ASSUME TypeOK, NEW S \in SUBSET Family
    PROVE  /\ WithoutTokens(S) \in [Hash -> TokenRecord \cup {NoKey}]
           /\ WithoutFamilies(S) \in [Family -> FamilyRecord \cup {NoKey}]
    BY DEF TypeOK, WithoutTokens, WithoutFamilies

(* What DEL of the families S leaves of the token keyspace. *)
LEMMA WithoutTokensValue ==
    ASSUME TypeOK, NEW S \in SUBSET Family, NEW h \in Hash
    PROVE  /\ WithoutTokens(S)[h] \in {tokens[h], NoKey}
           /\ \A f \in S : families[f] # NoKey /\ families[f].live = h
                 => WithoutTokens(S)[h] = NoKey
           /\ tokens[h] # NoKey /\ WithoutTokens(S)[h] = NoKey =>
                 \E f \in S : families[f] # NoKey /\ families[f].live = h
    BY DEF TypeOK, WithoutTokens, LiveOf

(* SREM removes f from the index of u and nothing else. *)
LEMMA SremType ==
    ASSUME TypeOK, NEW u \in User, NEW f \in Family
    PROVE  /\ Srem(u, f) \in [User -> SessionRecord \cup {NoKey}]
           /\ \A v \in User : Srem(u, f)[v] # NoKey =>
                 /\ sessions[v] # NoKey
                 /\ Srem(u, f)[v].exp = sessions[v].exp
                 /\ Srem(u, f)[v].families \subseteq sessions[v].families
           /\ \A v \in User : sessions[v] # NoKey =>
                 \A g \in sessions[v].families : g # f =>
                    /\ Srem(u, f)[v] # NoKey
                    /\ g \in Srem(u, f)[v].families
<1> DEFINE new == IF sessions[u] = NoKey THEN NoKey
                  ELSE IF sessions[u].families \subseteq {f} THEN NoKey
                  ELSE [families |-> sessions[u].families \ {f},
                        exp |-> sessions[u].exp]
<1>1. sessions \in [User -> SessionRecord \cup {NoKey}]
    BY DEF TypeOK
<1>2. sessions[u] # NoKey => /\ sessions[u].families \in SUBSET Family
                             /\ sessions[u].exp \in Int
    BY <1>1 DEF SessionRecord
<1>3. new \in SessionRecord \cup {NoKey}
    BY <1>2 DEF SessionRecord
<1>4. Srem(u, f) = [sessions EXCEPT ![u] = new]
    BY DEF Srem
<1>5. Srem(u, f)[u] = new /\ \A v \in User : v # u => Srem(u, f)[v] = sessions[v]
    BY <1>1, <1>4
<1>6. new # NoKey => /\ sessions[u] # NoKey
                     /\ new.exp = sessions[u].exp
                     /\ new.families = sessions[u].families \ {f}
    OBVIOUS
<1>7. sessions[u] # NoKey => \A g \in sessions[u].families : g # f => new # NoKey
    BY <1>2 DEF SessionRecord
<1>8. Srem(u, f) \in [User -> SessionRecord \cup {NoKey}]
    BY <1>1, <1>3, <1>4
<1> HIDE DEF new
<1>9. QED
    BY <1>5, <1>6, <1>7, <1>8

(* WithoutVictim either is a SREM of f or changes nothing. *)
LEMMA WithoutVictimType ==
    ASSUME TypeOK, NEW f \in Family
    PROVE  /\ WithoutVictim(f) \in [User -> SessionRecord \cup {NoKey}]
           /\ \A v \in User : WithoutVictim(f)[v] # NoKey =>
                 /\ sessions[v] # NoKey
                 /\ WithoutVictim(f)[v].exp = sessions[v].exp
                 /\ WithoutVictim(f)[v].families \subseteq sessions[v].families
           /\ \A v \in User : sessions[v] # NoKey =>
                 \A g \in sessions[v].families : g # f =>
                    /\ WithoutVictim(f)[v] # NoKey
                    /\ g \in WithoutVictim(f)[v].families
<1>1. CASE Victim(f) = {}
    BY <1>1 DEF WithoutVictim, TypeOK
<1>2. CASE Victim(f) # {}
  <2>1. PICK u \in Victim(f) : WithoutVictim(f) = Srem(u, f)
    BY <1>2 DEF WithoutVictim
  <2>2. u \in User
    BY DEF Victim, LiveOf, TypeOK, TokenRecord, FamilyRecord
  <2>3. QED
    BY <2>1, <2>2, SremType
<1>3. QED
    BY <1>1, <1>2

(* Expiry only removes keys, and only those whose time has come. *)
LEMMA UnexpiredValue ==
    ASSUME NEW D, NEW R, NoKey \notin R, NEW K \in [D -> R \cup {NoKey}],
           NEW t
    PROVE  /\ Unexpired(K, t) \in [D -> R \cup {NoKey}]
           /\ \A d \in D : /\ Unexpired(K, t)[d] # NoKey => Unexpired(K, t)[d] = K[d]
                           /\ K[d] # NoKey => (Unexpired(K, t)[d] = NoKey <=> K[d].exp <= t)
    BY DEF Unexpired

-----------------------------------------------------------------------------
(***************************************************************************)
(* Type correctness.                                                       *)
(***************************************************************************)

LEMMA InitType == Init => TypeOK
    BY DEF Init, TypeOK

LEMMA StepType == TypeOK /\ [Next]_vars => TypeOK'
<1> SUFFICES ASSUME TypeOK, [Next]_vars PROVE TypeOK'
    OBVIOUS
<1> USE DEF TypeOK, store, history
<1>1. ASSUME NEW p \in Proc, NEW u \in User, SaveBegin(p, u) PROVE TypeOK'
    BY <1>1 DEF SaveBegin, AppTime, SaveRequest
<1>2. ASSUME NEW p \in Proc, NEW h \in Hash, NEW f \in Family, SaveExec(p, h, f)
      PROVE  TypeOK'
  <2>1. saving[p].user \in User /\ saving[p].now \in Int /\ Lesser(TTL, Lifetime) \in Int
    BY <1>2 DEF SaveExec, SaveRequest, Lesser
  <2>2. Indexed(saving[p].user, f) \in SessionRecord
    BY <2>1 DEF Indexed, SessionRecord
  <2>3. QED
    BY <1>2, <2>1, <2>2 DEF SaveExec, TokenRecord, FamilyRecord, OpenedRecord, IssuedRecord
<1>3. ASSUME NEW p \in Proc, NEW h \in Hash, RotateBegin(p, h) PROVE TypeOK'
    BY <1>3 DEF RotateBegin, AppTime, RotateRequest
<1>4. ASSUME NEW p \in Proc, NEW new \in Hash, RotateOk(p, new) PROVE TypeOK'
  <2> DEFINE h == rotating[p].old
             now == rotating[p].now
             rec == Successor(h, now)
  <2>1. h \in Hash /\ now \in Int
    BY <1>4 DEF RotateOk, RotateRequest
  <2>2. tokens[h] \in TokenRecord
    BY <1>4, <2>1 DEF RotateOk, RotateOutcome
  <2>3. rec \in TokenRecord
    BY <2>1, <2>2 DEF Successor, TokenRecord, Lesser
  <2>4. Tombstone(h, now) \in UsedRecord
    BY <2>1, <2>2 DEF Tombstone, TokenRecord, UsedRecord
  <2>5. rec.family \in Family /\ rec.exp \in Int /\ rec.expiresAt \in Int
    BY <2>3 DEF TokenRecord
  <2>6. /\ tokens'   = [tokens EXCEPT ![h] = NoKey, ![new] = rec]
        /\ used'     = [used EXCEPT ![h] = Tombstone(h, now)]
        /\ families' = [families EXCEPT ![rec.family] = [live |-> new, exp |-> rec.exp]]
        /\ issued'   = [issued EXCEPT ![new] =
                            [family |-> rec.family, expiresAt |-> rec.expiresAt]]
        /\ spent'    = [spent EXCEPT ![h] = clock]
        /\ rotating' = [rotating EXCEPT ![p] = NoKey]
        /\ UNCHANGED <<sessions, clock, saving, opened, ended>>
    BY <1>4 DEF RotateOk, Exchanged
  <2> HIDE DEF h, now, rec
  <2>7. QED
    BY <2>1, <2>3, <2>4, <2>5, <2>6 DEF FamilyRecord, IssuedRecord
<1>5. ASSUME NEW p \in Proc, RotateExpired(p) PROVE TypeOK'
    BY <1>5 DEF RotateExpired, RotateRequest
<1>6. ASSUME NEW p \in Proc, RotateReused(p) PROVE TypeOK'
  <2>1. used[rotating[p].old].family \in Family
    BY <1>6 DEF RotateReused, RotateOutcome, RotateRequest, UsedRecord
  <2>2. QED
    BY <1>6, <2>1, WithoutType, WithoutVictimType DEF RotateReused
<1>7. ASSUME NEW p \in Proc, RotateRefused(p) PROVE TypeOK'
    BY <1>7 DEF RotateRefused
<1>8. ASSUME NEW p \in Proc, Abandon(p) PROVE TypeOK'
    BY <1>8 DEF Abandon
<1>9. ASSUME NEW h \in Hash, RevokeLive(h) PROVE TypeOK'
  <2>1. tokens[h].family \in Family /\ tokens[h].user \in User
    BY <1>9 DEF RevokeLive, TokenRecord
  <2>2. QED
    BY <1>9, <2>1, WithoutType, SremType DEF RevokeLive
<1>10. ASSUME NEW h \in Hash, RevokeSuperseded(h) PROVE TypeOK'
  <2>1. used[h].family \in Family
    BY <1>10 DEF RevokeSuperseded, UsedRecord
  <2>2. QED
    BY <1>10, <2>1, WithoutType, WithoutVictimType DEF RevokeSuperseded
<1>11. ASSUME NEW u \in User, RevokeAllForUser(u) PROVE TypeOK'
  <2>1. IndexedFamilies(u) \in SUBSET Family
    BY DEF IndexedFamilies, SessionRecord
  <2>2. Unfinished(u) \subseteq Family
    BY DEF Unfinished
  <2>3. QED
    BY <1>11, <2>1, <2>2, WithoutType DEF RevokeAllForUser
<1>12. ASSUME Tick PROVE TypeOK'
  <2>1. /\ tokens'   = Unexpired(tokens, clock + 1)
        /\ families' = Unexpired(families, clock + 1)
        /\ used'     = Unexpired(used, clock + 1)
        /\ sessions' = Unexpired(sessions, clock + 1)
        /\ clock' = clock + 1
        /\ UNCHANGED <<saving, rotating, opened, issued, spent, ended>>
    BY <1>12 DEF Tick
  <2>2. tokens' \in [Hash -> TokenRecord \cup {NoKey}]
    BY <2>1, UnexpiredValue
  <2>3. families' \in [Family -> FamilyRecord \cup {NoKey}]
    BY <2>1, UnexpiredValue
  <2>4. used' \in [Hash -> UsedRecord \cup {NoKey}]
    BY <2>1, UnexpiredValue
  <2>5. sessions' \in [User -> SessionRecord \cup {NoKey}]
    BY <2>1, UnexpiredValue
  <2>6. QED
    BY <2>1, <2>2, <2>3, <2>4, <2>5
<1>13. ASSUME NEW h \in Hash, RevokeMiss(h) PROVE TypeOK'
    BY <1>13 DEF RevokeMiss, IssuedRecord
<1>14. ASSUME UNCHANGED vars PROVE TypeOK'
    BY <1>14 DEF vars
<1>15. QED
    BY <1>1, <1>2, <1>3, <1>4, <1>5, <1>6, <1>7, <1>8, <1>9, <1>10, <1>11, <1>12, <1>13, <1>14
    DEF Next, Save, Rotate, Revoke

(* Every key always holds a record of its kind. *)
THEOREM TypeCorrect == Spec => []TypeOK
    BY InitType, StepType, PTL DEF Spec

-----------------------------------------------------------------------------
(***************************************************************************)
(* The inductive invariant.                                                *)
(***************************************************************************)

(* The types of the fields of every key and request that exists. *)
FieldTypes ==
    /\ \A h \in Hash : tokens[h] # NoKey =>
          /\ tokens[h].user \in User
          /\ tokens[h].family \in Family
          /\ tokens[h].expiresAt \in Int
          /\ tokens[h].ceiling \in Int
          /\ tokens[h].exp \in Int
    /\ \A f \in Family : families[f] # NoKey =>
          families[f].live \in Hash /\ families[f].exp \in Int
    /\ \A h \in Hash : used[h] # NoKey =>
          used[h].family \in Family /\ used[h].rotatedAt \in Int /\ used[h].exp \in Int
    /\ \A u \in User : sessions[u] # NoKey =>
          sessions[u].families \in SUBSET Family /\ sessions[u].exp \in Int
    /\ \A p \in Proc : saving[p] # NoKey =>
          saving[p].user \in User /\ saving[p].now \in Int
    /\ \A p \in Proc : rotating[p] # NoKey =>
          rotating[p].old \in Hash /\ rotating[p].now \in Int
    /\ \A f \in Family : opened[f] # NoKey =>
          opened[f].user \in User /\ opened[f].ceiling \in Int
    /\ \A h \in Hash : issued[h] # NoKey =>
          issued[h].family \in Family /\ issued[h].expiresAt \in Int
    /\ \A h \in Hash : spent[h] # NoKey => spent[h] \in Int
    /\ clock \in Int
    /\ ended \in SUBSET Family

LEMMA Fields == TypeOK => FieldTypes
    BY DEF TypeOK, FieldTypes, TokenRecord, FamilyRecord, UsedRecord, SessionRecord,
           SaveRequest, RotateRequest, OpenedRecord, IssuedRecord

LEMMA InitInv == Init => IInv
    BY InitType DEF Init, IInv, TokensConsistent, FamiliesConsistent,
       TombstonesConsistent, SpentConsistent, IssuedConsistent, IndexConsistent,
       LiveTokensIndexed, EndedConsistent, RequestsConsistent

(* Steps that only begin or drop a call leave the store consistent. *)
LEMMA QuietStep ==
    ASSUME IInv, TypeOK', UNCHANGED <<store, clock, history>>, RequestsConsistent'
    PROVE  IInv'
    BY DEF IInv, store, history, TokensConsistent, FamiliesConsistent,
       TombstonesConsistent, SpentConsistent, IssuedConsistent, IndexConsistent,
       LiveTokensIndexed, EndedConsistent

(* The step common to reuse detection, log-out and account revocation: the *)
(* families S lose their token and family key, and the index loses entries *)
(* of S only.  The families newly asked to end are S and perhaps some that *)
(* have no token.                                                          *)
Tokenless == {f \in Family : /\ opened[f] # NoKey
                             /\ \A h \in Hash : tokens[h] # NoKey => tokens[h].family # f}

EndFamilies(S) ==
    /\ tokens'   = WithoutTokens(S)
    /\ families' = WithoutFamilies(S)
    /\ ended \cup S \subseteq ended'
    /\ ended' \subseteq ended \cup S \cup Tokenless
    /\ \A v \in User : sessions'[v] # NoKey =>
          /\ sessions[v] # NoKey
          /\ sessions'[v].exp = sessions[v].exp
          /\ sessions'[v].families \subseteq sessions[v].families
    /\ \A v \in User : sessions[v] # NoKey =>
          \A g \in sessions[v].families : g \notin S =>
              sessions'[v] # NoKey /\ g \in sessions'[v].families
    /\ UNCHANGED <<used, clock, saving, opened, issued, spent>>

LEMMA EndFamiliesStep ==
    ASSUME IInv, TypeOK', NEW S \in SUBSET Family, EndFamilies(S),
           \A f \in S : opened[f] # NoKey,
           RequestsConsistent'
    PROVE  IInv'
<1> USE DEF IInv, EndFamilies
<1>1. FieldTypes /\ TypeOK
    BY Fields
<1>2. \A h \in Hash : tokens'[h] # NoKey =>
          /\ tokens[h] # NoKey
          /\ tokens'[h] = tokens[h]
          /\ tokens[h].family \notin S
  <2>1. SUFFICES ASSUME NEW h \in Hash, tokens'[h] # NoKey
        PROVE  tokens[h] # NoKey /\ tokens'[h] = tokens[h] /\ tokens[h].family \notin S
    OBVIOUS
  <2>2. tokens'[h] = tokens[h] /\ tokens[h] # NoKey
    BY <1>1, <2>1, WithoutTokensValue
  <2>3. families[tokens[h].family] # NoKey /\ families[tokens[h].family].live = h
    BY <2>2 DEF TokensConsistent
  <2>4. QED
    BY <1>1, <2>1, <2>2, <2>3, WithoutTokensValue
<1>3. \A h \in Hash : tokens[h] # NoKey /\ tokens'[h] = NoKey => tokens[h].family \in S
  <2>1. SUFFICES ASSUME NEW h \in Hash, tokens[h] # NoKey, tokens'[h] = NoKey
        PROVE  tokens[h].family \in S
    OBVIOUS
  <2>2. PICK f \in S : families[f] # NoKey /\ families[f].live = h
    BY <1>1, <2>1, WithoutTokensValue
  <2>3. issued[h].family = f
    BY <2>2 DEF FamiliesConsistent
  <2>4. QED
    BY <2>1, <2>2, <2>3 DEF TokensConsistent
<1>4. \A f \in Family : f \notin S => families'[f] = families[f]
    BY DEF WithoutFamilies
<1>5. \A f \in Family : families'[f] # NoKey => families'[f] = families[f]
    BY DEF WithoutFamilies
<1>6. TokensConsistent'
  <2>1. SUFFICES ASSUME NEW h \in Hash, tokens'[h] # NoKey
        PROVE  TokensConsistent!(h)'
    BY DEF TokensConsistent
  <2>2. /\ tokens[h] # NoKey /\ tokens'[h] = tokens[h] /\ tokens[h].family \notin S
        /\ tokens[h].family \in Family
    BY <1>1, <1>2, <2>1 DEF FieldTypes
  <2>3. tokens[h].family \notin ended'
    BY <2>2 DEF TokensConsistent, Tokenless
  <2>4. families'[tokens[h].family] = families[tokens[h].family]
    BY <1>4, <2>2
  <2>5. QED
    BY <2>2, <2>3, <2>4 DEF TokensConsistent
<1>7. FamiliesConsistent'
    BY <1>5 DEF FamiliesConsistent
<1>8. TombstonesConsistent' /\ SpentConsistent'
    BY DEF TombstonesConsistent, SpentConsistent
<1>9. IssuedConsistent'
    BY <1>3 DEF IssuedConsistent, TokensConsistent
<1>10. IndexConsistent'
    BY DEF IndexConsistent
<1>11. LiveTokensIndexed'
    BY <1>1, <1>2 DEF LiveTokensIndexed, FieldTypes
<1>12. EndedConsistent'
    BY DEF EndedConsistent, Tokenless
<1>13. QED
    BY <1>6, <1>7, <1>8, <1>9, <1>10, <1>11, <1>12

(* A sign-in adds one consistent family. *)
LEMMA SaveStep ==
    ASSUME IInv, TypeOK', NEW p \in Proc, NEW h \in Hash, NEW f \in Family,
           SaveExec(p, h, f)
    PROVE  IInv'
<1> USE DEF IInv
<1> DEFINE u   == saving[p].user
           now == saving[p].now
           ttl == Lesser(TTL, Lifetime)
<1>1. FieldTypes /\ TypeOK
    BY Fields
<1>2. /\ saving[p] # NoKey
      /\ issued[h] = NoKey
      /\ opened[f] = NoKey
      /\ tokens'   = [tokens EXCEPT ![h] =
                         [user |-> u, family |-> f, expiresAt |-> now + ttl,
                          ceiling |-> now + Lifetime, exp |-> clock + ttl]]
      /\ families' = [families EXCEPT ![f] = [live |-> h, exp |-> clock + ttl]]
      /\ sessions' = [sessions EXCEPT ![u] = Indexed(u, f)]
      /\ opened'   = [opened EXCEPT ![f] = [user |-> u, ceiling |-> now + Lifetime]]
      /\ issued'   = [issued EXCEPT ![h] = [family |-> f, expiresAt |-> now + ttl]]
      /\ saving' = [saving EXCEPT ![p] = NoKey]
      /\ UNCHANGED <<used, clock, rotating, spent, ended>>
    BY DEF SaveExec
<1>3. u \in User /\ now \in Int /\ now <= clock + Skew
    BY <1>1, <1>2 DEF FieldTypes, RequestsConsistent
<1>4. ttl \in Nat /\ ttl <= Lifetime
    BY DEF Lesser
<1>5. /\ tokens'[h] = [user |-> u, family |-> f, expiresAt |-> now + ttl,
                        ceiling |-> now + Lifetime, exp |-> clock + ttl]
      /\ families'[f] = [live |-> h, exp |-> clock + ttl]
      /\ opened'[f] = [user |-> u, ceiling |-> now + Lifetime]
      /\ issued'[h] = [family |-> f, expiresAt |-> now + ttl]
      /\ \A g \in Hash : g # h => tokens'[g] = tokens[g] /\ issued'[g] = issued[g]
      /\ \A g \in Family : g # f => families'[g] = families[g] /\ opened'[g] = opened[g]
    BY <1>1, <1>2 DEF TypeOK
<1>6. /\ \A g \in Hash : tokens[g] # NoKey =>
            g # h /\ tokens[g].family # f
      /\ \A g \in Hash : used[g] # NoKey \/ spent[g] # NoKey => g # h
      /\ \A g \in Hash : issued[g] # NoKey => g # h /\ issued[g].family # f
      /\ f \notin ended
    BY <1>2 DEF TokensConsistent, TombstonesConsistent, SpentConsistent,
                IssuedConsistent, EndedConsistent
<1>7. /\ issued'[h] # NoKey /\ opened'[f] # NoKey
      /\ families'[f] # NoKey /\ tokens'[h] # NoKey
      /\ spent[h] = NoKey
  <2>1. issued'[h] # NoKey /\ opened'[f] # NoKey
    BY <1>3, <1>4, <1>5 DEF IssuedRecord, OpenedRecord
  <2>2. families'[f] # NoKey
    BY <1>1, <1>4, <1>5 DEF FamilyRecord, FieldTypes
  <2>3. tokens'[h] # NoKey
    BY <1>1, <1>3, <1>4, <1>5 DEF TokenRecord, FieldTypes
  <2>4. QED
    BY <2>1, <2>2, <2>3, <1>6
<1>8. /\ sessions'[u].exp = clock + Lifetime
      /\ sessions'[u].families =
            {f} \cup (IF sessions[u] = NoKey THEN {} ELSE sessions[u].families)
      /\ sessions'[u] # NoKey
      /\ \A v \in User : v # u => sessions'[v] = sessions[v]
  <2>1. Indexed(u, f) \in SessionRecord
    BY <1>1, <1>3 DEF Indexed, SessionRecord, FieldTypes
  <2>2. QED
    BY <1>1, <1>2, <1>3, <2>1 DEF TypeOK, Indexed
<1> HIDE DEF u, now, ttl
<1>9. TokensConsistent'
  <2>1. SUFFICES ASSUME NEW g \in Hash, tokens'[g] # NoKey
        PROVE  TokensConsistent!(g)'
    BY DEF TokensConsistent
  <2>2. CASE g = h
    BY <1>1, <1>2, <1>3, <1>4, <1>5, <1>6, <1>7, <2>2 DEF FieldTypes
  <2>3. CASE g # h
    BY <1>1, <1>2, <1>5, <1>6, <2>1, <2>3 DEF TokensConsistent, FieldTypes
  <2>4. QED
    BY <2>2, <2>3
<1>10. FamiliesConsistent'
    BY <1>1, <1>5, <1>6, <1>7 DEF FamiliesConsistent, FieldTypes
<1>11. TombstonesConsistent'
    BY <1>2, <1>5, <1>6 DEF TombstonesConsistent
<1>12. SpentConsistent'
    BY <1>2, <1>5, <1>6 DEF SpentConsistent
<1>13. IssuedConsistent'
  <2>1. SUFFICES ASSUME NEW g \in Hash, issued'[g] # NoKey
        PROVE  IssuedConsistent!(g)'
    BY DEF IssuedConsistent
  <2>2. CASE g = h
    BY <1>5, <1>7, <2>2
  <2>3. CASE g # h
    BY <1>1, <1>2, <1>5, <1>6, <2>1, <2>3 DEF IssuedConsistent, FieldTypes
  <2>4. QED
    BY <2>2, <2>3
<1>14. IndexConsistent'
  <2>1. SUFFICES ASSUME NEW v \in User, sessions'[v] # NoKey
        PROVE  /\ sessions'[v].exp <= clock + Lifetime
               /\ \A g \in sessions'[v].families :
                     /\ opened'[g] # NoKey
                     /\ opened'[g].ceiling - Skew <= sessions'[v].exp
    BY <1>2 DEF IndexConsistent
  <2>2. CASE v # u
    BY <1>1, <1>2, <1>5, <1>8, <2>1, <2>2 DEF IndexConsistent, FieldTypes
  <2>3. CASE v = u
    <3>1. sessions'[v].exp <= clock + Lifetime
      BY <1>1, <1>8, <2>3 DEF FieldTypes
    <3>2. ASSUME NEW g \in sessions'[v].families
          PROVE  opened'[g] # NoKey /\ opened'[g].ceiling - Skew <= sessions'[v].exp
      <4>1. CASE g = f
        BY <1>1, <1>3, <1>5, <1>7, <1>8, <2>3, <4>1 DEF FieldTypes
      <4>2. CASE g # f
        <5>1. sessions[u] # NoKey /\ g \in sessions[u].families
          BY <1>8, <2>3, <3>2, <4>2
        <5>2. /\ opened[g] # NoKey /\ opened[g].ceiling \in Int /\ sessions[u].exp \in Int
              /\ opened[g].ceiling - Skew <= sessions[u].exp
              /\ sessions[u].exp <= clock + Lifetime
              /\ opened'[g] = opened[g]
          BY <1>1, <1>3, <1>5, <4>2, <5>1 DEF IndexConsistent, FieldTypes
        <5>3. QED
          BY <1>1, <1>8, <2>3, <5>2 DEF FieldTypes
      <4>3. QED
        BY <4>1, <4>2
    <3>3. QED
      BY <3>1, <3>2
  <2>4. QED
    BY <2>2, <2>3
<1>15. LiveTokensIndexed'
  <2>1. SUFFICES ASSUME NEW g \in Hash, tokens'[g] # NoKey
        PROVE  LiveTokensIndexed!(g)'
    BY DEF LiveTokensIndexed
  <2>2. CASE g = h
    BY <1>5, <1>8, <2>2
  <2>3. CASE g # h
    BY <1>2, <1>5, <1>8, <2>1, <2>3 DEF LiveTokensIndexed
  <2>4. QED
    BY <2>2, <2>3
<1>16. EndedConsistent'
    BY <1>1, <1>2, <1>5, <1>6 DEF EndedConsistent, FieldTypes
<1>17. RequestsConsistent'
    BY <1>1, <1>2, <1>5, <1>7 DEF RequestsConsistent, FieldTypes, TypeOK
<1>18. QED
    BY <1>9, <1>10, <1>11, <1>12, <1>13, <1>14, <1>15, <1>16, <1>17

(* A rotation hands the family over to one new token and leaves a tombstone. *)
LEMMA RotateOkStep ==
    ASSUME IInv, TypeOK', NEW p \in Proc, NEW new \in Hash, RotateOk(p, new)
    PROVE  IInv'
<1> USE DEF IInv
<1> DEFINE h   == rotating[p].old
           now == rotating[p].now
           rec == Successor(h, now)
           f   == tokens[h].family
<1>1. FieldTypes /\ TypeOK
    BY Fields
<1>2. /\ rotating[p] # NoKey
      /\ issued[new] = NoKey
      /\ RotateOutcome(h, now) = "ok"
      /\ tokens'   = [tokens EXCEPT ![h] = NoKey, ![new] = rec]
      /\ used'     = [used EXCEPT ![h] = Tombstone(h, now)]
      /\ families' = [families EXCEPT ![rec.family] = [live |-> new, exp |-> rec.exp]]
      /\ issued'   = [issued EXCEPT ![new] =
                        [family |-> rec.family, expiresAt |-> rec.expiresAt]]
      /\ spent'    = [spent EXCEPT ![h] = clock]
      /\ rotating' = [rotating EXCEPT ![p] = NoKey]
      /\ UNCHANGED <<sessions, clock, saving, opened, ended>>
    BY DEF RotateOk, Exchanged
<1>3. h \in Hash /\ now \in Int /\ now <= clock + Skew /\ issued[h] # NoKey
    BY <1>1, <1>2 DEF FieldTypes, RequestsConsistent
<1>4. /\ tokens[h] # NoKey
      /\ now < tokens[h].expiresAt
      /\ now < tokens[h].ceiling
    BY <1>1, <1>2, <1>3 DEF RotateOutcome, FieldTypes
<1>5. /\ h # new
      /\ f \in Family /\ f \notin ended
      /\ families[f] # NoKey /\ families[f].live = h
      /\ issued[h].family = f
      /\ issued[h].expiresAt = tokens[h].expiresAt
      /\ spent[h] = NoKey
      /\ opened[f] # NoKey
      /\ tokens[h].user = opened[f].user
      /\ tokens[h].ceiling = opened[f].ceiling
    BY <1>1, <1>2, <1>3, <1>4 DEF TokensConsistent, FieldTypes
<1>6. /\ rec.user = tokens[h].user
      /\ rec.family = f
      /\ rec.ceiling = tokens[h].ceiling
      /\ rec.expiresAt \in Int /\ rec.expiresAt <= rec.ceiling
      /\ rec.exp \in Int
      /\ rec.expiresAt - Skew <= rec.exp
      /\ rec \in TokenRecord
      /\ rec # NoKey
  <2>1. /\ rec.user = tokens[h].user
        /\ rec.family = f
        /\ rec.ceiling = tokens[h].ceiling
        /\ rec.expiresAt = Lesser(now + TTL, tokens[h].ceiling)
        /\ rec.exp = clock + Lesser(TTL, tokens[h].ceiling - now)
    BY DEF Successor
  <2>2. tokens[h].ceiling \in Int /\ tokens[h].user \in User
    BY <1>1, <1>3, <1>4 DEF FieldTypes
  <2>3. rec \in TokenRecord
    BY <1>1, <1>3, <1>5, <2>2 DEF Successor, TokenRecord, Lesser, FieldTypes
  <2>4. QED
    BY <1>1, <1>3, <2>1, <2>2, <2>3 DEF Lesser, FieldTypes
<1>7. /\ Tombstone(h, now).family = f
      /\ Tombstone(h, now).rotatedAt = clock
      /\ tokens[h].expiresAt - Skew <= Tombstone(h, now).exp
      /\ Tombstone(h, now) # NoKey
  <2>1. tokens[h].expiresAt \in Int
    BY <1>1, <1>3, <1>4 DEF FieldTypes
  <2>2. Tombstone(h, now) \in UsedRecord
    BY <1>1, <1>3, <1>5, <2>1 DEF Tombstone, UsedRecord, FieldTypes
  <2>3. QED
    BY <1>1, <1>3, <2>1, <2>2 DEF Tombstone, FieldTypes
<1>8. /\ tokens'[h] = NoKey /\ tokens'[new] = rec
      /\ \A g \in Hash : g # h /\ g # new => tokens'[g] = tokens[g]
      /\ families'[f] = [live |-> new, exp |-> rec.exp]
      /\ \A g \in Family : g # f => families'[g] = families[g]
      /\ used'[h] = Tombstone(h, now)
      /\ \A g \in Hash : g # h => used'[g] = used[g] /\ spent'[g] = spent[g]
      /\ spent'[h] = clock
      /\ issued'[new] = [family |-> f, expiresAt |-> rec.expiresAt]
      /\ \A g \in Hash : g # new => issued'[g] = issued[g]
    BY <1>1, <1>2, <1>3, <1>5, <1>6 DEF TypeOK
<1>9. /\ families'[f] # NoKey
      /\ families'[f].live = new
      /\ families'[f].exp = rec.exp
      /\ issued'[new] # NoKey
      /\ issued'[new].family = f
      /\ issued'[new].expiresAt = rec.expiresAt
      /\ spent'[h] # NoKey
      /\ spent'[new] = spent[new]
    BY <1>1, <1>5, <1>6, <1>8 DEF FamilyRecord, IssuedRecord, FieldTypes
<1>10. /\ \A g \in Hash : tokens[g] # NoKey /\ g # h => g # new /\ tokens[g].family # f
       /\ \A g \in Hash : issued[g] # NoKey => g # new
       /\ \A g \in Hash : used[g] # NoKey \/ spent[g] # NoKey => g # new
       /\ spent[new] = NoKey
    BY <1>2, <1>5 DEF TokensConsistent, TombstonesConsistent, SpentConsistent
<1> HIDE DEF h, now, rec, f
<1>11. TokensConsistent'
  <2>1. SUFFICES ASSUME NEW g \in Hash, tokens'[g] # NoKey
        PROVE  TokensConsistent!(g)'
    BY DEF TokensConsistent
  <2>2. CASE g = new
    <3>1. spent'[g] = NoKey /\ f \notin ended' /\ opened' = opened
      BY <1>2, <1>5, <1>9, <1>10, <2>2
    <3>2. tokens'[g] = rec
      BY <1>8, <2>2
    <3>3. QED
      BY <1>5, <1>6, <1>9, <2>2, <3>1, <3>2
  <2>3. CASE g # new
    <3>1. g # h /\ tokens'[g] = tokens[g]
      BY <1>8, <2>1, <2>3
    <3>2. QED
      BY <1>1, <1>2, <1>8, <1>10, <2>1, <2>3, <3>1 DEF TokensConsistent, FieldTypes
  <2>4. QED
    BY <2>2, <2>3
<1>12. FamiliesConsistent'
    BY <1>1, <1>8, <1>9, <1>10 DEF FamiliesConsistent, FieldTypes
<1>13. TombstonesConsistent'
    BY <1>3, <1>5, <1>7, <1>8, <1>9, <1>10 DEF TombstonesConsistent
<1>14. SpentConsistent'
    BY <1>1, <1>2, <1>3, <1>5, <1>7, <1>8, <1>9, <1>10 DEF SpentConsistent, FieldTypes
<1>15. IssuedConsistent'
  <2>1. SUFFICES ASSUME NEW g \in Hash, issued'[g] # NoKey
        PROVE  IssuedConsistent!(g)'
    BY DEF IssuedConsistent
  <2>2. CASE g = new
    <3>1. tokens'[g] # NoKey /\ opened'[f] # NoKey /\ issued'[g].family = f
      BY <1>2, <1>5, <1>6, <1>8, <1>9, <2>2
    <3>2. QED
      BY <3>1
  <2>3. CASE g = h
    <3>1. /\ spent'[g] # NoKey
          /\ issued'[g] = issued[g]
          /\ opened'[issued[g].family] # NoKey
      BY <1>2, <1>5, <1>8, <1>9, <2>3
    <3>2. QED
      BY <3>1
  <2>4. CASE g # new /\ g # h
    <3>1. /\ issued'[g] = issued[g] /\ tokens'[g] = tokens[g] /\ spent'[g] = spent[g]
          /\ UNCHANGED <<clock, opened, ended>>
      BY <1>2, <1>8, <2>4
    <3>2. QED
      BY <2>1, <3>1 DEF IssuedConsistent
  <2>5. QED
    BY <2>2, <2>3, <2>4
<1>16. IndexConsistent'
    BY <1>2 DEF IndexConsistent
<1>17. LiveTokensIndexed'
  <2>1. SUFFICES ASSUME NEW g \in Hash, tokens'[g] # NoKey
        PROVE  LiveTokensIndexed!(g)'
    BY DEF LiveTokensIndexed
  <2>2. CASE g = new
    <3>1. /\ tokens'[g] = rec
          /\ rec.user = tokens[h].user
          /\ rec.family = tokens[h].family
          /\ rec.ceiling = tokens[h].ceiling
      BY <1>6, <1>8, <2>2 DEF f
    <3>2. QED
      BY <1>2, <1>3, <1>4, <3>1 DEF LiveTokensIndexed
  <2>3. CASE g # new
    BY <1>2, <1>8, <2>1, <2>3 DEF LiveTokensIndexed
  <2>4. QED
    BY <2>2, <2>3
<1>18. EndedConsistent'
    BY <1>2 DEF EndedConsistent
<1>19. RequestsConsistent'
    BY <1>1, <1>2, <1>8, <1>9 DEF RequestsConsistent, FieldTypes, TypeOK
<1>20. QED
    BY <1>11, <1>12, <1>13, <1>14, <1>15, <1>16, <1>17, <1>18, <1>19

(* Deleting an expired token leaves the rest of its family consistent. *)
LEMMA RotateExpiredStep ==
    ASSUME IInv, TypeOK', NEW p \in Proc, RotateExpired(p)
    PROVE  IInv'
<1> USE DEF IInv
<1> DEFINE h   == rotating[p].old
           now == rotating[p].now
<1>1. FieldTypes /\ TypeOK
    BY Fields
<1>2. /\ rotating[p] # NoKey
      /\ RotateOutcome(h, now) = "expired"
      /\ tokens'   = [tokens EXCEPT ![h] = NoKey]
      /\ rotating' = [rotating EXCEPT ![p] = NoKey]
      /\ UNCHANGED <<families, used, sessions, clock, saving, opened, issued, spent, ended>>
    BY DEF RotateExpired, history
<1>3. h \in Hash /\ now \in Int /\ now <= clock + Skew /\ issued[h] # NoKey
    BY <1>1, <1>2 DEF FieldTypes, RequestsConsistent
<1>4. /\ tokens[h] # NoKey
      /\ issued[h].expiresAt - Skew <= clock
    BY <1>1, <1>2, <1>3 DEF RotateOutcome, FieldTypes, TokensConsistent
<1>5. \A g \in Hash : tokens'[g] = IF g = h THEN NoKey ELSE tokens[g]
    BY <1>1, <1>2, <1>3 DEF TypeOK
<1> HIDE DEF h, now
<1>6. TokensConsistent' /\ LiveTokensIndexed'
    BY <1>2, <1>5 DEF TokensConsistent, LiveTokensIndexed
<1>7. FamiliesConsistent' /\ TombstonesConsistent' /\ SpentConsistent'
    BY <1>2 DEF FamiliesConsistent, TombstonesConsistent, SpentConsistent
<1>8. IssuedConsistent'
    BY <1>2, <1>4, <1>5 DEF IssuedConsistent
<1>9. IndexConsistent' /\ EndedConsistent'
    BY <1>2 DEF IndexConsistent, EndedConsistent
<1>10. RequestsConsistent'
    BY <1>1, <1>2 DEF RequestsConsistent, TypeOK
<1>11. QED
    BY <1>6, <1>7, <1>8, <1>9, <1>10

(* Passing time removes keys only when the bounds of the invariant allow. *)
LEMMA TickStep ==
    ASSUME IInv, TypeOK', Tick
    PROVE  IInv'
<1> USE DEF IInv
<1>1. FieldTypes /\ TypeOK
    BY Fields
<1>2. /\ clock' = clock + 1
      /\ UNCHANGED <<saving, rotating, opened, issued, spent, ended>>
    BY DEF Tick, history
<1>3. \A h \in Hash :
         /\ tokens'[h] # NoKey => tokens'[h] = tokens[h]
         /\ tokens[h] # NoKey => (tokens'[h] = NoKey <=> tokens[h].exp <= clock + 1)
    BY <1>1, UnexpiredValue DEF Tick, TypeOK
<1>4. \A f \in Family :
         /\ families'[f] # NoKey => families'[f] = families[f]
         /\ families[f] # NoKey => (families'[f] = NoKey <=> families[f].exp <= clock + 1)
    BY <1>1, UnexpiredValue DEF Tick, TypeOK
<1>5. \A h \in Hash :
         /\ used'[h] # NoKey => used'[h] = used[h]
         /\ used[h] # NoKey => (used'[h] = NoKey <=> used[h].exp <= clock + 1)
    BY <1>1, UnexpiredValue DEF Tick, TypeOK
<1>6. \A u \in User :
         /\ sessions'[u] # NoKey => sessions'[u] = sessions[u]
         /\ sessions[u] # NoKey => (sessions'[u] = NoKey <=> sessions[u].exp <= clock + 1)
    BY <1>1, UnexpiredValue DEF Tick, TypeOK
<1>7. TokensConsistent'
    BY <1>1, <1>2, <1>3, <1>4 DEF TokensConsistent, FieldTypes
<1>8. FamiliesConsistent'
    BY <1>2, <1>4 DEF FamiliesConsistent
<1>9. TombstonesConsistent'
    BY <1>2, <1>5 DEF TombstonesConsistent
<1>10. SpentConsistent'
    BY <1>1, <1>2, <1>5 DEF SpentConsistent, TombstonesConsistent, FieldTypes
<1>11. IssuedConsistent'
    BY <1>1, <1>2, <1>3 DEF IssuedConsistent, TokensConsistent, FieldTypes
<1>12. IndexConsistent'
    BY <1>1, <1>2, <1>6 DEF IndexConsistent, FieldTypes
<1>13. LiveTokensIndexed'
  <2>1. SUFFICES ASSUME NEW h \in Hash, tokens'[h] # NoKey
        PROVE  LiveTokensIndexed!(h)'
    BY DEF LiveTokensIndexed
  <2>2. /\ tokens'[h] = tokens[h] /\ tokens[h] # NoKey
        /\ tokens[h].user \in User /\ tokens[h].ceiling \in Int
        /\ tokens[h].ceiling = opened[tokens[h].family].ceiling
    BY <1>1, <1>3, <2>1 DEF FieldTypes, TokensConsistent
  <2>3. CASE tokens[h].ceiling - Skew <= clock
    BY <1>1, <1>2, <2>2, <2>3 DEF FieldTypes
  <2>4. CASE /\ sessions[tokens[h].user] # NoKey
             /\ tokens[h].family \in sessions[tokens[h].user].families
    <3>1. /\ sessions[tokens[h].user].exp \in Int
          /\ tokens[h].ceiling - Skew <= sessions[tokens[h].user].exp
      BY <1>1, <2>2, <2>4 DEF FieldTypes, IndexConsistent
    <3>2. CASE sessions[tokens[h].user].exp <= clock + 1
      BY <1>1, <1>2, <2>2, <3>1, <3>2 DEF FieldTypes
    <3>3. CASE ~(sessions[tokens[h].user].exp <= clock + 1)
      BY <1>6, <2>2, <2>4, <3>3
    <3>4. QED
      BY <3>2, <3>3
  <2>5. QED
    BY <2>2, <2>3, <2>4 DEF LiveTokensIndexed
<1>14. EndedConsistent'
    BY <1>2 DEF EndedConsistent
<1>15. RequestsConsistent'
    BY <1>1, <1>2 DEF RequestsConsistent, FieldTypes
<1>16. QED
    BY <1>7, <1>8, <1>9, <1>10, <1>11, <1>12, <1>13, <1>14, <1>15

(* RotateReused, RevokeLive, RevokeSuperseded and RevokeAllForUser are all *)
(* steps that end a set of families that were opened before.               *)
Ending(S) == /\ S \in SUBSET Family
             /\ \A f \in S : opened[f] # NoKey
             /\ EndFamilies(S)

LEMMA ReusedEnds ==
    ASSUME IInv, NEW p \in Proc, RotateReused(p)
    PROVE  Ending({used[rotating[p].old].family}) /\ RequestsConsistent'
<1>1. FieldTypes /\ TypeOK
    BY Fields DEF IInv
<1> DEFINE h == rotating[p].old
           f == used[h].family
<1>2. h \in Hash /\ used[h] # NoKey
    BY <1>1 DEF RotateReused, RotateOutcome, FieldTypes
<1>3. f \in Family /\ opened[f] # NoKey
    BY <1>1, <1>2 DEF IInv, FieldTypes, TombstonesConsistent, IssuedConsistent
<1>4. EndFamilies({f})
    BY <1>1, <1>3, WithoutVictimType DEF RotateReused, EndFamilies
<1>5. RequestsConsistent'
    BY <1>1 DEF IInv, RotateReused, RequestsConsistent, TypeOK
<1>6. QED
    BY <1>3, <1>4, <1>5 DEF Ending

LEMMA RevokeLiveEnds ==
    ASSUME IInv, NEW h \in Hash, RevokeLive(h)
    PROVE  Ending({tokens[h].family}) /\ RequestsConsistent'
<1>1. FieldTypes /\ TypeOK
    BY Fields DEF IInv
<1> DEFINE f == tokens[h].family
<1>2. /\ f \in Family /\ tokens[h].user \in User
      /\ opened[f] # NoKey /\ families[f] # NoKey /\ families[f].live = h
    BY <1>1 DEF IInv, RevokeLive, FieldTypes, TokensConsistent
<1>3. WithoutTokens({f})[h] = NoKey
    BY <1>1, <1>2, WithoutTokensValue
<1>4. [WithoutTokens({f}) EXCEPT ![h] = NoKey] = WithoutTokens({f})
    BY <1>1, <1>2, <1>3, WithoutType
<1>5. EndFamilies({f})
    BY <1>1, <1>2, <1>4, SremType DEF RevokeLive, EndFamilies
<1>6. RequestsConsistent'
    BY DEF IInv, RevokeLive, RequestsConsistent
<1>7. QED
    BY <1>2, <1>5, <1>6 DEF Ending

LEMMA RevokeSupersededEnds ==
    ASSUME IInv, NEW h \in Hash, RevokeSuperseded(h)
    PROVE  Ending({used[h].family}) /\ RequestsConsistent'
<1>1. FieldTypes /\ TypeOK
    BY Fields DEF IInv
<1> DEFINE f == used[h].family
<1>2. f \in Family /\ opened[f] # NoKey
    BY <1>1 DEF IInv, RevokeSuperseded, FieldTypes, TombstonesConsistent, IssuedConsistent
<1>3. EndFamilies({f})
    BY <1>1, <1>2, WithoutVictimType DEF RevokeSuperseded, EndFamilies
<1>4. RequestsConsistent'
    BY DEF IInv, RevokeSuperseded, RequestsConsistent
<1>5. QED
    BY <1>2, <1>3, <1>4 DEF Ending

LEMMA RevokeMissEnds ==
    ASSUME IInv, NEW h \in Hash, RevokeMiss(h)
    PROVE  Ending({}) /\ RequestsConsistent'
<1>1. FieldTypes /\ TypeOK
    BY Fields DEF IInv
<1>2. ASSUME clock < issued[h].expiresAt - Skew PROVE issued[h].family \in ended
  <2>1. spent[h] = NoKey
    BY <1>1, <1>2 DEF IInv, RevokeMiss, SpentConsistent, FieldTypes
  <2>2. QED
    BY <1>1, <1>2, <2>1 DEF IInv, RevokeMiss, IssuedConsistent, FieldTypes
<1>3. ended' = ended
    BY <1>2 DEF RevokeMiss
<1>4. WithoutTokens({}) = tokens /\ WithoutFamilies({}) = families
    BY <1>1 DEF WithoutTokens, WithoutFamilies, LiveOf, TypeOK
<1>5. EndFamilies({})
    BY <1>3, <1>4 DEF RevokeMiss, store, EndFamilies
<1>6. RequestsConsistent'
    BY DEF IInv, RevokeMiss, RequestsConsistent
<1>7. QED
    BY <1>5, <1>6 DEF Ending

LEMMA RevokeAllEnds ==
    ASSUME IInv, NEW u \in User, RevokeAllForUser(u)
    PROVE  Ending(IndexedFamilies(u)) /\ RequestsConsistent'
<1>1. FieldTypes /\ TypeOK
    BY Fields DEF IInv
<1> DEFINE S == IndexedFamilies(u)
<1>2. /\ S \in SUBSET Family
      /\ \A f \in S : opened[f] # NoKey
    BY <1>1 DEF IInv, IndexedFamilies, FieldTypes, IndexConsistent
<1>3. \A v \in User : sessions'[v] = IF v = u THEN NoKey ELSE sessions[v]
    BY <1>1 DEF RevokeAllForUser, TypeOK
<1>4. Unfinished(u) \subseteq S \cup Tokenless
  <2>1. SUFFICES ASSUME NEW f \in Unfinished(u), NEW h \in Hash,
                        tokens[h] # NoKey, tokens[h].family = f
                 PROVE  f \in S
    BY DEF Unfinished, Tokenless
  <2>2. /\ opened[f].user = u /\ clock + Skew < opened[f].ceiling
        /\ opened[f] # NoKey /\ f \in Family
    BY DEF Unfinished
  <2>3. tokens[h].user = u /\ tokens[h].ceiling = opened[f].ceiling
    BY <2>1, <2>2 DEF IInv, TokensConsistent
  <2>4. QED
    BY <1>1, <2>1, <2>2, <2>3 DEF IInv, LiveTokensIndexed, IndexedFamilies, FieldTypes
<1>5. ended \cup S \subseteq ended' /\ ended' \subseteq ended \cup S \cup Tokenless
    BY <1>4 DEF RevokeAllForUser
<1>6. EndFamilies(S)
    BY <1>1, <1>3, <1>5 DEF RevokeAllForUser, EndFamilies, IndexedFamilies
<1>7. RequestsConsistent'
    BY DEF IInv, RevokeAllForUser, RequestsConsistent
<1>8. QED
    BY <1>2, <1>6, <1>7 DEF Ending

LEMMA StepInv == IInv /\ [Next]_vars => IInv'
<1> SUFFICES ASSUME IInv, [Next]_vars PROVE IInv'
    OBVIOUS
<1>1. FieldTypes /\ TypeOK /\ TypeOK'
    BY Fields, StepType DEF IInv
<1>2. \A S : Ending(S) /\ RequestsConsistent' => IInv'
    BY <1>1, EndFamiliesStep DEF Ending
<1>3. ASSUME NEW p \in Proc, NEW u \in User, SaveBegin(p, u) PROVE IInv'
  <2>1. RequestsConsistent'
    BY <1>1, <1>3 DEF IInv, SaveBegin, AppTime, RequestsConsistent, store, history,
                      TypeOK, FieldTypes
  <2>2. QED
    BY <1>1, <1>3, <2>1, QuietStep DEF SaveBegin
<1>4. ASSUME NEW p \in Proc, NEW h \in Hash, NEW f \in Family, SaveExec(p, h, f)
      PROVE  IInv'
    BY <1>1, <1>4, SaveStep
<1>5. ASSUME NEW p \in Proc, NEW h \in Hash, RotateBegin(p, h) PROVE IInv'
  <2>1. RequestsConsistent'
    BY <1>1, <1>5 DEF IInv, RotateBegin, AppTime, RequestsConsistent, store, history,
                      TypeOK, FieldTypes
  <2>2. QED
    BY <1>1, <1>5, <2>1, QuietStep DEF RotateBegin
<1>6. ASSUME NEW p \in Proc, NEW new \in Hash, RotateOk(p, new) PROVE IInv'
    BY <1>1, <1>6, RotateOkStep
<1>7. ASSUME NEW p \in Proc, RotateExpired(p) PROVE IInv'
    BY <1>1, <1>7, RotateExpiredStep
<1>8. ASSUME NEW p \in Proc, RotateReused(p) PROVE IInv'
    BY <1>2, <1>8, ReusedEnds
<1>9. ASSUME NEW p \in Proc, RotateRefused(p) PROVE IInv'
  <2>1. RequestsConsistent'
    BY <1>1, <1>9 DEF IInv, RotateRefused, RequestsConsistent, history, TypeOK
  <2>2. QED
    BY <1>1, <1>9, <2>1, QuietStep DEF RotateRefused
<1>10. ASSUME NEW p \in Proc, Abandon(p) PROVE IInv'
  <2>1. RequestsConsistent'
    BY <1>1, <1>10 DEF IInv, Abandon, RequestsConsistent, history, TypeOK
  <2>2. QED
    BY <1>1, <1>10, <2>1, QuietStep DEF Abandon
<1>11. ASSUME NEW h \in Hash, RevokeLive(h) PROVE IInv'
    BY <1>2, <1>11, RevokeLiveEnds
<1>12. ASSUME NEW h \in Hash, RevokeSuperseded(h) PROVE IInv'
    BY <1>2, <1>12, RevokeSupersededEnds
<1>13. ASSUME NEW h \in Hash, RevokeMiss(h) PROVE IInv'
    BY <1>2, <1>13, RevokeMissEnds
<1>14. ASSUME NEW u \in User, RevokeAllForUser(u) PROVE IInv'
    BY <1>2, <1>14, RevokeAllEnds
<1>15. ASSUME Tick PROVE IInv'
    BY <1>1, <1>15, TickStep
<1>16. ASSUME UNCHANGED vars PROVE IInv'
  <2>1. RequestsConsistent'
    BY <1>16 DEF IInv, RequestsConsistent, vars
  <2>2. QED
    BY <1>1, <1>16, <2>1, QuietStep DEF vars, store, history
<1>17. QED
    BY <1>3, <1>4, <1>5, <1>6, <1>7, <1>8, <1>9, <1>10, <1>11, <1>12, <1>13,
       <1>14, <1>15, <1>16
    DEF Next, Save, Rotate, Revoke

(* The store is consistent in every reachable state. *)
THEOREM Consistent == Spec => []IInv
    BY InitInv, StepInv, PTL DEF Spec

-----------------------------------------------------------------------------
(***************************************************************************)
(* The safety properties.                                                  *)
(***************************************************************************)

LEMMA InvOneLive == IInv => OneLiveTokenPerFamily
    BY DEF IInv, TokensConsistent, OneLiveTokenPerFamily

(* Rotation, log-out, reuse detection and account revocation in any order  *)
(* leave a family at most one usable token.                                *)
THEOREM OneLiveToken == Spec => []OneLiveTokenPerFamily
    BY Consistent, InvOneLive, PTL

LEMMA InvEnded == IInv => EndedSessionsStayDead
    BY DEF IInv, TokensConsistent, EndedSessionsStayDead

(* A session that a log-out, a replay or a password reset was to end never *)
(* has a usable token again, whatever calls were in flight.                *)
THEOREM EndedStayDead == Spec => []EndedSessionsStayDead
    BY Consistent, InvEnded, PTL

LEMMA InvLifetime == IInv => AbsoluteLifetime
    BY DEF IInv, TokensConsistent, AbsoluteLifetime

(* No sequence of refreshes moves the absolute end of a session. *)
THEOREM LifetimeIsAbsolute == Spec => []AbsoluteLifetime
    BY Consistent, InvLifetime, PTL

LEMMA InvReplay == IInv => ReplayIsRecognised
<1> SUFFICES ASSUME IInv, NEW h \in Hash, spent[h] # NoKey,
                    clock < issued[h].expiresAt - Skew, NEW now \in AppTime(clock)
             PROVE  RotateOutcome(h, now) =
                       IF clock - spent[h] <= Grace THEN "race" ELSE "reused"
    BY DEF ReplayIsRecognised
<1>1. FieldTypes
    BY Fields DEF IInv
<1>2. tokens[h] = NoKey
    BY DEF IInv, TokensConsistent
<1>3. /\ issued[h] # NoKey /\ spent[h] <= clock
      /\ used[h] # NoKey
    BY <1>1 DEF IInv, SpentConsistent, FieldTypes
<1>4. used[h].rotatedAt = spent[h]
    BY <1>3 DEF IInv, TombstonesConsistent
<1>5. QED
    BY <1>1, <1>2, <1>3, <1>4 DEF RotateOutcome, FieldTypes

(* A replayed token is recognised for as long as it would have been valid. *)
THEOREM ReplayRecognised == Spec => []ReplayIsRecognised
    BY Consistent, InvReplay, PTL

LEMMA InvIndex == IInv => IndexCoversLiveTokens
<1> SUFFICES ASSUME IInv PROVE IndexCoversLiveTokens
    OBVIOUS
<1>1. FieldTypes
    BY Fields DEF IInv
<1>2. QED
    BY <1>1 DEF IInv, LiveTokensIndexed, IndexCoversLiveTokens, FieldTypes

(* The index a password reset walks misses no live token, but for the last *)
(* Skew seconds of a family.                                               *)
THEOREM IndexComplete == Spec => []IndexCoversLiveTokens
    BY Consistent, InvIndex, PTL

(* A token that survives the end of the families S is of another family. *)
LEMMA EndedLoseTokens ==
    ASSUME IInv, NEW S, Ending(S), NEW g \in Hash, tokens'[g] # NoKey
    PROVE  tokens[g] # NoKey /\ tokens'[g] = tokens[g] /\ tokens[g].family \notin S
<1>1. FieldTypes /\ TypeOK /\ S \in SUBSET Family
    BY Fields DEF IInv, Ending
<1>2. tokens' = WithoutTokens(S)
    BY DEF Ending, EndFamilies
<1>3. tokens'[g] = tokens[g] /\ tokens[g] # NoKey
    BY <1>1, <1>2, WithoutTokensValue
<1>4. families[tokens[g].family] # NoKey /\ families[tokens[g].family].live = g
    BY <1>3 DEF IInv, TokensConsistent
<1>5. QED
    BY <1>1, <1>2, <1>3, <1>4, WithoutTokensValue

-----------------------------------------------------------------------------
(***************************************************************************)
(* The store implements SessionLineage.                                    *)
(***************************************************************************)

OpenedSet == {f \in Family : opened[f] # NoKey}
IssuedSet == {h \in Hash : issued[h] # NoKey}

(* The bearers of a family: at most the token its family key names. *)
LEMMA BearerValue ==
    ASSUME IInv
    PROVE  /\ Bearer \in [Family -> SUBSET Hash]
           /\ \A f \in Family, h \in Hash :
                 h \in Bearer[f] <=> tokens[h] # NoKey /\ tokens[h].family = f
           /\ \A f \in Family : \A g, h \in Bearer[f] : g = h
    BY DEF IInv, TokensConsistent, Bearer

LEMMA BearerValueNext ==
    /\ Bearer' \in [Family -> SUBSET Hash]
    /\ \A f \in Family, h \in Hash :
          h \in Bearer'[f] <=> tokens'[h] # NoKey /\ tokens'[h].family = f
    BY DEF Bearer

(* A step that only takes tokens away closes the families that lose theirs. *)
LEMMA CloseStep ==
    ASSUME IInv, UNCHANGED <<opened, issued>>,
           \A h \in Hash : tokens'[h] # NoKey => tokens'[h] = tokens[h]
    PROVE  \E S \in SUBSET Family : Lineages!Close(S)
<1> DEFINE S == {f \in Family : Bearer'[f] = {}}
<1>1. \A f \in Family : Bearer'[f] \subseteq Bearer[f]
    BY BearerValue, BearerValueNext
<1>2. \A f \in Family : Bearer'[f] = IF f \in S THEN {} ELSE Bearer[f]
  <2>1. SUFFICES ASSUME NEW f \in Family, Bearer'[f] # {} PROVE Bearer'[f] = Bearer[f]
    OBVIOUS
  <2>2. PICK h \in Hash : h \in Bearer'[f]
    BY <2>1, BearerValueNext
  <2>3. \A g \in Bearer[f] : g = h
    BY <1>1, <2>2, BearerValue
  <2>4. QED
    BY <1>1, <2>2, <2>3
<1> HIDE DEF S
<1>3. Bearer' = [f \in Family |-> IF f \in S THEN {} ELSE Bearer[f]]
    BY <1>2, BearerValueNext
<1>4. UNCHANGED <<OpenedSet, IssuedSet>>
    BY DEF OpenedSet, IssuedSet
<1>5. S \in SUBSET Family
    BY DEF S
<1>6. QED
    BY <1>3, <1>4, <1>5 DEF Lineages!Close, OpenedSet, IssuedSet

LEMMA EndingCloses ==
    ASSUME IInv, NEW S, Ending(S)
    PROVE  \E T \in SUBSET Family : Lineages!Close(T)
<1>1. \A h \in Hash : tokens'[h] # NoKey => tokens'[h] = tokens[h]
    BY EndedLoseTokens
<1>2. QED
    BY <1>1, CloseStep DEF Ending, EndFamilies

LEMMA SaveOpens ==
    ASSUME IInv, TypeOK', NEW p \in Proc, NEW h \in Hash, NEW f \in Family,
           SaveExec(p, h, f)
    PROVE  Lineages!Open(f, h)
<1>1. IInv' /\ TypeOK /\ FieldTypes
    BY SaveStep, Fields DEF IInv
<1>2. opened[f] = NoKey /\ issued[h] = NoKey
    BY DEF SaveExec
<1>3. /\ \A g \in Hash : g # h => tokens'[g] = tokens[g] /\ issued'[g] = issued[g]
      /\ \A g \in Family : g # f => opened'[g] = opened[g]
      /\ tokens'[h].family = f
    BY <1>1 DEF SaveExec, TypeOK
<1>4. /\ tokens'[h] # NoKey /\ issued'[h] # NoKey /\ opened'[f] # NoKey
  <2>1. tokens'[h] \in TokenRecord
    BY <1>1 DEF SaveExec, TypeOK, TokenRecord, Lesser, FieldTypes
  <2>2. tokens'[h] # NoKey
    BY <2>1
  <2>3. QED
    BY <1>1, <1>3, <2>2 DEF IInv, TokensConsistent
<1>5. \A g \in Hash : tokens[g] # NoKey => g # h /\ tokens[g].family # f
    BY <1>1, <1>2 DEF IInv, TokensConsistent
<1>6. Bearer' = [Bearer EXCEPT ![f] = {h}]
  <2>1. \A k \in Family, g \in Hash :
           g \in Bearer'[k] <=> g \in (IF k = f THEN {h} ELSE Bearer[k])
    BY <1>3, <1>4, <1>5, BearerValue, BearerValueNext
  <2>2. Bearer \in [Family -> SUBSET Hash] /\ Bearer' \in [Family -> SUBSET Hash]
    BY BearerValue, BearerValueNext
  <2>3. ASSUME NEW k \in Family
        PROVE  Bearer'[k] = IF k = f THEN {h} ELSE Bearer[k]
    <3>1. Bearer'[k] \subseteq Hash /\ Bearer[k] \subseteq Hash /\ h \in Hash
      BY <2>2
    <3>2. \A g \in Hash : g \in Bearer'[k] <=> g \in (IF k = f THEN {h} ELSE Bearer[k])
      BY <2>1
    <3>3. QED
      BY <3>1, <3>2
  <2>4. QED
    BY <2>2, <2>3
<1>7. OpenedSet' = OpenedSet \cup {f}
    BY <1>3, <1>4 DEF OpenedSet
<1>8. IssuedSet' = IssuedSet \cup {h}
    BY <1>3, <1>4 DEF IssuedSet
<1>9. QED
    BY <1>2, <1>6, <1>7, <1>8 DEF Lineages!Open, OpenedSet, IssuedSet

LEMMA RotateRotates ==
    ASSUME IInv, TypeOK', NEW p \in Proc, NEW new \in Hash, RotateOk(p, new)
    PROVE  \E f \in Family, h \in Hash : Lineages!Rotate(f, h, new)
<1> DEFINE h == rotating[p].old
           f == tokens[h].family
           rec == Successor(h, rotating[p].now)
<1>1. IInv' /\ TypeOK /\ FieldTypes
    BY RotateOkStep, Fields DEF IInv
<1>2. h \in Hash /\ tokens[h] # NoKey /\ issued[new] = NoKey /\ rec.family = f
    BY <1>1 DEF RotateOk, RotateOutcome, FieldTypes, Successor
<1>3. f \in Family /\ h # new
    BY <1>1, <1>2 DEF IInv, TokensConsistent, FieldTypes
<1>4. /\ tokens'[h] = NoKey /\ tokens'[new] = rec
      /\ \A g \in Hash : g # h /\ g # new => tokens'[g] = tokens[g]
      /\ issued'[new] = [family |-> f, expiresAt |-> rec.expiresAt]
      /\ \A g \in Hash : g # new => issued'[g] = issued[g]
      /\ opened' = opened
    BY <1>1, <1>2, <1>3 DEF RotateOk, Exchanged, TypeOK
<1>5. rec \in TokenRecord
    BY <1>1, <1>2, <1>3 DEF RotateOk, Successor, TokenRecord, Lesser, FieldTypes
<1>6. tokens'[new] # NoKey /\ issued'[new] # NoKey
    BY <1>1, <1>4, <1>5 DEF IInv, TokensConsistent
<1>7. Bearer[f] = {h}
    BY <1>2, <1>3, BearerValue
<1> HIDE DEF rec, f, h
<1>8. Bearer' = [Bearer EXCEPT ![f] = {new}]
  <2>1. \A k \in Family, g \in Hash :
           g \in Bearer'[k] <=> g \in (IF k = f THEN {new} ELSE Bearer[k])
    <3>1. SUFFICES ASSUME NEW k \in Family, NEW g \in Hash
          PROVE  g \in Bearer'[k] <=> g \in (IF k = f THEN {new} ELSE Bearer[k])
      OBVIOUS
    <3>2. tokens[new] = NoKey
      BY <1>2 DEF IInv, TokensConsistent
    <3>3. CASE g = new
      BY <1>2, <1>4, <1>6, <3>2, <3>3, BearerValue, BearerValueNext
    <3>4. CASE g = h
      BY <1>2, <1>3, <1>4, <1>7, <3>4, BearerValue, BearerValueNext DEF f
    <3>5. CASE g # new /\ g # h
      BY <1>4, <1>7, <3>5, BearerValue, BearerValueNext
    <3>6. QED
      BY <3>3, <3>4, <3>5
  <2>2. Bearer \in [Family -> SUBSET Hash] /\ Bearer' \in [Family -> SUBSET Hash]
    BY BearerValue, BearerValueNext
  <2>3. ASSUME NEW k \in Family
        PROVE  Bearer'[k] = IF k = f THEN {new} ELSE Bearer[k]
    <3>1. Bearer'[k] \subseteq Hash /\ Bearer[k] \subseteq Hash /\ new \in Hash
      BY <2>2
    <3>2. \A g \in Hash : g \in Bearer'[k] <=> g \in (IF k = f THEN {new} ELSE Bearer[k])
      BY <2>1
    <3>3. QED
      BY <3>1, <3>2
  <2>4. QED
    BY <2>2, <2>3
<1>9. IssuedSet' = IssuedSet \cup {new} /\ new \notin IssuedSet
    BY <1>2, <1>4, <1>6 DEF IssuedSet
<1>10. OpenedSet' = OpenedSet
    BY <1>4 DEF OpenedSet
<1>11. Lineages!Rotate(f, h, new)
    BY <1>7, <1>8, <1>9, <1>10 DEF Lineages!Rotate, OpenedSet, IssuedSet
<1>12. QED
    BY <1>2, <1>3, <1>11

LEMMA QuietStutters ==
    ASSUME UNCHANGED <<tokens, opened, issued>>
    PROVE  UNCHANGED Lineages!vars
    BY DEF Bearer, Lineages!vars

LEMMA StepRefines == IInv /\ [Next]_vars => [Lineages!Next]_(Lineages!vars)
<1> SUFFICES ASSUME IInv, [Next]_vars PROVE [Lineages!Next]_(Lineages!vars)
    OBVIOUS
<1>1. TypeOK /\ TypeOK'
    BY StepType DEF IInv
<1>2. ASSUME NEW S, Ending(S) PROVE Lineages!Next
    BY <1>2, EndingCloses DEF Lineages!Next
<1>3. ASSUME NEW p \in Proc, NEW h \in Hash, NEW f \in Family, SaveExec(p, h, f)
      PROVE  Lineages!Next
    BY <1>1, <1>3, SaveOpens DEF Lineages!Next
<1>4. ASSUME NEW p \in Proc, NEW new \in Hash, RotateOk(p, new) PROVE Lineages!Next
    BY <1>1, <1>4, RotateRotates DEF Lineages!Next
<1>5. ASSUME NEW p \in Proc, RotateExpired(p) PROVE Lineages!Next
  <2>1. \A h \in Hash : tokens'[h] # NoKey => tokens'[h] = tokens[h]
    BY <1>1, <1>5 DEF RotateExpired, TypeOK
  <2>2. QED
    BY <1>5, <2>1, CloseStep DEF RotateExpired, history, Lineages!Next
<1>6. ASSUME Tick PROVE Lineages!Next
  <2>1. \A h \in Hash : tokens'[h] # NoKey => tokens'[h] = tokens[h]
    BY <1>1, <1>6, UnexpiredValue DEF Tick, TypeOK
  <2>2. QED
    BY <1>6, <2>1, CloseStep DEF Tick, history, Lineages!Next
<1>7. ASSUME NEW p \in Proc,
             \/ \E u \in User : SaveBegin(p, u)
             \/ \E h \in Hash : RotateBegin(p, h)
             \/ RotateRefused(p)
             \/ Abandon(p)
      PROVE  UNCHANGED Lineages!vars
    BY <1>7, QuietStutters
    DEF SaveBegin, RotateBegin, RotateRefused, Abandon, store, history
<1>8. ASSUME UNCHANGED vars PROVE UNCHANGED Lineages!vars
    BY <1>8, QuietStutters DEF vars
<1>9. ASSUME NEW p \in Proc, RotateReused(p) PROVE Lineages!Next
    BY <1>2, <1>9, ReusedEnds
<1>10. ASSUME NEW h \in Hash, Revoke(h) PROVE Lineages!Next
    BY <1>2, <1>10, RevokeLiveEnds, RevokeSupersededEnds, RevokeMissEnds DEF Revoke
<1>11. ASSUME NEW u \in User, RevokeAllForUser(u) PROVE Lineages!Next
    BY <1>2, <1>11, RevokeAllEnds
<1>12. QED
    BY <1>3, <1>4, <1>5, <1>6, <1>7, <1>8, <1>9, <1>10, <1>11
    DEF Next, Save, Rotate

LEMMA InitRefines == Init => Lineages!Init
    BY DEF Init, Lineages!Init, Bearer

(* The store implements the lineage of sessions. *)
THEOREM StoreImplementsLineage == Spec => ImplementsLineage
<1>1. Spec => [][Lineages!Next]_(Lineages!vars)
    BY Consistent, StepRefines, PTL DEF Spec
<1>2. QED
    BY <1>1, InitRefines, PTL DEF Spec, ImplementsLineage, Lineages!Spec

=============================================================================
