--------------------------- MODULE RateLimit_proofs ---------------------------
(***************************************************************************)
(* TLAPS proofs about the safety of RateLimit, for any keys and requests,  *)
(* any limit and any window.                                               *)
(***************************************************************************)
EXTENDS RateLimit, TLAPS

USE LimitAssumption

(***************************************************************************)
(* The inductive invariant.                                                *)
(***************************************************************************)

(* How many requests the key in Redis has let through.                     *)
Passed(k) == IF count[k] > Max THEN Max ELSE count[k]

(* Besides what the key has let through there is at most what the key      *)
(* before it has; the one before that expired a Window before this began.  *)
TwoKeysAtMost ==
    \A k \in Key, a \in Recent : granted[k][a] <= Passed(k) + Max

(* Of a key with an expiry, what the key before it has let through is      *)
(* older than the expiry.                                                  *)
SinceExpirySet ==
    \A k \in Key, a \in Recent :
        ttl[k] > 0 /\ a < Window - ttl[k] => granted[k][a] <= Passed(k)

IInv ==
    /\ TypeOK
    /\ TwoKeysAtMost
    /\ SinceExpirySet

-----------------------------------------------------------------------------
(***************************************************************************)
(* Types.                                                                  *)
(***************************************************************************)

LEMMA InitType == Init => TypeOK
    BY DEF Init, TypeOK, Counted

LEMMA StepType == TypeOK /\ [Next]_vars => TypeOK'
<1> SUFFICES ASSUME TypeOK, [Next]_vars PROVE TypeOK'
    OBVIOUS
<1>1. ASSUME NEW p \in Proc, NEW k \in Key, Incr(p, k) PROVE TypeOK'
  <2>1. Saturate(count[k] + 1) \in Counted
    BY DEF Saturate, Counted, TypeOK
  <2>2. [a \in Recent |-> granted[k][a] + 1] \in [Recent -> Nat]
    BY DEF TypeOK
  <2>3. QED
    BY <1>1, <2>1, <2>2 DEF Incr, TypeOK
<1>2. ASSUME NEW p \in Proc, PExpire(p) PROVE TypeOK'
  <2>1. Window \in 0 .. Window
    OBVIOUS
  <2>2. ttl' = ttl \/ ttl' = [ttl EXCEPT ![pending[p]] = Window]
    BY <1>2 DEF PExpire
  <2>3. ttl' \in [Key -> 0 .. Window]
    BY <2>1, <2>2 DEF TypeOK
  <2>4. QED
    BY <1>2, <2>3 DEF PExpire, TypeOK
<1>3. ASSUME NEW p \in Proc, Lose(p) PROVE TypeOK'
    BY <1>3 DEF Lose, TypeOK
<1>4. ASSUME Tick PROVE TypeOK'
  <2>1. ASSUME NEW k \in Key PROVE Elapsed(k) \in 0 .. Window
    <3>1. ttl[k] \in 0 .. Window
      BY DEF TypeOK
    <3>2. QED
      BY <3>1 DEF Elapsed
  <2>2. ttl' \in [Key -> 0 .. Window]
    BY <1>4, <2>1 DEF Tick
  <2>3. count' \in [Key -> Counted]
    BY <1>4 DEF Tick, TypeOK, Counted
  <2>4. ASSUME NEW k \in Key, NEW a \in Recent
        PROVE  (IF a = 0 THEN 0 ELSE granted[k][a - 1]) \in Nat
    <3>1. a # 0 => a - 1 \in Recent
      BY DEF Recent
    <3>2. QED
      BY <3>1 DEF TypeOK
  <2>5. granted' \in [Key -> [Recent -> Nat]]
    BY <1>4, <2>4 DEF Tick
  <2>6. QED
    BY <1>4, <2>2, <2>3, <2>5 DEF Tick, TypeOK
<1>5. CASE UNCHANGED vars
    BY <1>5 DEF vars, TypeOK
<1>6. QED
    BY <1>1, <1>2, <1>3, <1>4, <1>5 DEF Next

-----------------------------------------------------------------------------
(***************************************************************************)
(* The steps keep the invariant.                                           *)
(***************************************************************************)

LEMMA PassedType ==
    ASSUME TypeOK, NEW k \in Key
    PROVE  Passed(k) \in Nat /\ Passed(k) <= Max
    BY DEF Passed, TypeOK, Counted

(* A request that is let through is counted, as long as it matters.        *)
LEMMA IncrKeeps ==
    ASSUME IInv, NEW p \in Proc, NEW k \in Key, Incr(p, k)
    PROVE  TwoKeysAtMost' /\ SinceExpirySet'
<1>0. TypeOK /\ TwoKeysAtMost /\ SinceExpirySet
    BY DEF IInv
<1>1. ASSUME NEW l \in Key, l # k PROVE Passed(l)' = Passed(l) /\ granted'[l] = granted[l]
    BY <1>0, <1>1 DEF Incr, Passed, TypeOK
<1>2. count[k] \in 0 .. (Max + 1) /\ count'[k] = Saturate(count[k] + 1)
    BY <1>0 DEF Incr, TypeOK, Counted
<1>3. CASE Admits(count[k] + 1)
  <2>1. Passed(k)' = Passed(k) + 1
    BY <1>2, <1>3 DEF Admits, Passed, Saturate
  <2>2. \A a \in Recent : granted'[k][a] = granted[k][a] + 1
    BY <1>0, <1>3 DEF Incr, TypeOK
  <2>3. ASSUME NEW l \in Key, NEW a \in Recent
        PROVE  /\ granted'[l][a] <= Passed(l)' + Max
               /\ ttl'[l] > 0 /\ a < Window - ttl'[l] => granted'[l][a] <= Passed(l)'
    <3>1. granted[l][a] \in Nat /\ Passed(l) \in Nat
      BY <1>0, PassedType DEF TypeOK
    <3>2. granted[l][a] <= Passed(l) + Max
      BY <1>0 DEF TwoKeysAtMost
    <3>3. ttl' = ttl /\ (ttl[l] > 0 /\ a < Window - ttl[l] => granted[l][a] <= Passed(l))
      BY <1>0 DEF SinceExpirySet, Incr
    <3>4. CASE l = k
      BY <2>1, <2>2, <3>1, <3>2, <3>3, <3>4
    <3>5. CASE l # k
      BY <1>1, <3>2, <3>3, <3>5
    <3>6. QED
      BY <3>4, <3>5
  <2>4. QED
    BY <2>3 DEF TwoKeysAtMost, SinceExpirySet
<1>4. CASE ~ Admits(count[k] + 1)
  <2>1. Passed(k)' = Passed(k)
    BY <1>2, <1>4 DEF Admits, Passed, Saturate
  <2>2. UNCHANGED <<granted, ttl>>
    BY <1>4 DEF Incr
  <2>3. \A l \in Key : Passed(l)' = Passed(l)
    BY <1>1, <2>1
  <2>4. QED
    BY <1>0, <2>2, <2>3 DEF TwoKeysAtMost, SinceExpirySet
<1>5. QED
    BY <1>3, <1>4

(* An expiry that is set now has seen nothing yet.                         *)
LEMMA PExpireKeeps ==
    ASSUME IInv, NEW p \in Proc, PExpire(p)
    PROVE  TwoKeysAtMost' /\ SinceExpirySet'
<1>0. TypeOK /\ TwoKeysAtMost /\ SinceExpirySet
    BY DEF IInv
<1>1. UNCHANGED granted /\ \A k \in Key : Passed(k)' = Passed(k)
    BY DEF PExpire, Passed
<1>2. \A k \in Key : ttl'[k] = ttl[k] \/ ttl'[k] = Window
    BY <1>0 DEF PExpire, TypeOK
<1>3. ASSUME NEW k \in Key, NEW a \in Recent, ttl'[k] > 0, a < Window - ttl'[k]
      PROVE  granted'[k][a] <= Passed(k)'
  <2>1. ttl'[k] # Window
    BY <1>3 DEF Recent
  <2>2. QED
    BY <1>0, <1>1, <1>2, <1>3, <2>1 DEF SinceExpirySet
<1>4. QED
    BY <1>0, <1>1, <1>3 DEF TwoKeysAtMost, SinceExpirySet

(* A key that expires has been there for a Window: what it leaves is its   *)
(* own.                                                                    *)
LEMMA TickKeeps ==
    ASSUME IInv, Tick
    PROVE  TwoKeysAtMost' /\ SinceExpirySet'
<1>0. TypeOK /\ TwoKeysAtMost /\ SinceExpirySet
    BY DEF IInv
<1> SUFFICES ASSUME NEW k \in Key, NEW a \in Recent
             PROVE  /\ granted'[k][a] <= Passed(k)' + Max
                    /\ ttl'[k] > 0 /\ a < Window - ttl'[k] => granted'[k][a] <= Passed(k)'
    BY DEF TwoKeysAtMost, SinceExpirySet
<1>1. /\ ttl[k] \in 0 .. Window /\ ttl'[k] = Elapsed(k)
      /\ Passed(k) \in Nat /\ Passed(k) <= Max
    BY <1>0, PassedType DEF Tick, TypeOK
<1>2. CASE ttl[k] > 0 /\ Elapsed(k) = 0
  <2>1. ttl[k] = 1
    BY <1>1, <1>2 DEF Elapsed
  <2>2. Passed(k)' = 0
    BY <1>2 DEF Tick, Passed
  <2>3. CASE a = 0
    BY <1>1, <1>2, <2>2, <2>3 DEF Tick
  <2>4. CASE a # 0
    <3>1. a - 1 \in Recent /\ a - 1 < Window - ttl[k]
      BY <2>1, <2>4 DEF Recent
    <3>2. granted'[k][a] = granted[k][a - 1]
      BY <2>4 DEF Tick
    <3>3. granted[k][a - 1] <= Passed(k) /\ granted[k][a - 1] \in Nat
      BY <1>0, <1>2, <3>1 DEF SinceExpirySet, TypeOK
    <3>4. QED
      BY <1>1, <1>2, <2>2, <3>2, <3>3
  <2>5. QED
    BY <2>3, <2>4
<1>3. CASE ~ (ttl[k] > 0 /\ Elapsed(k) = 0)
  <2>1. Passed(k)' = Passed(k)
    BY <1>3 DEF Tick, Passed
  <2>2. CASE a = 0
    BY <1>1, <2>1, <2>2 DEF Tick
  <2>3. CASE a # 0
    <3>1. a - 1 \in Recent
      BY <2>3 DEF Recent
    <3>2. granted'[k][a] = granted[k][a - 1]
      BY <2>3 DEF Tick
    <3>3. granted[k][a - 1] <= Passed(k) + Max
      BY <1>0, <3>1 DEF TwoKeysAtMost
    <3>4. ASSUME ttl'[k] > 0, a < Window - ttl'[k] PROVE granted[k][a - 1] <= Passed(k)
      <4>1. ttl[k] > 0 /\ a - 1 < Window - ttl[k]
        BY <1>1, <3>1, <3>4 DEF Elapsed, Recent
      <4>2. QED
        BY <1>0, <3>1, <4>1 DEF SinceExpirySet
    <3>5. QED
      BY <2>1, <3>2, <3>3, <3>4
  <2>4. QED
    BY <2>2, <2>3
<1>4. QED
    BY <1>2, <1>3

LEMMA InitIInv == Init => IInv
<1> SUFFICES ASSUME Init PROVE IInv
    OBVIOUS
<1>1. ASSUME NEW k \in Key PROVE Passed(k) = 0
  <2>1. count[k] = 0
    BY DEF Init
  <2>2. QED
    BY <2>1 DEF Passed
<1>2. \A k \in Key, a \in Recent : granted[k][a] = 0 /\ ttl[k] = 0
    BY DEF Init
<1>3. TwoKeysAtMost /\ SinceExpirySet
    BY <1>1, <1>2 DEF TwoKeysAtMost, SinceExpirySet
<1>4. QED
    BY <1>3, InitType DEF IInv

LEMMA StepIInv == IInv /\ [Next]_vars => IInv'
<1> SUFFICES ASSUME IInv, [Next]_vars PROVE TwoKeysAtMost' /\ SinceExpirySet'
    BY StepType DEF IInv
<1>1. CASE UNCHANGED <<count, ttl, granted>>
    BY <1>1 DEF IInv, TwoKeysAtMost, SinceExpirySet, Passed
<1>2. QED
    BY <1>1, IncrKeeps, PExpireKeeps, TickKeeps DEF Next, Lose, vars

-----------------------------------------------------------------------------
(***************************************************************************)
(* Theorems.                                                               *)
(***************************************************************************)

(* What has been let through lately is what the key in Redis and the one   *)
(* before it account for, in every reachable state.                        *)
THEOREM Consistent == Spec => []IInv
    BY InitIInv, StepIInv, PTL DEF Spec

(* Every key and request has its type.                                     *)
THEOREM TypeCorrect == Spec => []TypeOK
    BY Consistent, PTL DEF IInv

(* No Window of time sees more than twice Max requests let through by the  *)
(* count, whatever commands are lost or come late.                         *)
THEOREM BurstBounded == Spec => []BurstIsBounded
<1>1. IInv => BurstIsBounded
  <2> SUFFICES ASSUME IInv, NEW k \in Key PROVE granted[k][Window - 1] <= 2 * Max
    BY DEF BurstIsBounded
  <2>1. Window - 1 \in Recent
    BY DEF Recent
  <2>2. Passed(k) \in Nat /\ Passed(k) <= Max
    BY PassedType DEF IInv
  <2>3. granted[k][Window - 1] \in Nat /\ granted[k][Window - 1] <= Passed(k) + Max
    BY <2>1 DEF IInv, TypeOK, TwoKeysAtMost
  <2>4. QED
    BY <2>2, <2>3
<1>2. QED
    BY <1>1, Consistent, PTL

=============================================================================
