------------------------------ MODULE RateLimit ------------------------------
(***************************************************************************)
(* The rate limiter in front of the authentication and invitation routes   *)
(* (internal/http/middleware/ratelimit.go): a fixed window per key, held   *)
(* in Redis.                                                               *)
(*                                                                         *)
(* A request sends INCR and PEXPIRE NX in one pipeline, which is not a     *)
(* transaction: commands of other requests, and the expiry of the key, may *)
(* come between the two, and the second may never arrive.  A request that  *)
(* gets no answer within counterTimeout is served uncounted; what it sent  *)
(* may still be carried out.  So the answer leaves no trace in the state,  *)
(* and the effects of a request are those of its two commands.             *)
(***************************************************************************)
EXTENDS Integers

CONSTANTS
    Key,        \* limiter prefix and client
    Proc,       \* requests being served
    None,       \* no request
    Max,        \* RateLimitConfig.Max
    Window      \* RateLimitConfig.Window, in ticks

ASSUME LimitAssumption ==
    /\ Max \in Nat \ {0}
    /\ Window \in Nat \ {0}

VARIABLES
    count,      \* the counter of a key; 0: Redis does not hold the key
    ttl,        \* ticks until the key expires; 0: it has no expiry
    pending,    \* the key whose PEXPIRE a request has still to deliver
    (***********************************************************************)
    (* History.                                                            *)
    (***********************************************************************)
    granted     \* requests let through by the count in the last a + 1 ticks, by a

vars == <<count, ttl, pending, granted>>

(* Counters above Max all reject: they are not told apart. *)
Counted == 0 .. (Max + 1)
Saturate(n) == IF n > Max THEN Max + 1 ELSE n

Recent == 0 .. (Window - 1)

Init ==
    /\ count   = [k \in Key |-> 0]
    /\ ttl     = [k \in Key |-> 0]
    /\ pending = [p \in Proc |-> None]
    /\ granted = [k \in Key |-> [a \in Recent |-> 0]]

-----------------------------------------------------------------------------

(* Regression: the request that reaches Max + 1 is let through. *)
AdmitsOneMore(n) == n <= Max + 1

(* Rejected if count > Max. *)
Admits(n) == n <= Max

(* INCR.  The request is let through, or not, by what INCR returned. *)
Incr(p, k) ==
    /\ pending[p] = None
    /\ count'   = [count EXCEPT ![k] = Saturate(count[k] + 1)]
    /\ pending' = [pending EXCEPT ![p] = k]
    /\ granted' = IF Admits(count[k] + 1)
                  THEN [granted EXCEPT ![k] = [a \in Recent |-> granted[k][a] + 1]]
                  ELSE granted
    /\ UNCHANGED ttl

(* Regression: the NX is dropped. *)
AlwaysSets(k) == TRUE

(* NX: only a key without an expiry gets one. *)
Sets(k) == ttl[k] = 0

(* PEXPIRE NX; nothing happens to a key that does not exist (any more). *)
PExpire(p) ==
    /\ pending[p] # None
    /\ LET k == pending[p]
       IN ttl' = IF count[k] > 0 /\ Sets(k) THEN [ttl EXCEPT ![k] = Window] ELSE ttl
    /\ pending' = [pending EXCEPT ![p] = None]
    /\ UNCHANGED <<count, granted>>

(* The connection breaks after INCR. *)
Lose(p) ==
    /\ pending[p] # None
    /\ pending' = [pending EXCEPT ![p] = None]
    /\ UNCHANGED <<count, ttl, granted>>

(* Regression: a key without an expiry runs out all the same. *)
ElapsedUnchecked(k) == ttl[k] - 1

Elapsed(k) == IF ttl[k] = 0 THEN 0 ELSE ttl[k] - 1

(* A tick passes; keys whose time has come are dropped. *)
Tick ==
    /\ ttl'   = [k \in Key |-> Elapsed(k)]
    /\ count' = [k \in Key |-> IF ttl[k] > 0 /\ Elapsed(k) = 0 THEN 0 ELSE count[k]]
    /\ granted' = [k \in Key |-> [a \in Recent |-> IF a = 0 THEN 0 ELSE granted[k][a - 1]]]
    /\ UNCHANGED pending

-----------------------------------------------------------------------------

Next ==
    \/ \E p \in Proc, k \in Key : Incr(p, k)
    \/ \E p \in Proc : PExpire(p) \/ Lose(p)
    \/ Tick

Spec == Init /\ [][Next]_vars

(* Time passes; of the PEXPIREs sent again and again for a key some arrive;*)
(* and its clients keep asking (whoever does not is locked out of nothing).*)
Fairness ==
    /\ WF_vars(Tick)
    /\ \A k \in Key : /\ SF_vars(\E p \in Proc : pending[p] = k /\ PExpire(p))
                      /\ SF_vars(\E p \in Proc : Incr(p, k))

FairSpec == Spec /\ Fairness

-----------------------------------------------------------------------------
(***************************************************************************)
(* Properties.                                                             *)
(***************************************************************************)

(* Every key and request has its type. *)
TypeOK ==
    /\ count   \in [Key -> Counted]
    /\ ttl     \in [Key -> 0 .. Window]
    /\ pending \in [Proc -> Key \cup {None}]
    /\ granted \in [Key -> [Recent -> Nat]]

(* However the two commands of many requests and the expiry interleave,    *)
(* and whatever is lost, no Window of time, wherever it starts, sees more  *)
(* than twice Max requests let through by the count: the end of one fixed  *)
(* window and the beginning of the next.                                   *)
BurstIsBounded ==
    \A k \in Key : granted[k][Window - 1] <= 2 * Max

(* A key over its limit is let in again, even when its client goes on      *)
(* asking all the time, and even when the PEXPIRE of the first request was *)
(* lost and left the key without an expiry.                                *)
LockoutEnds ==
    \A k \in Key : (count[k] > Max) ~> (count[k] = 0)

=============================================================================
