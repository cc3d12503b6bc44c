----------------------------- MODULE TrialSweep -----------------------------
(***************************************************************************)
(* The trial of an organization and the job that ends it: StartTrial at    *)
(* sign-up, the access policy, and cmd/jobs running SuspendExpiredTrials   *)
(* (internal/core/organization).                                           *)
(*                                                                         *)
(* The job scans once, for at most Limit organizations, and then updates   *)
(* them one statement at a time.  Nothing keeps two runs of it apart, and  *)
(* a run may fail at an organization or be killed.  Runs are started by a  *)
(* scheduler outside this code.                                            *)
(*                                                                         *)
(* No code calls Activate, MarkPastDue or Cancel: an organization is       *)
(* trialing or suspended.                                                  *)
(***************************************************************************)
EXTENDS Integers, FiniteSets, Sequences, Functions

CONSTANTS
    Org,        \* organizations
    Job,        \* processes that run the sweep
    None,       \* the value of a row or run that does not exist
    Trial,      \* trialDuration
    Limit,      \* defaultExpiredTrialsBatchSize
    MaxClock    \* bound on the clock, for model checking

ASSUME TrialAssumption ==
    /\ IsFiniteSet(Org)
    /\ Trial \in Nat \ {0}
    /\ Limit \in Nat \ {0}
    /\ MaxClock \in Nat

VARIABLES
    status,     \* organizations.subscription_status
    endsAt,     \* organizations.trial_ends_at
    clock,
    run         \* the job's runs: what is left of the batch, and the counters

vars == <<status, endsAt, clock, run>>

Status == {"trialing", "suspended"}

(* due is history: the organizations that were due when the run scanned.   *)
Run == [todo : Seq(Org), failed : Nat, due : SUBSET Org]

(* A row or run is told apart from its absence. *)
ASSUME NoneAssumption == None \notin Status \cup Run

Init ==
    /\ status = [o \in Org |-> None]
    /\ endsAt = [o \in Org |-> 0]
    /\ clock  = 0
    /\ run    = [j \in Job |-> None]

-----------------------------------------------------------------------------

(* StartTrial, in the sign-up transaction. *)
Signup(o) ==
    /\ status[o] = None
    /\ status' = [status EXCEPT ![o] = "trialing"]
    /\ endsAt' = [endsAt EXCEPT ![o] = clock + Trial]
    /\ UNCHANGED <<clock, run>>

(* IsOrganizationActive, which is CanPerformBusinessOperations. *)
Active(o, now) == status[o] = "trialing" /\ now < endsAt[o]

(* Regression: trial_ends_at is not looked at. *)
AnyTrial(now) == {o \in Org : status[o] = "trialing"}

(* Regression: only trials that ended since the last run. *)
JustExpired(now) == {o \in Org : status[o] = "trialing" /\ endsAt[o] = now - 1}

(* subscription_status = 'trialing' AND trial_ends_at < now: the boundary  *)
(* instant, at which access is gone already, is left to the next run.      *)
Expired(now) == {o \in Org : status[o] = "trialing" /\ endsAt[o] < now}

BatchSize(due) == IF Cardinality(due) < Limit THEN Cardinality(due) ELSE Limit

(* The sequences of Limit members of due, or of all if there are fewer. *)
Selections(due) == Injection(1 .. BatchSize(due), due)

(* Regression: the order is not asked for. *)
Unordered(due) == Selections(due)

(* ORDER BY trial_ends_at LIMIT Limit; ties come in any order. *)
Batches(due) ==
    {s \in Selections(due) : \A i \in DOMAIN s :
        \A o \in due \ {s[k] : k \in 1 .. i} : endsAt[s[i]] <= endsAt[o]}

(* FindExpiredTrials. *)
SweepScan(j) ==
    /\ run[j] = None
    /\ \E batch \in Batches(Expired(clock)) :
          run' = [run EXCEPT ![j] = [todo |-> batch, failed |-> 0, due |-> Expired(clock)]]
    /\ UNCHANGED <<status, endsAt, clock>>

(* Regression: Cancel in place of Suspend. *)
CanceledInstead(o) == [status EXCEPT ![o] = "canceled"]

(* Suspend, which a scanned organization always allows, and the UPDATE,    *)
(* which writes whatever the row holds by now.                             *)
Suspended(o) == [status EXCEPT ![o] = "suspended"]

(* The first organization of the batch. *)
SweepSuspend(j) ==
    /\ run[j] # None
    /\ run[j].todo # <<>>
    /\ status' = Suspended(Head(run[j].todo))
    /\ run'    = [run EXCEPT ![j].todo = Tail(run[j].todo)]
    /\ UNCHANGED <<endsAt, clock>>

(* The UPDATE fails: the sweep goes on with the next. *)
SweepFail(j) ==
    /\ run[j] # None
    /\ run[j].todo # <<>>
    /\ run' = [run EXCEPT ![j].todo = Tail(run[j].todo), ![j].failed = run[j].failed + 1]
    /\ UNCHANGED <<status, endsAt, clock>>

Exited(j) == run[j] # None /\ run[j].todo = <<>>

(* The process exits, with success unless something failed. *)
SweepExit(j) ==
    /\ Exited(j)
    /\ run' = [run EXCEPT ![j] = None]
    /\ UNCHANGED <<status, endsAt, clock>>

(* The process is killed, or runs into sweepTimeout. *)
SweepKilled(j) ==
    /\ run[j] # None
    /\ run[j].todo # <<>>
    /\ run' = [run EXCEPT ![j] = None]
    /\ UNCHANGED <<status, endsAt, clock>>

Tick ==
    /\ clock < MaxClock
    /\ clock' = clock + 1
    /\ UNCHANGED <<status, endsAt, run>>

-----------------------------------------------------------------------------

Sweep(j) ==
    SweepScan(j) \/ SweepSuspend(j) \/ SweepFail(j) \/ SweepExit(j) \/ SweepKilled(j)

Next ==
    \/ \E o \in Org : Signup(o)
    \/ \E j \in Job : Sweep(j)
    \/ Tick

Spec == Init /\ [][Next]_vars

(* The scheduler starts the job again and again, a run that can go on      *)
(* does, and an UPDATE that is tried for ever does not fail for ever.      *)
Fairness ==
    \A j \in Job : /\ WF_vars(SweepScan(j))
                   /\ WF_vars(SweepExit(j))
                   /\ SF_vars(SweepSuspend(j))

FairSpec == Spec /\ Fairness

-----------------------------------------------------------------------------
(***************************************************************************)
(* Properties.                                                             *)
(***************************************************************************)

(* Every row, run and counter has its type. *)
TypeOK ==
    /\ status \in [Org -> Status \cup {None}]
    /\ endsAt \in [Org -> Nat]
    /\ clock  \in Nat
    /\ run    \in [Job -> Run \cup {None}]

(* The sweep never takes access away: whoever it suspends has lost it by   *)
(* the access policy already, however late the UPDATE comes after the scan *)
(* and however many sweeps overlap.                                        *)
SweepTakesNoAccess ==
    [][\A o \in Org : status[o] = "trialing" /\ status'[o] = "suspended" =>
          ~ Active(o, clock)]_vars

(* Longest-expired first: when a run that exits with success leaves an     *)
(* organization that was due, then at least a whole batch of others, none  *)
(* of which expired later, has been suspended meanwhile.                   *)
Left(j) == {o \in run[j].due : status[o] = "trialing"}

SuccessDrainsOldest ==
    \A j \in Job : Exited(j) /\ run[j].failed = 0 =>
        \A o \in Left(j) :
            Cardinality({d \in run[j].due \ Left(j) : endsAt[d] <= endsAt[o]}) >= Limit

(* Every expired trial is suspended in the end, although a run takes at    *)
(* most Limit of them and may fail or be killed.                           *)
ExpiredTrialsAreSuspended ==
    \A o \in Org : (status[o] = "trialing" /\ endsAt[o] < clock) ~> (status[o] = "suspended")

=============================================================================
