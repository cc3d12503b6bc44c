-------------------------- MODULE TrialSweep_proofs --------------------------
(***************************************************************************)
(* TLAPS proofs about the safety of TrialSweep, for any finite number of   *)
(* organizations, any jobs that overlap, any trial and any batch.          *)
(***************************************************************************)
EXTENDS TrialSweep, FiniteSetTheorems, SequenceTheorems, TLAPS

USE TrialAssumption, NoneAssumption

(***************************************************************************)
(* The inductive invariant.                                                *)
(***************************************************************************)

(* A run works on what was due when it scanned, and what was due has lost  *)
(* its access by then: rows are neither removed nor prolonged.             *)
RunHolds(r) ==
    /\ \A o \in r.due : status[o] # None /\ endsAt[o] < clock
    /\ r.todo \in Seq(r.due)

(* A whole batch of what was due longest, of which a run that has met no   *)
(* failure has suspended what is not left to do.                           *)
BatchOf(r, B) ==
    /\ Cardinality(B) = BatchSize(r.due)
    /\ \A b \in B, o \in r.due \ B : endsAt[b] <= endsAt[o]
    /\ \A b \in B : status[b] = "suspended" \/ b \in Range(r.todo)

BatchKept(r) == r.failed = 0 => \E B \in SUBSET r.due : BatchOf(r, B)

RunsConsistent ==
    \A j \in Job : run[j] # None => RunHolds(run[j]) /\ BatchKept(run[j])

IInv ==
    /\ TypeOK
    /\ RunsConsistent

-----------------------------------------------------------------------------
(***************************************************************************)
(* Lemmas.                                                                 *)
(***************************************************************************)

(* Taking the head off a list leaves the rest of what it lists.            *)
LEMMA HeadAndTail ==
    ASSUME NEW S, NEW s \in Seq(S), s # <<>>
    PROVE  /\ Head(s) \in S
           /\ Tail(s) \in Seq(S)
           /\ \A x \in Range(s) : x = Head(s) \/ x \in Range(Tail(s))
<1>1. /\ Head(s) \in S /\ Tail(s) \in Seq(S) /\ Len(Tail(s)) = Len(s) - 1
      /\ \A i \in 1 .. Len(Tail(s)) : Tail(s)[i] = s[i + 1]
    BY HeadTailProperties
<1>2. ASSUME NEW i \in 1 .. Len(s), i # 1 PROVE s[i] \in Range(Tail(s))
  <2>1. i - 1 \in 1 .. Len(Tail(s))
    BY <1>1, <1>2
  <2>2. Tail(s)[i - 1] = s[i]
    BY <1>1, <2>1
  <2>3. DOMAIN Tail(s) = 1 .. Len(Tail(s))
    BY <1>1
  <2>4. QED
    BY <2>1, <2>2, <2>3 DEF Range
<1>3. Head(s) = s[1] /\ DOMAIN s = 1 .. Len(s)
    OBVIOUS
<1>4. QED
    BY <1>1, <1>2, <1>3 DEF Range

(* What is due is finite, and a batch fits into it.                        *)
LEMMA DueIsFinite ==
    ASSUME NEW due \in SUBSET Org
    PROVE  /\ IsFiniteSet(due) /\ Cardinality(due) \in Nat
           /\ BatchSize(due) \in Nat /\ BatchSize(due) <= Cardinality(due)
           /\ BatchSize(due) <= Limit
           /\ BatchSize(due) < Cardinality(due) => BatchSize(due) = Limit
<1>1. IsFiniteSet(due)
    BY FS_Subset
<1>2. Cardinality(due) \in Nat
    BY <1>1, FS_CardinalityType
<1>3. QED
    BY <1>1, <1>2 DEF BatchSize

(* What a scan returns is a batch of what was due longest.                 *)
LEMMA BatchIsOldest ==
    ASSUME NEW due \in SUBSET Org, NEW batch \in Batches(due)
    PROVE  /\ batch \in Seq(due)
           /\ Range(batch) \in SUBSET due
           /\ Cardinality(Range(batch)) = BatchSize(due)
           /\ \A b \in Range(batch), o \in due \ Range(batch) : endsAt[b] <= endsAt[o]
<1> DEFINE n == BatchSize(due)
<1>0. n \in Nat
    BY DueIsFinite
<1>1. batch \in [1 .. n -> due] /\ IsInjective(batch)
    BY DEF Batches, Selections, Injection
<1>2. batch \in Seq(due) /\ Range(batch) \in SUBSET due
    BY <1>0, <1>1 DEF Range
<1>3. Cardinality(Range(batch)) = n
  <2>1. batch \in Surjection(1 .. n, Range(batch)) /\ batch \in Injection(1 .. n, Range(batch))
    BY <1>1 DEF Surjection, Injection, Range
  <2>2. ExistsBijection(1 .. n, Range(batch))
    BY <2>1 DEF ExistsBijection, Bijection
  <2>3. IsFiniteSet(1 .. n) /\ Cardinality(1 .. n) = n
    BY <1>0, FS_Interval
  <2>4. QED
    BY <2>2, <2>3, FS_Bijection
<1>4. ASSUME NEW b \in Range(batch), NEW o \in due \ Range(batch) PROVE endsAt[b] <= endsAt[o]
  <2>1. PICK i \in DOMAIN batch : b = batch[i]
    BY DEF Range
  <2>2. DOMAIN batch = 1 .. n
    BY <1>1
  <2>3. o \in due \ {batch[k] : k \in 1 .. i}
    BY <1>0, <2>1, <2>2 DEF Range
  <2>4. QED
    BY <2>1, <2>3 DEF Batches
<1>5. QED
    BY <1>2, <1>3, <1>4

-----------------------------------------------------------------------------
(***************************************************************************)
(* Types.                                                                  *)
(***************************************************************************)

LEMMA InitType == Init => TypeOK
    BY DEF Init, TypeOK

LEMMA StepType == TypeOK /\ [Next]_vars => TypeOK'
<1> SUFFICES ASSUME TypeOK, [Next]_vars PROVE TypeOK'
    OBVIOUS
<1>1. ASSUME NEW o \in Org, Signup(o) PROVE TypeOK'
    BY <1>1 DEF Signup, TypeOK, Status
<1>2. ASSUME NEW j \in Job, SweepScan(j) PROVE TypeOK'
  <2>1. Expired(clock) \in SUBSET Org
    BY DEF Expired
  <2>2. PICK batch \in Batches(Expired(clock)) :
            run' = [run EXCEPT ![j] = [todo |-> batch, failed |-> 0, due |-> Expired(clock)]]
    BY <1>2 DEF SweepScan
  <2>3. batch \in Seq(Org)
    BY <2>1, BatchIsOldest
  <2>4. [todo |-> batch, failed |-> 0, due |-> Expired(clock)] \in Run
    BY <2>1, <2>3 DEF Run
  <2>5. QED
    BY <1>2, <2>2, <2>4 DEF SweepScan, TypeOK
<1>3. ASSUME NEW j \in Job, run[j] # None, run[j].todo # <<>>
      PROVE  /\ Head(run[j].todo) \in Org
             /\ [run[j] EXCEPT !.todo = Tail(run[j].todo)] \in Run
             /\ [run[j] EXCEPT !.todo = Tail(run[j].todo), !.failed = run[j].failed + 1] \in Run
  <2>1. run[j] \in Run
    BY <1>3 DEF TypeOK
  <2>2. Head(run[j].todo) \in Org /\ Tail(run[j].todo) \in Seq(Org)
    BY <1>3, <2>1, HeadAndTail DEF Run
  <2>3. run[j].failed + 1 \in Nat
    BY <2>1 DEF Run
  <2>4. ASSUME NEW r \in Run, NEW s \in Seq(Org), NEW n \in Nat
        PROVE  [r EXCEPT !.todo = s] \in Run /\ [r EXCEPT !.todo = s, !.failed = n] \in Run
    BY DEF Run
  <2>5. QED
    BY <2>1, <2>2, <2>3, <2>4
<1>4. ASSUME NEW j \in Job, SweepSuspend(j) PROVE TypeOK'
    BY <1>3, <1>4 DEF SweepSuspend, Suspended, Status, TypeOK
<1>5. ASSUME NEW j \in Job, SweepFail(j) PROVE TypeOK'
  <2>1. run' = [run EXCEPT ![j] = [run[j] EXCEPT !.todo = Tail(run[j].todo),
                                                 !.failed = run[j].failed + 1]]
    BY <1>5 DEF SweepFail, TypeOK
  <2>2. QED
    BY <1>3, <1>5, <2>1 DEF SweepFail, TypeOK
<1>6. ASSUME NEW j \in Job, SweepExit(j) \/ SweepKilled(j) PROVE TypeOK'
    BY <1>6 DEF SweepExit, SweepKilled, TypeOK
<1>7. ASSUME Tick PROVE TypeOK'
    BY <1>7 DEF Tick, TypeOK
<1>8. ASSUME UNCHANGED vars PROVE TypeOK'
    BY <1>8 DEF vars, TypeOK
<1>9. QED
    BY <1>1, <1>2, <1>4, <1>5, <1>6, <1>7, <1>8 DEF Next, Sweep

-----------------------------------------------------------------------------
(***************************************************************************)
(* What no step takes back.                                                *)
(***************************************************************************)

(* Rows stay, with the end of their trial; who is suspended stays so.      *)
RowsAreKept ==
    /\ \A o \in Org : status[o] # None => status'[o] # None /\ endsAt'[o] = endsAt[o]
    /\ \A o \in Org : status[o] = "suspended" => status'[o] = "suspended"
    /\ clock <= clock'

LEMMA StepKeeps ==
    ASSUME TypeOK, [Next]_vars
    PROVE  RowsAreKept
<1>0. "suspended" # None /\ clock \in Nat
    BY DEF Status, TypeOK
<1>1. ASSUME NEW o \in Org, Signup(o) PROVE RowsAreKept
    BY <1>0, <1>1 DEF Signup, RowsAreKept, TypeOK
<1>2. ASSUME NEW j \in Job, SweepSuspend(j) PROVE RowsAreKept
    BY <1>0, <1>2 DEF SweepSuspend, Suspended, RowsAreKept, TypeOK
<1>3. ASSUME UNCHANGED <<status, endsAt>>, clock' = clock \/ clock' = clock + 1 PROVE RowsAreKept
    BY <1>0, <1>3 DEF RowsAreKept
<1>4. QED
    BY <1>1, <1>2, <1>3
    DEF Next, Sweep, SweepScan, SweepFail, SweepExit, SweepKilled, Tick, vars

(* What holds of a run goes on to hold of it.                              *)
LEMMA RunIsKept ==
    ASSUME TypeOK, TypeOK', RowsAreKept, NEW r \in Run, RunHolds(r), BatchKept(r)
    PROVE  RunHolds(r)' /\ BatchKept(r)'
<1>1. RunHolds(r)'
    BY DEF RunHolds, RowsAreKept, TypeOK, Run
<1>2. ASSUME NEW B \in SUBSET r.due, BatchOf(r, B) PROVE BatchOf(r, B)'
    BY <1>2 DEF BatchOf, RunHolds, RowsAreKept, Run
<1>3. QED
    BY <1>1, <1>2 DEF BatchKept

-----------------------------------------------------------------------------
(***************************************************************************)
(* The steps keep the invariant.                                           *)
(***************************************************************************)

LEMMA ScanStarts ==
    ASSUME TypeOK, NEW j \in Job, SweepScan(j), NEW r, r = run'[j]
    PROVE  RunHolds(r)' /\ BatchKept(r)'
<1>1. PICK batch \in Batches(Expired(clock)) :
          run' = [run EXCEPT ![j] = [todo |-> batch, failed |-> 0, due |-> Expired(clock)]]
    BY DEF SweepScan
<1>2. r.due = Expired(clock) /\ r.todo = batch /\ r.due \in SUBSET Org
    BY <1>1 DEF TypeOK, Expired
<1>3. /\ batch \in Seq(r.due)
      /\ Range(batch) \in SUBSET r.due
      /\ Cardinality(Range(batch)) = BatchSize(r.due)
      /\ \A b \in Range(batch), o \in r.due \ Range(batch) : endsAt[b] <= endsAt[o]
    BY <1>2, BatchIsOldest
<1>4. UNCHANGED <<status, endsAt, clock>>
    BY DEF SweepScan
<1>5. \A o \in r.due : status[o] # None /\ endsAt[o] < clock
    BY <1>2 DEF Expired, Status
<1>6. RunHolds(r)'
    BY <1>2, <1>3, <1>4, <1>5 DEF RunHolds
<1>7. BatchOf(r, Range(batch))'
    BY <1>2, <1>3, <1>4 DEF BatchOf
<1>8. QED
    BY <1>3, <1>6, <1>7 DEF BatchKept

LEMMA SuspendGoesOn ==
    ASSUME TypeOK, TypeOK', RowsAreKept, NEW j \in Job, SweepSuspend(j),
           NEW r, r = run'[j], RunHolds(run[j]), BatchKept(run[j])
    PROVE  RunHolds(r)' /\ BatchKept(r)'
<1>1. PICK old : old = run[j]
    OBVIOUS
<1>2. old \in Run /\ RunHolds(old) /\ BatchKept(old) /\ old.todo # <<>>
    BY <1>1 DEF SweepSuspend, TypeOK
<1>3. r = [old EXCEPT !.todo = Tail(old.todo)]
    BY <1>1 DEF SweepSuspend, TypeOK
<1>4. r.due = old.due /\ r.todo = Tail(old.todo) /\ r.failed = old.failed
    BY <1>2, <1>3 DEF Run
<1>5. /\ Head(old.todo) \in old.due /\ Tail(old.todo) \in Seq(old.due)
      /\ \A x \in Range(old.todo) : x = Head(old.todo) \/ x \in Range(Tail(old.todo))
    BY <1>2, HeadAndTail DEF RunHolds
<1>6. old.due \subseteq Org
    BY <1>2 DEF Run
<1>7. RunHolds(old)' /\ BatchKept(old)'
    BY <1>2, RunIsKept
<1>8. RunHolds(r)'
    BY <1>4, <1>5, <1>7 DEF RunHolds
<1>9. status'[Head(old.todo)] = "suspended"
    BY <1>1, <1>5, <1>6 DEF SweepSuspend, Suspended, TypeOK
<1>10. ASSUME NEW B \in SUBSET old.due, BatchOf(old, B)' PROVE BatchOf(r, B)'
    BY <1>4, <1>5, <1>9, <1>10 DEF BatchOf
<1>11. QED
    BY <1>4, <1>7, <1>8, <1>10 DEF BatchKept

LEMMA FailGoesOn ==
    ASSUME TypeOK, TypeOK', RowsAreKept, NEW j \in Job, SweepFail(j),
           NEW r, r = run'[j], RunHolds(run[j])
    PROVE  RunHolds(r)' /\ BatchKept(r)'
<1>1. PICK old : old = run[j]
    OBVIOUS
<1>2. old \in Run /\ RunHolds(old) /\ old.todo # <<>>
    BY <1>1 DEF SweepFail, TypeOK
<1>3. r = [old EXCEPT !.todo = Tail(old.todo), !.failed = old.failed + 1]
    BY <1>1 DEF SweepFail, TypeOK
<1>4. r.due = old.due /\ r.todo = Tail(old.todo) /\ r.failed = old.failed + 1 /\ old.failed \in Nat
    BY <1>2, <1>3 DEF Run
<1>5. Tail(old.todo) \in Seq(old.due)
    BY <1>2, HeadAndTail DEF RunHolds
<1>6. RunHolds(r)'
    BY <1>2, <1>4, <1>5 DEF RunHolds, SweepFail
<1>7. BatchKept(r)'
    BY <1>4 DEF BatchKept
<1>8. QED
    BY <1>6, <1>7

LEMMA StepRuns == IInv /\ [Next]_vars => RunsConsistent'
<1> SUFFICES ASSUME IInv, [Next]_vars, NEW j \in Job, NEW r, r = run'[j], r # None
             PROVE  RunHolds(r)' /\ BatchKept(r)'
    BY DEF RunsConsistent, RunHolds, BatchKept, BatchOf
<1>0. TypeOK /\ TypeOK' /\ RowsAreKept
    BY StepType, StepKeeps DEF IInv
<1>1. ASSUME run[j] # None PROVE RunHolds(run[j]) /\ BatchKept(run[j])
    BY <1>1 DEF IInv, RunsConsistent
<1>2. CASE r = run[j]
  <2>1. r \in Run /\ RunHolds(r) /\ BatchKept(r)
    BY <1>0, <1>1, <1>2 DEF TypeOK
  <2>2. QED
    BY <1>0, <2>1, RunIsKept
<1>3. ASSUME SweepScan(j) PROVE RunHolds(r)' /\ BatchKept(r)'
    BY <1>0, <1>3, ScanStarts
<1>4. ASSUME SweepSuspend(j) PROVE RunHolds(r)' /\ BatchKept(r)'
    BY <1>0, <1>1, <1>4, SuspendGoesOn DEF SweepSuspend
<1>5. ASSUME SweepFail(j) PROVE RunHolds(r)' /\ BatchKept(r)'
    BY <1>0, <1>1, <1>5, FailGoesOn DEF SweepFail
<1>6. ASSUME SweepExit(j) \/ SweepKilled(j) PROVE FALSE
    BY <1>0, <1>6 DEF SweepExit, SweepKilled, TypeOK
<1>7. ASSUME NEW i \in Job, i # j, Sweep(i) PROVE r = run[j]
    BY <1>0, <1>7
    DEF Sweep, SweepScan, SweepSuspend, SweepFail, SweepExit, SweepKilled, TypeOK
<1>8. ASSUME UNCHANGED run PROVE r = run[j]
    BY <1>8
<1>9. QED
    BY <1>2, <1>3, <1>4, <1>5, <1>6, <1>7, <1>8 DEF Next, Sweep, Signup, Tick, vars

LEMMA InitIInv == Init => IInv
    BY InitType DEF Init, IInv, RunsConsistent

LEMMA StepIInv == IInv /\ [Next]_vars => IInv'
    BY StepType, StepRuns DEF IInv

-----------------------------------------------------------------------------
(***************************************************************************)
(* Theorems.                                                               *)
(***************************************************************************)

(* What a run has scanned, and what it has done of it so far, agrees with  *)
(* the rows in every reachable state, however many runs overlap.           *)
THEOREM Consistent == Spec => []IInv
    BY InitIInv, StepIInv, PTL DEF Spec

(* Every row, run and counter has its type.                                *)
THEOREM TypeCorrect == Spec => []TypeOK
    BY Consistent, PTL DEF IInv

(* A run that exits with success has suspended a whole batch of what was   *)
(* due longest, or all there was.                                          *)
THEOREM DrainsOldest == Spec => []SuccessDrainsOldest
<1>1. IInv => SuccessDrainsOldest
  <2> SUFFICES ASSUME IInv, NEW j \in Job, Exited(j), run[j].failed = 0, NEW o \in Left(j)
               PROVE  Cardinality({d \in run[j].due \ Left(j) : endsAt[d] <= endsAt[o]}) >= Limit
    BY DEF SuccessDrainsOldest
  <2> DEFINE due == run[j].due
             Done == {d \in due \ Left(j) : endsAt[d] <= endsAt[o]}
  <2>1. due \in SUBSET Org
    BY DEF IInv, TypeOK, Exited, Run
  <2>2. PICK B \in SUBSET due : BatchOf(run[j], B)
    BY DEF IInv, RunsConsistent, Exited, BatchKept
  <2>3. \A b \in B : status[b] = "suspended"
    BY <2>2 DEF BatchOf, Exited, Range
  <2>4. o \in due \ B
    BY <2>3 DEF Left
  <2>5. B \in SUBSET Done
    BY <2>2, <2>3, <2>4 DEF BatchOf, Left
  <2>6. Cardinality(B) = Limit /\ Cardinality(B) \in Nat
    <3>1. IsFiniteSet(due) /\ Cardinality(due) \in Nat /\ BatchSize(due) \in Nat
      BY <2>1, DueIsFinite
    <3>2. Cardinality(B) = BatchSize(due) /\ Cardinality(B) <= Cardinality(due) /\ Cardinality(B) # Cardinality(due)
      BY <2>2, <2>4, <3>1, FS_Subset DEF BatchOf
    <3>3. QED
      BY <2>1, <3>1, <3>2, DueIsFinite
  <2>7. IsFiniteSet(Done)
    BY <2>1, DueIsFinite, FS_Subset
  <2>8. Cardinality(B) <= Cardinality(Done) /\ Cardinality(Done) \in Nat
    BY <2>5, <2>7, FS_Subset, FS_CardinalityType
  <2>9. QED
    BY <2>6, <2>8
<1>2. QED
    BY <1>1, Consistent, PTL

(* No sweep suspends an organization that the access policy still admits.  *)
THEOREM TakesNoAccess == Spec => SweepTakesNoAccess
<1> DEFINE Step == \A o \in Org : status[o] = "trialing" /\ status'[o] = "suspended" =>
                      ~ Active(o, clock)
<1>1. ASSUME IInv, [Next]_vars PROVE Step
  <2> SUFFICES ASSUME NEW o \in Org, status[o] = "trialing", status'[o] = "suspended"
               PROVE  ~ Active(o, clock)
    OBVIOUS
  <2>0. TypeOK
    BY <1>1 DEF IInv
  <2>1. "trialing" # None /\ clock \in Nat /\ endsAt[o] \in Nat
    BY <2>0 DEF Status, TypeOK
  <2>2. PICK j \in Job : SweepSuspend(j)
    BY <1>1, <2>0, <2>1
    DEF Next, Signup, Sweep, SweepScan, SweepFail, SweepExit, SweepKilled, Tick, vars, TypeOK
  <2>3. o = Head(run[j].todo)
    BY <2>0, <2>2 DEF SweepSuspend, Suspended, TypeOK
  <2>4. RunHolds(run[j])
    BY <1>1, <2>2 DEF SweepSuspend, IInv, RunsConsistent
  <2>5. o \in run[j].due
    BY <2>2, <2>3, <2>4, HeadAndTail DEF SweepSuspend, RunHolds
  <2>6. endsAt[o] < clock
    BY <2>4, <2>5 DEF RunHolds
  <2>7. QED
    BY <2>1, <2>6 DEF Active
<1>2. IInv /\ [Next]_vars => [Step]_vars
    BY <1>1
<1>3. Spec => [][Step]_vars
    BY Consistent, <1>2, PTL DEF Spec
<1>4. QED
    BY <1>3 DEF SweepTakesNoAccess

=============================================================================
