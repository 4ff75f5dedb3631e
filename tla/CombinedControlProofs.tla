----------------------- MODULE CombinedControlProofs -----------------------
(***************************************************************************)
(* Combined control implements resource control, and through it the        *)
(* work-control store, and keeps the accounts of the model pool, although  *)
(* its admission reads the clock twice.                                    *)
(***************************************************************************)
EXTENDS CombinedControl, ResourceControlProofs, ModelControlProofs

\* What acquire_combined decided still holds when it commits: every other
\* writer waits, and time alone takes no admission back.
DecisionStands ==
  txn # NoTransaction =>
    /\ txn.unit \in Unit /\ txn.attempt \in Attempt /\ txn.holder \in Holder
    /\ MayAsk(txn.unit, txn.attempt)
    /\ Classify(txn.unit) = "ADMITTED"

CombinedInv == TypeOK /\ DecisionStands

\* Time takes no admission back: a lease that may be dispatched now may be
\* dispatched one tick later.
LEMMA TickKeepsAdmission ==
  ASSUME TypeOK, Tick, UNCHANGED resourceVars, NEW u \in Unit, NEW a \in Attempt
  PROVE  /\ MayAsk(u, a) => MayAsk(u, a)'
         /\ Classify(u)' = Classify(u)
<1>1. /\ now \in Nat /\ now' = now + 1
      /\ UNCHANGED <<jobStatus, cancellation, lease, stage, retry, latest, admission,
                     poolActive, jobActive, jobReserved, jobConsumed>>
  BY DEF TypeOK, Tick, graphVars, leaseVars, readinessVars, resourceVars
<1>2. Classify(u)' = Classify(u)
  BY <1>1 DEF Classify, Exceeds, Add
<1>3. ASSUME LeaseAdmissible(u, a) PROVE LeaseAdmissible(u, a)'
  <2>1. CASE a = 1
    BY <1>1, <1>3, <2>1 DEF LeaseAdmissible, Active, Exists
  <2>2. CASE a # 1
    <3>1. a - 1 \in Attempt
      BY <2>2, PolicyAssumption DEF Attempt
    <3>2. retry[u][a - 1].eligible \in Nat /\ now >= retry[u][a - 1].eligible
      BY <1>3, <2>2, <3>1 DEF LeaseAdmissible, TypeOK, Retry
    <3>3. now' >= retry'[u][a - 1].eligible
      BY <1>1, <3>2
    <3> QED BY <1>1, <1>3, <2>2, <3>3 DEF LeaseAdmissible, Active, Exists, IsLatestAttempt
  <2> QED BY <2>1, <2>2
<1> QED BY <1>1, <1>2, <1>3 DEF MayAsk

\* Every step of the combined operations is a step of resource control.
LEMMA CombinedStepIsResourceStep ==
  CombinedInv /\ [CombinedNext]_combinedVars => [ResourceNext]_allVars
<1> SUFFICES ASSUME CombinedInv, [CombinedNext]_combinedVars PROVE [ResourceNext]_allVars
  OBVIOUS
<1> USE DEF allVars
<1>1. CASE WorldNext
  <2>1. CASE Tick /\ UNCHANGED resourceVars
    BY <2>1 DEF ResourceNext, PlainNext
  <2>2. ASSUME NEW u \in Unit, NEW a \in Attempt, ExecutionEnds(u, a) PROVE ResourceNext
    BY <2>2 DEF ResourceNext, ResourceUnitNext
  <2>3. CASE UNCHANGED <<vars, resourceVars>>
    BY <2>3
  <2> QED BY <1>1, <2>1, <2>2, <2>3 DEF WorldNext
<1>2. CASE ServiceNext
  <2>1. CASE StoreNext /\ UNCHANGED resourceVars
    BY <2>1 DEF StoreNext, ResourceNext, PlainNext
  <2>2. ASSUME NEW j \in Job, CancelJobCombined(j) PROVE ResourceNext
    BY <2>2 DEF CancelJobCombined, ResourceNext, CancelJob
  <2>3. ASSUME NEW u \in Unit, NEW a \in Attempt, RefuseCombined(u, a) PROVE [ResourceNext]_allVars
    BY <2>3 DEF RefuseCombined, RefuseModel, ResourceNext, ResourceUnitNext
  <2>4. ASSUME NEW u \in Unit, NEW a \in Attempt, ExpireCombined(u, a) PROVE ResourceNext
    BY <2>4 DEF ExpireCombined, Expire, ResourceNext, ResourceUnitNext
  <2>5. ASSUME NEW u \in Unit, NEW a \in Attempt, NEW stopped \in BOOLEAN,
               RecordTermination(u, a, stopped)
        PROVE  ResourceNext
    BY <2>5 DEF ResourceNext, ResourceUnitNext
  <2>6. ASSUME NEW u \in Unit, NEW a \in Attempt, NEW h \in Holder, CompleteCombined(u, a, h)
        PROVE  ResourceNext
    <3>1. PICK usage \in Usage(u), modelUsage \in ModelUsage(u) :
            \/ CompleteUsageOverrunCombined(u, a, h, usage, modelUsage)
            \/ \E wait \in 1..MaxBackpressure :
                 CompleteStageCombinedBackpressured(u, a, h, usage, modelUsage, wait)
            \/ \E status \in TERMINAL_STAGE_STATUSES, retryable \in BOOLEAN :
                 CompleteStageCombined(u, a, h, status, retryable, usage, modelUsage)
            \/ \E kind \in {"SUCCEEDED", "RETRYABLE_FAILURE", "TERMINAL_FAILURE"} :
                 CompleteArtifactGroupCombined(u, a, h, kind, usage, modelUsage)
      BY <2>6 DEF CompleteCombined
    <3>2. \/ \E status \in TERMINAL_STAGE_STATUSES, retryable \in BOOLEAN :
               CompleteStage(u, a, h, status, retryable, usage)
          \/ \E kind \in {"SUCCEEDED", "RETRYABLE_FAILURE", "TERMINAL_FAILURE"} :
               CompleteArtifactGroup(u, a, h, kind, usage)
      <4>1. /\ "RETRYABLE_FAILURE" \in TERMINAL_STAGE_STATUSES
            /\ "TERMINAL_FAILURE" \in TERMINAL_STAGE_STATUSES
            /\ TRUE \in BOOLEAN /\ FALSE \in BOOLEAN
        BY DEF TERMINAL_STAGE_STATUSES, RETRYABLE_STAGE_STATUSES
      <4>2. CASE CompleteUsageOverrunCombined(u, a, h, usage, modelUsage)
        BY <4>1, <4>2 DEF CompleteUsageOverrunCombined, FailOverrun, CompleteStage,
                          CompleteArtifactGroup
      <4>3. ASSUME NEW wait \in 1..MaxBackpressure,
                   CompleteStageCombinedBackpressured(u, a, h, usage, modelUsage, wait)
            PROVE  \E status \in TERMINAL_STAGE_STATUSES, retryable \in BOOLEAN :
                     CompleteStage(u, a, h, status, retryable, usage)
        BY <4>1, <4>3 DEF CompleteStageCombinedBackpressured, CompleteStage
      <4>4. ASSUME NEW status \in TERMINAL_STAGE_STATUSES, NEW retryable \in BOOLEAN,
                   CompleteStageCombined(u, a, h, status, retryable, usage, modelUsage)
            PROVE  CompleteStage(u, a, h, status, retryable, usage)
        BY <4>4 DEF CompleteStageCombined, CompleteStage
      <4>5. ASSUME NEW kind \in {"SUCCEEDED", "RETRYABLE_FAILURE", "TERMINAL_FAILURE"},
                   CompleteArtifactGroupCombined(u, a, h, kind, usage, modelUsage)
            PROVE  CompleteArtifactGroup(u, a, h, kind, usage)
        BY <4>5 DEF CompleteArtifactGroupCombined, CompleteArtifactGroup
      <4> QED BY <3>1, <4>2, <4>3, <4>4, <4>5
    <3> QED BY <3>2 DEF ResourceNext, ResourceUnitNext
  <2>7. CASE UNCHANGED <<vars, resourceVars>>
    BY <2>7
  <2> HIDE DEF allVars
  <2> QED BY <1>2, <2>1, <2>2, <2>3, <2>4, <2>5, <2>6, <2>7 DEF ServiceNext
<1>3. CASE CommitCombined
  <2>1. /\ txn.unit \in Unit /\ txn.attempt \in Attempt /\ txn.holder \in Holder
        /\ MayAsk(txn.unit, txn.attempt) /\ Classify(txn.unit) = "ADMITTED"
    BY <1>3 DEF CommitCombined, CombinedInv, DecisionStands
  <2>2. AdmitWork(txn.unit, txn.attempt, txn.holder)
    BY <1>3, <2>1 DEF CommitCombined, StoreAdmission, AdmitWork
  <2> QED BY <2>1, <2>2 DEF ResourceNext, ResourceUnitNext
<1>4. CASE RollBack \/ UNCHANGED combinedVars
           \/ \E u \in Unit, a \in Attempt, h \in Holder : DecideCombined(u, a, h)
  BY <1>4 DEF RollBack, DecideCombined, combinedVars
<1> QED BY <1>1, <1>2, <1>3, <1>4 DEF CombinedNext

\* The decision of an open transaction stands until it commits.
LEMMA CombinedInvStep == CombinedInv /\ [CombinedNext]_combinedVars => CombinedInv'
<1> SUFFICES ASSUME CombinedInv, [CombinedNext]_combinedVars PROVE CombinedInv'
  OBVIOUS
<1>1. TypeOK'
  BY CombinedStepIsResourceStep, ResourceStepIsWorkStep, TypeStep DEF CombinedInv
<1>2. CASE WorldNext
  <2>1. txn' = txn
    BY <1>2, Zenon DEF WorldNext
  <2>2. ASSUME Tick, UNCHANGED resourceVars PROVE DecisionStands'
    <3> SUFFICES ASSUME txn # NoTransaction PROVE DecisionStands'
      BY <2>1 DEF DecisionStands
    <3>1. PICK u \in Unit, a \in Attempt : u = txn.unit /\ a = txn.attempt
      BY DEF CombinedInv, DecisionStands
    <3>2. MayAsk(u, a) /\ Classify(u) = "ADMITTED" /\ txn.holder \in Holder
      BY <3>1 DEF CombinedInv, DecisionStands
    <3>3. MayAsk(u, a)' /\ Classify(u)' = "ADMITTED"
      BY <2>2, <3>2, TickKeepsAdmission DEF CombinedInv
    <3>4. u = txn'.unit /\ a = txn'.attempt /\ txn'.holder \in Holder
      BY <2>1, <3>1, <3>2, Zenon
    <3> QED BY <3>3, <3>4 DEF DecisionStands, MayAsk, LeaseAdmissible, Active, Exists,
                              IsLatestAttempt, Classify, Exceeds, Add
  <2>3. ASSUME UNCHANGED <<vars, admission, poolActive, jobActive, jobReserved, jobConsumed>>
        PROVE  DecisionStands'
    BY <2>1, <2>3 DEF CombinedInv, DecisionStands, vars, MayAsk, LeaseAdmissible, Active, Exists,
                      IsLatestAttempt, Classify, Exceeds, Add
  <2>4. ASSUME NEW u \in Unit, NEW a \in Attempt, ExecutionEnds(u, a) PROVE DecisionStands'
    BY <2>3, <2>4 DEF ExecutionEnds
  <2>5. ASSUME UNCHANGED <<vars, resourceVars>> PROVE DecisionStands'
    BY <2>3, <2>5 DEF resourceVars
  <2> QED BY <1>1, <1>2, <2>2, <2>4, <2>5 DEF WorldNext, CombinedInv
<1>3. CASE ServiceNext \/ CommitCombined \/ RollBack
  <2>1. txn' = NoTransaction
    BY <1>3 DEF ServiceNext, CommitCombined, RollBack
  <2>2. DecisionStands'
    BY <2>1 DEF DecisionStands
  <2> QED BY <1>1, <2>2 DEF CombinedInv
<1>4. ASSUME NEW u \in Unit, NEW a \in Attempt, NEW h \in Holder, DecideCombined(u, a, h)
      PROVE  CombinedInv'
  <2>1. /\ UNCHANGED <<vars, resourceVars>> /\ MayAsk(u, a) /\ Classify(u) = "ADMITTED"
        /\ txn'.unit = u /\ txn'.attempt = a /\ txn'.holder = h
    BY <1>4 DEF DecideCombined
  <2>2. DecisionStands'
    BY <2>1, SMTT(20) DEF DecisionStands, vars, resourceVars, MayAsk, LeaseAdmissible, Active, Exists,
                IsLatestAttempt, Classify, Exceeds, Add
  <2> QED BY <1>1, <2>2 DEF CombinedInv
<1>5. CASE UNCHANGED combinedVars
  BY <1>1, <1>5 DEF combinedVars, CombinedInv, DecisionStands, vars, resourceVars, MayAsk,
                    LeaseAdmissible, Active, Exists, IsLatestAttempt, Classify, Exceeds, Add
<1> QED BY <1>2, <1>3, <1>4, <1>5 DEF CombinedNext

\* Combined control implements resource control: every theorem about leases,
\* cancellation, dependencies and reservations holds of it.
THEOREM CombinedImplementsResource == CombinedSpec => ResourceSpec
<1>1. CombinedInit => CombinedInv /\ ResourceInit
  BY TypeInit DEF CombinedInit, ResourceInit, CombinedInv, DecisionStands
<1> QED BY <1>1, CombinedInvStep, CombinedStepIsResourceStep, PTL DEF CombinedSpec, ResourceSpec

\* In particular a lease of a combined job always has its resource reservation.
THEOREM CombinedReservationSafety == CombinedSpec => []ReservationFollowsLease
BY CombinedImplementsResource, ReservationSafety, PTL

\* A combined attempt keeps the pools within capacity too.
THEOREM CombinedOvercommitSafety == CombinedSpec => []NoOvercommit
BY CombinedImplementsResource, OvercommitSafety, PTL

-----------------------------------------------------------------------------
(* The model's side.  The pool head refilled for the decision is at least  *)
(* as old as the commit; the decision made with it stands all the same,    *)
(* because no other operation on the pool comes in between.                *)

HeadFits == txn # NoTransaction => Fits(txn.unit, txn.head)

CombinedModelInv == CombinedInv /\ ModelInv /\ HeadFits

LEMMA FitsLater ==
  ASSUME SlotsInv, NEW u \in Unit, NEW head, Fits(u, head), UNCHANGED <<bucket, jobModel>>,
         now' \in Nat, now <= now'
  PROVE  Fits(u, head)'
<1>1. PICK t \in Nat : bucket.at <= t /\ t <= now /\ head = Refill(bucket, t)
  BY DEF Fits
<1>2. now \in Nat /\ bucket \in Bucket
  BY DEF SlotsInv
<1>3. head.blocked \in Nat /\ head.blocked <= now
  <2>1. head.blocked = bucket.blocked
    BY <1>1, <1>2, RefillValues
  <2> QED BY <1>2, <2>1 DEF Fits, Bucket
<1>4. bucket'.at <= t /\ t <= now' /\ head = Refill(bucket', t)
  BY <1>1, <1>2
<1>5. \E s \in Nat : bucket'.at <= s /\ s <= now' /\ head = Refill(bucket', s)
  BY <1>4, Zenon
<1>6. head.blocked <= now'
  BY <1>2, <1>3
<1>7. /\ Within(Plus(Plus(jobModel'[JobOf[u]].consumed, jobModel'[JobOf[u]].reserved), Grant[u]),
                JobModelMax[JobOf[u]])
      /\ head.active + Invocations[u] <= PoolConcurrent
  BY DEF Fits
<1> QED BY <1>5, <1>6, <1>7 DEF Fits

\* Every step of the combined operations is, for the model tables, one of the
\* steps of model control.
LEMMA CombinedStepIsModelStep ==
  ASSUME CombinedModelInv, [CombinedNext]_combinedVars
  PROVE  ModelStep
<1>1. TypeOK /\ now \in Nat
  BY DEF CombinedModelInv, CombinedInv, TypeOK
<1>2. CASE UNCHANGED <<vars, modelVars>>
  BY <1>2 DEF ModelStep, vars
<1>3. CASE (Tick \/ StoreNext) /\ UNCHANGED modelVars
  BY <1>1, <1>3, StoreKeepsStates DEF ModelStep
<1>4. CASE WorldNext
  BY <1>2, <1>3, <1>4 DEF WorldNext, ExecutionEnds, ModelStep, vars
<1>5. ASSUME NEW j \in Job, CancelJobCombined(j) PROVE ModelStep
  BY <1>5 DEF ModelStep, CancelJobCombined
<1>6. ASSUME NEW u \in Unit, NEW a \in Attempt,
             \/ RefuseCombined(u, a) \/ ExpireCombined(u, a)
             \/ \E stopped \in BOOLEAN : RecordTermination(u, a, stopped) /\ UNCHANGED modelVars
             \/ \E acknowledged \in BOOLEAN :
                  RecordCancellation(u, a, acknowledged) /\ UNCHANGED <<vars, resourceVars>>
      PROVE  ModelStep
  <2>1. ASSUME RefuseWork(u, a) \/ (\E stopped \in BOOLEAN : RecordTermination(u, a, stopped)),
               UNCHANGED modelVars
        PROVE  ModelStep
    BY <1>2, <2>1 DEF RefuseWork, RecordTermination
  <2>2. CASE RefuseModel(u, a)
    BY <2>2 DEF ModelStep
  <2>3. CASE ExpireCombined(u, a)
    BY <2>3 DEF ModelStep, ExpireCombined
  <2>4. ASSUME NEW acknowledged \in BOOLEAN, RecordCancellation(u, a, acknowledged), UNCHANGED vars
        PROVE  ModelStep
    BY <2>4 DEF ModelStep, vars
  <2> QED BY <1>6, <2>1, <2>2, <2>3, <2>4 DEF RefuseCombined
<1>7. ASSUME NEW u \in Unit, NEW a \in Attempt, NEW h \in Holder, CompleteCombined(u, a, h)
      PROVE  ModelStep
  <2>1. PICK usage \in Usage(u), modelUsage \in ModelUsage(u) :
          \/ CompleteUsageOverrunCombined(u, a, h, usage, modelUsage)
          \/ \E wait \in 1..MaxBackpressure :
               CompleteStageCombinedBackpressured(u, a, h, usage, modelUsage, wait)
          \/ \E status \in TERMINAL_STAGE_STATUSES, retryable \in BOOLEAN :
               CompleteStageCombined(u, a, h, status, retryable, usage, modelUsage)
          \/ \E kind \in {"SUCCEEDED", "RETRYABLE_FAILURE", "TERMINAL_FAILURE"} :
               CompleteArtifactGroupCombined(u, a, h, kind, usage, modelUsage)
    BY <1>7 DEF CompleteCombined
  <2>2. modelUsage \in Amounts
    BY UsageAmounts
  <2>3. \E k \in ClosedState : CloseLease(u, a, k)
    <3>1. "RETRYABLE_FAILURE" \in TERMINAL_STAGE_STATUSES /\ TRUE \in BOOLEAN
      BY DEF TERMINAL_STAGE_STATUSES, RETRYABLE_STAGE_STATUSES
    <3> QED BY <2>1, <3>1, CompletionsClose
            DEF CompleteUsageOverrunCombined, CompleteStageCombinedBackpressured,
                CompleteStageCombined, CompleteArtifactGroupCombined
  <2>4. \/ ReleaseOverrun(u, a, modelUsage)
        \/ \E kind \in EventKind \ {"ADMITTED"}, until \in Nat : ReleaseModel(u, a, modelUsage, kind, until)
    <3>1. /\ "COMPLETED_RELEASED" \in EventKind \ {"ADMITTED"} /\ 0 \in Nat
          /\ "BACKPRESSURED_RELEASED" \in EventKind \ {"ADMITTED"}
          /\ \A wait \in 1..MaxBackpressure : NormalizedEligibleAt(wait) \in Nat
      BY <1>1, NormalizedIsTime DEF EventKind
    <3> QED BY <2>1, <3>1 DEF CompleteUsageOverrunCombined, CompleteStageCombinedBackpressured,
                              CompleteStageCombined, CompleteArtifactGroupCombined
  <2> QED BY <2>2, <2>3, <2>4, Zenon DEF ModelStep
<1>8. CASE ServiceNext
  BY <1>3, <1>5, <1>6, <1>7, <1>8 DEF ServiceNext
<1>9. CASE CommitCombined
  <2>1. PICK u \in Unit, a \in Attempt, h \in Holder :
          u = txn.unit /\ a = txn.attempt /\ h = txn.holder
    BY <1>9 DEF CommitCombined, CombinedModelInv, CombinedInv, DecisionStands
  <2>2. AcquireWorkLease(u, a, h) /\ ReserveModel(u, a, txn.head, now) /\ Fits(u, txn.head)
    BY <1>9, <2>1 DEF CommitCombined, StoreAdmission, CombinedModelInv, HeadFits
  <2> QED BY <2>2, Zenon DEF ModelStep
<1>10. CASE RollBack \/ UNCHANGED combinedVars
            \/ \E u \in Unit, a \in Attempt, h \in Holder : DecideCombined(u, a, h)
  BY <1>2, <1>10 DEF RollBack, DecideCombined, combinedVars
<1> QED BY <1>4, <1>8, <1>9, <1>10 DEF CombinedNext

LEMMA HeadFitsStep ==
  ASSUME CombinedModelInv, [CombinedNext]_combinedVars, TimePasses
  PROVE  HeadFits'
<1>1. SlotsInv
  BY DEF CombinedModelInv, ModelInv, PoolInv
<1>2. ASSUME UNCHANGED <<txn, bucket, jobModel>> PROVE HeadFits'
  <2> SUFFICES ASSUME txn # NoTransaction PROVE HeadFits'
    BY <1>2 DEF HeadFits
  <2>1. PICK u \in Unit : u = txn.unit
    BY DEF CombinedModelInv, CombinedInv, DecisionStands
  <2>2. PICK head : head = txn.head
    OBVIOUS
  <2>3. Fits(u, head)
    BY <2>1, <2>2 DEF CombinedModelInv, HeadFits
  <2>4. Fits(u, head)'
    BY <1>1, <1>2, <2>3, FitsLater DEF TimePasses
  <2>5. u = txn'.unit /\ head = txn'.head
    BY <1>2, <2>1, <2>2
  <2> QED BY <2>4, <2>5 DEF HeadFits, Fits
<1>3. CASE WorldNext
  BY <1>2, <1>3 DEF WorldNext, modelVars, InvocationEnds
<1>4. CASE ServiceNext \/ CommitCombined \/ RollBack
  BY <1>4 DEF ServiceNext, CommitCombined, RollBack, HeadFits
<1>5. ASSUME NEW u \in Unit, NEW a \in Attempt, NEW h \in Holder, DecideCombined(u, a, h)
      PROVE  HeadFits'
  <2> DEFINE head == Refill(bucket, now)
  <2>1. Fits(u, head)
    BY <1>1, <1>5, AdmittedModelFits DEF DecideCombined
  <2>2. /\ UNCHANGED <<now, bucket, jobModel>> /\ txn'.unit = u /\ txn'.head = head
    BY <1>5 DEF DecideCombined, vars, modelVars
  <2> HIDE DEF head
  <2> QED BY <2>1, <2>2 DEF HeadFits, Fits
<1>6. CASE UNCHANGED combinedVars
  BY <1>2, <1>6 DEF combinedVars, modelVars
<1> QED BY <1>3, <1>4, <1>5, <1>6 DEF CombinedNext

THEOREM CombinedModelSafety == CombinedSpec => []CombinedModelInv
<1>1. CombinedInit => CombinedModelInv
  BY TypeInit, ModelInvInit
     DEF CombinedInit, ResourceInit, CombinedModelInv, CombinedInv, DecisionStands, HeadFits
<1>2. CombinedModelInv /\ [CombinedNext]_combinedVars => CombinedModelInv'
  <2> SUFFICES ASSUME CombinedModelInv, [CombinedNext]_combinedVars PROVE CombinedModelInv'
    OBVIOUS
  <2>1. CombinedInv' /\ [Next]_vars
    BY CombinedInvStep, CombinedStepIsResourceStep, ResourceStepIsWorkStep DEF CombinedModelInv
  <2>2. ModelInv'
    BY <2>1, CombinedStepIsModelStep, ModelInvKept DEF CombinedModelInv
  <2>3. TimePasses
    BY <2>1, ClockMoves DEF CombinedModelInv, CombinedInv
  <2> QED BY <2>1, <2>2, <2>3, HeadFitsStep DEF CombinedModelInv
<1> QED BY <1>1, <1>2, PTL DEF CombinedSpec

\* Both reservations of a combined attempt are active exactly as long as its
\* lease, although two services keep them: the check that cancel_job_combined
\* makes before it closes them never fails.
THEOREM CombinedLeaseSafety == CombinedSpec => []CombinedFollowsLease
<1>1. CombinedModelInv => ModelFollowsLease
  BY DEF CombinedModelInv, ModelInv, ModelLeaseInv
<1>2. ReservationFollowsLease /\ ModelFollowsLease => CombinedFollowsLease
  BY DEF CombinedFollowsLease
<1> QED BY <1>1, <1>2, CombinedModelSafety, CombinedReservationSafety, PTL

\* The accounts of the model pool also hold when the head that is stored was
\* refilled at an earlier reading of the clock than its event.
THEOREM CombinedPoolSafety ==
  CombinedSpec => [](InvocationsBounded /\ RateConserved /\ ModelBudgetHeld /\ BackpressureHonoured)
<1>1. CombinedModelInv => InvocationsBounded /\ RateConserved /\ ModelBudgetHeld /\ BackpressureHonoured
  BY SlotsBoundInvocations DEF CombinedModelInv, ModelInv, PoolInv, LogInv
<1> QED BY <1>1, CombinedModelSafety, PTL

\* Admission does not disturb the leases it guards: under the resource service,
\* the model service and both together a work lease still keeps what a lease on
\* an attempt promises.
THEOREM AdmissionKeepsAttemptLease ==
  /\ ResourceSpec => KeepsAttemptLease
  /\ ModelSpec => KeepsAttemptLease
  /\ CombinedSpec => KeepsAttemptLease
<1>1. ResourceSpec => KeepsAttemptLease
  BY ResourceImplementsWork, WorkKeepsAttemptLease, PTL
<1>2. ModelSpec => KeepsAttemptLease
  BY ModelImplementsWork, WorkKeepsAttemptLease, PTL
<1>3. CombinedSpec => KeepsAttemptLease
  BY CombinedImplementsResource, <1>1, PTL
<1> QED BY <1>1, <1>2, <1>3
=============================================================================
