---------------------------- MODULE ModelControl ---------------------------
(***************************************************************************)
(* ModelControlService on top of the work-control store: a job bound to a  *)
(* model policy dispatches, completes, expires and cancels only through    *)
(* this service, which debits a shared rate pool (a token bucket with a    *)
(* concurrency limit and provider backpressure) and the job's budget in    *)
(* the same transaction as the lease operation.                            *)
(*                                                                         *)
(* Credits are integers: one unit of a dimension is CreditsPerUnit credits *)
(* and RefillRate credits arrive per tick, so fractions of a unit matter.  *)
(* The pool head is materialised and compared with a replay of the pool's  *)
(* immutable events on every read; here that comparison is the invariant   *)
(* PoolHeadMatchesEvents, not a guard, so a drift is seen and not hidden.  *)
(*                                                                         *)
(* invoking tells whether the attempt's model invocation is still open at  *)
(* the provider, whatever the store believes about its lease.              *)
(***************************************************************************)
EXTENDS WorkControl, SequencesExt

CONSTANTS
  Dimension,        \* requests and tokens
  CreditsPerUnit,   \* RATE_CREDITS_PER_UNIT
  Burst,            \* ModelRatePoolPolicyV2.request_burst and token_burst
  RefillRate,       \* credits per tick, by dimension
  PoolConcurrent,   \* ModelRatePoolPolicyV2.max_concurrent_requests
  MinBackpressure,  \* ModelRatePoolPolicyV2.minimum_backpressure_seconds
  JobModelMax,      \* JobModelPolicyV2.max_model_requests and max_model_tokens
  JobConcurrent,    \* JobModelPolicyV2.max_concurrent_requests
  Grant,            \* WorkModelDemandV2.request_allowance and token_allowance
  Invocations,      \* WorkModelDemandV2.concurrency_units
  MaxOverrun,       \* bound: units by which a usage exceeds its grant
  MaxBackpressure   \* bound: ticks a provider may ask to wait

Amounts == [Dimension -> Nat]

ASSUME RateAssumption ==
  /\ IsFiniteSet(Dimension) /\ IsFiniteSet(Job) /\ IsFiniteSet(Unit)
  /\ CreditsPerUnit \in Nat \ {0}
  /\ Burst \in [Dimension -> Nat \ {0}]
  /\ RefillRate \in [Dimension -> Nat \ {0}]
  /\ PoolConcurrent \in Nat \ {0}
  /\ MinBackpressure \in Nat \ {0}

ASSUME ModelPolicyAssumption ==
  /\ JobModelMax \in [Job -> Amounts]
  /\ JobConcurrent \in [Job -> Nat \ {0}]
  /\ Grant \in [Unit -> [Dimension -> Nat \ {0}]]
  /\ Invocations \in [Unit -> Nat \ {0}]
  /\ MaxOverrun \in Nat /\ MaxBackpressure \in Nat

VARIABLES
  modelReservation,  \* work_model_reservations, heads and charged usage, by attempt
  modelAdmission,    \* outcome of the newest model_admission_decision, by attempt
  bucket,            \* model_rate_pool_heads
  poolLog,           \* work_model_events in bucket_version order
  jobModel,          \* job_model_heads
  invoking           \* external: the attempt's invocation is still open

modelVars == <<modelReservation, modelAdmission, bucket, poolLog, jobModel, invoking>>

-----------------------------------------------------------------------------
(* Amounts, rows and the bucket *)

None == [d \in Dimension |-> 0]
Plus(v, w) == [d \in Dimension |-> v[d] + w[d]]
Minus(v, w) == [d \in Dimension |-> v[d] - w[d]]
Positive(v) == [d \in Dimension |-> IF v[d] > 0 THEN v[d] ELSE 0]
Within(v, limit) == \A d \in Dimension : v[d] <= limit[d]
Credits(v) == [d \in Dimension |-> v[d] * CreditsPerUnit]

ModelTerminal == {"BUDGET_EXHAUSTED", "UNSATISFIABLE_DEMAND"}

ModelOutcome ==
  ModelTerminal \cup {"NONE", "WAITING_PROVIDER", "WAITING_RATE", "WAITING_CONCURRENCY", "ADMITTED"}

NoModelReservation == [state |-> "NONE", usage |-> None]

ModelReservation ==
  [state : {"NONE", "ACTIVE", "RELEASE_PENDING_ACK", "RELEASED", "QUARANTINED"}, usage : Amounts]

\* blocked is 0 when no backpressure was recorded.
FullBucket == [credits |-> Credits(Burst), active |-> 0, blocked |-> 0, at |-> 0]

EventKind == {"ADMITTED", "COMPLETED_RELEASED", "BACKPRESSURED_RELEASED",
              "USAGE_OVERRUN_RELEASED", "RELEASE_PENDING_ACK", "ACKNOWLEDGED_RELEASED",
              "QUARANTINED"}

PoolEvent == [kind : EventKind, unit : Unit, at : Nat, usage : Amounts, refund : Amounts,
              released : Nat, blocked : Nat]

ModelTypeOK ==
  /\ modelReservation \in [Unit -> [Attempt -> ModelReservation]]
  /\ modelAdmission \in [Unit -> [Attempt -> ModelOutcome]]
  /\ bucket \in [credits : [Dimension -> Int], active : Nat, blocked : Nat, at : Nat]
  /\ poolLog \in Seq(PoolEvent)
  /\ jobModel \in [Job -> [active : Nat, reserved : Amounts, consumed : Amounts]]
  /\ invoking \in [Unit -> [Attempt -> BOOLEAN]]

Capped(credits) ==
  [d \in Dimension |-> IF credits[d] > Credits(Burst)[d] THEN Credits(Burst)[d] ELSE credits[d]]

\* Faulty variant of Refill: the credits are added but the clock of the head stays.
RefillKeepingClock(head, t) ==
  [head EXCEPT !.credits = Capped([d \in Dimension |-> @[d] + (t - head.at) * RefillRate[d]])]

\* _refill_pool_head
Refill(head, t) ==
  [head EXCEPT !.credits = Capped([d \in Dimension |-> @[d] + (t - head.at) * RefillRate[d]]),
               !.at = t]

Later(s, t) == IF s > t THEN s ELSE t

\* One event of _rebuild_pool_head.
Replay(head, e) ==
  LET h == Refill(head, e.at)
  IN [h EXCEPT
        !.credits = CASE e.kind = "ADMITTED" -> Minus(@, Credits(Grant[e.unit]))
                      [] e.kind = "USAGE_OVERRUN_RELEASED" ->
                           Minus(@, Credits(Positive(Minus(e.usage, Grant[e.unit]))))
                      [] OTHER -> Capped(Plus(@, Credits(e.refund))),
        !.active  = IF e.kind = "ADMITTED" THEN @ + Invocations[e.unit] ELSE @ - e.released,
        !.blocked = Later(@, e.blocked)]

\* _rebuild_pool_head
RebuiltBucket == FoldLeft(Replay, FullBucket, poolLog)

-----------------------------------------------------------------------------
(* Admission *)

RateCovers(u, head) == Within(Credits(Grant[u]), head.credits)

\* _classify
ModelClassify(u, head) ==
  LET j == JobOf[u]
      job == jobModel[j]
  IN IF \/ ~Within(Grant[u], Burst) \/ ~Within(Grant[u], JobModelMax[j])
        \/ Invocations[u] > PoolConcurrent \/ Invocations[u] > JobConcurrent[j]
     THEN "UNSATISFIABLE_DEMAND"
     ELSE IF ~Within(Plus(Plus(job.consumed, job.reserved), Grant[u]), JobModelMax[j])
     THEN "BUDGET_EXHAUSTED"
     ELSE IF head.blocked > now THEN "WAITING_PROVIDER"
     ELSE IF ~RateCovers(u, head) THEN "WAITING_RATE"
     ELSE IF \/ head.active + Invocations[u] > PoolConcurrent
             \/ job.active + Invocations[u] > JobConcurrent[j]
     THEN "WAITING_CONCURRENCY"
     ELSE "ADMITTED"

\* Faulty variant of CeilDiv: rounds down.
FloorDiv(n, k) == n \div k

\* _ceil_div
CeilDiv(n, k) == (n + k - 1) \div k

\* eligible_at of a WAITING_RATE decision.
EligibleAt(u, head) ==
  now + Max({CeilDiv(Credits(Grant[u])[d] - head.credits[d], RefillRate[d]) :
               d \in {e \in Dimension : Credits(Grant[u])[e] > head.credits[e]}})

ModelMayAsk(u, a) == LeaseAdmissible(u, a) /\ modelAdmission[u][a] \notin ModelTerminal

\* acquire, when the demand is not admitted: only the decision is stored, the
\* refilled head is not.
RefuseModel(u, a) ==
  LET outcome == ModelClassify(u, Refill(bucket, now))
  IN /\ ModelMayAsk(u, a)
     /\ outcome # "ADMITTED"
     /\ modelAdmission' = [modelAdmission EXCEPT ![u][a] = outcome]
     /\ UNCHANGED <<vars, modelReservation, bucket, poolLog, jobModel, invoking>>

\* _insert_admitted_reservation: head is the head refilled for the decision,
\* t the clock reading given to the event.
ReserveModel(u, a, head, t) ==
  /\ modelAdmission' = [modelAdmission EXCEPT ![u][a] = "ADMITTED"]
  /\ modelReservation' = [modelReservation EXCEPT ![u][a] = [state |-> "ACTIVE", usage |-> None]]
  /\ poolLog' = Append(poolLog, [kind |-> "ADMITTED", unit |-> u, at |-> t, usage |-> None,
                                 refund |-> None, released |-> 0, blocked |-> 0])
  /\ bucket' = [head EXCEPT !.credits = Minus(@, Credits(Grant[u])),
                            !.active = @ + Invocations[u],
                            !.at = t]
  /\ jobModel' = [jobModel EXCEPT ![JobOf[u]].active = @ + Invocations[u],
                                  ![JobOf[u]].reserved = Plus(@, Grant[u])]
  /\ invoking' = [invoking EXCEPT ![u][a] = TRUE]

AdmitModel(u, a, h) ==
  LET head == Refill(bucket, now)
  IN /\ ModelMayAsk(u, a)
     /\ ModelClassify(u, head) = "ADMITTED"
     /\ AcquireWorkLease(u, a, h)
     /\ ReserveModel(u, a, head, now)

-----------------------------------------------------------------------------
(* Completion *)

\* Faulty variant of Settle: the grant stays reserved.
SettleKeepingReserved(j, u, usage, units) ==
  [jobModel EXCEPT ![j].active = @ - units,
                   ![j].consumed = Plus(@, usage)]

\* The job's head once the attempt's grant is settled for the usage charged.
Settle(j, u, usage, units) ==
  [jobModel EXCEPT ![j].active = @ - units,
                   ![j].reserved = Minus(@, Grant[u]),
                   ![j].consumed = Plus(@, usage)]

\* Faulty variant of RefundedBucket: the refund may overfill the bucket.
RefundedBucketUncapped(head, refund) == [head EXCEPT !.credits = Plus(@, Credits(refund))]

\* The head after credits that were granted and not used come back.
RefundedBucket(head, refund) == [head EXCEPT !.credits = Capped(Plus(@, Credits(refund)))]

\* Faulty variant of BlockedUntil: the newest answer of the provider wins.
BlockedUntilLast(head, until) == IF until > 0 THEN until ELSE head.blocked

\* Backpressure only ever moves later.
BlockedUntil(head, until) == Later(head.blocked, until)

\* _release_completed, with the usage checked against the grant.
ReleaseModel(u, a, usage, kind, until) ==
  LET head == Refill(bucket, now)
      refund == Minus(Grant[u], usage)
  IN /\ modelReservation[u][a].state = "ACTIVE"
     /\ Within(usage, Grant[u])
     /\ modelReservation' = [modelReservation EXCEPT ![u][a] =
                               [state |-> "RELEASED", usage |-> usage]]
     /\ poolLog' = Append(poolLog, [kind |-> kind, unit |-> u, at |-> now, usage |-> usage,
                                    refund |-> refund, released |-> Invocations[u],
                                    blocked |-> until])
     /\ bucket' = [RefundedBucket(head, refund) EXCEPT !.active = @ - Invocations[u],
                                                       !.blocked = BlockedUntil(head, until)]
     /\ jobModel' = Settle(JobOf[u], u, usage, Invocations[u])
     /\ invoking' = [invoking EXCEPT ![u][a] = FALSE]
     /\ UNCHANGED modelAdmission

\* _release_overrun: the debt is debited, possibly below zero.
ReleaseOverrun(u, a, usage) ==
  /\ modelReservation[u][a].state = "ACTIVE"
  /\ ~Within(usage, Grant[u])
  /\ modelReservation' = [modelReservation EXCEPT ![u][a] =
                            [state |-> "RELEASED", usage |-> usage]]
  /\ poolLog' = Append(poolLog, [kind |-> "USAGE_OVERRUN_RELEASED", unit |-> u, at |-> now,
                                 usage |-> usage, refund |-> None,
                                 released |-> Invocations[u], blocked |-> 0])
  /\ bucket' = [Refill(bucket, now) EXCEPT
                  !.credits = Minus(@, Credits(Positive(Minus(usage, Grant[u])))),
                  !.active = @ - Invocations[u]]
  /\ jobModel' = Settle(JobOf[u], u, usage, Invocations[u])
  /\ invoking' = [invoking EXCEPT ![u][a] = FALSE]
  /\ UNCHANGED modelAdmission

ModelUsage(u) ==
  {usage \in [Dimension -> UNION {0..(Grant[u][d] + MaxOverrun) : d \in Dimension}] :
     Within(usage, [d \in Dimension |-> Grant[u][d] + MaxOverrun])}

CompleteModelStage(u, a, h, status, retryable, usage) ==
  /\ CompleteStageWorkLease(u, a, h, status, retryable)
  /\ ReleaseModel(u, a, usage, "COMPLETED_RELEASED", 0)

CompleteModelArtifactGroup(u, a, h, kind, usage) ==
  /\ CompleteArtifactGroupWorkLease(u, a, h, kind)
  /\ ReleaseModel(u, a, usage, "COMPLETED_RELEASED", 0)

\* _normalize_backpressure_eligible_at, for a provider that asks to wait for
\* wait ticks.
NormalizedEligibleAt(wait) == Later(now + wait, now + MinBackpressure)

CompleteStageBackpressured(u, a, h, usage, wait) ==
  /\ CompleteStageWorkLease(u, a, h, "RETRYABLE_FAILURE", TRUE)
  /\ ReleaseModel(u, a, usage, "BACKPRESSURED_RELEASED", NormalizedEligibleAt(wait))

\* The lease half of complete_usage_overrun.
FailOverrun(u, a, h) ==
  IF u \in ArtifactGroup THEN CompleteArtifactGroupWorkLease(u, a, h, "TERMINAL_FAILURE")
  ELSE CompleteStageWorkLease(u, a, h, "TERMINAL_FAILURE", FALSE)

CompleteUsageOverrun(u, a, h, usage) ==
  /\ FailOverrun(u, a, h)
  /\ ReleaseOverrun(u, a, usage)

-----------------------------------------------------------------------------
(* Abortion: expiry and cancellation *)

\* _close_aborted_reservation for every attempt in S: the whole grant is
\* charged, and the concurrency is kept until the provider acknowledges.
CloseAbortedModel(j, S) ==
  LET closing == SetToSeq(S)
      grants == [d \in Dimension |-> SumFunctionOnSet([ua \in S |-> Grant[ua[1]][d]], S)]
  IN /\ modelReservation' = [u \in Unit |-> [a \in Attempt |->
                               IF <<u, a>> \in S
                               THEN [state |-> "RELEASE_PENDING_ACK", usage |-> Grant[u]]
                               ELSE modelReservation[u][a]]]
     /\ poolLog' = poolLog \o [i \in DOMAIN closing |->
                                 [kind |-> "RELEASE_PENDING_ACK", unit |-> closing[i][1],
                                  at |-> now, usage |-> Grant[closing[i][1]], refund |-> None,
                                  released |-> 0, blocked |-> 0]]
     /\ bucket' = IF S = {} THEN bucket ELSE Refill(bucket, now)
     /\ jobModel' = [jobModel EXCEPT ![j].reserved = Minus(@, grants),
                                     ![j].consumed = Plus(@, grants)]
     /\ UNCHANGED <<modelAdmission, invoking>>

\* Reservations that the cancellation of job j closes.
ActiveModelReservations(j) ==
  {ua \in Unit \X Attempt : JobOf[ua[1]] = j /\ modelReservation[ua[1]][ua[2]].state = "ACTIVE"}

ExpireModel(u, a) ==
  /\ modelReservation[u][a].state = "ACTIVE"
  /\ ExpireWorkLease(u, a)
  /\ CloseAbortedModel(JobOf[u], {<<u, a>>})

CancelModelJob(j) ==
  /\ CancelJobWork(j)
  /\ CloseAbortedModel(j, ActiveModelReservations(j))

\* Faulty variant of ReleasedUnits: an unconfirmed cancellation frees its slot.
ReleasedUnitsAlways(u, acknowledged) == Invocations[u]

\* Concurrency given back by a cancellation result.
ReleasedUnits(u, acknowledged) == IF acknowledged THEN Invocations[u] ELSE 0

\* record_cancellation: acknowledged is CANCELLED or ALREADY_FINISHED, any
\* other outcome quarantines the reservation with its concurrency.
RecordCancellation(u, a, acknowledged) ==
  LET units == ReleasedUnits(u, acknowledged)
  IN /\ modelReservation[u][a].state = "RELEASE_PENDING_ACK"
     /\ modelReservation' = [modelReservation EXCEPT ![u][a].state =
                               IF acknowledged THEN "RELEASED" ELSE "QUARANTINED"]
     /\ poolLog' = Append(poolLog, [kind |-> IF acknowledged THEN "ACKNOWLEDGED_RELEASED"
                                             ELSE "QUARANTINED",
                                    unit |-> u, at |-> now, usage |-> None, refund |-> None,
                                    released |-> units, blocked |-> 0])
     /\ bucket' = [Refill(bucket, now) EXCEPT !.active = @ - units]
     /\ jobModel' = [jobModel EXCEPT ![JobOf[u]].active = @ - units]
     /\ invoking' = [invoking EXCEPT ![u][a] = @ /\ ~acknowledged]
     /\ UNCHANGED modelAdmission

\* External: the invocation ends at the provider, whatever its lease says.
InvocationEnds(u, a) ==
  /\ invoking[u][a]
  /\ invoking' = [invoking EXCEPT ![u][a] = FALSE]
  /\ UNCHANGED <<modelReservation, modelAdmission, bucket, poolLog, jobModel>>

-----------------------------------------------------------------------------
ModelInit ==
  /\ modelReservation = [u \in Unit |-> [a \in Attempt |-> NoModelReservation]]
  /\ modelAdmission = [u \in Unit |-> [a \in Attempt |-> "NONE"]]
  /\ bucket = FullBucket
  /\ poolLog = <<>>
  /\ jobModel = [j \in Job |-> [active |-> 0, reserved |-> None, consumed |-> None]]
  /\ invoking = [u \in Unit |-> [a \in Attempt |-> FALSE]]

\* Operations of the store that no control service wraps.
StoreNext ==
  \/ \E j \in Job, t \in JobStatus : TransitionJob(j, t)
  \/ \E i \in Item, t \in ItemStatus : TransitionItem(i, t)
  \/ \E u \in Unit : RecordWorkReadiness(u) \/ RecordSkippedItem(u)
  \/ \E u \in Unit, a \in Attempt, h \in Holder : HeartbeatWorkLease(u, a, h)

ModelUnitNext(u) ==
  \E a \in Attempt :
    \/ RefuseModel(u, a)
    \/ ExpireModel(u, a)
    \/ InvocationEnds(u, a) /\ UNCHANGED vars
    \/ \E acknowledged \in BOOLEAN : RecordCancellation(u, a, acknowledged) /\ UNCHANGED vars
    \/ \E h \in Holder :
         \/ AdmitModel(u, a, h)
         \/ \E usage \in ModelUsage(u) :
              \/ CompleteUsageOverrun(u, a, h, usage)
              \/ \E wait \in 1..MaxBackpressure : CompleteStageBackpressured(u, a, h, usage, wait)
              \/ \E status \in TERMINAL_STAGE_STATUSES, retryable \in BOOLEAN :
                   CompleteModelStage(u, a, h, status, retryable, usage)
              \/ \E kind \in {"SUCCEEDED", "RETRYABLE_FAILURE", "TERMINAL_FAILURE"} :
                   CompleteModelArtifactGroup(u, a, h, kind, usage)

ModelNext ==
  \/ (Tick \/ StoreNext) /\ UNCHANGED modelVars
  \/ \E j \in Job : CancelModelJob(j)
  \/ \E u \in Unit : ModelUnitNext(u)

ModelSpec == Init /\ ModelInit /\ [][ModelNext]_<<vars, modelVars>>

-----------------------------------------------------------------------------
(* Properties *)

ModelAttempts(j) == {ua \in Unit \X Attempt : JobOf[ua[1]] = j}

\* The materialised pool head equals the replay of the pool's events, so the
\* comparison made on every read never refuses a consistent store.
PoolHeadMatchesEvents == bucket = RebuiltBucket

\* Credits are neither created nor counted twice: what the pool still offers,
\* what attempts hold and what was charged never exceed the initial burst and
\* the refill since, so usage stays under the provider's rate whatever is
\* refunded, aborted or overrun in between.
RateConserved ==
  \A d \in Dimension :
    bucket.credits[d]
      + CreditsPerUnit
          * SumFunctionOnSet([j \in Job |-> jobModel[j].reserved[d] + jobModel[j].consumed[d]], Job)
      <= Credits(Burst)[d] + RefillRate[d] * bucket.at

\* A job passes its model budget only by what its attempts overran.
ModelBudgetHeld ==
  \A j \in Job : \A d \in Dimension :
    jobModel[j].reserved[d] + jobModel[j].consumed[d]
      <= JobModelMax[j][d]
         + SumFunctionOnSet([ua \in ModelAttempts(j) |->
                               Positive(Minus(modelReservation[ua[1]][ua[2]].usage, Grant[ua[1]]))[d]],
                            ModelAttempts(j))

\* The invocations really open at the provider, those of workers that lost
\* their lease included, never exceed the pool's concurrency.
InvocationsBounded ==
  LET open == {ua \in Unit \X Attempt : invoking[ua[1]][ua[2]]}
  IN SumFunctionOnSet([ua \in open |-> Invocations[ua[1]]], open) <= PoolConcurrent

\* Nothing is admitted before the latest time any provider answer recorded so
\* far has asked to wait for.
BackpressureHonoured ==
  \A k \in DOMAIN poolLog : poolLog[k].kind = "ADMITTED" =>
    \A i \in 1..(k - 1) : poolLog[i].blocked <= poolLog[k].at

\* The time a WAITING_RATE decision names is the first one at which refilling
\* alone covers the demand: a caller that waits for it need not wait again.
WaitHintExact ==
  \A u \in Unit :
    LET head == Refill(bucket, now)
    IN ModelClassify(u, head) = "WAITING_RATE" =>
         /\ EligibleAt(u, head) > now
         /\ RateCovers(u, Refill(head, EligibleAt(u, head)))
         /\ ~RateCovers(u, Refill(head, EligibleAt(u, head) - 1))

\* Every lease of a model-controlled job has a reservation, active exactly as
\* long as the lease, and an attempt refused for good is never dispatched.
ModelFollowsLease ==
  \A u \in Unit : \A a \in Attempt :
     /\ modelReservation[u][a].state = "ACTIVE" <=> Active(u, a)
     /\ modelReservation[u][a].state # "NONE" <=> Exists(u, a)
     /\ modelAdmission[u][a] = "ADMITTED" <=> Exists(u, a)
=============================================================================
