-------------------------- MODULE ResourceControl --------------------------
(***************************************************************************)
(* ResourceControlService on top of the work-control store: a job bound to *)
(* a resource policy dispatches, completes, expires and cancels only       *)
(* through this service, which reserves capacity in a shared pool and      *)
(* budget of the job in the same transaction as the lease operation.       *)
(*                                                                         *)
(* Pool and job heads are materialised sums.  The code recomputes them     *)
(* from the immutable reservations on every read and refuses to go on when *)
(* they differ; here that check is the invariant HeadsMatchReservations,   *)
(* not a guard, so a drift would be seen and not hidden.                   *)
(*                                                                         *)
(* The worker and the attachment facade that stops it are not part of the  *)
(* service: executing tells whether the execution of an attempt still uses *)
(* its processes, whatever the store believes about its lease.             *)
(***************************************************************************)
EXTENDS WorkControl, Functions

CONSTANTS
  Resource,             \* kinds of NonModelResourceVectorV2
  Process, Storage,     \* the kinds with rules of their own
  PoolCapacity,         \* ResourcePoolPolicyV2.capacity
  JobConcurrency,       \* JobResourcePolicyV2.job_concurrency of each job
  JobBudget,            \* JobResourcePolicyV2.job_budget of each job
  Capacity,             \* WorkResourceDemandV2.capacity_units of each unit
  Allowance,            \* WorkResourceDemandV2.budget_allowance of each unit
  TerminationRequired   \* units whose demand has termination_required

Vector == [Resource -> Nat]

\* A store holds finitely many units of work.
ASSUME PoolAssumption ==
  /\ IsFiniteSet(Unit)
  /\ Process \in Resource /\ Storage \in Resource /\ Process # Storage
  /\ PoolCapacity \in Vector
  /\ JobConcurrency \in [Job -> Vector]
  /\ JobBudget \in [Job -> Vector]
  /\ \A j \in Job : JobConcurrency[j][Storage] = JobBudget[j][Storage]

\* WorkResourceDemandV2.validate_demand
ASSUME DemandAssumption ==
  /\ Capacity \in [Unit -> Vector]
  /\ Allowance \in [Unit -> Vector]
  /\ TerminationRequired \subseteq Unit
  /\ \A u \in Unit :
       /\ Capacity[u][Process] > 0 => u \in TerminationRequired
       /\ Capacity[u][Storage] = Allowance[u][Storage]
       /\ \A r \in Resource \ {Storage} :
            /\ Capacity[u][r] <= Allowance[u][r]
            /\ Allowance[u][r] > 0 => Capacity[u][r] > 0

VARIABLES
  reservation,   \* work_resource_reservations, heads and events, by attempt
  admission,     \* outcome of the newest resource_admission_decision, by attempt
  poolActive,    \* resource_pool_heads.active_capacity
  jobActive,     \* job_resource_heads.active_capacity
  jobReserved,   \* job_resource_heads.reserved_budget
  jobConsumed,   \* job_resource_heads.consumed_budget
  executing      \* external: the attempt's execution still uses its processes

resourceVars == <<reservation, admission, poolActive, jobActive, jobReserved,
                  jobConsumed, executing>>

allVars == <<vars, resourceVars>>

-----------------------------------------------------------------------------
(* Vectors and rows *)

Zero == [r \in Resource |-> 0]
Add(v, w) == [r \in Resource |-> v[r] + w[r]]
Subtract(v, w) == [r \in Resource |-> v[r] - w[r]]
Exceeds(v, limit) == \E r \in Resource : v[r] > limit[r]

\* Sum over a set of attempts of one vector each.
SumOver(S, V(_)) == [r \in Resource |-> SumFunctionOnSet([x \in S |-> V(x)[r]], S)]

Terminal == {"BUDGET_EXHAUSTED", "UNSATISFIABLE_DEMAND"}

Outcome == Terminal \cup {"NONE", "WAITING_CAPACITY", "ADMITTED"}

\* released and charged sum what the reservation's events released and charged.
NoReservation == [state |-> "NONE", released |-> Zero, charged |-> Zero]

Reservation ==
  [state : {"NONE", "ACTIVE", "RELEASE_PENDING_TERMINATION", "RELEASED", "QUARANTINED"},
   released : Vector, charged : Vector]

ResourceTypeOK ==
  /\ reservation \in [Unit -> [Attempt -> Reservation]]
  /\ admission \in [Unit -> [Attempt -> Outcome]]
  /\ poolActive \in Vector
  /\ jobActive \in [Job -> Vector]
  /\ jobReserved \in [Job -> Vector]
  /\ jobConsumed \in [Job -> Vector]
  /\ executing \in [Unit -> [Attempt -> BOOLEAN]]

-----------------------------------------------------------------------------
(* Admission *)

\* Faulty variant of Classify: reserved budget is not counted.
ClassifyIgnoringReserved(u) ==
  LET j == JobOf[u]
  IN IF Exceeds(Add(jobConsumed[j], Allowance[u]), JobBudget[j]) THEN "BUDGET_EXHAUSTED"
     ELSE IF \/ Exceeds(Add(poolActive, Capacity[u]), PoolCapacity)
             \/ Exceeds(Add(jobActive[j], Capacity[u]), JobConcurrency[j])
     THEN "WAITING_CAPACITY"
     ELSE "ADMITTED"

\* _classify
Classify(u) ==
  LET j == JobOf[u]
  IN IF Exceeds(Capacity[u], PoolCapacity) \/ Exceeds(Capacity[u], JobConcurrency[j])
     THEN "UNSATISFIABLE_DEMAND"
     ELSE IF Exceeds(Add(Add(jobConsumed[j], jobReserved[j]), Allowance[u]), JobBudget[j])
     THEN "BUDGET_EXHAUSTED"
     ELSE IF \/ Exceeds(Add(poolActive, Capacity[u]), PoolCapacity)
             \/ Exceeds(Add(jobActive[j], Capacity[u]), JobConcurrency[j])
     THEN "WAITING_CAPACITY"
     ELSE "ADMITTED"

\* The attempt is dispatchable and its demand was not refused for good.
MayAsk(u, a) == LeaseAdmissible(u, a) /\ admission[u][a] \notin Terminal

\* acquire, when the demand is not admitted: only the decision is stored.
RefuseWork(u, a) ==
  /\ MayAsk(u, a)
  /\ Classify(u) # "ADMITTED"
  /\ admission' = [admission EXCEPT ![u][a] = Classify(u)]
  /\ UNCHANGED <<vars, reservation, poolActive, jobActive, jobReserved, jobConsumed, executing>>

\* _insert_admitted_reservation_in_transaction: reservation and both heads.
ReserveCapacity(u, a) ==
  LET j == JobOf[u]
  IN /\ admission' = [admission EXCEPT ![u][a] = "ADMITTED"]
     /\ reservation' = [reservation EXCEPT ![u][a] =
                          [state |-> "ACTIVE", released |-> Zero, charged |-> Zero]]
     /\ poolActive' = Add(poolActive, Capacity[u])
     /\ jobActive' = [jobActive EXCEPT ![j] = Add(@, Capacity[u])]
     /\ jobReserved' = [jobReserved EXCEPT ![j] = Add(@, Allowance[u])]
     /\ executing' = [executing EXCEPT ![u][a] = TRUE]
     /\ UNCHANGED jobConsumed

\* acquire, when it is: the lease and what it reserves in one transaction.
AdmitWork(u, a, h) ==
  /\ MayAsk(u, a)
  /\ Classify(u) = "ADMITTED"
  /\ AcquireWorkLease(u, a, h)
  /\ ReserveCapacity(u, a)

-----------------------------------------------------------------------------
(* Completion *)

\* Faulty variant of ReleasedByCompletion: stored bytes are given back too.
ReleasedByCompletionAll(u, usage) == Capacity[u]

\* Capacity a completed attempt gives back: all of it but the bytes it stored.
ReleasedByCompletion(u, usage) ==
  [Capacity[u] EXCEPT ![Storage] = @ - usage[Storage]]

\* _release_completed, with the usage checked against the allowance.
ReleaseCompleted(u, a, usage) ==
  LET j == JobOf[u]
      released == ReleasedByCompletion(u, usage)
  IN /\ reservation[u][a].state = "ACTIVE"
     /\ ~Exceeds(usage, Allowance[u])
     /\ reservation' = [reservation EXCEPT ![u][a] =
                          [state |-> "RELEASED", released |-> released, charged |-> usage]]
     /\ poolActive' = Subtract(poolActive, released)
     /\ jobActive' = [jobActive EXCEPT ![j] = Subtract(@, released)]
     /\ jobReserved' = [jobReserved EXCEPT ![j] = Subtract(@, Allowance[u])]
     /\ jobConsumed' = [jobConsumed EXCEPT ![j] = Add(@, usage)]
     /\ executing' = [executing EXCEPT ![u][a] = FALSE]
     /\ UNCHANGED admission

Usage(u) == {usage \in [Resource -> UNION {0..Allowance[u][r] : r \in Resource}] :
               ~Exceeds(usage, Allowance[u])}

CompleteStage(u, a, h, status, retryable, usage) ==
  /\ CompleteStageWorkLease(u, a, h, status, retryable)
  /\ ReleaseCompleted(u, a, usage)

CompleteArtifactGroup(u, a, h, kind, usage) ==
  /\ CompleteArtifactGroupWorkLease(u, a, h, kind)
  /\ ReleaseCompleted(u, a, usage)

-----------------------------------------------------------------------------
(* Abortion: expiry and cancellation *)

\* Faulty variant of AbortedReservation: processes are given back without
\* waiting for their termination.
AbortedReservationEager(u) ==
  [state |-> "RELEASED", released |-> [Capacity[u] EXCEPT ![Storage] = 0],
   charged |-> Allowance[u]]

\* _close_aborted_reservation: the whole allowance is charged; capacity is
\* given back at once only when nothing has to be terminated, storage never.
AbortedReservation(u) ==
  IF u \in TerminationRequired
  THEN [state |-> "RELEASE_PENDING_TERMINATION", released |-> Zero, charged |-> Allowance[u]]
  ELSE [state |-> "RELEASED", released |-> [Capacity[u] EXCEPT ![Storage] = 0],
        charged |-> Allowance[u]]

\* Closing every reservation in S, attempts of job j, with both heads.
CloseAborted(j, S) ==
  LET released == SumOver(S, LAMBDA ua : AbortedReservation(ua[1]).released)
      allowance == SumOver(S, LAMBDA ua : Allowance[ua[1]])
  IN /\ reservation' = [u \in Unit |-> [a \in Attempt |->
                          IF <<u, a>> \in S THEN AbortedReservation(u) ELSE reservation[u][a]]]
     /\ poolActive' = Subtract(poolActive, released)
     /\ jobActive' = [jobActive EXCEPT ![j] = Subtract(@, released)]
     /\ jobReserved' = [jobReserved EXCEPT ![j] = Subtract(@, allowance)]
     /\ jobConsumed' = [jobConsumed EXCEPT ![j] = Add(@, allowance)]
     /\ UNCHANGED <<admission, executing>>

\* Faulty variants of ActiveReservations: reservations already awaiting their
\* termination are closed again, and none is found once the leases are closed.
OpenReservations(j) ==
  {ua \in Unit \X Attempt : /\ JobOf[ua[1]] = j
                            /\ reservation[ua[1]][ua[2]].state
                                 \in {"ACTIVE", "RELEASE_PENDING_TERMINATION"}}

NoReservations(j) == {}

\* Reservations that the cancellation of job j closes.
ActiveReservations(j) ==
  {ua \in Unit \X Attempt : JobOf[ua[1]] = j /\ reservation[ua[1]][ua[2]].state = "ACTIVE"}

Expire(u, a) ==
  /\ reservation[u][a].state = "ACTIVE"
  /\ ExpireWorkLease(u, a)
  /\ CloseAborted(JobOf[u], {<<u, a>>})

CancelJob(j) ==
  /\ CancelJobWork(j)
  /\ CloseAborted(j, ActiveReservations(j))

-----------------------------------------------------------------------------
(* Termination *)

\* record_termination: confirmed terminations give back all capacity but
\* storage; any other outcome quarantines the reservation with its capacity.
RecordTermination(u, a, stopped) ==
  LET j == JobOf[u]
      released == IF stopped THEN [Capacity[u] EXCEPT ![Storage] = 0] ELSE Zero
  IN /\ reservation[u][a].state = "RELEASE_PENDING_TERMINATION"
     /\ reservation' = [reservation EXCEPT ![u][a] =
                          [state    |-> IF stopped THEN "RELEASED" ELSE "QUARANTINED",
                           released |-> Add(@.released, released),
                           charged  |-> @.charged]]
     /\ poolActive' = Subtract(poolActive, released)
     /\ jobActive' = [jobActive EXCEPT ![j] = Subtract(@, released)]
     /\ executing' = [executing EXCEPT ![u][a] = @ /\ ~stopped]
     /\ UNCHANGED <<vars, admission, jobReserved, jobConsumed>>

\* External: the execution ends by itself, whatever its lease says.
ExecutionEnds(u, a) ==
  /\ executing[u][a]
  /\ executing' = [executing EXCEPT ![u][a] = FALSE]
  /\ UNCHANGED <<vars, reservation, admission, poolActive, jobActive, jobReserved, jobConsumed>>

-----------------------------------------------------------------------------
ResourceInit ==
  /\ Init
  /\ reservation = [u \in Unit |-> [a \in Attempt |-> NoReservation]]
  /\ admission = [u \in Unit |-> [a \in Attempt |-> "NONE"]]
  /\ poolActive = Zero
  /\ jobActive = [j \in Job |-> Zero]
  /\ jobReserved = [j \in Job |-> Zero]
  /\ jobConsumed = [j \in Job |-> Zero]
  /\ executing = [u \in Unit |-> [a \in Attempt |-> FALSE]]

\* Operations of the store that carry no resources.
PlainNext ==
  /\ \/ Tick
     \/ \E j \in Job, t \in JobStatus : TransitionJob(j, t)
     \/ \E i \in Item, t \in ItemStatus : TransitionItem(i, t)
     \/ \E u \in Unit : RecordWorkReadiness(u) \/ RecordSkippedItem(u)
     \/ \E u \in Unit, a \in Attempt, h \in Holder : HeartbeatWorkLease(u, a, h)
  /\ UNCHANGED resourceVars

ResourceUnitNext(u) ==
  \E a \in Attempt :
    \/ RefuseWork(u, a)
    \/ Expire(u, a)
    \/ ExecutionEnds(u, a)
    \/ \E stopped \in BOOLEAN : RecordTermination(u, a, stopped)
    \/ \E h \in Holder :
         \/ AdmitWork(u, a, h)
         \/ \E status \in TERMINAL_STAGE_STATUSES, retryable \in BOOLEAN, usage \in Usage(u) :
              CompleteStage(u, a, h, status, retryable, usage)
         \/ \E kind \in {"SUCCEEDED", "RETRYABLE_FAILURE", "TERMINAL_FAILURE"}, usage \in Usage(u) :
              CompleteArtifactGroup(u, a, h, kind, usage)

ResourceNext ==
  \/ PlainNext
  \/ \E j \in Job : CancelJob(j)
  \/ \E u \in Unit : ResourceUnitNext(u)

ResourceSpec == ResourceInit /\ [][ResourceNext]_allVars

-----------------------------------------------------------------------------
(* Properties *)

Attempts(j) == {ua \in Unit \X Attempt : JobOf[ua[1]] = j}

\* What an attempt's reservation still holds of the pool.
Held(ua) ==
  IF reservation[ua[1]][ua[2]].state = "NONE" THEN Zero
  ELSE Subtract(Capacity[ua[1]], reservation[ua[1]][ua[2]].released)

\* The materialised heads equal what the reservations add up to, so the
\* check the code makes on every read never refuses a consistent store.
HeadsMatchReservations ==
  /\ poolActive = SumOver(Unit \X Attempt, Held)
  /\ \A j \in Job :
       /\ jobActive[j] = SumOver(Attempts(j), Held)
       /\ jobReserved[j] = SumOver({ua \in Attempts(j) : reservation[ua[1]][ua[2]].state = "ACTIVE"},
                                   LAMBDA ua : Allowance[ua[1]])
       /\ jobConsumed[j] = SumOver(Attempts(j), LAMBDA ua : reservation[ua[1]][ua[2]].charged)

\* Reservations never exceed the pool or the job's concurrency, and what a job
\* has consumed and reserved never exceeds its budget.
WithinLimits ==
  /\ ~Exceeds(poolActive, PoolCapacity)
  /\ \A j \in Job : /\ ~Exceeds(jobActive[j], JobConcurrency[j])
                    /\ ~Exceeds(Add(jobConsumed[j], jobReserved[j]), JobBudget[j])

\* The processes really running, those of workers that lost their lease to
\* expiry or cancellation included, never exceed the pool.
NoOvercommit ==
  LET running == {ua \in Unit \X Attempt : executing[ua[1]][ua[2]]}
  IN SumFunctionOnSet([ua \in running |-> Capacity[ua[1]][Process]], running) <= PoolCapacity[Process]

\* Stored bytes are held for as long as they are charged: a job never waits
\* for storage of its own, it is refused for its budget first.
StorageIsBudget ==
  \A j \in Job : jobActive[j][Storage] = jobConsumed[j][Storage] + jobReserved[j][Storage]

\* Every lease of a controlled job has a reservation, active exactly as long
\* as the lease, and an attempt refused for good is never dispatched.
ReservationFollowsLease ==
  \A u \in Unit : \A a \in Attempt :
     /\ reservation[u][a].state = "ACTIVE" <=> Active(u, a)
     /\ reservation[u][a].state # "NONE" <=> Exists(u, a)
     /\ admission[u][a] = "ADMITTED" <=> Exists(u, a)
=============================================================================
