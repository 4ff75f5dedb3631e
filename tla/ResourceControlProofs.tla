----------------------- MODULE ResourceControlProofs -----------------------
(***************************************************************************)
(* Resource control keeps every guarantee of the work-control store, its   *)
(* reservations follow the leases, and its heads are the sums of the       *)
(* reservations and stay within their limits, for every pool, policy,      *)
(* graph and number of attempts.                                           *)
(***************************************************************************)
EXTENDS ResourceControl, WorkControlProofs, SumTheorems

\* Every step of the service is a step of the store or leaves it alone.
LEMMA ResourceStepIsWorkStep == [ResourceNext]_allVars => [Next]_vars
<1> SUFFICES ASSUME [ResourceNext]_allVars PROVE [Next]_vars
  OBVIOUS
<1>1. CASE PlainNext
  BY <1>1 DEF PlainNext, Next, UnitNext
<1>2. ASSUME NEW j \in Job, CancelJob(j) PROVE Next
  BY <1>2 DEF CancelJob, Next
<1>3. ASSUME NEW u \in Unit, ResourceUnitNext(u) PROVE [Next]_vars
  <2> USE DEF Next, UnitNext
  <2>1. PICK a \in Attempt :
          \/ RefuseWork(u, a)
          \/ Expire(u, a)
          \/ ExecutionEnds(u, a)
          \/ \E stopped \in BOOLEAN : RecordTermination(u, a, stopped)
          \/ \E h \in Holder :
               \/ AdmitWork(u, a, h)
               \/ \E status \in TERMINAL_STAGE_STATUSES, retryable \in BOOLEAN, usage \in Usage(u) :
                    CompleteStage(u, a, h, status, retryable, usage)
               \/ \E kind \in {"SUCCEEDED", "RETRYABLE_FAILURE", "TERMINAL_FAILURE"}, usage \in Usage(u) :
                    CompleteArtifactGroup(u, a, h, kind, usage)
    BY <1>3 DEF ResourceUnitNext
  <2>2. CASE RefuseWork(u, a) \/ ExecutionEnds(u, a)
    BY <2>2 DEF RefuseWork, ExecutionEnds
  <2>3. ASSUME NEW stopped \in BOOLEAN, RecordTermination(u, a, stopped) PROVE UNCHANGED vars
    BY <2>3 DEF RecordTermination
  <2>4. CASE Expire(u, a)
    BY <2>4 DEF Expire
  <2>5. ASSUME NEW h \in Holder, AdmitWork(u, a, h) PROVE Next
    BY <2>5 DEF AdmitWork
  <2>6. ASSUME NEW h \in Holder, NEW s \in TERMINAL_STAGE_STATUSES, NEW r \in BOOLEAN,
               NEW usage \in Usage(u), CompleteStage(u, a, h, s, r, usage)
        PROVE  Next
    BY <2>6 DEF CompleteStage
  <2>7. ASSUME NEW h \in Holder, NEW k \in {"SUCCEEDED", "RETRYABLE_FAILURE", "TERMINAL_FAILURE"},
               NEW usage \in Usage(u), CompleteArtifactGroup(u, a, h, k, usage)
        PROVE  Next
    BY <2>7 DEF CompleteArtifactGroup
  <2> HIDE DEF Next
  <2> QED BY <2>1, <2>2, <2>3, <2>4, <2>5, <2>6, <2>7
<1>4. CASE UNCHANGED allVars
  BY <1>4 DEF allVars
<1> QED BY <1>1, <1>2, <1>3, <1>4 DEF ResourceNext, PlainNext

\* The resource-controlled system implements the work-control store, so all
\* theorems about leases, cancellation and dependencies hold of it.
THEOREM ResourceImplementsWork == ResourceSpec => Spec
<1>1. ResourceInit => Init
  BY DEF ResourceInit
<1> QED BY <1>1, ResourceStepIsWorkStep, PTL DEF ResourceSpec, Spec

-----------------------------------------------------------------------------
(* Reservations follow leases.                                             *)

ReservationType ==
  /\ reservation \in [Unit -> [Attempt -> Reservation]]
  /\ admission \in [Unit -> [Attempt -> Outcome]]

\* The amounts an attempt's reservation can be given are vectors of naturals.
LEMMA ReservationValues ==
  ASSUME NEW u \in Unit
  PROVE  /\ Zero \in Vector
         /\ [Capacity[u] EXCEPT ![Storage] = 0] \in Vector
         /\ \A usage \in Usage(u) : usage \in Vector /\ ReleasedByCompletion(u, usage) \in Vector
         /\ AbortedReservation(u) \in Reservation
         /\ AbortedReservation(u).state \notin {"NONE", "ACTIVE"}
<1>1. Zero \in Vector
  BY DEF Zero, Vector
<1>2. Capacity[u] \in Vector /\ Allowance[u] \in Vector
      /\ Capacity[u][Storage] = Allowance[u][Storage] /\ Storage \in Resource
  BY PoolAssumption, DemandAssumption
<1>3. [Capacity[u] EXCEPT ![Storage] = 0] \in Vector
  BY <1>2 DEF Vector
<1>4. ASSUME NEW usage \in Usage(u)
      PROVE  usage \in Vector /\ ReleasedByCompletion(u, usage) \in Vector
  <2>0. ASSUME NEW r \in Resource PROVE 0..Allowance[u][r] \subseteq Nat
    BY <1>2 DEF Vector
  <2>1. usage \in Vector /\ ~Exceeds(usage, Allowance[u])
    BY <2>0 DEF Usage, Vector
  <2>2. usage[Storage] <= Capacity[u][Storage] /\ usage[Storage] \in Nat
    BY <1>2, <2>1 DEF Exceeds, Vector
  <2>3. Capacity[u][Storage] - usage[Storage] \in Nat
    BY <1>2, <2>2 DEF Vector
  <2> QED BY <1>2, <2>1, <2>3 DEF ReleasedByCompletion, Vector
<1>5. AbortedReservation(u) \in Reservation /\ AbortedReservation(u).state \notin {"NONE", "ACTIVE"}
  BY <1>1, <1>2, <1>3 DEF AbortedReservation, Reservation
<1> QED BY <1>1, <1>3, <1>4, <1>5

\* What one attempt's lease, reservation and admission say of each other.
RowFollows(u, a) ==
  /\ reservation[u][a].state = "ACTIVE" <=> Active(u, a)
  /\ reservation[u][a].state # "NONE" <=> Exists(u, a)
  /\ admission[u][a] = "ADMITTED" <=> Exists(u, a)

ReservationInv == TypeOK /\ ReservationType /\ ReservationFollowsLease

\* An attempt that may still ask for admission was never dispatched.
LEMMA AskingIsUndispatched ==
  ASSUME NEW u \in Unit, NEW a \in Attempt, MayAsk(u, a)
  PROVE  ~Exists(u, a)
BY AdmissibleIsUndispatched DEF MayAsk

\* Closing the reservations of S along with exactly its leases.
LEMMA CloseAbortedStep ==
  ASSUME ReservationInv, NEW j \in Job, NEW S \in SUBSET (Unit \X Attempt), CloseAborted(j, S),
         NEW k \in ClosedState,
         \A v \in Unit : \A b \in Attempt : <<v, b>> \in S => Active(v, b),
         \A v \in Unit : \A b \in Attempt :
           lease'[v][b].state = IF <<v, b>> \in S THEN k ELSE lease[v][b].state
  PROVE  ReservationType' /\ ReservationFollowsLease'
<1>1. /\ reservation' = [v \in Unit |-> [b \in Attempt |->
                           IF <<v, b>> \in S THEN AbortedReservation(v) ELSE reservation[v][b]]]
      /\ admission' = admission
  BY DEF CloseAborted
<1>2. ReservationType'
  BY <1>1, ReservationValues DEF ReservationInv, ReservationType
<1>3. ASSUME NEW v \in Unit, NEW b \in Attempt PROVE RowFollows(v, b)'
  <2>1. RowFollows(v, b)
    BY DEF ReservationInv, ReservationFollowsLease, RowFollows
  <2>2. CASE <<v, b>> \in S
    <3>1. reservation'[v][b] = AbortedReservation(v) /\ admission'[v][b] = admission[v][b]
      BY <1>1, <2>2
    <3>2. lease'[v][b].state = k /\ Active(v, b)
      BY <2>2
    <3> QED BY <2>1, <3>1, <3>2, ReservationValues
        DEF RowFollows, Active, Exists, ClosedState
  <2>3. CASE <<v, b>> \notin S
    BY <1>1, <2>1, <2>3 DEF RowFollows, Active, Exists
  <2> QED BY <2>2, <2>3
<1> QED BY <1>2, <1>3 DEF ReservationFollowsLease, RowFollows

\* Releasing the reservation of an attempt whose lease is closed with kind k.
LEMMA ReleaseCompletedStep ==
  ASSUME ReservationInv, NEW u \in Unit, NEW a \in Attempt, NEW k \in ClosedState,
         NEW usage \in Usage(u), CloseLease(u, a, k), ReleaseCompleted(u, a, usage)
  PROVE  ReservationType' /\ ReservationFollowsLease'
<1> DEFINE r == [state |-> "RELEASED", released |-> ReleasedByCompletion(u, usage), charged |-> usage]
<1>1. reservation' = [reservation EXCEPT ![u][a] = r] /\ admission' = admission
      /\ reservation[u][a].state = "ACTIVE"
  BY DEF ReleaseCompleted
<1>2. r \in Reservation /\ r.state = "RELEASED"
  BY ReservationValues DEF Reservation
<1> HIDE DEF r
<1>3. ReservationType'
  BY <1>1, <1>2 DEF ReservationInv, ReservationType
<1>4. \A v \in Unit : \A b \in Attempt :
        lease'[v][b].state = IF v = u /\ b = a THEN k ELSE lease[v][b].state
  BY CloseStates DEF ReservationInv
<1>5. ASSUME NEW v \in Unit, NEW b \in Attempt PROVE RowFollows(v, b)'
  <2>1. RowFollows(v, b)
    BY DEF ReservationInv, ReservationFollowsLease, RowFollows
  <2>2. CASE v = u /\ b = a
    <3>1. reservation'[v][b] = r
      BY <1>1, <2>2 DEF ReservationInv, ReservationType
    <3> QED BY <1>1, <1>2, <1>4, <2>1, <2>2, <3>1 DEF RowFollows, Active, Exists, ClosedState
  <2>3. CASE ~(v = u /\ b = a)
    <3>1. reservation'[v][b] = reservation[v][b] /\ admission'[v][b] = admission[v][b]
      BY <1>1, <2>3 DEF ReservationInv, ReservationType
    <3> QED BY <1>4, <2>1, <2>3, <3>1 DEF RowFollows, Active, Exists
  <2> QED BY <2>2, <2>3
<1> QED BY <1>3, <1>5 DEF ReservationFollowsLease, RowFollows

\* An operation that moves no lease, reservation or admission.
LEMMA RowsKeptStep ==
  ASSUME ReservationInv, UNCHANGED <<reservation, admission>>,
         \A v \in Unit : \A b \in Attempt : lease'[v][b].state = lease[v][b].state
  PROVE  ReservationType' /\ ReservationFollowsLease'
<1>1. ReservationType'
  BY DEF ReservationInv, ReservationType
<1>2. ReservationFollowsLease'
  BY DEF ReservationInv, ReservationFollowsLease, Active, Exists
<1> QED BY <1>1, <1>2

\* A refusal stores an outcome only for an attempt that has no lease.
LEMMA RefuseStep ==
  ASSUME ReservationInv, NEW u \in Unit, NEW a \in Attempt, RefuseWork(u, a)
  PROVE  ReservationType' /\ ReservationFollowsLease'
<1>1. Classify(u) \in Outcome /\ Classify(u) # "ADMITTED"
  BY DEF RefuseWork, Classify, Outcome, Terminal
<1>2. /\ admission' = [admission EXCEPT ![u][a] = Classify(u)]
      /\ reservation' = reservation /\ lease' = lease
  BY DEF RefuseWork, vars
<1>3. ~Exists(u, a)
  BY AskingIsUndispatched DEF RefuseWork
<1>4. ReservationType'
  BY <1>1, <1>2 DEF ReservationInv, ReservationType
<1>5. ASSUME NEW v \in Unit, NEW b \in Attempt PROVE RowFollows(v, b)'
  <2>1. RowFollows(v, b)
    BY DEF ReservationInv, ReservationFollowsLease, RowFollows
  <2>2. admission'[v][b] = IF v = u /\ b = a THEN Classify(u) ELSE admission[v][b]
    BY <1>2 DEF ReservationInv, ReservationType
  <2> QED BY <1>1, <1>2, <1>3, <2>1, <2>2 DEF RowFollows, Active, Exists
<1> QED BY <1>4, <1>5 DEF ReservationFollowsLease, RowFollows

\* An admission creates the lease and its reservation together.
LEMMA AdmitStep ==
  ASSUME ReservationInv, NEW u \in Unit, NEW a \in Attempt, NEW h \in Holder, AdmitWork(u, a, h)
  PROVE  ReservationType' /\ ReservationFollowsLease'
<1> DEFINE r == [state |-> "ACTIVE", released |-> Zero, charged |-> Zero]
<1>1. /\ admission' = [admission EXCEPT ![u][a] = "ADMITTED"]
      /\ reservation' = [reservation EXCEPT ![u][a] = r]
      /\ AcquireWorkLease(u, a, h)
  BY DEF AdmitWork, ReserveCapacity
<1>2. r \in Reservation /\ r.state = "ACTIVE"
  BY ReservationValues DEF Reservation
<1> HIDE DEF r
<1>3. ReservationType'
  BY <1>1, <1>2 DEF ReservationInv, ReservationType, Outcome
<1>4. \A v \in Unit : \A b \in Attempt :
        lease'[v][b].state = IF v = u /\ b = a THEN "ACTIVE" ELSE lease[v][b].state
  BY <1>1, AcquireStates DEF ReservationInv
<1>5. ASSUME NEW v \in Unit, NEW b \in Attempt PROVE RowFollows(v, b)'
  <2>1. RowFollows(v, b)
    BY DEF ReservationInv, ReservationFollowsLease, RowFollows
  <2>2. /\ admission'[v][b] = IF v = u /\ b = a THEN "ADMITTED" ELSE admission[v][b]
        /\ reservation'[v][b] = IF v = u /\ b = a THEN r ELSE reservation[v][b]
    BY <1>1 DEF ReservationInv, ReservationType
  <2> QED BY <1>2, <1>4, <2>1, <2>2 DEF RowFollows, Active, Exists
<1> QED BY <1>3, <1>5 DEF ReservationFollowsLease, RowFollows

\* A termination moves a reservation among the states that are neither absent
\* nor active.
LEMMA TerminationStep ==
  ASSUME ReservationInv, NEW u \in Unit, NEW a \in Attempt, NEW stopped \in BOOLEAN,
         RecordTermination(u, a, stopped)
  PROVE  ReservationType' /\ ReservationFollowsLease'
<1> DEFINE rel == IF stopped THEN [Capacity[u] EXCEPT ![Storage] = 0] ELSE Zero
           r == [state    |-> IF stopped THEN "RELEASED" ELSE "QUARANTINED",
                 released |-> Add(reservation[u][a].released, rel),
                 charged  |-> reservation[u][a].charged]
<1>1. /\ reservation' = [reservation EXCEPT ![u][a] = r]
      /\ reservation[u][a].state = "RELEASE_PENDING_TERMINATION"
      /\ admission' = admission /\ lease' = lease
  BY DEF RecordTermination, vars
<1>2. rel \in Vector
  BY ReservationValues
<1> HIDE DEF rel
<1>3. reservation[u][a] \in Reservation
  BY DEF ReservationInv, ReservationType
<1>4. Add(reservation[u][a].released, rel) \in Vector
  BY <1>2, <1>3 DEF Add, Vector, Reservation
<1>5. r \in Reservation /\ r.state \in {"RELEASED", "QUARANTINED"}
  BY <1>3, <1>4 DEF Reservation
<1> HIDE DEF r
<1>6. ReservationType'
  BY <1>1, <1>5 DEF ReservationInv, ReservationType
<1>7. ASSUME NEW v \in Unit, NEW b \in Attempt PROVE RowFollows(v, b)'
  <2>1. RowFollows(v, b)
    BY DEF ReservationInv, ReservationFollowsLease, RowFollows
  <2>2. reservation'[v][b] = IF v = u /\ b = a THEN r ELSE reservation[v][b]
    BY <1>1 DEF ReservationInv, ReservationType
  <2> QED BY <1>1, <1>5, <2>1, <2>2 DEF RowFollows, Active, Exists
<1> QED BY <1>6, <1>7 DEF ReservationFollowsLease, RowFollows

\* Every step of the service keeps reservations and leases together.
LEMMA ReservationInvStep == ReservationInv /\ [ResourceNext]_allVars => ReservationInv'
<1> SUFFICES ASSUME ReservationInv, [ResourceNext]_allVars
             PROVE  ReservationType' /\ ReservationFollowsLease'
  BY ResourceStepIsWorkStep, TypeStep DEF ReservationInv
<1>1. CASE PlainNext
  <2>1. UNCHANGED <<reservation, admission>>
    BY <1>1 DEF PlainNext, resourceVars
  <2>2. ASSUME NEW u \in Unit, NEW a \in Attempt, NEW h \in Holder, HeartbeatWorkLease(u, a, h)
        PROVE  ReservationType' /\ ReservationFollowsLease'
    BY <2>1, <2>2, HeartbeatStates, RowsKeptStep DEF ReservationInv
  <2>3. CASE lease' = lease
    BY <2>1, <2>3, RowsKeptStep
  <2>4. ASSUME Tick \/ (\E j \in Job, t \in JobStatus : TransitionJob(j, t))
               \/ (\E i \in Item, t \in ItemStatus : TransitionItem(i, t))
        PROVE  lease' = lease
    BY <2>4 DEF Tick, TransitionJob, TransitionItem, leaseVars
  <2>5. ASSUME NEW u \in Unit, RecordWorkReadiness(u) \/ RecordSkippedItem(u)
        PROVE  lease' = lease
    BY <2>5 DEF RecordWorkReadiness, RecordSkippedItem, InsertSnapshot, leaseVars
  <2> QED BY <1>1, <2>2, <2>3, <2>4, <2>5 DEF PlainNext
<1>2. ASSUME NEW j \in Job, CancelJob(j) PROVE ReservationType' /\ ReservationFollowsLease'
  <2>1. ActiveReservations(j) = ActiveLeases(j)
    BY DEF ReservationInv, ReservationFollowsLease, ActiveReservations, ActiveLeases
  <2>2. CloseAborted(j, ActiveLeases(j)) /\ CancelJobWork(j)
    BY <1>2, <2>1 DEF CancelJob
  <2>3. /\ ActiveLeases(j) \in SUBSET (Unit \X Attempt)
        /\ \A v \in Unit : \A b \in Attempt : <<v, b>> \in ActiveLeases(j) => Active(v, b)
    BY DEF ActiveLeases
  <2>4. "CANCELLED" \in ClosedState
    BY DEF ClosedState
  <2>5. \A v \in Unit : \A b \in Attempt :
          lease'[v][b].state = IF <<v, b>> \in ActiveLeases(j) THEN "CANCELLED"
                               ELSE lease[v][b].state
    BY <2>2, CancelStates DEF ReservationInv
  <2> QED BY <2>2, <2>3, <2>4, <2>5, CloseAbortedStep
<1>3. ASSUME NEW u \in Unit, NEW a \in Attempt, Expire(u, a)
      PROVE  ReservationType' /\ ReservationFollowsLease'
  <2>1. /\ CloseAborted(JobOf[u], {<<u, a>>}) /\ JobOf[u] \in Job
        /\ Active(u, a) /\ CloseLease(u, a, "EXPIRED")
    BY <1>3, GraphAssumption DEF Expire, ExpireWorkLease, Expirable
  <2>2. "EXPIRED" \in ClosedState
    BY DEF ClosedState
  <2>3. \A v \in Unit : \A b \in Attempt :
          lease'[v][b].state = IF <<v, b>> \in {<<u, a>>} THEN "EXPIRED" ELSE lease[v][b].state
    BY <2>1, <2>2, CloseStates DEF ReservationInv
  <2>4. \A v \in Unit : \A b \in Attempt : <<v, b>> \in {<<u, a>>} => Active(v, b)
    BY <2>1
  <2>5. {<<u, a>>} \in SUBSET (Unit \X Attempt)
    OBVIOUS
  <2> QED BY <2>1, <2>2, <2>3, <2>4, <2>5, CloseAbortedStep
<1>4. ASSUME NEW u \in Unit, NEW a \in Attempt, NEW h \in Holder,
             NEW s \in TERMINAL_STAGE_STATUSES, NEW r \in BOOLEAN,
             NEW usage \in Usage(u), CompleteStage(u, a, h, s, r, usage)
      PROVE  ReservationType' /\ ReservationFollowsLease'
  <2>1. StageEventKind(s, r) \in ClosedState
    BY DEF StageEventKind, ClosedState
  <2>2. CloseLease(u, a, StageEventKind(s, r)) /\ ReleaseCompleted(u, a, usage)
    BY <1>4 DEF CompleteStage, CompleteStageWorkLease
  <2> QED BY <2>1, <2>2, ReleaseCompletedStep
<1>5. ASSUME NEW u \in Unit, NEW a \in Attempt, NEW h \in Holder,
             NEW k \in {"SUCCEEDED", "RETRYABLE_FAILURE", "TERMINAL_FAILURE"},
             NEW usage \in Usage(u), CompleteArtifactGroup(u, a, h, k, usage)
      PROVE  ReservationType' /\ ReservationFollowsLease'
  <2>1. k \in ClosedState
    BY DEF ClosedState
  <2>2. CloseLease(u, a, k) /\ ReleaseCompleted(u, a, usage)
    BY <1>5 DEF CompleteArtifactGroup, CompleteArtifactGroupWorkLease
  <2> QED BY <2>1, <2>2, ReleaseCompletedStep
<1>6. ASSUME NEW u \in Unit, NEW a \in Attempt, ExecutionEnds(u, a)
      PROVE  ReservationType' /\ ReservationFollowsLease'
  <2>1. UNCHANGED <<reservation, admission>> /\ lease' = lease
    BY <1>6 DEF ExecutionEnds, vars
  <2> QED BY <2>1, RowsKeptStep
<1>7. CASE UNCHANGED allVars
  <2>1. UNCHANGED <<reservation, admission>> /\ lease' = lease
    BY <1>7 DEF allVars, resourceVars, vars
  <2> QED BY <2>1, RowsKeptStep
<1> QED BY <1>1, <1>2, <1>3, <1>4, <1>5, <1>6, <1>7, RefuseStep, AdmitStep, TerminationStep
    DEF ResourceNext, ResourceUnitNext

LEMMA ReservationInitially == ResourceInit => ReservationInv
<1> SUFFICES ASSUME ResourceInit PROVE ReservationInv
  OBVIOUS
<1>1. TypeOK
  BY TypeInit DEF ResourceInit
<1>2. Zero \in Vector
  BY DEF Zero, Vector
<1>3. NoReservation \in Reservation /\ NoReservation.state = "NONE"
  BY <1>2 DEF NoReservation, Reservation
<1>4. ReservationType
  BY <1>3 DEF ResourceInit, ReservationType, Outcome
<1>5. \A u \in Unit : \A a \in Attempt :
        reservation[u][a] = NoReservation /\ admission[u][a] = "NONE" /\ lease[u][a].state = "NONE"
  BY DEF ResourceInit, Init, NoLease
<1>6. ReservationFollowsLease
  BY <1>3, <1>5 DEF ReservationFollowsLease, Active, Exists
<1> QED BY <1>1, <1>4, <1>6 DEF ReservationInv

\* In every behaviour of the service each lease has a reservation, active as
\* long as the lease is, and no attempt refused for good is ever dispatched.
THEOREM ReservationSafety == ResourceSpec => []ReservationFollowsLease
<1>1. ReservationInv => ReservationFollowsLease
  BY DEF ReservationInv
<1> QED BY <1>1, ReservationInitially, ReservationInvStep, PTL DEF ResourceSpec

-----------------------------------------------------------------------------
(* Accounting.  The heads are sums over the reservations, taken here for   *)
(* one kind of resource at a time.                                         *)

Rows == Unit \X Attempt

RowOf(x) == reservation[x[1]][x[2]]

\* What each reservation contributes to the heads of resource r.
HeldOf(r) == [x \in Rows |-> Held(x)[r]]
ReservedOf(r) == [x \in Rows |-> IF RowOf(x).state = "ACTIVE" THEN Allowance[x[1]][r] ELSE 0]
ChargedOf(r) == [x \in Rows |-> RowOf(x).charged[r]]

HeadsAt(r) ==
  /\ poolActive[r] = SumFunctionOnSet(HeldOf(r), Rows)
  /\ \A j \in Job :
       /\ jobActive[j][r] = SumFunctionOnSet(HeldOf(r), Attempts(j))
       /\ jobReserved[j][r] = SumFunctionOnSet(ReservedOf(r), Attempts(j))
       /\ jobConsumed[j][r] = SumFunctionOnSet(ChargedOf(r), Attempts(j))

\* There are finitely many attempts.
LEMMA FiniteRows ==
  IsFiniteSet(Rows) /\ \A j \in Job : Attempts(j) \in SUBSET Rows /\ IsFiniteSet(Attempts(j))
<1>1. IsFiniteSet(Attempt)
  BY FS_Interval, PolicyAssumption DEF Attempt
<1>2. IsFiniteSet(Rows)
  BY <1>1, FS_Product, PoolAssumption DEF Rows
<1>3. \A j \in Job : Attempts(j) \in SUBSET Rows
  BY DEF Attempts, Rows
<1> QED BY <1>2, <1>3, FS_Subset

\* The contributions in terms of the reservation.
LEMMA RowValues ==
  ASSUME ReservationType, NEW r \in Resource, NEW x \in Rows
  PROVE  /\ x[1] \in Unit /\ x[2] \in Attempt /\ RowOf(x) \in Reservation
         /\ Capacity[x[1]][r] \in Nat /\ Allowance[x[1]][r] \in Nat
         /\ RowOf(x).released[r] \in Nat /\ RowOf(x).charged[r] \in Nat
         /\ HeldOf(r)[x] = IF RowOf(x).state = "NONE" THEN 0
                           ELSE Capacity[x[1]][r] - RowOf(x).released[r]
         /\ ReservedOf(r)[x] = IF RowOf(x).state = "ACTIVE" THEN Allowance[x[1]][r] ELSE 0
         /\ ChargedOf(r)[x] = RowOf(x).charged[r]
<1>1. x[1] \in Unit /\ x[2] \in Attempt
  BY DEF Rows
<1>2. RowOf(x) \in Reservation
  BY <1>1 DEF RowOf, ReservationType
<1>3. Capacity[x[1]][r] \in Nat /\ Allowance[x[1]][r] \in Nat
  BY <1>1, DemandAssumption DEF Vector
<1>4. RowOf(x).released[r] \in Nat /\ RowOf(x).charged[r] \in Nat
  BY <1>2 DEF Reservation, Vector
<1>5. HeldOf(r)[x] = IF RowOf(x).state = "NONE" THEN 0 ELSE Capacity[x[1]][r] - RowOf(x).released[r]
  BY DEF HeldOf, Held, RowOf, Zero, Subtract
<1>6. ReservedOf(r)[x] = (IF RowOf(x).state = "ACTIVE" THEN Allowance[x[1]][r] ELSE 0)
      /\ ChargedOf(r)[x] = RowOf(x).charged[r]
  BY DEF ReservedOf, ChargedOf
<1> QED BY <1>1, <1>2, <1>3, <1>4, <1>5, <1>6

LEMMA ContributionsInt ==
  ASSUME ReservationType, NEW r \in Resource
  PROVE  \A x \in Rows : HeldOf(r)[x] \in Int /\ ReservedOf(r)[x] \in Int /\ ChargedOf(r)[x] \in Int
BY RowValues

\* A step changes the contributions of the attempts S of one job by dh, dr and
\* dc, and the heads by their sums.
RowChange(r, S, dh, dr, dc) ==
  /\ \A x \in Rows \ S : /\ HeldOf(r)'[x] = HeldOf(r)[x]
                         /\ ReservedOf(r)'[x] = ReservedOf(r)[x]
                         /\ ChargedOf(r)'[x] = ChargedOf(r)[x]
  /\ \A x \in S : /\ dh[x] \in Int /\ HeldOf(r)'[x] = HeldOf(r)[x] + dh[x]
                  /\ dr[x] \in Int /\ ReservedOf(r)'[x] = ReservedOf(r)[x] + dr[x]
                  /\ dc[x] \in Int /\ ChargedOf(r)'[x] = ChargedOf(r)[x] + dc[x]

HeadChange(r, j, h, d, c) ==
  /\ poolActive'[r] = poolActive[r] + h
  /\ jobActive'[j][r] = jobActive[j][r] + h
  /\ jobReserved'[j][r] = jobReserved[j][r] + d
  /\ jobConsumed'[j][r] = jobConsumed[j][r] + c
  /\ \A i \in Job \ {j} : /\ jobActive'[i][r] = jobActive[i][r]
                          /\ jobReserved'[i][r] = jobReserved[i][r]
                          /\ jobConsumed'[i][r] = jobConsumed[i][r]

\* Contributions f become g: those of the attempts S of job j change by d.
Adjusts(f, g, d, j, S) ==
  j \in Job /\ S \in SUBSET Attempts(j) /\ DiffersBy(f, g, Rows, S, d)

\* The sums over the pool and over each job follow.
SumsFollow(f, g, d, j, S) ==
  /\ SumFunctionOnSet(g, Rows) = SumFunctionOnSet(f, Rows) + SumFunctionOnSet(d, S)
  /\ SumFunctionOnSet(g, Attempts(j)) = SumFunctionOnSet(f, Attempts(j)) + SumFunctionOnSet(d, S)
  /\ \A i \in Job \ {j} : SumFunctionOnSet(g, Attempts(i)) = SumFunctionOnSet(f, Attempts(i))

LEMMA QuantityStep ==
  ASSUME NEW f, NEW g, NEW d, NEW j, NEW S, Adjusts(f, g, d, j, S)
  PROVE  SumsFollow(f, g, d, j, S)
<1>0. j \in Job /\ S \in SUBSET Attempts(j) /\ DiffersBy(f, g, Rows, S, d)
  BY DEF Adjusts
<1>1. S \in SUBSET Rows
  BY <1>0, FiniteRows
<1>2. SumFunctionOnSet(g, Rows) = SumFunctionOnSet(f, Rows) + SumFunctionOnSet(d, S)
  <2>1. IsFiniteSet(Rows)
    BY FiniteRows
  <2> QED BY <1>0, <1>1, <2>1, SumChange
<1>3. SumFunctionOnSet(g, Attempts(j)) = SumFunctionOnSet(f, Attempts(j)) + SumFunctionOnSet(d, S)
  <2>1. DiffersBy(f, g, Attempts(j), S, d) /\ IsFiniteSet(Attempts(j))
    BY <1>0, FiniteRows DEF DiffersBy
  <2> QED BY <1>0, <2>1, SumChange
<1>4. ASSUME NEW i \in Job \ {j}
      PROVE  SumFunctionOnSet(g, Attempts(i)) = SumFunctionOnSet(f, Attempts(i))
  <2>1. \A x \in Attempts(i) : x \in Rows \ S
    BY <1>0, FiniteRows DEF Attempts
  <2>2. \A x \in Attempts(i) : g[x] = f[x]
    BY <1>0, <2>1 DEF DiffersBy
  <2> QED BY <2>2, FiniteRows, SumCongruent
<1> QED BY <1>2, <1>3, <1>4 DEF SumsFollow

\* The heads keep up with the reservations.
LEMMA HeadsStep ==
  ASSUME ReservationType, NEW r \in Resource, HeadsAt(r), NEW j \in Job,
         NEW S \in SUBSET Attempts(j), NEW dh, NEW dr, NEW dc, RowChange(r, S, dh, dr, dc),
         HeadChange(r, j, SumFunctionOnSet(dh, S), SumFunctionOnSet(dr, S), SumFunctionOnSet(dc, S))
  PROVE  HeadsAt(r)'
<1> DEFINE hf == HeldOf(r)
           rf == ReservedOf(r)
           cf == ChargedOf(r)
           hg == HeldOf(r)'
           rg == ReservedOf(r)'
           cg == ChargedOf(r)'
<1>1. \A x \in Rows : hf[x] \in Int /\ rf[x] \in Int /\ cf[x] \in Int
  BY ContributionsInt
<1>2. /\ \A x \in Rows \ S : hg[x] = hf[x] /\ rg[x] = rf[x] /\ cg[x] = cf[x]
      /\ \A x \in S : /\ dh[x] \in Int /\ hg[x] = hf[x] + dh[x]
                      /\ dr[x] \in Int /\ rg[x] = rf[x] + dr[x]
                      /\ dc[x] \in Int /\ cg[x] = cf[x] + dc[x]
  BY DEF RowChange
<1>3. /\ poolActive[r] = SumFunctionOnSet(hf, Rows)
      /\ \A i \in Job :
           /\ jobActive[i][r] = SumFunctionOnSet(hf, Attempts(i))
           /\ jobReserved[i][r] = SumFunctionOnSet(rf, Attempts(i))
           /\ jobConsumed[i][r] = SumFunctionOnSet(cf, Attempts(i))
  BY DEF HeadsAt
<1> HIDE DEF hf, rf, cf, hg, rg, cg
<1>4. SumsFollow(hf, hg, dh, j, S)
  <2>1. Adjusts(hf, hg, dh, j, S)
    BY <1>1, <1>2 DEF Adjusts, DiffersBy
  <2> QED BY <2>1, QuantityStep, Zenon
<1>5. SumsFollow(rf, rg, dr, j, S)
  <2>1. Adjusts(rf, rg, dr, j, S)
    BY <1>1, <1>2 DEF Adjusts, DiffersBy
  <2> QED BY <2>1, QuantityStep, Zenon
<1>6. SumsFollow(cf, cg, dc, j, S)
  <2>1. Adjusts(cf, cg, dc, j, S)
    BY <1>1, <1>2 DEF Adjusts, DiffersBy
  <2> QED BY <2>1, QuantityStep, Zenon
<1>7. poolActive'[r] = SumFunctionOnSet(hg, Rows)
  BY <1>3, <1>4 DEF HeadChange, SumsFollow
<1>8. ASSUME NEW i \in Job
      PROVE  /\ jobActive'[i][r] = SumFunctionOnSet(hg, Attempts(i))
             /\ jobReserved'[i][r] = SumFunctionOnSet(rg, Attempts(i))
             /\ jobConsumed'[i][r] = SumFunctionOnSet(cg, Attempts(i))
  <2>1. CASE i = j
    BY <1>3, <1>4, <1>5, <1>6, <2>1 DEF HeadChange, SumsFollow
  <2>2. CASE i # j
    BY <1>3, <1>4, <1>5, <1>6, <2>2 DEF HeadChange, SumsFollow
  <2> QED BY <2>1, <2>2
<1> QED BY <1>7, <1>8 DEF HeadsAt, hg, rg, cg, Rows, Attempts
\* The heads after a step that changes the reservation of one attempt only.
\* The change is given by what the attempt's row contributed before and after.
LEMMA OneRowStep ==
  ASSUME ReservationType, ReservationType', NEW r \in Resource, HeadsAt(r),
         NEW u \in Unit, NEW a \in Attempt, NEW h \in Int, NEW d \in Int, NEW c \in Int,
         \A v \in Unit : \A b \in Attempt :
           ~(v = u /\ b = a) => reservation'[v][b] = reservation[v][b],
         HeldOf(r)'[<<u, a>>] = HeldOf(r)[<<u, a>>] + h,
         ReservedOf(r)'[<<u, a>>] = ReservedOf(r)[<<u, a>>] + d,
         ChargedOf(r)'[<<u, a>>] = ChargedOf(r)[<<u, a>>] + c,
         HeadChange(r, JobOf[u], h, d, c)
  PROVE  HeadsAt(r)'
<1> DEFINE x == <<u, a>>
           S == {x}
           dh == [y \in S |-> h]
           dr == [y \in S |-> d]
           dc == [y \in S |-> c]
<1>1. JobOf[u] \in Job /\ S \in SUBSET Attempts(JobOf[u])
  BY GraphAssumption DEF Attempts
<1>2. ASSUME NEW y \in Rows \ S
      PROVE  /\ HeldOf(r)'[y] = HeldOf(r)[y]
             /\ ReservedOf(r)'[y] = ReservedOf(r)[y]
             /\ ChargedOf(r)'[y] = ChargedOf(r)[y]
  <2>1. y[1] \in Unit /\ y[2] \in Attempt /\ y = <<y[1], y[2]>>
    BY DEF Rows
  <2>2. RowOf(y)' = RowOf(y)
    BY <2>1 DEF RowOf
  <2>3. /\ HeldOf(r)[y] = IF RowOf(y).state = "NONE" THEN 0
                          ELSE Capacity[y[1]][r] - RowOf(y).released[r]
        /\ ReservedOf(r)[y] = IF RowOf(y).state = "ACTIVE" THEN Allowance[y[1]][r] ELSE 0
        /\ ChargedOf(r)[y] = RowOf(y).charged[r]
    BY <1>2, RowValues, SMTT(30)
  <2>4. /\ HeldOf(r)'[y] = IF RowOf(y)'.state = "NONE" THEN 0
                           ELSE Capacity[y[1]][r] - RowOf(y)'.released[r]
        /\ ReservedOf(r)'[y] = IF RowOf(y)'.state = "ACTIVE" THEN Allowance[y[1]][r] ELSE 0
        /\ ChargedOf(r)'[y] = RowOf(y)'.charged[r]
    BY DEF HeldOf, ReservedOf, ChargedOf, Held, RowOf, Zero, Subtract, Rows
  <2> QED BY <2>2, <2>3, <2>4
<1>3. dh[x] = h /\ dr[x] = d /\ dc[x] = c
  OBVIOUS
<1>4. RowChange(r, S, dh, dr, dc)
  BY <1>2, <1>3 DEF RowChange
<1>5. /\ SumFunctionOnSet(dh, S) = h
      /\ SumFunctionOnSet(dr, S) = d
      /\ SumFunctionOnSet(dc, S) = c
  <2> HIDE DEF dh, dr, dc, x
  <2> QED BY <1>3, SumSingleton
<1> HIDE DEF dh, dr, dc, S
<1>6. HeadChange(r, JobOf[u], SumFunctionOnSet(dh, S), SumFunctionOnSet(dr, S), SumFunctionOnSet(dc, S))
  BY <1>5
<1> QED BY <1>1, <1>4, <1>6, HeadsStep

\* The contributions of one attempt, in terms of its reservation.
LEMMA RowContribution ==
  ASSUME ReservationType, NEW r \in Resource, NEW u \in Unit, NEW a \in Attempt
  PROVE  /\ HeldOf(r)[<<u, a>>] = IF reservation[u][a].state = "NONE" THEN 0
                                  ELSE Capacity[u][r] - reservation[u][a].released[r]
         /\ ReservedOf(r)[<<u, a>>] = IF reservation[u][a].state = "ACTIVE" THEN Allowance[u][r] ELSE 0
         /\ ChargedOf(r)[<<u, a>>] = reservation[u][a].charged[r]
<1>1. <<u, a>> \in Rows /\ RowOf(<<u, a>>) = reservation[u][a]
  BY DEF Rows, RowOf
<1> QED BY <1>1, RowValues

LEMMA RowContributionAfter ==
  ASSUME NEW r \in Resource, NEW u \in Unit, NEW a \in Attempt
  PROVE  /\ HeldOf(r)'[<<u, a>>] = IF reservation'[u][a].state = "NONE" THEN 0
                                   ELSE Capacity[u][r] - reservation'[u][a].released[r]
         /\ ReservedOf(r)'[<<u, a>>] = IF reservation'[u][a].state = "ACTIVE" THEN Allowance[u][r] ELSE 0
         /\ ChargedOf(r)'[<<u, a>>] = reservation'[u][a].charged[r]
BY DEF HeldOf, ReservedOf, ChargedOf, Held, RowOf, Zero, Subtract, Rows

\* The heads are vectors of integers, and executing a table of flags.
HeadsType ==
  /\ poolActive \in [Resource -> Int]
  /\ jobActive \in [Job -> [Resource -> Int]]
  /\ jobReserved \in [Job -> [Resource -> Int]]
  /\ jobConsumed \in [Job -> [Resource -> Int]]
  /\ executing \in [Unit -> [Attempt -> BOOLEAN]]

\* A job's head g is f with the amount d[r] more of each resource r for job j.
HeadMoved(f, g, j, d) ==
  /\ g \in [Job -> [Resource -> Int]]
  /\ \A r \in Resource : /\ g[j][r] = f[j][r] + d[r]
                         /\ \A i \in Job \ {j} : g[i][r] = f[i][r]

LEMMA HeadAdd ==
  ASSUME NEW f \in [Job -> [Resource -> Int]], NEW j \in Job, NEW v \in [Resource -> Int]
  PROVE  HeadMoved(f, [f EXCEPT ![j] = Add(@, v)], j, v)
<1>1. Add(f[j], v) \in [Resource -> Int]
  BY DEF Add
<1>2. \A r \in Resource : Add(f[j], v)[r] = f[j][r] + v[r]
  BY DEF Add
<1> QED BY <1>1, <1>2 DEF HeadMoved

LEMMA HeadSubtract ==
  ASSUME NEW f \in [Job -> [Resource -> Int]], NEW j \in Job, NEW v \in [Resource -> Int]
  PROVE  HeadMoved(f, [f EXCEPT ![j] = Subtract(@, v)], j, [r \in Resource |-> -v[r]])
<1>1. Subtract(f[j], v) \in [Resource -> Int]
  BY DEF Subtract
<1>2. \A r \in Resource : Subtract(f[j], v)[r] = f[j][r] + (-v[r])
  BY DEF Subtract
<1> QED BY <1>1, <1>2 DEF HeadMoved

\* The pool and the heads of job j move by these amounts of each resource.
HeadsMove(j, h, d, c) ==
  /\ poolActive' \in [Resource -> Int]
  /\ \A r \in Resource : poolActive'[r] = poolActive[r] + h[r]
  /\ HeadMoved(jobActive, jobActive', j, h)
  /\ HeadMoved(jobReserved, jobReserved', j, d)
  /\ HeadMoved(jobConsumed, jobConsumed', j, c)

LEMMA HeadsMoveAt ==
  ASSUME NEW j \in Job, NEW h, NEW d, NEW c, HeadsMove(j, h, d, c), NEW r \in Resource
  PROVE  HeadChange(r, j, h[r], d[r], c[r])
BY DEF HeadsMove, HeadMoved, HeadChange

\* What each service operation does to the heads.
LEMMA ReserveMove ==
  ASSUME HeadsType, NEW u \in Unit, NEW a \in Attempt, ReserveCapacity(u, a)
  PROVE  HeadsMove(JobOf[u], Capacity[u], Allowance[u], Zero)
<1>1. JobOf[u] \in Job /\ Capacity[u] \in [Resource -> Int] /\ Allowance[u] \in [Resource -> Int]
      /\ Zero \in [Resource -> Int]
  BY GraphAssumption, DemandAssumption DEF Vector, Zero
<1>2. /\ poolActive' = Add(poolActive, Capacity[u])
      /\ jobActive' = [jobActive EXCEPT ![JobOf[u]] = Add(@, Capacity[u])]
      /\ jobReserved' = [jobReserved EXCEPT ![JobOf[u]] = Add(@, Allowance[u])]
      /\ jobConsumed' = jobConsumed
  BY DEF ReserveCapacity
<1>3. poolActive' \in [Resource -> Int] /\ \A r \in Resource : poolActive'[r] = poolActive[r] + Capacity[u][r]
  BY <1>1, <1>2 DEF HeadsType, Add
<1>4. HeadMoved(jobActive, jobActive', JobOf[u], Capacity[u])
  BY <1>1, <1>2, HeadAdd DEF HeadsType
<1>5. HeadMoved(jobReserved, jobReserved', JobOf[u], Allowance[u])
  BY <1>1, <1>2, HeadAdd DEF HeadsType
<1>6. HeadMoved(jobConsumed, jobConsumed', JobOf[u], Zero)
  BY <1>1, <1>2 DEF HeadsType, HeadMoved, Zero
<1> QED BY <1>3, <1>4, <1>5, <1>6 DEF HeadsMove

\* The opposite of a vector.
Opposite(v) == [r \in Resource |-> -v[r]]

LEMMA ReleaseMove ==
  ASSUME HeadsType, NEW u \in Unit, NEW a \in Attempt, NEW usage \in Usage(u),
         ReleaseCompleted(u, a, usage)
  PROVE  HeadsMove(JobOf[u], Opposite(ReleasedByCompletion(u, usage)), Opposite(Allowance[u]), usage)
<1> DEFINE rel == ReleasedByCompletion(u, usage)
<1>1. JobOf[u] \in Job /\ rel \in [Resource -> Int] /\ Allowance[u] \in [Resource -> Int]
      /\ usage \in [Resource -> Int]
  BY GraphAssumption, DemandAssumption, ReservationValues DEF Vector
<1>2. /\ poolActive' = Subtract(poolActive, rel)
      /\ jobActive' = [jobActive EXCEPT ![JobOf[u]] = Subtract(@, rel)]
      /\ jobReserved' = [jobReserved EXCEPT ![JobOf[u]] = Subtract(@, Allowance[u])]
      /\ jobConsumed' = [jobConsumed EXCEPT ![JobOf[u]] = Add(@, usage)]
  BY DEF ReleaseCompleted
<1> HIDE DEF rel
<1>3. poolActive' \in [Resource -> Int] /\ \A r \in Resource : poolActive'[r] = poolActive[r] + Opposite(rel)[r]
  BY <1>1, <1>2 DEF HeadsType, Subtract, Opposite
<1>4. HeadMoved(jobActive, jobActive', JobOf[u], Opposite(rel))
  BY <1>1, <1>2, HeadSubtract DEF HeadsType, Opposite
<1>5. HeadMoved(jobReserved, jobReserved', JobOf[u], Opposite(Allowance[u]))
  BY <1>1, <1>2, HeadSubtract DEF HeadsType, Opposite
<1>6. HeadMoved(jobConsumed, jobConsumed', JobOf[u], usage)
  BY <1>1, <1>2, HeadAdd DEF HeadsType
<1> QED BY <1>3, <1>4, <1>5, <1>6 DEF HeadsMove, rel

\* What a confirmed termination gives back, and nothing otherwise.
Terminated(u, stopped) == IF stopped THEN [Capacity[u] EXCEPT ![Storage] = 0] ELSE Zero

LEMMA TerminatedValues ==
  ASSUME NEW u \in Unit, NEW stopped \in BOOLEAN
  PROVE  /\ Terminated(u, stopped) \in Vector
         /\ \A r \in Resource :
              Terminated(u, stopped)[r] = IF stopped /\ r # Storage THEN Capacity[u][r] ELSE 0
<1>1. Capacity[u] \in [Resource -> Nat] /\ Zero \in [Resource -> Nat]
  BY DemandAssumption DEF Vector, Zero
<1> QED BY <1>1 DEF Terminated, Vector, Zero

LEMMA TerminationMove ==
  ASSUME HeadsType, NEW u \in Unit, NEW a \in Attempt, NEW stopped \in BOOLEAN,
         RecordTermination(u, a, stopped)
  PROVE  HeadsMove(JobOf[u], Opposite(Terminated(u, stopped)), Zero, Zero)
<1> DEFINE rel == Terminated(u, stopped)
<1>1. JobOf[u] \in Job /\ rel \in [Resource -> Int] /\ Zero \in [Resource -> Int]
  BY GraphAssumption, TerminatedValues DEF Vector, Zero
<1>2. /\ poolActive' = Subtract(poolActive, rel)
      /\ jobActive' = [jobActive EXCEPT ![JobOf[u]] = Subtract(@, rel)]
      /\ jobReserved' = jobReserved /\ jobConsumed' = jobConsumed
  BY DEF RecordTermination, Terminated
<1> HIDE DEF rel
<1>3. poolActive' \in [Resource -> Int] /\ \A r \in Resource : poolActive'[r] = poolActive[r] + Opposite(rel)[r]
  BY <1>1, <1>2 DEF HeadsType, Subtract, Opposite
<1>4. HeadMoved(jobActive, jobActive', JobOf[u], Opposite(rel))
  BY <1>1, <1>2, HeadSubtract DEF HeadsType, Opposite
<1>5. HeadMoved(jobReserved, jobReserved', JobOf[u], Zero) /\ HeadMoved(jobConsumed, jobConsumed', JobOf[u], Zero)
  BY <1>1, <1>2 DEF HeadsType, HeadMoved, Zero
<1> QED BY <1>3, <1>4, <1>5 DEF HeadsMove, rel

\* What closing the reservations in S gives back and charges.
AbortedReleased(S) == SumOver(S, LAMBDA ua : AbortedReservation(ua[1]).released)
AbortedCharged(S) == SumOver(S, LAMBDA ua : Allowance[ua[1]])

LEMMA AbortedValues ==
  ASSUME NEW u \in Unit, NEW r \in Resource
  PROVE  /\ AbortedReservation(u).charged = Allowance[u] /\ Allowance[u][r] \in Nat
         /\ AbortedReservation(u).released[r] \in Nat
         /\ AbortedReservation(u).released[r]
              = IF u \in TerminationRequired \/ r = Storage THEN 0 ELSE Capacity[u][r]
<1>1. Capacity[u] \in [Resource -> Nat] /\ Zero \in [Resource -> Nat] /\ Allowance[u][r] \in Nat
  BY DemandAssumption DEF Vector, Zero
<1>2. CASE u \in TerminationRequired
  BY <1>1, <1>2 DEF AbortedReservation, Zero
<1>3. CASE u \notin TerminationRequired
  BY <1>1, <1>3 DEF AbortedReservation
<1> QED BY <1>1, <1>2, <1>3

LEMMA AbortedSums ==
  ASSUME NEW S \in SUBSET Rows, NEW r \in Resource
  PROVE  /\ IsFiniteSet(S)
         /\ AbortedReleased(S)[r] = SumFunctionOnSet([x \in S |-> AbortedReservation(x[1]).released[r]], S)
         /\ AbortedCharged(S)[r] = SumFunctionOnSet([x \in S |-> Allowance[x[1]][r]], S)
         /\ AbortedReleased(S)[r] \in Nat /\ AbortedCharged(S)[r] \in Nat
<1> DEFINE f == [x \in S |-> AbortedReservation(x[1]).released[r]]
           g == [x \in S |-> Allowance[x[1]][r]]
<1>1. IsFiniteSet(S)
  BY FiniteRows, FS_Subset
<1>2. AbortedReleased(S)[r] = SumFunctionOnSet(f, S) /\ AbortedCharged(S)[r] = SumFunctionOnSet(g, S)
  BY DEF AbortedReleased, AbortedCharged, SumOver
<1>3. \A x \in S : f[x] \in Nat /\ g[x] \in Nat
  BY AbortedValues DEF Rows
<1> HIDE DEF f, g
<1>4. SumFunctionOnSet(f, S) \in Nat /\ SumFunctionOnSet(g, S) \in Nat
  BY <1>1, <1>3, SumNat
<1> QED BY <1>1, <1>2, <1>4 DEF f, g

LEMMA AbortedInt ==
  ASSUME NEW S \in SUBSET Rows, NEW r \in Resource
  PROVE  AbortedReleased(S)[r] \in Int /\ AbortedCharged(S)[r] \in Int
<1>1. AbortedReleased(S)[r] \in Nat /\ AbortedCharged(S)[r] \in Nat
  BY AbortedSums, Zenon
<1> QED BY <1>1

LEMMA AbortMove ==
  ASSUME HeadsType, NEW j \in Job, NEW S \in SUBSET Rows, CloseAborted(j, S)
  PROVE  HeadsMove(j, Opposite(AbortedReleased(S)), Opposite(AbortedCharged(S)), AbortedCharged(S))
<1> DEFINE rel == AbortedReleased(S)
           all == AbortedCharged(S)
<1>1. rel \in [Resource -> Int] /\ all \in [Resource -> Int]
  <2> DEFINE F(r) == SumFunctionOnSet([x \in S |-> AbortedReservation(x[1]).released[r]], S)
             G(r) == SumFunctionOnSet([x \in S |-> Allowance[x[1]][r]], S)
  <2>1. rel = [r \in Resource |-> F(r)]
    BY Zenon DEF AbortedReleased, SumOver
  <2>2. all = [r \in Resource |-> G(r)]
    BY Zenon DEF AbortedCharged, SumOver
  <2>3. \A r \in Resource : rel[r] \in Int /\ all[r] \in Int
    BY AbortedInt
  <2> HIDE DEF rel, all, F, G
  <2> QED BY <2>1, <2>2, <2>3
<1>2. /\ poolActive' = Subtract(poolActive, rel)
      /\ jobActive' = [jobActive EXCEPT ![j] = Subtract(@, rel)]
      /\ jobReserved' = [jobReserved EXCEPT ![j] = Subtract(@, all)]
      /\ jobConsumed' = [jobConsumed EXCEPT ![j] = Add(@, all)]
  BY DEF CloseAborted, AbortedReleased, AbortedCharged
<1> HIDE DEF rel, all
<1>3. poolActive' \in [Resource -> Int] /\ \A r \in Resource : poolActive'[r] = poolActive[r] + Opposite(rel)[r]
  BY <1>1, <1>2 DEF HeadsType, Subtract, Opposite
<1>4. HeadMoved(jobActive, jobActive', j, Opposite(rel))
  BY <1>1, <1>2, HeadSubtract DEF HeadsType, Opposite
<1>5. HeadMoved(jobReserved, jobReserved', j, Opposite(all))
  BY <1>1, <1>2, HeadSubtract DEF HeadsType, Opposite
<1>6. HeadMoved(jobConsumed, jobConsumed', j, all)
  BY <1>1, <1>2, HeadAdd DEF HeadsType
<1> QED BY <1>3, <1>4, <1>5, <1>6 DEF HeadsMove, rel, all

\* What a reservation row of unit u says of itself, and of the execution it
\* is for: amounts appear only when it is closed, nothing is given back twice,
\* the bytes it holds are the bytes it is charged or may still be charged, and
\* an execution under way holds its processes.
Accounted(u, row, running) ==
  /\ row.state \in {"NONE", "ACTIVE", "RELEASE_PENDING_TERMINATION"} => row.released = Zero
  /\ row.state \in {"NONE", "ACTIVE"} => row.charged = Zero
  /\ \A r \in Resource : row.released[r] <= Capacity[u][r]
  /\ row.state # "NONE" =>
       Capacity[u][Storage] - row.released[Storage]
         = row.charged[Storage] + IF row.state = "ACTIVE" THEN Allowance[u][Storage] ELSE 0
  /\ running => row.state # "NONE" /\ (Capacity[u][Process] = 0 \/ row.released[Process] = 0)

RowsAccounted ==
  \A u \in Unit : \A a \in Attempt : Accounted(u, reservation[u][a], executing[u][a])

AccountInv ==
  /\ ReservationInv
  /\ HeadsType
  /\ RowsAccounted
  /\ \A r \in Resource : HeadsAt(r)

\* One row is written, the others stay.
RowWritten(u, a, row) ==
  /\ reservation'[u][a] = row
  /\ \A v \in Unit : \A b \in Attempt :
       ~(v = u /\ b = a) => reservation'[v][b] = reservation[v][b]

LEMMA RowReplaced ==
  ASSUME ReservationType, NEW u \in Unit, NEW a \in Attempt, NEW row,
         reservation' = [reservation EXCEPT ![u][a] = row]
  PROVE  RowWritten(u, a, row)
BY DEF ReservationType, RowWritten

\* The rows of active and of new reservations.
ActiveRow == [state |-> "ACTIVE", released |-> Zero, charged |-> Zero]
ReleasedRow(u, usage) ==
  [state |-> "RELEASED", released |-> ReleasedByCompletion(u, usage), charged |-> usage]

\* The heads keep up with an admission.
LEMMA AdmitHeads ==
  ASSUME AccountInv, ReservationType', NEW u \in Unit, NEW a \in Attempt,
         reservation[u][a].state = "NONE", ReserveCapacity(u, a), NEW r \in Resource
  PROVE  HeadsAt(r)'
<1>1. ReservationType /\ HeadsType /\ HeadsAt(r) /\ Accounted(u, reservation[u][a], executing[u][a])
  BY DEF AccountInv, ReservationInv, RowsAccounted
<1>2. RowWritten(u, a, ActiveRow)
  <2>1. reservation' = [reservation EXCEPT ![u][a] = ActiveRow]
    BY DEF ReserveCapacity, ActiveRow
  <2> QED BY <1>1, <2>1, RowReplaced
<1>3. Capacity[u][r] \in Int /\ Allowance[u][r] \in Int /\ Zero[r] = 0 /\ JobOf[u] \in Job
  BY DemandAssumption, GraphAssumption DEF Vector, Zero
<1>4. HeadChange(r, JobOf[u], Capacity[u][r], Allowance[u][r], 0)
  BY <1>1, <1>3, ReserveMove, HeadsMoveAt
<1>5. HeldOf(r)[<<u, a>>] = 0 /\ ReservedOf(r)[<<u, a>>] = 0 /\ ChargedOf(r)[<<u, a>>] = 0
  <2>1. reservation[u][a].charged[r] = 0
    BY <1>1, <1>3 DEF Accounted
  <2> QED BY <1>1, <2>1, RowContribution
<1>6. /\ HeldOf(r)'[<<u, a>>] = Capacity[u][r]
      /\ ReservedOf(r)'[<<u, a>>] = Allowance[u][r]
      /\ ChargedOf(r)'[<<u, a>>] = 0
  <2>1. reservation'[u][a].state = "ACTIVE" /\ reservation'[u][a].released[r] = 0
        /\ reservation'[u][a].charged[r] = 0
    BY <1>2, <1>3 DEF RowWritten, ActiveRow
  <2>2. /\ HeldOf(r)'[<<u, a>>] = IF reservation'[u][a].state = "NONE" THEN 0
                                  ELSE Capacity[u][r] - reservation'[u][a].released[r]
        /\ ReservedOf(r)'[<<u, a>>] = IF reservation'[u][a].state = "ACTIVE" THEN Allowance[u][r] ELSE 0
        /\ ChargedOf(r)'[<<u, a>>] = reservation'[u][a].charged[r]
    BY RowContributionAfter
  <2> QED BY <1>3, <2>1, <2>2
<1>7. \A v \in Unit : \A b \in Attempt :
        ~(v = u /\ b = a) => reservation'[v][b] = reservation[v][b]
  BY <1>2 DEF RowWritten
<1> QED BY <1>1, <1>3, <1>4, <1>5, <1>6, <1>7, OneRowStep

\* The heads keep up with a completion.
LEMMA ReleaseHeads ==
  ASSUME AccountInv, ReservationType', NEW u \in Unit, NEW a \in Attempt, NEW usage \in Usage(u),
         ReleaseCompleted(u, a, usage), NEW r \in Resource
  PROVE  HeadsAt(r)'
<1> DEFINE rel == ReleasedByCompletion(u, usage)
<1>1. ReservationType /\ HeadsType /\ HeadsAt(r) /\ Accounted(u, reservation[u][a], executing[u][a])
  BY DEF AccountInv, ReservationInv, RowsAccounted
<1>2. reservation[u][a].state = "ACTIVE" /\ RowWritten(u, a, ReleasedRow(u, usage))
  <2>1. reservation' = [reservation EXCEPT ![u][a] = ReleasedRow(u, usage)]
        /\ reservation[u][a].state = "ACTIVE"
    BY DEF ReleaseCompleted, ReleasedRow
  <2> QED BY <1>1, <2>1, RowReplaced
<1>3. /\ rel[r] \in Int /\ usage[r] \in Int /\ Allowance[u][r] \in Int /\ Capacity[u][r] \in Int
      /\ JobOf[u] \in Job /\ Zero[r] = 0
  BY DemandAssumption, GraphAssumption, ReservationValues DEF Vector, Zero
<1>4. HeadChange(r, JobOf[u], -rel[r], -Allowance[u][r], usage[r])
  <2>1. Opposite(rel)[r] = -rel[r] /\ Opposite(Allowance[u])[r] = -Allowance[u][r]
    BY DEF Opposite
  <2> QED BY <1>1, <1>3, <2>1, ReleaseMove, HeadsMoveAt
<1>5. HeldOf(r)[<<u, a>>] = Capacity[u][r] /\ ReservedOf(r)[<<u, a>>] = Allowance[u][r]
      /\ ChargedOf(r)[<<u, a>>] = 0
  <2>1. reservation[u][a].charged[r] = 0 /\ reservation[u][a].released[r] = 0
    BY <1>1, <1>2, <1>3 DEF Accounted
  <2> QED BY <1>1, <1>2, <1>3, <2>1, RowContribution
<1>6. /\ HeldOf(r)'[<<u, a>>] = Capacity[u][r] - rel[r]
      /\ ReservedOf(r)'[<<u, a>>] = 0
      /\ ChargedOf(r)'[<<u, a>>] = usage[r]
  <2>1. reservation'[u][a].state = "RELEASED" /\ reservation'[u][a].released[r] = rel[r]
        /\ reservation'[u][a].charged[r] = usage[r]
    BY <1>2 DEF RowWritten, ReleasedRow
  <2> QED BY <2>1, RowContributionAfter
<1>7. \A v \in Unit : \A b \in Attempt :
        ~(v = u /\ b = a) => reservation'[v][b] = reservation[v][b]
  BY <1>2 DEF RowWritten
<1> HIDE DEF rel
<1>8. /\ -rel[r] \in Int /\ -Allowance[u][r] \in Int
      /\ HeldOf(r)'[<<u, a>>] = HeldOf(r)[<<u, a>>] + (-rel[r])
      /\ ReservedOf(r)'[<<u, a>>] = ReservedOf(r)[<<u, a>>] + (-Allowance[u][r])
      /\ ChargedOf(r)'[<<u, a>>] = ChargedOf(r)[<<u, a>>] + usage[r]
  BY <1>3, <1>5, <1>6
<1> QED BY <1>1, <1>3, <1>4, <1>7, <1>8, OneRowStep

\* The row a recorded termination leaves.
TerminatedRow(row, u, stopped) ==
  [state |-> IF stopped THEN "RELEASED" ELSE "QUARANTINED",
   released |-> Add(row.released, Terminated(u, stopped)), charged |-> row.charged]

\* The heads keep up with a termination.
LEMMA TerminationHeads ==
  ASSUME AccountInv, ReservationType', NEW u \in Unit, NEW a \in Attempt, NEW stopped \in BOOLEAN,
         RecordTermination(u, a, stopped), NEW r \in Resource
  PROVE  HeadsAt(r)'
<1> DEFINE rel == Terminated(u, stopped)
           row == reservation[u][a]
<1>1. ReservationType /\ HeadsType /\ HeadsAt(r) /\ Accounted(u, row, executing[u][a])
  BY DEF AccountInv, ReservationInv, RowsAccounted
<1>2. row.state = "RELEASE_PENDING_TERMINATION" /\ RowWritten(u, a, TerminatedRow(row, u, stopped))
  <2>1. reservation' = [reservation EXCEPT ![u][a] = TerminatedRow(row, u, stopped)]
        /\ row.state = "RELEASE_PENDING_TERMINATION"
    BY DEF RecordTermination, TerminatedRow, Terminated
  <2> QED BY <1>1, <2>1, RowReplaced
<1>3. /\ rel[r] \in Int /\ row.charged[r] \in Int /\ row.released[r] = 0 /\ Capacity[u][r] \in Int
      /\ JobOf[u] \in Job /\ Zero[r] = 0
  <2>1. row \in Reservation
    BY <1>1 DEF ReservationType
  <2>2. row.released = Zero
    BY <1>1, <1>2 DEF Accounted
  <2> QED BY <2>1, <2>2, DemandAssumption, GraphAssumption, TerminatedValues DEF Reservation, Vector, Zero
<1>4. HeadChange(r, JobOf[u], -rel[r], 0, 0)
  <2>1. Opposite(rel)[r] = -rel[r]
    BY DEF Opposite
  <2> QED BY <1>1, <1>3, <2>1, TerminationMove, HeadsMoveAt
<1>5. HeldOf(r)[<<u, a>>] = Capacity[u][r] /\ ReservedOf(r)[<<u, a>>] = 0
      /\ ChargedOf(r)[<<u, a>>] = row.charged[r]
  BY <1>1, <1>2, <1>3, RowContribution
<1>6. /\ HeldOf(r)'[<<u, a>>] = Capacity[u][r] - rel[r]
      /\ ReservedOf(r)'[<<u, a>>] = 0
      /\ ChargedOf(r)'[<<u, a>>] = row.charged[r]
  <2>1. reservation'[u][a].state \in {"RELEASED", "QUARANTINED"} /\ reservation'[u][a].released[r] = rel[r]
        /\ reservation'[u][a].charged[r] = row.charged[r]
    BY <1>2, <1>3 DEF RowWritten, TerminatedRow, Add
  <2> QED BY <2>1, RowContributionAfter
<1>7. \A v \in Unit : \A b \in Attempt :
        ~(v = u /\ b = a) => reservation'[v][b] = reservation[v][b]
  BY <1>2 DEF RowWritten
<1> HIDE DEF rel, row
<1>8. /\ -rel[r] \in Int /\ 0 \in Int
      /\ HeldOf(r)'[<<u, a>>] = HeldOf(r)[<<u, a>>] + (-rel[r])
      /\ ReservedOf(r)'[<<u, a>>] = ReservedOf(r)[<<u, a>>] + 0
      /\ ChargedOf(r)'[<<u, a>>] = ChargedOf(r)[<<u, a>>] + 0
  BY <1>3, <1>5, <1>6
<1> QED BY <1>1, <1>3, <1>4, <1>7, <1>8, OneRowStep

\* The heads keep up with closing any number of reservations of one job.
LEMMA AbortHeads ==
  ASSUME AccountInv, ReservationType', NEW j \in Job, NEW S \in SUBSET Attempts(j),
         \A x \in S : RowOf(x).state = "ACTIVE", CloseAborted(j, S), NEW r \in Resource
  PROVE  HeadsAt(r)'
<1> DEFINE rel == [x \in S |-> AbortedReservation(x[1]).released[r]]
           all == [x \in S |-> Allowance[x[1]][r]]
           dh == [x \in S |-> -rel[x]]
           dr == [x \in S |-> -all[x]]
<1>1. ReservationType /\ HeadsType /\ HeadsAt(r) /\ S \in SUBSET Rows /\ Zero[r] = 0
  BY FiniteRows DEF AccountInv, ReservationInv, Zero
<1>2. reservation' = [u \in Unit |-> [a \in Attempt |->
                        IF <<u, a>> \in S THEN AbortedReservation(u) ELSE reservation[u][a]]]
  BY DEF CloseAborted
<1>3. ASSUME NEW u \in Unit, NEW a \in Attempt
      PROVE  reservation'[u][a] = IF <<u, a>> \in S THEN AbortedReservation(u) ELSE reservation[u][a]
  BY <1>2
<1>4. ASSUME NEW x \in Rows \ S
      PROVE  HeldOf(r)'[x] = HeldOf(r)[x] /\ ReservedOf(r)'[x] = ReservedOf(r)[x]
             /\ ChargedOf(r)'[x] = ChargedOf(r)[x]
  <2>1. PICK u \in Unit, a \in Attempt : x = <<u, a>>
    BY DEF Rows
  <2>2. reservation'[u][a] = reservation[u][a]
    BY <1>3, <2>1
  <2> QED BY <1>1, <2>1, <2>2, RowContribution, RowContributionAfter
<1>5. ASSUME NEW x \in S
      PROVE  /\ rel[x] \in Int /\ all[x] \in Int
             /\ HeldOf(r)'[x] = HeldOf(r)[x] + (-rel[x])
             /\ ReservedOf(r)'[x] = ReservedOf(r)[x] + (-all[x])
             /\ ChargedOf(r)'[x] = ChargedOf(r)[x] + all[x]
  <2>1. PICK u \in Unit, a \in Attempt : x = <<u, a>>
    BY <1>1 DEF Rows
  <2>2. reservation'[u][a] = AbortedReservation(u) /\ reservation[u][a].state = "ACTIVE"
    BY <1>3, <2>1 DEF RowOf
  <2>3. reservation[u][a].released[r] = 0 /\ reservation[u][a].charged[r] = 0
    BY <1>1, <2>2 DEF AccountInv, RowsAccounted, Accounted
  <2>4. rel[x] = AbortedReservation(u).released[r] /\ all[x] = Allowance[u][r]
    BY <2>1
  <2>5. rel[x] \in Int /\ all[x] \in Int /\ Capacity[u][r] \in Int
        /\ AbortedReservation(u).charged[r] = all[x]
    BY <2>4, AbortedValues, DemandAssumption DEF Vector
  <2> HIDE DEF rel, all
  <2>6. HeldOf(r)[x] = Capacity[u][r] /\ ReservedOf(r)[x] = all[x] /\ ChargedOf(r)[x] = 0
    BY <1>1, <2>1, <2>2, <2>3, <2>4, <2>5, RowContribution
  <2>7. AbortedReservation(u).state \notin {"NONE", "ACTIVE"}
    BY ReservationValues
  <2>8. HeldOf(r)'[x] = Capacity[u][r] - rel[x] /\ ReservedOf(r)'[x] = 0 /\ ChargedOf(r)'[x] = all[x]
    BY <2>1, <2>2, <2>4, <2>5, <2>7, RowContributionAfter
  <2> QED BY <2>5, <2>6, <2>8
<1>6. /\ \A x \in S : dh[x] = -rel[x] /\ dr[x] = -all[x]
  OBVIOUS
<1>7. /\ AbortedReleased(S)[r] = SumFunctionOnSet(rel, S)
      /\ AbortedCharged(S)[r] = SumFunctionOnSet(all, S)
  BY <1>1, AbortedSums, Zenon
<1>8. IsFiniteSet(S)
  BY <1>1, FiniteRows, FS_Subset
<1> HIDE DEF rel, all, dh, dr
<1>9. RowChange(r, S, dh, dr, all)
  <2>1. ASSUME NEW x \in S
        PROVE  /\ dh[x] \in Int /\ HeldOf(r)'[x] = HeldOf(r)[x] + dh[x]
               /\ dr[x] \in Int /\ ReservedOf(r)'[x] = ReservedOf(r)[x] + dr[x]
               /\ all[x] \in Int /\ ChargedOf(r)'[x] = ChargedOf(r)[x] + all[x]
    BY <1>5, <1>6
  <2> QED BY <1>4, <2>1 DEF RowChange
<1>10. SumFunctionOnSet(dh, S) = -AbortedReleased(S)[r] /\ SumFunctionOnSet(dr, S) = -AbortedCharged(S)[r]
  <2>1. SumFunctionOnSet(dh, S) = -SumFunctionOnSet(rel, S)
    BY <1>5, <1>6, <1>8, SumOpposite
  <2>2. SumFunctionOnSet(dr, S) = -SumFunctionOnSet(all, S)
    BY <1>5, <1>6, <1>8, SumOpposite
  <2> QED BY <1>7, <2>1, <2>2
<1>11. HeadChange(r, j, -AbortedReleased(S)[r], -AbortedCharged(S)[r], AbortedCharged(S)[r])
  <2>1. Opposite(AbortedReleased(S))[r] = -AbortedReleased(S)[r]
        /\ Opposite(AbortedCharged(S))[r] = -AbortedCharged(S)[r]
    BY DEF Opposite
  <2>2. HeadsMove(j, Opposite(AbortedReleased(S)), Opposite(AbortedCharged(S)), AbortedCharged(S))
    BY <1>1, AbortMove
  <2>3. HeadChange(r, j, Opposite(AbortedReleased(S))[r], Opposite(AbortedCharged(S))[r], AbortedCharged(S)[r])
    BY <2>2, HeadsMoveAt, Zenon
  <2> QED BY <2>1, <2>3
<1>12. HeadChange(r, j, SumFunctionOnSet(dh, S), SumFunctionOnSet(dr, S), SumFunctionOnSet(all, S))
  BY <1>7, <1>10, <1>11
<1> QED BY <1>1, <1>9, <1>12, HeadsStep

\* The rows the operations write are accounted for.
LEMMA ActiveRowAccounted ==
  ASSUME NEW u \in Unit
  PROVE  Accounted(u, ActiveRow, TRUE)
<1>1. /\ Capacity[u] \in Vector /\ Capacity[u][Storage] = Allowance[u][Storage]
      /\ Process \in Resource /\ Storage \in Resource
  BY DemandAssumption, PoolAssumption
<1>2. \A r \in Resource : Zero[r] = 0 /\ Capacity[u][r] \in Nat
  BY <1>1 DEF Zero, Vector
<1>3. ActiveRow.state = "ACTIVE" /\ ActiveRow.released = Zero /\ ActiveRow.charged = Zero
  BY DEF ActiveRow
<1> QED BY <1>1, <1>2, <1>3 DEF Accounted

LEMMA ReleasedRowAccounted ==
  ASSUME NEW u \in Unit, NEW usage \in Usage(u)
  PROVE  Accounted(u, ReleasedRow(u, usage), FALSE)
<1> DEFINE rel == ReleasedByCompletion(u, usage)
<1>1. Capacity[u] \in [Resource -> Nat] /\ usage \in [Resource -> Nat] /\ Storage \in Resource
  BY DemandAssumption, PoolAssumption, ReservationValues DEF Vector
<1>2. \A r \in Resource : rel[r] = IF r = Storage THEN Capacity[u][r] - usage[r] ELSE Capacity[u][r]
  BY <1>1 DEF ReleasedByCompletion
<1>3. ReleasedRow(u, usage).state = "RELEASED" /\ ReleasedRow(u, usage).released = rel
      /\ ReleasedRow(u, usage).charged = usage
  BY DEF ReleasedRow
<1> HIDE DEF rel
<1> QED BY <1>1, <1>2, <1>3 DEF Accounted

LEMMA AbortedRowAccounted ==
  ASSUME NEW u \in Unit, NEW e \in BOOLEAN
  PROVE  Accounted(u, AbortedReservation(u), e)
<1>1. /\ Capacity[u] \in [Resource -> Nat] /\ Process \in Resource /\ Storage \in Resource
      /\ Process # Storage /\ Capacity[u][Storage] = Allowance[u][Storage]
      /\ Capacity[u][Process] > 0 => u \in TerminationRequired
  BY DemandAssumption, PoolAssumption DEF Vector
<1>2. \A r \in Resource :
        AbortedReservation(u).released[r]
          = IF u \in TerminationRequired \/ r = Storage THEN 0 ELSE Capacity[u][r]
  BY AbortedValues
<1>3. AbortedReservation(u).charged = Allowance[u]
  BY DEF AbortedReservation
<1>4. /\ AbortedReservation(u).state \notin {"NONE", "ACTIVE"}
      /\ AbortedReservation(u).state = "RELEASE_PENDING_TERMINATION" => AbortedReservation(u).released = Zero
  BY DEF AbortedReservation
<1>5. Capacity[u][Process] = 0 \/ AbortedReservation(u).released[Process] = 0
  BY <1>1, <1>2
<1>6. Capacity[u][Storage] - AbortedReservation(u).released[Storage] = Allowance[u][Storage] + 0
  BY <1>1, <1>2
<1>7. \A r \in Resource : AbortedReservation(u).released[r] <= Capacity[u][r]
  BY <1>1, <1>2
<1> QED BY <1>3, <1>4, <1>5, <1>6, <1>7 DEF Accounted

LEMMA TerminatedRowAccounted ==
  ASSUME NEW u \in Unit, NEW row \in Reservation, NEW e \in BOOLEAN, NEW stopped \in BOOLEAN,
         Accounted(u, row, e), row.state = "RELEASE_PENDING_TERMINATION"
  PROVE  Accounted(u, TerminatedRow(row, u, stopped), e /\ ~stopped)
<1> DEFINE new == TerminatedRow(row, u, stopped)
<1>1. /\ Capacity[u] \in [Resource -> Nat] /\ Process \in Resource /\ Storage \in Resource
  BY DemandAssumption, PoolAssumption DEF Vector
<1>2. row.released = Zero /\ Capacity[u][Storage] - row.released[Storage] = row.charged[Storage] + 0
  BY DEF Accounted
<1>3. \A r \in Resource : Zero[r] = 0
  BY DEF Zero
<1>4. \A r \in Resource : new.released[r] = IF stopped /\ r # Storage THEN Capacity[u][r] ELSE 0
  <2>1. \A r \in Resource : new.released[r] = row.released[r] + Terminated(u, stopped)[r]
    BY DEF TerminatedRow, Add
  <2> HIDE DEF new
  <2> QED BY <1>1, <1>2, <1>3, <2>1, TerminatedValues
<1>5. new.charged = row.charged /\ new.state \notin {"NONE", "ACTIVE", "RELEASE_PENDING_TERMINATION"}
  BY DEF TerminatedRow
<1> HIDE DEF new
<1>6. \A r \in Resource : new.released[r] <= Capacity[u][r]
  BY <1>1, <1>4
<1>7. Capacity[u][Storage] - new.released[Storage] = new.charged[Storage] + 0
  BY <1>1, <1>2, <1>3, <1>4, <1>5
<1>8. ~stopped => new.released[Process] = 0
  BY <1>1, <1>4
<1>9. Accounted(u, new, e /\ ~stopped)
  BY <1>5, <1>6, <1>7, <1>8 DEF Accounted
<1> QED BY <1>9 DEF new

LEMMA StoppedAccounted ==
  ASSUME NEW u, NEW row, NEW e, Accounted(u, row, e)
  PROVE  Accounted(u, row, FALSE)
BY DEF Accounted

ExecutingType == executing \in [Unit -> [Attempt -> BOOLEAN]]

\* An operation that writes one row and one flag keeps the rows accounted for.
LEMMA OneRowAccounted ==
  ASSUME RowsAccounted, ExecutingType, NEW u \in Unit, NEW a \in Attempt, NEW row, NEW e \in BOOLEAN,
         RowWritten(u, a, row), executing' = [executing EXCEPT ![u][a] = e], Accounted(u, row, e)
  PROVE  RowsAccounted' /\ ExecutingType'
<1>1. ASSUME NEW v \in Unit, NEW b \in Attempt
      PROVE  executing'[v][b] = IF v = u /\ b = a THEN e ELSE executing[v][b]
  BY DEF ExecutingType
<1>2. ASSUME NEW v \in Unit, NEW b \in Attempt
      PROVE  Accounted(v, reservation'[v][b], executing'[v][b])
  <2>1. CASE v = u /\ b = a
    BY <1>1, <2>1 DEF RowWritten
  <2>2. CASE ~(v = u /\ b = a)
    BY <1>1, <2>2 DEF RowWritten, RowsAccounted
  <2> QED BY <2>1, <2>2
<1>3. ExecutingType'
  BY DEF ExecutingType
<1> QED BY <1>2, <1>3 DEF RowsAccounted

\* After the heads moved they are still vectors of integers.
LEMMA MovedType ==
  ASSUME NEW j, NEW h, NEW d, NEW c, HeadsMove(j, h, d, c), ExecutingType'
  PROVE  HeadsType'
BY DEF HeadsMove, HeadMoved, HeadsType, ExecutingType

AccountsKept == HeadsType' /\ RowsAccounted' /\ \A r \in Resource : HeadsAt(r)'

LEMMA AdmitAccounts ==
  ASSUME AccountInv, ReservationType', NEW u \in Unit, NEW a \in Attempt,
         reservation[u][a].state = "NONE", ReserveCapacity(u, a)
  PROVE  AccountsKept
<1>1. ReservationType /\ HeadsType /\ RowsAccounted /\ ExecutingType
  BY DEF AccountInv, ReservationInv, HeadsType, ExecutingType
<1>2. reservation' = [reservation EXCEPT ![u][a] = ActiveRow]
      /\ executing' = [executing EXCEPT ![u][a] = TRUE]
  BY DEF ReserveCapacity, ActiveRow
<1>3. RowWritten(u, a, ActiveRow)
  BY <1>1, <1>2, RowReplaced
<1>4. RowsAccounted' /\ ExecutingType'
  BY <1>1, <1>2, <1>3, OneRowAccounted, ActiveRowAccounted
<1>5. HeadsType'
  BY <1>1, <1>4, ReserveMove, MovedType
<1>6. \A r \in Resource : HeadsAt(r)'
  BY AdmitHeads
<1> QED BY <1>4, <1>5, <1>6 DEF AccountsKept

LEMMA ReleaseAccounts ==
  ASSUME AccountInv, ReservationType', NEW u \in Unit, NEW a \in Attempt, NEW usage \in Usage(u),
         ReleaseCompleted(u, a, usage)
  PROVE  AccountsKept
<1>1. ReservationType /\ HeadsType /\ RowsAccounted /\ ExecutingType
  BY DEF AccountInv, ReservationInv, HeadsType, ExecutingType
<1>2. reservation' = [reservation EXCEPT ![u][a] = ReleasedRow(u, usage)]
      /\ executing' = [executing EXCEPT ![u][a] = FALSE]
  BY DEF ReleaseCompleted, ReleasedRow
<1>3. RowWritten(u, a, ReleasedRow(u, usage))
  BY <1>1, <1>2, RowReplaced
<1>4. RowsAccounted' /\ ExecutingType'
  BY <1>1, <1>2, <1>3, OneRowAccounted, ReleasedRowAccounted
<1>5. HeadsType'
  BY <1>1, <1>4, ReleaseMove, MovedType
<1>6. \A r \in Resource : HeadsAt(r)'
  BY ReleaseHeads
<1> QED BY <1>4, <1>5, <1>6 DEF AccountsKept

LEMMA TerminationAccounts ==
  ASSUME AccountInv, ReservationType', NEW u \in Unit, NEW a \in Attempt, NEW stopped \in BOOLEAN,
         RecordTermination(u, a, stopped)
  PROVE  AccountsKept
<1> DEFINE row == reservation[u][a]
           e == executing[u][a]
<1>1. ReservationType /\ HeadsType /\ RowsAccounted /\ ExecutingType
  BY DEF AccountInv, ReservationInv, HeadsType, ExecutingType
<1>2. /\ reservation' = [reservation EXCEPT ![u][a] = TerminatedRow(row, u, stopped)]
      /\ executing' = [executing EXCEPT ![u][a] = e /\ ~stopped]
      /\ row.state = "RELEASE_PENDING_TERMINATION"
  BY DEF RecordTermination, TerminatedRow, Terminated
<1>3. RowWritten(u, a, TerminatedRow(row, u, stopped))
  BY <1>1, <1>2, RowReplaced
<1>4. row \in Reservation /\ e \in BOOLEAN /\ (e /\ ~stopped) \in BOOLEAN /\ Accounted(u, row, e)
  BY <1>1 DEF ReservationType, ExecutingType, RowsAccounted
<1>5. Accounted(u, TerminatedRow(row, u, stopped), e /\ ~stopped)
  BY <1>2, <1>4, TerminatedRowAccounted
<1>6. RowsAccounted' /\ ExecutingType'
  <2>1. PICK f \in BOOLEAN : f = (e /\ ~stopped)
    BY <1>4
  <2>2. executing' = [executing EXCEPT ![u][a] = f] /\ Accounted(u, TerminatedRow(row, u, stopped), f)
    BY <1>2, <1>5, <2>1
  <2> QED BY <1>1, <1>3, <2>2, OneRowAccounted
<1>7. HeadsType'
  BY <1>1, <1>6, TerminationMove, MovedType
<1>8. \A r \in Resource : HeadsAt(r)'
  BY TerminationHeads
<1> QED BY <1>6, <1>7, <1>8 DEF AccountsKept

LEMMA AbortAccounts ==
  ASSUME AccountInv, ReservationType', NEW j \in Job, NEW S \in SUBSET Attempts(j),
         \A x \in S : RowOf(x).state = "ACTIVE", CloseAborted(j, S)
  PROVE  AccountsKept
<1>1. ReservationType /\ HeadsType /\ RowsAccounted /\ ExecutingType /\ S \in SUBSET Rows
  BY FiniteRows DEF AccountInv, ReservationInv, HeadsType, ExecutingType
<1>2. /\ reservation' = [u \in Unit |-> [a \in Attempt |->
                           IF <<u, a>> \in S THEN AbortedReservation(u) ELSE reservation[u][a]]]
      /\ executing' = executing
  BY DEF CloseAborted
<1>3. ASSUME NEW u \in Unit, NEW a \in Attempt
      PROVE  Accounted(u, reservation'[u][a], executing'[u][a])
  <2>1. reservation'[u][a] = (IF <<u, a>> \in S THEN AbortedReservation(u) ELSE reservation[u][a])
        /\ executing'[u][a] = executing[u][a] /\ executing[u][a] \in BOOLEAN
    BY <1>1, <1>2 DEF ExecutingType
  <2>2. Accounted(u, reservation[u][a], executing[u][a])
    BY <1>1 DEF RowsAccounted
  <2> QED BY <2>1, <2>2, AbortedRowAccounted
<1>4. RowsAccounted' /\ ExecutingType'
  BY <1>1, <1>2, <1>3 DEF RowsAccounted, ExecutingType
<1>5. HeadsType'
  BY <1>1, <1>4, AbortMove, MovedType
<1>6. \A r \in Resource : HeadsAt(r)'
  BY AbortHeads
<1> QED BY <1>4, <1>5, <1>6 DEF AccountsKept

\* An operation that leaves reservations and heads alone.
LEMMA KeptAccounts ==
  ASSUME AccountInv, UNCHANGED <<reservation, poolActive, jobActive, jobReserved, jobConsumed>>,
         ExecutingType',
         \A u \in Unit : \A a \in Attempt : executing'[u][a] = executing[u][a] \/ executing'[u][a] = FALSE
  PROVE  AccountsKept
<1>1. HeadsType /\ RowsAccounted /\ \A r \in Resource : HeadsAt(r)
  BY DEF AccountInv
<1>2. HeadsType'
  BY <1>1 DEF HeadsType, ExecutingType
<1>3. RowsAccounted'
  <2> SUFFICES ASSUME NEW u \in Unit, NEW a \in Attempt
               PROVE  Accounted(u, reservation[u][a], executing'[u][a])
    BY DEF RowsAccounted
  <2>1. Accounted(u, reservation[u][a], executing[u][a])
    BY <1>1 DEF RowsAccounted
  <2>2. Accounted(u, reservation[u][a], FALSE)
    BY <2>1, StoppedAccounted
  <2> QED BY <2>1, <2>2
<1>4. ASSUME NEW r \in Resource PROVE HeadsAt(r)'
  BY <1>1 DEF HeadsAt, HeldOf, ReservedOf, ChargedOf, Held, RowOf
<1> QED BY <1>2, <1>3, <1>4 DEF AccountsKept

\* A job's active reservations are attempts of that job.
LEMMA ClosedRows ==
  ASSUME NEW j \in Job
  PROVE  /\ ActiveReservations(j) \in SUBSET Attempts(j)
         /\ \A x \in ActiveReservations(j) : RowOf(x).state = "ACTIVE"
BY DEF ActiveReservations, Attempts, RowOf

\* Every step of the service keeps its accounts.
LEMMA AccountInvStep == AccountInv /\ [ResourceNext]_allVars => AccountInv'
<1> SUFFICES ASSUME AccountInv, [ResourceNext]_allVars PROVE AccountsKept
  BY ReservationInvStep DEF AccountInv, AccountsKept
<1>1. ReservationType' /\ ExecutingType
  BY ReservationInvStep DEF AccountInv, ReservationInv, HeadsType, ExecutingType
<1>2. CASE UNCHANGED resourceVars
  <2>1. UNCHANGED <<reservation, poolActive, jobActive, jobReserved, jobConsumed>> /\ executing' = executing
    BY <1>2 DEF resourceVars
  <2> QED BY <1>1, <2>1, KeptAccounts DEF ExecutingType
<1>3. ASSUME NEW j \in Job, CancelJob(j) PROVE AccountsKept
  BY <1>1, <1>3, ClosedRows, AbortAccounts DEF CancelJob
<1>4. ASSUME NEW u \in Unit, NEW a \in Attempt, Expire(u, a) PROVE AccountsKept
  <2>1. CloseAborted(JobOf[u], {<<u, a>>}) /\ reservation[u][a].state = "ACTIVE"
    BY <1>4 DEF Expire
  <2>2. JobOf[u] \in Job /\ {<<u, a>>} \in SUBSET Attempts(JobOf[u])
        /\ \A x \in {<<u, a>>} : RowOf(x).state = "ACTIVE"
    BY <2>1, GraphAssumption DEF Attempts, RowOf
  <2> QED BY <1>1, <2>1, <2>2, AbortAccounts
<1>5. ASSUME NEW u \in Unit, NEW a \in Attempt, RefuseWork(u, a) PROVE AccountsKept
  <2>1. UNCHANGED <<reservation, poolActive, jobActive, jobReserved, jobConsumed>> /\ executing' = executing
    BY <1>5 DEF RefuseWork
  <2> QED BY <1>1, <2>1, KeptAccounts DEF ExecutingType
<1>6. ASSUME NEW u \in Unit, NEW a \in Attempt, ExecutionEnds(u, a) PROVE AccountsKept
  <2>1. UNCHANGED <<reservation, poolActive, jobActive, jobReserved, jobConsumed>>
        /\ executing' = [executing EXCEPT ![u][a] = FALSE]
    BY <1>6 DEF ExecutionEnds
  <2>2. /\ ExecutingType'
        /\ \A v \in Unit : \A b \in Attempt : executing'[v][b] = executing[v][b] \/ executing'[v][b] = FALSE
    BY <1>1, <2>1 DEF ExecutingType
  <2> QED BY <2>1, <2>2, KeptAccounts
<1>7. ASSUME NEW u \in Unit, NEW a \in Attempt, NEW h \in Holder, AdmitWork(u, a, h) PROVE AccountsKept
  <2>1. reservation[u][a].state = "NONE"
    <3>1. ~Exists(u, a)
      BY <1>7, AskingIsUndispatched DEF AdmitWork
    <3> QED BY <3>1 DEF AccountInv, ReservationInv, ReservationFollowsLease
  <2> QED BY <1>1, <1>7, <2>1, AdmitAccounts DEF AdmitWork
<1>8. ASSUME NEW u \in Unit, NEW a \in Attempt, NEW stopped \in BOOLEAN, RecordTermination(u, a, stopped)
      PROVE  AccountsKept
  BY <1>1, <1>8, TerminationAccounts
<1>9. ASSUME NEW u \in Unit, NEW a \in Attempt, NEW usage \in Usage(u), ReleaseCompleted(u, a, usage)
      PROVE  AccountsKept
  BY <1>1, <1>9, ReleaseAccounts
<1>10. ASSUME PlainNext \/ UNCHANGED allVars PROVE UNCHANGED resourceVars
  BY <1>10 DEF PlainNext, allVars
<1> QED BY <1>2, <1>3, <1>4, <1>5, <1>6, <1>7, <1>8, <1>9, <1>10
    DEF ResourceNext, ResourceUnitNext, CompleteStage, CompleteArtifactGroup

LEMMA AccountInit == ResourceInit => AccountInv
<1> SUFFICES ASSUME ResourceInit PROVE AccountInv
  OBVIOUS
<1>1. ReservationInv
  BY ReservationInitially
<1>2. \A u \in Unit : \A a \in Attempt : reservation[u][a] = NoReservation /\ executing[u][a] = FALSE
  BY DEF ResourceInit
<1>3. NoReservation.state = "NONE" /\ NoReservation.released = Zero /\ NoReservation.charged = Zero
  BY DEF NoReservation
<1>4. HeadsType
  BY DEF ResourceInit, HeadsType, Zero
<1>5. RowsAccounted
  <2> SUFFICES ASSUME NEW u \in Unit PROVE Accounted(u, NoReservation, FALSE)
    BY <1>2 DEF RowsAccounted
  <2>1. \A r \in Resource : Zero[r] = 0 /\ Capacity[u][r] \in Nat
    BY DemandAssumption DEF Zero, Vector
  <2> QED BY <1>3, <2>1 DEF Accounted
<1>6. ASSUME NEW r \in Resource PROVE HeadsAt(r)
  <2>1. \A x \in Rows : HeldOf(r)[x] = 0 /\ ReservedOf(r)[x] = 0 /\ ChargedOf(r)[x] = 0
    BY <1>2, <1>3 DEF HeldOf, ReservedOf, ChargedOf, Held, RowOf, Zero, Rows
  <2> DEFINE hf == HeldOf(r)
             rf == ReservedOf(r)
             cf == ChargedOf(r)
  <2>2. \A x \in Rows : hf[x] = 0 /\ rf[x] = 0 /\ cf[x] = 0
    BY <2>1
  <2> HIDE DEF hf, rf, cf
  <2>3. SumFunctionOnSet(hf, Rows) = 0
    BY <2>2, FiniteRows, SumZero
  <2>4. ASSUME NEW j \in Job
        PROVE  /\ SumFunctionOnSet(hf, Attempts(j)) = 0
               /\ SumFunctionOnSet(rf, Attempts(j)) = 0
               /\ SumFunctionOnSet(cf, Attempts(j)) = 0
    <3>1. IsFiniteSet(Attempts(j)) /\ \A x \in Attempts(j) : hf[x] = 0 /\ rf[x] = 0 /\ cf[x] = 0
      BY <2>2, FiniteRows
    <3> QED BY <3>1, SumZero
  <2>5. poolActive[r] = 0 /\ \A j \in Job : jobActive[j][r] = 0 /\ jobReserved[j][r] = 0 /\ jobConsumed[j][r] = 0
    BY DEF ResourceInit, Zero
  <2> QED BY <2>3, <2>4, <2>5 DEF HeadsAt, hf, rf, cf
<1> QED BY <1>1, <1>4, <1>5, <1>6 DEF AccountInv

-----------------------------------------------------------------------------
(* Limits.  Only an admission takes more, and it looks at every limit.     *)

\* The limits of one resource.
LimitAt(r) ==
  /\ poolActive[r] <= PoolCapacity[r]
  /\ \A j \in Job : /\ jobActive[j][r] <= JobConcurrency[j][r]
                    /\ jobConsumed[j][r] + jobReserved[j][r] <= JobBudget[j][r]

LEMMA LimitsPointwise ==
  ASSUME HeadsType
  PROVE  WithinLimits <=> \A r \in Resource : LimitAt(r)
<1>1. PoolCapacity \in [Resource -> Int] /\ JobConcurrency \in [Job -> [Resource -> Int]]
      /\ JobBudget \in [Job -> [Resource -> Int]]
  BY PoolAssumption DEF Vector
<1>2. ~Exceeds(poolActive, PoolCapacity) <=> \A r \in Resource : poolActive[r] <= PoolCapacity[r]
  BY <1>1 DEF HeadsType, Exceeds
<1>3. ASSUME NEW j \in Job
      PROVE  /\ ~Exceeds(jobActive[j], JobConcurrency[j])
                  <=> \A r \in Resource : jobActive[j][r] <= JobConcurrency[j][r]
             /\ ~Exceeds(Add(jobConsumed[j], jobReserved[j]), JobBudget[j])
                  <=> \A r \in Resource : jobConsumed[j][r] + jobReserved[j][r] <= JobBudget[j][r]
  BY <1>1 DEF HeadsType, Exceeds, Add
<1> QED BY <1>2, <1>3 DEF WithinLimits, LimitAt

LEMMA LimitsAfter ==
  ASSUME HeadsType', \A r \in Resource : LimitAt(r)'
  PROVE  WithinLimits'
<1>1. PoolCapacity \in [Resource -> Int] /\ JobConcurrency \in [Job -> [Resource -> Int]]
      /\ JobBudget \in [Job -> [Resource -> Int]]
  BY PoolAssumption DEF Vector
<1>2. ~Exceeds(poolActive', PoolCapacity)
  BY <1>1 DEF HeadsType, Exceeds, LimitAt
<1>3. ASSUME NEW j \in Job
      PROVE  /\ ~Exceeds(jobActive'[j], JobConcurrency[j])
             /\ ~Exceeds(Add(jobConsumed'[j], jobReserved'[j]), JobBudget[j])
  BY <1>1 DEF HeadsType, Exceeds, Add, LimitAt
<1> QED BY <1>2, <1>3 DEF WithinLimits, Exceeds, Add

\* A change that gives back capacity and adds nothing to the job's account.
Gives(h, d, c) ==
  \A r \in Resource : /\ h[r] \in Int /\ d[r] \in Int /\ c[r] \in Int
                      /\ h[r] <= 0 /\ d[r] + c[r] <= 0

LEMMA LimitsKept ==
  ASSUME HeadsType, HeadsType', WithinLimits, NEW j \in Job, NEW h, NEW d, NEW c,
         HeadsMove(j, h, d, c), Gives(h, d, c)
  PROVE  WithinLimits'
<1>1. ASSUME NEW r \in Resource PROVE LimitAt(r)'
  <2>1. LimitAt(r) /\ HeadChange(r, j, h[r], d[r], c[r])
    BY LimitsPointwise, HeadsMoveAt
  <2>2. /\ h[r] \in Int /\ d[r] \in Int /\ c[r] \in Int /\ h[r] <= 0 /\ d[r] + c[r] <= 0
        /\ poolActive[r] \in Int /\ PoolCapacity[r] \in Int
    BY PoolAssumption DEF Gives, HeadsType, Vector
  <2>3. poolActive'[r] <= PoolCapacity[r]
    BY <2>1, <2>2 DEF HeadChange, LimitAt
  <2>4. ASSUME NEW i \in Job
        PROVE  /\ jobActive'[i][r] <= JobConcurrency[i][r]
               /\ jobConsumed'[i][r] + jobReserved'[i][r] <= JobBudget[i][r]
    <3>1. /\ jobActive[i][r] \in Int /\ jobConsumed[i][r] \in Int /\ jobReserved[i][r] \in Int
          /\ JobConcurrency[i][r] \in Int /\ JobBudget[i][r] \in Int
      BY PoolAssumption DEF HeadsType, Vector
    <3>2. /\ jobActive[i][r] <= JobConcurrency[i][r]
          /\ jobConsumed[i][r] + jobReserved[i][r] <= JobBudget[i][r]
      BY <2>1 DEF LimitAt
    <3>3. CASE i = j
      BY <2>1, <2>2, <3>1, <3>2, <3>3 DEF HeadChange
    <3>4. CASE i # j
      BY <2>1, <3>2, <3>4 DEF HeadChange
    <3> QED BY <3>3, <3>4
  <2> QED BY <2>3, <2>4 DEF LimitAt
<1> QED BY <1>1, LimitsAfter

\* An admitted demand fits the pool, the job's concurrency and its budget.
LEMMA AdmittedFits ==
  ASSUME HeadsType, NEW u \in Unit, Classify(u) = "ADMITTED", NEW r \in Resource
  PROVE  /\ poolActive[r] + Capacity[u][r] <= PoolCapacity[r]
         /\ jobActive[JobOf[u]][r] + Capacity[u][r] <= JobConcurrency[JobOf[u]][r]
         /\ jobConsumed[JobOf[u]][r] + jobReserved[JobOf[u]][r] + Allowance[u][r] <= JobBudget[JobOf[u]][r]
<1> DEFINE j == JobOf[u]
<1>1. j \in Job
  BY GraphAssumption
<1>2. /\ ~Exceeds(Add(Add(jobConsumed[j], jobReserved[j]), Allowance[u]), JobBudget[j])
      /\ ~Exceeds(Add(poolActive, Capacity[u]), PoolCapacity)
      /\ ~Exceeds(Add(jobActive[j], Capacity[u]), JobConcurrency[j])
  BY DEF Classify
<1>3. /\ poolActive[r] \in Int /\ jobActive[j][r] \in Int /\ jobConsumed[j][r] \in Int
      /\ jobReserved[j][r] \in Int /\ Capacity[u][r] \in Int /\ Allowance[u][r] \in Int
      /\ PoolCapacity[r] \in Int /\ JobConcurrency[j][r] \in Int /\ JobBudget[j][r] \in Int
  BY <1>1, PoolAssumption, DemandAssumption DEF HeadsType, Vector
<1> HIDE DEF j
<1>4. /\ Add(Add(jobConsumed[j], jobReserved[j]), Allowance[u])[r]
           = jobConsumed[j][r] + jobReserved[j][r] + Allowance[u][r]
      /\ Add(poolActive, Capacity[u])[r] = poolActive[r] + Capacity[u][r]
      /\ Add(jobActive[j], Capacity[u])[r] = jobActive[j][r] + Capacity[u][r]
  BY DEF Add
<1> QED BY <1>2, <1>3, <1>4 DEF Exceeds, j

\* Admission keeps the limits, every other operation gives back.
LEMMA AdmitLimits ==
  ASSUME HeadsType, HeadsType', WithinLimits, NEW u \in Unit, NEW a \in Attempt,
         Classify(u) = "ADMITTED", ReserveCapacity(u, a)
  PROVE  WithinLimits'
<1> DEFINE j == JobOf[u]
<1>1. j \in Job
  BY GraphAssumption
<1>2. ASSUME NEW r \in Resource PROVE LimitAt(r)'
  <2>1. Zero[r] = 0 /\ LimitAt(r)
    BY LimitsPointwise DEF Zero
  <2>2. HeadChange(r, j, Capacity[u][r], Allowance[u][r], 0)
    BY <1>1, <2>1, ReserveMove, HeadsMoveAt
  <2>3. /\ poolActive[r] + Capacity[u][r] <= PoolCapacity[r]
        /\ jobActive[j][r] + Capacity[u][r] <= JobConcurrency[j][r]
        /\ jobConsumed[j][r] + jobReserved[j][r] + Allowance[u][r] <= JobBudget[j][r]
    BY AdmittedFits
  <2>4. /\ jobConsumed[j][r] \in Int /\ jobReserved[j][r] \in Int /\ Allowance[u][r] \in Int
    BY <1>1, DemandAssumption DEF HeadsType, Vector
  <2> HIDE DEF j
  <2>5. ASSUME NEW i \in Job
        PROVE  /\ jobActive'[i][r] <= JobConcurrency[i][r]
               /\ jobConsumed'[i][r] + jobReserved'[i][r] <= JobBudget[i][r]
    <3>1. CASE i = j
      BY <2>2, <2>3, <2>4, <3>1 DEF HeadChange
    <3>2. CASE i # j
      BY <2>1, <2>2, <3>2 DEF HeadChange, LimitAt
    <3> QED BY <3>1, <3>2
  <2> QED BY <2>2, <2>3, <2>5 DEF HeadChange, LimitAt
<1> QED BY <1>2, LimitsAfter

LEMMA ReleaseLimits ==
  ASSUME HeadsType, HeadsType', WithinLimits, NEW u \in Unit, NEW a \in Attempt,
         NEW usage \in Usage(u), ReleaseCompleted(u, a, usage)
  PROVE  WithinLimits'
<1> DEFINE rel == ReleasedByCompletion(u, usage)
<1>1. JobOf[u] \in Job /\ HeadsMove(JobOf[u], Opposite(rel), Opposite(Allowance[u]), usage)
  BY GraphAssumption, ReleaseMove
<1>2. rel \in Vector /\ usage \in Vector /\ Allowance[u] \in Vector /\ ~Exceeds(usage, Allowance[u])
  BY ReservationValues, DemandAssumption DEF ReleaseCompleted
<1> HIDE DEF rel
<1>3. Gives(Opposite(rel), Opposite(Allowance[u]), usage)
  BY <1>2 DEF Gives, Opposite, Vector, Exceeds
<1> QED BY <1>1, <1>3, LimitsKept

LEMMA TerminationLimits ==
  ASSUME HeadsType, HeadsType', WithinLimits, NEW u \in Unit, NEW a \in Attempt,
         NEW stopped \in BOOLEAN, RecordTermination(u, a, stopped)
  PROVE  WithinLimits'
<1> DEFINE rel == Terminated(u, stopped)
<1>1. JobOf[u] \in Job /\ HeadsMove(JobOf[u], Opposite(rel), Zero, Zero)
  BY GraphAssumption, TerminationMove
<1>2. rel \in Vector
  BY TerminatedValues
<1> HIDE DEF rel
<1>3. Gives(Opposite(rel), Zero, Zero)
  BY <1>2 DEF Gives, Opposite, Vector, Zero
<1> QED BY <1>1, <1>3, LimitsKept

LEMMA AbortLimits ==
  ASSUME HeadsType, HeadsType', WithinLimits, NEW j \in Job, NEW S \in SUBSET Rows, CloseAborted(j, S)
  PROVE  WithinLimits'
<1> DEFINE rel == AbortedReleased(S)
           all == AbortedCharged(S)
<1>1. HeadsMove(j, Opposite(rel), Opposite(all), all)
  BY AbortMove
<1>2. ASSUME NEW r \in Resource PROVE rel[r] \in Nat /\ all[r] \in Nat
  BY AbortedSums, Zenon
<1> HIDE DEF rel, all
<1>3. Gives(Opposite(rel), Opposite(all), all)
  BY <1>2 DEF Gives, Opposite
<1> QED BY <1>1, <1>3, LimitsKept

LEMMA LimitsStep ==
  ASSUME AccountInv, AccountInv', WithinLimits, [ResourceNext]_allVars
  PROVE  WithinLimits'
<1>1. HeadsType /\ HeadsType'
  BY DEF AccountInv
<1>2. CASE UNCHANGED <<poolActive, jobActive, jobReserved, jobConsumed>>
  BY <1>2 DEF WithinLimits
<1>3. ASSUME NEW j \in Job, CancelJob(j) PROVE WithinLimits'
  <2>1. CloseAborted(j, ActiveReservations(j)) /\ ActiveReservations(j) \in SUBSET Rows
    BY <1>3, ClosedRows, FiniteRows DEF CancelJob
  <2> QED BY <1>1, <2>1, AbortLimits
<1>4. ASSUME NEW u \in Unit, NEW a \in Attempt, Expire(u, a) PROVE WithinLimits'
  <2>1. CloseAborted(JobOf[u], {<<u, a>>}) /\ {<<u, a>>} \in SUBSET Rows /\ JobOf[u] \in Job
    BY <1>4, GraphAssumption DEF Expire, Rows
  <2> QED BY <1>1, <2>1, AbortLimits
<1>5. ASSUME NEW u \in Unit, NEW a \in Attempt, RefuseWork(u, a) \/ ExecutionEnds(u, a)
      PROVE  WithinLimits'
  BY <1>2, <1>5 DEF RefuseWork, ExecutionEnds
<1>6. ASSUME NEW u \in Unit, NEW a \in Attempt, NEW h \in Holder, AdmitWork(u, a, h) PROVE WithinLimits'
  BY <1>1, <1>6, AdmitLimits DEF AdmitWork
<1>7. ASSUME NEW u \in Unit, NEW a \in Attempt, NEW stopped \in BOOLEAN, RecordTermination(u, a, stopped)
      PROVE  WithinLimits'
  BY <1>1, <1>7, TerminationLimits
<1>8. ASSUME NEW u \in Unit, NEW a \in Attempt, NEW usage \in Usage(u), ReleaseCompleted(u, a, usage)
      PROVE  WithinLimits'
  BY <1>1, <1>8, ReleaseLimits
<1>9. ASSUME PlainNext \/ UNCHANGED allVars PROVE WithinLimits'
  BY <1>2, <1>9 DEF PlainNext, allVars, resourceVars
<1> QED BY <1>3, <1>4, <1>5, <1>6, <1>7, <1>8, <1>9
    DEF ResourceNext, ResourceUnitNext, CompleteStage, CompleteArtifactGroup

-----------------------------------------------------------------------------
(* What the accounts establish.                                            *)

\* The heads of one job, as the sums the code takes over its reservations.
LEMMA JobHeadSums ==
  ASSUME AccountInv, NEW j \in Job
  PROVE  /\ jobActive[j] = SumOver(Attempts(j), Held)
         /\ jobReserved[j] = SumOver({ua \in Attempts(j) : reservation[ua[1]][ua[2]].state = "ACTIVE"},
                                     LAMBDA ua : Allowance[ua[1]])
         /\ jobConsumed[j] = SumOver(Attempts(j), LAMBDA ua : reservation[ua[1]][ua[2]].charged)
<1> DEFINE A == Attempts(j)
           B == {ua \in A : reservation[ua[1]][ua[2]].state = "ACTIVE"}
           H(r) == SumFunctionOnSet([x \in A |-> Held(x)[r]], A)
           R(r) == SumFunctionOnSet([x \in B |-> Allowance[x[1]][r]], B)
           C(r) == SumFunctionOnSet([x \in A |-> reservation[x[1]][x[2]].charged[r]], A)
<1>1. ReservationType /\ HeadsType /\ \A r \in Resource : HeadsAt(r)
  BY DEF AccountInv, ReservationInv
<1>2. A \in SUBSET Rows /\ IsFiniteSet(A) /\ B \in SUBSET A /\ IsFiniteSet(B)
  BY FiniteRows, FS_Subset
<1>3. ASSUME NEW r \in Resource PROVE jobActive[j][r] = H(r)
  <2> DEFINE f == HeldOf(r)
             g == [x \in A |-> Held(x)[r]]
  <2>1. \A x \in A : f[x] = g[x]
    BY <1>2 DEF HeldOf
  <2>2. jobActive[j][r] = SumFunctionOnSet(f, A)
    BY <1>1 DEF HeadsAt
  <2> HIDE DEF f, g, A
  <2>3. SumFunctionOnSet(f, A) = SumFunctionOnSet(g, A)
    BY <1>2, <2>1, SumCongruent
  <2> QED BY <2>2, <2>3 DEF g
<1>4. ASSUME NEW r \in Resource PROVE jobConsumed[j][r] = C(r)
  <2> DEFINE f == ChargedOf(r)
             g == [x \in A |-> reservation[x[1]][x[2]].charged[r]]
  <2>1. \A x \in A : f[x] = g[x]
    BY <1>2 DEF ChargedOf, RowOf
  <2>2. jobConsumed[j][r] = SumFunctionOnSet(f, A)
    BY <1>1 DEF HeadsAt
  <2> HIDE DEF f, g, A
  <2>3. SumFunctionOnSet(f, A) = SumFunctionOnSet(g, A)
    BY <1>2, <2>1, SumCongruent
  <2> QED BY <2>2, <2>3 DEF g
<1>5. ASSUME NEW r \in Resource PROVE jobReserved[j][r] = R(r)
  <2> DEFINE f == ReservedOf(r)
             g == [x \in B |-> Allowance[x[1]][r]]
  <2>1. \A x \in B : f[x] = g[x]
    BY <1>2 DEF ReservedOf, RowOf
  <2>2. \A x \in A : f[x] \in Int
    BY <1>1, <1>2, ContributionsInt
  <2>3. \A x \in A \ B : f[x] = 0
    BY <1>2 DEF ReservedOf, RowOf
  <2>4. jobReserved[j][r] = SumFunctionOnSet(f, A)
    BY <1>1 DEF HeadsAt
  <2> HIDE DEF f, g, A, B
  <2>5. SumFunctionOnSet(f, A) = SumFunctionOnSet(f, B)
    BY <1>2, <2>2, <2>3, SumSupport
  <2>6. SumFunctionOnSet(f, B) = SumFunctionOnSet(g, B)
    BY <1>2, <2>1, SumCongruent
  <2> QED BY <2>4, <2>5, <2>6 DEF g
<1>6. /\ jobActive[j] \in [Resource -> Int] /\ jobReserved[j] \in [Resource -> Int]
      /\ jobConsumed[j] \in [Resource -> Int]
  BY <1>1 DEF HeadsType
<1>7. SumOver(Attempts(j), Held) = [r \in Resource |-> H(r)]
  BY Zenon DEF SumOver
<1>8. SumOver(B, LAMBDA ua : Allowance[ua[1]]) = [r \in Resource |-> R(r)]
  BY Zenon DEF SumOver
<1>9. SumOver(A, LAMBDA ua : reservation[ua[1]][ua[2]].charged) = [r \in Resource |-> C(r)]
  BY Zenon DEF SumOver
<1>10. jobActive[j] = [r \in Resource |-> H(r)]
  <2> HIDE DEF H
  <2> QED BY <1>3, <1>6
<1>11. jobReserved[j] = [r \in Resource |-> R(r)]
  <2> HIDE DEF R
  <2> QED BY <1>5, <1>6
<1>12. jobConsumed[j] = [r \in Resource |-> C(r)]
  <2> HIDE DEF C
  <2> QED BY <1>4, <1>6
<1> QED BY <1>7, <1>8, <1>9, <1>10, <1>11, <1>12, Zenon

LEMMA HeadSums == AccountInv => HeadsMatchReservations
<1> SUFFICES ASSUME AccountInv PROVE HeadsMatchReservations
  OBVIOUS
<1> DEFINE H(r) == SumFunctionOnSet([x \in Rows |-> Held(x)[r]], Rows)
<1>1. poolActive \in [Resource -> Int] /\ \A r \in Resource : HeadsAt(r)
  BY DEF AccountInv, HeadsType
<1>2. \A r \in Resource : poolActive[r] = H(r)
  BY <1>1 DEF HeadsAt, HeldOf
<1>3. SumOver(Unit \X Attempt, Held) = [r \in Resource |-> H(r)]
  BY Zenon DEF SumOver, Rows
<1>4. poolActive = [r \in Resource |-> H(r)]
  <2> HIDE DEF H
  <2> QED BY <1>1, <1>2
<1>5. poolActive = SumOver(Unit \X Attempt, Held)
  BY <1>3, <1>4, Zenon
<1> QED BY <1>5, JobHeadSums DEF HeadsMatchReservations

\* The service recomputes both heads from the reservations on every read and
\* refuses to go on when they differ: they never do, for any set of jobs and
\* units and however many reservations a cancellation closes at once.
THEOREM HeadsSafety == ResourceSpec => []HeadsMatchReservations
BY HeadSums, AccountInit, AccountInvStep, PTL DEF ResourceSpec

\* Admission by classification keeps every limit: the pool, each job's
\* concurrency, and each job's budget with what it has reserved of it.
THEOREM LimitSafety == ResourceSpec => []WithinLimits
<1>1. ResourceInit => AccountInv /\ WithinLimits
  <2> SUFFICES ASSUME ResourceInit PROVE WithinLimits
    BY AccountInit
  <2>1. HeadsType
    BY AccountInit DEF AccountInv
  <2>2. ASSUME NEW r \in Resource PROVE LimitAt(r)
    <3>1. poolActive[r] = 0 /\ \A j \in Job : jobActive[j][r] = 0 /\ jobReserved[j][r] = 0 /\ jobConsumed[j][r] = 0
      BY DEF ResourceInit, Zero
    <3>2. PoolCapacity[r] \in Nat /\ \A j \in Job : JobConcurrency[j][r] \in Nat /\ JobBudget[j][r] \in Nat
      BY PoolAssumption DEF Vector
    <3> QED BY <3>1, <3>2 DEF LimitAt
  <2> QED BY <2>1, <2>2, LimitsPointwise
<1>2. AccountInv /\ WithinLimits /\ [ResourceNext]_allVars => (AccountInv /\ WithinLimits)'
  BY AccountInvStep, LimitsStep
<1> QED BY <1>1, <1>2, PTL DEF ResourceSpec

\* A job's bytes: what its reservations hold is what it has been charged and
\* may still be charged, whichever way each attempt ended.
LEMMA StorageSums == AccountInv => StorageIsBudget
<1> SUFFICES ASSUME AccountInv, NEW j \in Job
             PROVE  jobActive[j][Storage] = jobConsumed[j][Storage] + jobReserved[j][Storage]
  BY DEF StorageIsBudget
<1> DEFINE A == Attempts(j)
           h == HeldOf(Storage)
           d == ReservedOf(Storage)
           c == ChargedOf(Storage)
<1>1. Storage \in Resource /\ ReservationType /\ HeadsAt(Storage) /\ A \in SUBSET Rows /\ IsFiniteSet(A)
  BY PoolAssumption, FiniteRows DEF AccountInv, ReservationInv
<1>2. ASSUME NEW x \in A PROVE c[x] \in Int /\ d[x] \in Int /\ h[x] = c[x] + d[x]
  <2>1. PICK u \in Unit, a \in Attempt : x = <<u, a>>
    BY <1>1 DEF Rows
  <2>2. Accounted(u, reservation[u][a], executing[u][a])
    BY DEF AccountInv, RowsAccounted
  <2>3. c[x] \in Int /\ d[x] \in Int
    BY <1>1, <1>2, ContributionsInt
  <2>4. reservation[u][a].state = "NONE" => reservation[u][a].charged[Storage] = 0
    BY <1>1, <2>2 DEF Accounted, Zero
  <2> QED BY <1>1, <2>1, <2>2, <2>3, <2>4, RowContribution DEF Accounted
<1>3. /\ jobActive[j][Storage] = SumFunctionOnSet(h, A)
      /\ jobReserved[j][Storage] = SumFunctionOnSet(d, A)
      /\ jobConsumed[j][Storage] = SumFunctionOnSet(c, A)
  BY <1>1 DEF HeadsAt
<1> HIDE DEF A, h, d, c
<1>4. SumFunctionOnSet(h, A) = SumFunctionOnSet(c, A) + SumFunctionOnSet(d, A)
  BY <1>1, <1>2, SumPointwise
<1> QED BY <1>3, <1>4

\* Storage is never waited for: a job that lacks it is refused for its budget.
THEOREM StorageSafety == ResourceSpec => []StorageIsBudget
BY StorageSums, AccountInit, AccountInvStep, PTL DEF ResourceSpec

\* The executions under way hold their processes in the pool, those whose
\* lease expired or was cancelled included.
LEMMA RunningHeld == AccountInv /\ WithinLimits => NoOvercommit
<1> SUFFICES ASSUME AccountInv, WithinLimits PROVE NoOvercommit
  OBVIOUS
<1> DEFINE R == {ua \in Rows : executing[ua[1]][ua[2]]}
           f == [ua \in R |-> Capacity[ua[1]][Process]]
           h == HeldOf(Process)
           k == [x \in Rows |-> IF x \in R THEN h[x] ELSE 0]
<1>1. Process \in Resource /\ ReservationType /\ HeadsAt(Process) /\ HeadsType /\ PoolCapacity[Process] \in Int
  BY PoolAssumption DEF AccountInv, ReservationInv, Vector
<1>2. IsFiniteSet(Rows) /\ R \in SUBSET Rows /\ IsFiniteSet(R)
  BY FiniteRows, FS_Subset
<1>3. ASSUME NEW x \in Rows
      PROVE  h[x] \in Int /\ 0 <= h[x] /\ (x \in R => h[x] = Capacity[x[1]][Process])
  <2>1. PICK u \in Unit, a \in Attempt : x = <<u, a>>
    BY DEF Rows
  <2>2. Accounted(u, reservation[u][a], executing[u][a])
    BY DEF AccountInv, RowsAccounted
  <2>3. h[x] = IF reservation[u][a].state = "NONE" THEN 0
               ELSE Capacity[u][Process] - reservation[u][a].released[Process]
    BY <1>1, <2>1, RowContribution
  <2>4. Capacity[u][Process] \in Nat /\ reservation[u][a].released[Process] \in Nat
    BY <1>1, DemandAssumption DEF Vector, ReservationType, Reservation
  <2>5. reservation[u][a].released[Process] <= Capacity[u][Process]
    BY <1>1, <2>2 DEF Accounted
  <2> HIDE DEF h
  <2>6. h[x] \in Int /\ 0 <= h[x]
    BY <2>3, <2>4, <2>5
  <2>7. ASSUME x \in R PROVE h[x] = Capacity[u][Process]
    <3>1. reservation[u][a].state # "NONE"
          /\ (Capacity[u][Process] = 0 \/ reservation[u][a].released[Process] = 0)
      BY <2>1, <2>2, <2>7 DEF Accounted
    <3> QED BY <2>3, <2>4, <2>5, <3>1
  <2> QED BY <2>1, <2>6, <2>7
<1>4. \A x \in R : f[x] = Capacity[x[1]][Process]
  OBVIOUS
<1>5. \A x \in Rows : k[x] = IF x \in R THEN h[x] ELSE 0
  OBVIOUS
<1>6. poolActive[Process] = SumFunctionOnSet(h, Rows)
  BY <1>1 DEF HeadsAt
<1>7. poolActive[Process] <= PoolCapacity[Process]
  BY <1>1, LimitsPointwise DEF LimitAt
<1>8. NoOvercommit <=> SumFunctionOnSet(f, R) <= PoolCapacity[Process]
  BY DEF NoOvercommit, Rows
<1> HIDE DEF R, f, h, k
<1>9. SumFunctionOnSet(f, R) = SumFunctionOnSet(k, R)
  <2>1. \A x \in R : f[x] = k[x]
    BY <1>2, <1>3, <1>4, <1>5
  <2> QED BY <1>2, <2>1, SumCongruent
<1>10. SumFunctionOnSet(k, Rows) = SumFunctionOnSet(k, R)
  <2>1. \A x \in Rows : k[x] \in Int
    BY <1>3, <1>5
  <2>2. \A x \in Rows \ R : k[x] = 0
    BY <1>5
  <2> QED BY <1>2, <2>1, <2>2, SumSupport
<1>11. SumFunctionOnSet(k, Rows) <= SumFunctionOnSet(h, Rows)
  <2>1. \A x \in Rows : k[x] \in Int /\ h[x] \in Int /\ k[x] <= h[x]
    BY <1>3, <1>5
  <2> QED BY <1>2, <2>1, SumMonotone
<1>12. SumFunctionOnSet(h, Rows) \in Int /\ SumFunctionOnSet(k, Rows) \in Int
  <2>1. \A x \in Rows : k[x] \in Int /\ h[x] \in Int
    BY <1>3, <1>5
  <2> QED BY <1>2, <2>1, SumInt
<1>13. SumFunctionOnSet(f, R) = SumFunctionOnSet(k, Rows)
  BY <1>9, <1>10
<1> QED BY <1>1, <1>6, <1>7, <1>8, <1>11, <1>12, <1>13

\* The processes really running never exceed the pool, although workers go on
\* after their lease is gone.
THEOREM OvercommitSafety == ResourceSpec => []NoOvercommit
<1>1. ResourceSpec => []AccountInv
  BY AccountInit, AccountInvStep, PTL DEF ResourceSpec
<1> QED BY <1>1, LimitSafety, RunningHeld, PTL

\* Every head is a sum of amounts that are never negative.
LEMMA HeadsNatural ==
  ASSUME AccountInv, NEW r \in Resource
  PROVE  /\ poolActive[r] \in Nat
         /\ \A j \in Job : jobActive[j][r] \in Nat /\ jobReserved[j][r] \in Nat
                          /\ jobConsumed[j][r] \in Nat
<1> DEFINE hf == HeldOf(r)
           rf == ReservedOf(r)
           cf == ChargedOf(r)
<1>1. ASSUME NEW x \in Rows PROVE hf[x] \in Nat /\ rf[x] \in Nat /\ cf[x] \in Nat
  <2>1. /\ x[1] \in Unit /\ x[2] \in Attempt
        /\ Capacity[x[1]][r] \in Nat /\ Allowance[x[1]][r] \in Nat
        /\ RowOf(x).released[r] \in Nat /\ RowOf(x).charged[r] \in Nat
        /\ hf[x] = IF RowOf(x).state = "NONE" THEN 0 ELSE Capacity[x[1]][r] - RowOf(x).released[r]
        /\ rf[x] = IF RowOf(x).state = "ACTIVE" THEN Allowance[x[1]][r] ELSE 0
        /\ cf[x] = RowOf(x).charged[r]
    BY RowValues DEF AccountInv, ReservationInv
  <2>2. RowOf(x).released[r] <= Capacity[x[1]][r]
    BY <2>1 DEF AccountInv, RowsAccounted, Accounted, RowOf
  <2> HIDE DEF hf, rf, cf
  <2> QED BY <2>1, <2>2
<1> HIDE DEF hf, rf, cf
<1>2. SumFunctionOnSet(hf, Rows) \in Nat
  BY <1>1, FiniteRows, SumNat
<1>3. ASSUME NEW j \in Job
      PROVE  /\ SumFunctionOnSet(hf, Attempts(j)) \in Nat
             /\ SumFunctionOnSet(rf, Attempts(j)) \in Nat
             /\ SumFunctionOnSet(cf, Attempts(j)) \in Nat
  <2>1. /\ IsFiniteSet(Attempts(j))
        /\ \A x \in Attempts(j) : hf[x] \in Nat /\ rf[x] \in Nat /\ cf[x] \in Nat
    BY <1>1, FiniteRows
  <2> QED BY <2>1, SumNat
<1> QED BY <1>2, <1>3 DEF AccountInv, HeadsAt, hf, rf, cf

\* The service's tables stay well typed, and no head ever becomes negative:
\* whatever is completed, expired, cancelled and terminated, nothing is given
\* back that was not taken.
THEOREM ResourceTypeSafety == ResourceSpec => []ResourceTypeOK
<1>1. AccountInv => ResourceTypeOK
  <2> SUFFICES ASSUME AccountInv PROVE ResourceTypeOK
    OBVIOUS
  <2>1. /\ poolActive \in [Resource -> Int]
        /\ jobActive \in [Job -> [Resource -> Int]]
        /\ jobReserved \in [Job -> [Resource -> Int]]
        /\ jobConsumed \in [Job -> [Resource -> Int]]
    BY DEF AccountInv, HeadsType
  <2>2. poolActive \in Vector
    BY <2>1, HeadsNatural DEF Vector
  <2>3. jobActive \in [Job -> Vector] /\ jobReserved \in [Job -> Vector] /\ jobConsumed \in [Job -> Vector]
    <3>1. \A j \in Job : jobActive[j] \in Vector /\ jobReserved[j] \in Vector /\ jobConsumed[j] \in Vector
      BY <2>1, HeadsNatural DEF Vector
    <3> QED BY <2>1, <3>1
  <2> QED BY <2>2, <2>3 DEF AccountInv, ReservationInv, ReservationType, HeadsType, ResourceTypeOK
<1> QED BY <1>1, AccountInit, AccountInvStep, PTL DEF ResourceSpec

=============================================================================
