------------------------- MODULE ModelControlProofs ------------------------
(***************************************************************************)
(* Model control implements the work-control store, keeps its reservations *)
(* with the leases, and keeps the accounts of the rate pool, whatever the  *)
(* number of jobs, units and dimensions and however attempts end.          *)
(*                                                                         *)
(* The lemmas are about the operations on the model tables, so that the    *)
(* combined operations, which perform them with a head that was refilled   *)
(* earlier, can use them as well.                                          *)
(***************************************************************************)
EXTENDS ModelControl, WorkControlProofs, SumTheorems

\* Every step of the service is a step of the store or leaves it alone.
LEMMA ModelStepIsWorkStep == [ModelNext]_<<vars, modelVars>> => [Next]_vars
<1> SUFFICES ASSUME [ModelNext]_<<vars, modelVars>> PROVE [Next]_vars
  OBVIOUS
<1>1. CASE Tick \/ StoreNext
  BY <1>1 DEF StoreNext, Next, UnitNext
<1>2. ASSUME NEW j \in Job, CancelModelJob(j) PROVE Next
  BY <1>2 DEF CancelModelJob, Next
<1>3. ASSUME NEW u \in Unit, NEW a \in Attempt, ExpireModel(u, a) PROVE Next
  BY <1>3 DEF ExpireModel, Next, UnitNext
<1>4. ASSUME NEW u \in Unit, NEW a \in Attempt, NEW h \in Holder, AdmitModel(u, a, h) PROVE Next
  BY <1>4 DEF AdmitModel, Next, UnitNext
<1>5. ASSUME NEW u \in Unit, NEW a \in Attempt, NEW h \in Holder,
             NEW status \in TERMINAL_STAGE_STATUSES, NEW retryable \in BOOLEAN,
             CompleteStageWorkLease(u, a, h, status, retryable)
      PROVE  Next
  BY <1>5 DEF Next, UnitNext
<1>6. ASSUME NEW u \in Unit, NEW a \in Attempt, NEW h \in Holder,
             NEW kind \in {"SUCCEEDED", "RETRYABLE_FAILURE", "TERMINAL_FAILURE"},
             CompleteArtifactGroupWorkLease(u, a, h, kind)
      PROVE  Next
  BY <1>6 DEF Next, UnitNext
<1>7. /\ "RETRYABLE_FAILURE" \in TERMINAL_STAGE_STATUSES /\ "TERMINAL_FAILURE" \in TERMINAL_STAGE_STATUSES
      /\ TRUE \in BOOLEAN /\ FALSE \in BOOLEAN
  BY DEF TERMINAL_STAGE_STATUSES, RETRYABLE_STAGE_STATUSES
<1>8. ASSUME NEW u \in Unit, NEW a \in Attempt, NEW h \in Holder,
             \E usage \in ModelUsage(u) :
               \/ CompleteUsageOverrun(u, a, h, usage)
               \/ \E wait \in 1..MaxBackpressure : CompleteStageBackpressured(u, a, h, usage, wait)
               \/ \E status \in TERMINAL_STAGE_STATUSES, retryable \in BOOLEAN :
                    CompleteModelStage(u, a, h, status, retryable, usage)
               \/ \E kind \in {"SUCCEEDED", "RETRYABLE_FAILURE", "TERMINAL_FAILURE"} :
                    CompleteModelArtifactGroup(u, a, h, kind, usage)
      PROVE  Next
  BY <1>5, <1>6, <1>7, <1>8
     DEF CompleteUsageOverrun, FailOverrun, CompleteStageBackpressured, CompleteModelStage,
         CompleteModelArtifactGroup
<1>9. ASSUME NEW u \in Unit, ModelUnitNext(u) PROVE [Next]_vars
  BY <1>3, <1>4, <1>8, <1>9 DEF ModelUnitNext, RefuseModel
<1> QED BY <1>1, <1>2, <1>9 DEF ModelNext

\* Model control implements the work-control store: what is proved of leases,
\* retries, cancellation and dependencies holds of it.
THEOREM ModelImplementsWork == ModelSpec => Spec
BY ModelStepIsWorkStep, PTL DEF ModelSpec, Spec

-----------------------------------------------------------------------------
(* Model reservations follow leases.                                       *)

ModelRowsType ==
  /\ modelReservation \in [Unit -> [Attempt -> ModelReservation]]
  /\ modelAdmission \in [Unit -> [Attempt -> ModelOutcome]]

ModelLeaseInv == TypeOK /\ ModelRowsType /\ ModelFollowsLease

\* The leases of the attempts S take state k, the others stay.
LeasesMove(S, k) ==
  \A v \in Unit : \A b \in Attempt :
    lease'[v][b].state = IF <<v, b>> \in S THEN k ELSE lease[v][b].state

\* The model reservations of the attempts S take state s, the others stay.
ModelRowsMove(S, s) ==
  \A v \in Unit : \A b \in Attempt :
    modelReservation'[v][b].state = IF <<v, b>> \in S THEN s ELSE modelReservation[v][b].state

\* The attempts S are admitted, no other attempt becomes so or ceases to be.
ModelAdmits(S) ==
  \A v \in Unit : \A b \in Attempt :
    modelAdmission'[v][b] = "ADMITTED" <=> modelAdmission[v][b] = "ADMITTED" \/ <<v, b>> \in S

LEMMA ModelFollowsStep ==
  ASSUME ModelFollowsLease, NEW S, NEW k, NEW s, LeasesMove(S, k), ModelRowsMove(S, s), ModelAdmits(S),
         k = "ACTIVE" <=> s = "ACTIVE", k # "NONE", s # "NONE"
  PROVE  ModelFollowsLease'
<1> SUFFICES ASSUME NEW v \in Unit, NEW b \in Attempt
             PROVE  /\ modelReservation'[v][b].state = "ACTIVE" <=> lease'[v][b].state = "ACTIVE"
                    /\ modelReservation'[v][b].state # "NONE" <=> lease'[v][b].state # "NONE"
                    /\ modelAdmission'[v][b] = "ADMITTED" <=> lease'[v][b].state # "NONE"
  BY DEF ModelFollowsLease, Active, Exists
<1>1. /\ modelReservation[v][b].state = "ACTIVE" <=> lease[v][b].state = "ACTIVE"
      /\ modelReservation[v][b].state # "NONE" <=> lease[v][b].state # "NONE"
      /\ modelAdmission[v][b] = "ADMITTED" <=> lease[v][b].state # "NONE"
  BY DEF ModelFollowsLease, Active, Exists
<1>2. /\ lease'[v][b].state = IF <<v, b>> \in S THEN k ELSE lease[v][b].state
      /\ modelReservation'[v][b].state = IF <<v, b>> \in S THEN s ELSE modelReservation[v][b].state
      /\ modelAdmission'[v][b] = "ADMITTED" <=> modelAdmission[v][b] = "ADMITTED" \/ <<v, b>> \in S
  BY DEF LeasesMove, ModelRowsMove, ModelAdmits
<1>3. CASE <<v, b>> \in S
  BY <1>2, <1>3
<1>4. CASE <<v, b>> \notin S
  BY <1>1, <1>2, <1>4
<1> QED BY <1>3, <1>4

\* A step that moves no lease and no model reservation into or out of the
\* states that say whether it exists and is active.
LEMMA ModelFollowsKept ==
  ASSUME ModelFollowsLease,
         \A v \in Unit : \A b \in Attempt : lease'[v][b].state = lease[v][b].state,
         \A v \in Unit : \A b \in Attempt :
           /\ modelReservation'[v][b].state = "ACTIVE" <=> modelReservation[v][b].state = "ACTIVE"
           /\ modelReservation'[v][b].state # "NONE" <=> modelReservation[v][b].state # "NONE"
           /\ modelAdmission'[v][b] = "ADMITTED" <=> modelAdmission[v][b] = "ADMITTED"
  PROVE  ModelFollowsLease'
BY DEF ModelFollowsLease, Active, Exists

\* The amounts of a usage are naturals.
LEMMA UsageAmounts ==
  ASSUME NEW u \in Unit
  PROVE  None \in Amounts /\ Grant[u] \in Amounts /\ ModelUsage(u) \subseteq Amounts
<1>1. None \in Amounts /\ Grant[u] \in Amounts
  BY ModelPolicyAssumption DEF None, Amounts
<1>2. ASSUME NEW d \in Dimension PROVE 0..(Grant[u][d] + MaxOverrun) \subseteq Nat
  BY <1>1, ModelPolicyAssumption DEF Amounts
<1> QED BY <1>1, <1>2 DEF ModelUsage, Amounts

\* Storing an admission: the row and the decision.
LEMMA ReserveModelRows ==
  ASSUME ModelRowsType, NEW u \in Unit, NEW a \in Attempt, NEW head, NEW t, ReserveModel(u, a, head, t)
  PROVE  /\ ModelRowsType' /\ ModelRowsMove({<<u, a>>}, "ACTIVE") /\ ModelAdmits({<<u, a>>})
         /\ modelReservation' = [modelReservation EXCEPT ![u][a] = [state |-> "ACTIVE", usage |-> None]]
<1> DEFINE row == [state |-> "ACTIVE", usage |-> None]
<1>1. /\ modelReservation' = [modelReservation EXCEPT ![u][a] = row]
      /\ modelAdmission' = [modelAdmission EXCEPT ![u][a] = "ADMITTED"]
  BY DEF ReserveModel
<1>2. row \in ModelReservation /\ row.state = "ACTIVE"
  BY UsageAmounts DEF ModelReservation
<1> HIDE DEF row
<1>3. ModelRowsType'
  BY <1>1, <1>2 DEF ModelRowsType, ModelOutcome
<1>4. ModelRowsMove({<<u, a>>}, "ACTIVE")
  BY <1>1, <1>2 DEF ModelRowsType, ModelRowsMove
<1>5. ModelAdmits({<<u, a>>})
  BY <1>1 DEF ModelRowsType, ModelAdmits
<1> QED BY <1>1, <1>3, <1>4, <1>5 DEF row

\* Settling an attempt: its row is released with the usage charged.
ModelSettled(u, a, usage) ==
  /\ modelReservation[u][a].state = "ACTIVE"
  /\ modelReservation' = [modelReservation EXCEPT ![u][a] = [state |-> "RELEASED", usage |-> usage]]
  /\ modelAdmission' = modelAdmission

LEMMA SettledRows ==
  ASSUME ModelLeaseInv, NEW u \in Unit, NEW a \in Attempt, NEW usage \in Amounts, ModelSettled(u, a, usage)
  PROVE  ModelRowsType' /\ ModelRowsMove({<<u, a>>}, "RELEASED") /\ ModelAdmits({<<u, a>>})
<1> DEFINE row == [state |-> "RELEASED", usage |-> usage]
<1>1. /\ modelReservation' = [modelReservation EXCEPT ![u][a] = row]
      /\ modelAdmission' = modelAdmission /\ ModelRowsType /\ ModelFollowsLease
      /\ modelReservation[u][a].state = "ACTIVE"
  BY DEF ModelSettled, ModelLeaseInv
<1>2. row \in ModelReservation /\ row.state = "RELEASED"
  BY DEF ModelReservation
<1> HIDE DEF row
<1>3. ModelRowsType'
  BY <1>1, <1>2 DEF ModelRowsType
<1>4. ModelRowsMove({<<u, a>>}, "RELEASED")
  BY <1>1, <1>2 DEF ModelRowsType, ModelRowsMove
<1>5. modelAdmission[u][a] = "ADMITTED"
  BY <1>1 DEF ModelFollowsLease, Active, Exists
<1>6. ModelAdmits({<<u, a>>})
  BY <1>1, <1>5 DEF ModelAdmits
<1> QED BY <1>3, <1>4, <1>6

\* Closing the reservations of the active attempts S.
LEMMA AbortedModelRows ==
  ASSUME ModelLeaseInv, NEW j \in Job, NEW S \in SUBSET (Unit \X Attempt), CloseAbortedModel(j, S),
         \A v \in Unit : \A b \in Attempt : <<v, b>> \in S => modelReservation[v][b].state = "ACTIVE"
  PROVE  ModelRowsType' /\ ModelRowsMove(S, "RELEASE_PENDING_ACK") /\ ModelAdmits(S)
<1>1. /\ modelReservation' = [u \in Unit |-> [a \in Attempt |->
                                IF <<u, a>> \in S
                                THEN [state |-> "RELEASE_PENDING_ACK", usage |-> Grant[u]]
                                ELSE modelReservation[u][a]]]
      /\ modelAdmission' = modelAdmission /\ ModelRowsType /\ ModelFollowsLease
  BY DEF CloseAbortedModel, ModelLeaseInv
<1>2. ASSUME NEW u \in Unit
      PROVE  [state |-> "RELEASE_PENDING_ACK", usage |-> Grant[u]] \in ModelReservation
  BY UsageAmounts DEF ModelReservation
<1>3. ModelRowsType'
  BY <1>1, <1>2 DEF ModelRowsType
<1>4. ModelRowsMove(S, "RELEASE_PENDING_ACK")
  BY <1>1 DEF ModelRowsMove
<1>5. ModelAdmits(S)
  BY <1>1 DEF ModelAdmits, ModelFollowsLease, Active, Exists
<1> QED BY <1>3, <1>4, <1>5

\* A recorded cancellation moves a closed reservation to another closed state.
LEMMA CancellationRows ==
  ASSUME ModelRowsType, NEW u \in Unit, NEW a \in Attempt, NEW acknowledged \in BOOLEAN,
         RecordCancellation(u, a, acknowledged)
  PROVE  /\ ModelRowsType' /\ modelAdmission' = modelAdmission
         /\ \A v \in Unit : \A b \in Attempt :
              /\ modelReservation'[v][b].usage = modelReservation[v][b].usage
              /\ ~(v = u /\ b = a) => modelReservation'[v][b] = modelReservation[v][b]
         /\ modelReservation[u][a].state = "RELEASE_PENDING_ACK"
         /\ modelReservation'[u][a].state = IF acknowledged THEN "RELEASED" ELSE "QUARANTINED"
<1> DEFINE k == IF acknowledged THEN "RELEASED" ELSE "QUARANTINED"
<1>1. /\ modelReservation[u][a].state = "RELEASE_PENDING_ACK"
      /\ modelReservation' = [modelReservation EXCEPT ![u][a].state = k]
      /\ modelAdmission' = modelAdmission
  BY DEF RecordCancellation
<1>2. k \in {"RELEASED", "QUARANTINED"}
  OBVIOUS
<1> HIDE DEF k
<1>3. ASSUME NEW v \in Unit, NEW b \in Attempt
      PROVE  modelReservation'[v][b] = IF v = u /\ b = a THEN [modelReservation[u][a] EXCEPT !.state = k]
                                       ELSE modelReservation[v][b]
  BY <1>1 DEF ModelRowsType
<1>4. modelReservation[u][a] \in ModelReservation
  BY DEF ModelRowsType
<1>5. /\ [modelReservation[u][a] EXCEPT !.state = k] \in ModelReservation
      /\ [modelReservation[u][a] EXCEPT !.state = k].state = k
      /\ [modelReservation[u][a] EXCEPT !.state = k].usage = modelReservation[u][a].usage
  BY <1>2, <1>4 DEF ModelReservation
<1>6. ModelRowsType'
  BY <1>1, <1>5 DEF ModelRowsType
<1>7. /\ \A v \in Unit : \A b \in Attempt :
           /\ modelReservation'[v][b].usage = modelReservation[v][b].usage
           /\ ~(v = u /\ b = a) => modelReservation'[v][b] = modelReservation[v][b]
      /\ modelReservation'[u][a].state = k
  BY <1>3, <1>5
<1> QED BY <1>1, <1>6, <1>7, Zenon DEF k

\* Each lease operation with the operation on the model tables it comes with.
LEMMA AdmitFollows ==
  ASSUME ModelLeaseInv, NEW u \in Unit, NEW a \in Attempt, NEW h \in Holder, NEW head, NEW t,
         AcquireWorkLease(u, a, h), ReserveModel(u, a, head, t)
  PROVE  ModelRowsType' /\ ModelFollowsLease'
<1>1. TypeOK /\ ModelRowsType /\ ModelFollowsLease
  BY DEF ModelLeaseInv
<1>2. LeasesMove({<<u, a>>}, "ACTIVE")
  BY <1>1, AcquireStates DEF LeasesMove
<1>3. ModelRowsType' /\ ModelRowsMove({<<u, a>>}, "ACTIVE") /\ ModelAdmits({<<u, a>>})
  BY <1>1, ReserveModelRows
<1> QED BY <1>1, <1>2, <1>3, ModelFollowsStep

LEMMA SettleFollows ==
  ASSUME ModelLeaseInv, NEW u \in Unit, NEW a \in Attempt, NEW k \in ClosedState, NEW usage \in Amounts,
         CloseLease(u, a, k), ModelSettled(u, a, usage)
  PROVE  ModelRowsType' /\ ModelFollowsLease'
<1>1. TypeOK /\ ModelFollowsLease /\ k # "NONE" /\ k # "ACTIVE"
  BY DEF ModelLeaseInv, ClosedState
<1>2. LeasesMove({<<u, a>>}, k)
  BY <1>1, CloseStates DEF LeasesMove
<1>3. ModelRowsType' /\ ModelRowsMove({<<u, a>>}, "RELEASED") /\ ModelAdmits({<<u, a>>})
  BY SettledRows
<1> QED BY <1>1, <1>2, <1>3, ModelFollowsStep

LEMMA ExpireFollows ==
  ASSUME ModelLeaseInv, NEW u \in Unit, NEW a \in Attempt, ExpireWorkLease(u, a),
         modelReservation[u][a].state = "ACTIVE", CloseAbortedModel(JobOf[u], {<<u, a>>})
  PROVE  ModelRowsType' /\ ModelFollowsLease'
<1>1. TypeOK /\ ModelFollowsLease /\ "EXPIRED" \in ClosedState /\ JobOf[u] \in Job
  BY GraphAssumption DEF ModelLeaseInv, ClosedState
<1>2. CloseLease(u, a, "EXPIRED")
  BY DEF ExpireWorkLease
<1>3. LeasesMove({<<u, a>>}, "EXPIRED")
  BY <1>1, <1>2, CloseStates DEF LeasesMove
<1>4. ModelRowsType' /\ ModelRowsMove({<<u, a>>}, "RELEASE_PENDING_ACK") /\ ModelAdmits({<<u, a>>})
  <2>1. /\ {<<u, a>>} \in SUBSET (Unit \X Attempt)
        /\ \A v \in Unit : \A b \in Attempt : <<v, b>> \in {<<u, a>>} => modelReservation[v][b].state = "ACTIVE"
    OBVIOUS
  <2> QED BY <1>1, <2>1, AbortedModelRows
<1> QED BY <1>1, <1>3, <1>4, ModelFollowsStep

LEMMA CancelFollows ==
  ASSUME ModelLeaseInv, NEW j \in Job, CancelJobWork(j), CloseAbortedModel(j, ActiveModelReservations(j))
  PROVE  ModelRowsType' /\ ModelFollowsLease'
<1> DEFINE S == ActiveModelReservations(j)
<1>1. TypeOK /\ ModelFollowsLease
  BY DEF ModelLeaseInv
<1>2. S = ActiveLeases(j)
  BY <1>1 DEF ModelFollowsLease, ActiveModelReservations, ActiveLeases
<1>3. LeasesMove(S, "CANCELLED")
  BY <1>1, <1>2, CancelStates DEF LeasesMove
<1>4. /\ S \in SUBSET (Unit \X Attempt)
      /\ \A v \in Unit : \A b \in Attempt : <<v, b>> \in S => modelReservation[v][b].state = "ACTIVE"
  BY DEF ActiveModelReservations
<1> HIDE DEF S
<1>5. ModelRowsType' /\ ModelRowsMove(S, "RELEASE_PENDING_ACK") /\ ModelAdmits(S)
  BY <1>4, AbortedModelRows DEF S
<1> QED BY <1>1, <1>3, <1>5, ModelFollowsStep

LEMMA RecordFollows ==
  ASSUME ModelLeaseInv, NEW u \in Unit, NEW a \in Attempt, NEW acknowledged \in BOOLEAN,
         RecordCancellation(u, a, acknowledged), lease' = lease
  PROVE  ModelRowsType' /\ ModelFollowsLease'
<1>1. ModelRowsType /\ ModelFollowsLease
  BY DEF ModelLeaseInv
<1>2. /\ ModelRowsType' /\ modelAdmission' = modelAdmission
      /\ \A v \in Unit : \A b \in Attempt :
           ~(v = u /\ b = a) => modelReservation'[v][b] = modelReservation[v][b]
      /\ modelReservation[u][a].state = "RELEASE_PENDING_ACK"
      /\ modelReservation'[u][a].state = IF acknowledged THEN "RELEASED" ELSE "QUARANTINED"
  BY <1>1, CancellationRows
<1>3. \A v \in Unit : \A b \in Attempt :
        /\ modelReservation'[v][b].state = "ACTIVE" <=> modelReservation[v][b].state = "ACTIVE"
        /\ modelReservation'[v][b].state # "NONE" <=> modelReservation[v][b].state # "NONE"
        /\ modelAdmission'[v][b] = "ADMITTED" <=> modelAdmission[v][b] = "ADMITTED"
  BY <1>2
<1> QED BY <1>1, <1>2, <1>3, ModelFollowsKept

LEMMA RefuseFollows ==
  ASSUME ModelLeaseInv, NEW u \in Unit, NEW a \in Attempt, RefuseModel(u, a)
  PROVE  ModelRowsType' /\ ModelFollowsLease'
<1> DEFINE k == ModelClassify(u, Refill(bucket, now))
<1>1. /\ modelAdmission' = [modelAdmission EXCEPT ![u][a] = k] /\ k # "ADMITTED"
      /\ modelReservation' = modelReservation /\ lease' = lease
      /\ ModelRowsType /\ ModelFollowsLease
  BY DEF RefuseModel, vars, ModelLeaseInv
<1>2. k \in ModelOutcome
  BY DEF ModelClassify, ModelOutcome, ModelTerminal
<1> HIDE DEF k
<1>3. modelAdmission[u][a] # "ADMITTED"
  <2>1. ~Exists(u, a)
    BY AdmissibleIsUndispatched DEF RefuseModel, ModelMayAsk
  <2> QED BY <1>1, <2>1 DEF ModelFollowsLease
<1>4. ModelRowsType'
  BY <1>1, <1>2 DEF ModelRowsType
<1>5. \A v \in Unit : \A b \in Attempt :
        modelAdmission'[v][b] = "ADMITTED" <=> modelAdmission[v][b] = "ADMITTED"
  BY <1>1, <1>3 DEF ModelRowsType
<1> QED BY <1>1, <1>4, <1>5, ModelFollowsKept

LEMMA UntouchedFollows ==
  ASSUME ModelLeaseInv, UNCHANGED <<modelReservation, modelAdmission>>,
         \A v \in Unit : \A b \in Attempt : lease'[v][b].state = lease[v][b].state
  PROVE  ModelRowsType' /\ ModelFollowsLease'
<1>1. ModelRowsType'
  BY DEF ModelLeaseInv, ModelRowsType
<1> QED BY <1>1, ModelFollowsKept DEF ModelLeaseInv

\* Time and the operations no control service wraps move no lease to another
\* state.
LEMMA StoreKeepsStates ==
  ASSUME TypeOK, Tick \/ StoreNext
  PROVE  \A v \in Unit : \A b \in Attempt : lease'[v][b].state = lease[v][b].state
<1>1. ASSUME NEW u \in Unit, NEW a \in Attempt, NEW h \in Holder, HeartbeatWorkLease(u, a, h)
      PROVE  \A v \in Unit : \A b \in Attempt : lease'[v][b].state = lease[v][b].state
  BY <1>1, HeartbeatStates
<1>2. ASSUME Tick \/ (\E j \in Job, t \in JobStatus : TransitionJob(j, t))
             \/ (\E i \in Item, t \in ItemStatus : TransitionItem(i, t))
      PROVE  lease' = lease
  BY <1>2 DEF Tick, TransitionJob, TransitionItem, leaseVars
<1>3. ASSUME NEW u \in Unit, RecordWorkReadiness(u) \/ RecordSkippedItem(u)
      PROVE  lease' = lease
  BY <1>3 DEF RecordWorkReadiness, RecordSkippedItem, InsertSnapshot, leaseVars
<1> QED BY <1>1, <1>2, <1>3 DEF StoreNext

\* Settlements: what a completion does to the tables, and the lease it closes.
LEMMA CompletionsSettle ==
  ASSUME NEW u \in Unit, NEW a \in Attempt, NEW usage \in ModelUsage(u)
  PROVE  /\ usage \in Amounts
         /\ \A kind, until : ReleaseModel(u, a, usage, kind, until) => ModelSettled(u, a, usage)
         /\ ReleaseOverrun(u, a, usage) => ModelSettled(u, a, usage)
BY UsageAmounts DEF ReleaseModel, ReleaseOverrun, ModelSettled

LEMMA CompletionsClose ==
  ASSUME NEW u \in Unit, NEW a \in Attempt, NEW h \in Holder
  PROVE  /\ \A s \in TERMINAL_STAGE_STATUSES, r \in BOOLEAN :
              CompleteStageWorkLease(u, a, h, s, r) => \E k \in ClosedState : CloseLease(u, a, k)
         /\ \A k \in {"SUCCEEDED", "RETRYABLE_FAILURE", "TERMINAL_FAILURE"} :
              CompleteArtifactGroupWorkLease(u, a, h, k) => \E l \in ClosedState : CloseLease(u, a, l)
         /\ FailOverrun(u, a, h) => \E k \in ClosedState : CloseLease(u, a, k)
<1>1. ASSUME NEW s \in TERMINAL_STAGE_STATUSES, NEW r \in BOOLEAN, CompleteStageWorkLease(u, a, h, s, r)
      PROVE  \E k \in ClosedState : CloseLease(u, a, k)
  <2>1. StageEventKind(s, r) \in ClosedState
    BY DEF StageEventKind, ClosedState
  <2> QED BY <1>1, <2>1 DEF CompleteStageWorkLease
<1>2. ASSUME NEW k \in {"SUCCEEDED", "RETRYABLE_FAILURE", "TERMINAL_FAILURE"},
             CompleteArtifactGroupWorkLease(u, a, h, k)
      PROVE  \E l \in ClosedState : CloseLease(u, a, l)
  <2>1. k \in ClosedState
    BY DEF ClosedState
  <2> QED BY <1>2, <2>1 DEF CompleteArtifactGroupWorkLease
<1>3. "TERMINAL_FAILURE" \in TERMINAL_STAGE_STATUSES /\ FALSE \in BOOLEAN
  BY DEF TERMINAL_STAGE_STATUSES
<1> QED BY <1>1, <1>2, <1>3 DEF FailOverrun

-----------------------------------------------------------------------------
(* The bucket and the jobs' heads.                                         *)

Bucket == [credits : [Dimension -> Int], active : Int, blocked : Nat, at : Nat]
JobHead == [active : Int, reserved : [Dimension -> Int], consumed : [Dimension -> Int]]

\* Credits that arrive until t.
Refilled(head, t, d) == head.credits[d] + (t - head.at) * RefillRate[d]

LEMMA RefillValues ==
  ASSUME NEW head \in Bucket, NEW t \in Nat, head.at <= t
  PROVE  /\ Refill(head, t) \in Bucket
         /\ Refill(head, t).active = head.active
         /\ Refill(head, t).blocked = head.blocked
         /\ Refill(head, t).at = t
         /\ \A d \in Dimension :
              /\ Refilled(head, t, d) \in Int /\ Credits(Burst)[d] \in Int
              /\ Refill(head, t).credits[d] = IF Refilled(head, t, d) > Credits(Burst)[d]
                                              THEN Credits(Burst)[d] ELSE Refilled(head, t, d)
<1> DEFINE c == Capped([d \in Dimension |-> head.credits[d] + (t - head.at) * RefillRate[d]])
<1>1. Refill(head, t) = [head EXCEPT !.credits = c, !.at = t]
  BY DEF Refill
<1>2. \A d \in Dimension : Refilled(head, t, d) \in Int /\ Credits(Burst)[d] \in Int
  BY RateAssumption DEF Refilled, Credits, Bucket
<1>3. /\ c \in [Dimension -> Int]
      /\ \A d \in Dimension : c[d] = IF Refilled(head, t, d) > Credits(Burst)[d]
                                     THEN Credits(Burst)[d] ELSE Refilled(head, t, d)
  BY <1>2 DEF Capped, Refilled
<1> HIDE DEF c
<1>4. /\ Refill(head, t) \in Bucket
      /\ Refill(head, t).active = head.active
      /\ Refill(head, t).blocked = head.blocked
      /\ Refill(head, t).at = t
      /\ Refill(head, t).credits = c
  BY <1>1, <1>3 DEF Bucket
<1> QED BY <1>2, <1>3, <1>4

\* A head with these entries.
BucketIs(head, credits, active, blocked, at) ==
  /\ head \in Bucket
  /\ head.credits = credits /\ head.active = active /\ head.blocked = blocked /\ head.at = at

LEMMA ReservedBucket ==
  ASSUME NEW u \in Unit, NEW a \in Attempt, NEW head \in Bucket, NEW t \in Nat, ReserveModel(u, a, head, t)
  PROVE  BucketIs(bucket', Minus(head.credits, Credits(Grant[u])), head.active + Invocations[u],
                  head.blocked, t)
<1> DEFINE c == Minus(head.credits, Credits(Grant[u]))
           n == head.active + Invocations[u]
<1>1. c \in [Dimension -> Int] /\ n \in Int
  BY RateAssumption, ModelPolicyAssumption DEF Minus, Credits, Bucket
<1>2. bucket' = [head EXCEPT !.credits = c, !.active = n, !.at = t]
  BY DEF ReserveModel
<1> HIDE DEF c, n
<1>3. BucketIs(bucket', c, n, head.blocked, t)
  BY <1>1, <1>2 DEF BucketIs, Bucket
<1> QED BY <1>3 DEF c, n

LEMMA ReleasedBucket ==
  ASSUME bucket \in Bucket, now \in Nat, bucket.at <= now,
         NEW u \in Unit, NEW a \in Attempt, NEW usage \in Amounts, NEW kind, NEW until \in Nat,
         ReleaseModel(u, a, usage, kind, until)
  PROVE  BucketIs(bucket', Capped(Plus(Refill(bucket, now).credits, Credits(Minus(Grant[u], usage)))),
                  bucket.active - Invocations[u], Later(bucket.blocked, until), now)
<1> DEFINE head == Refill(bucket, now)
           c == Capped(Plus(head.credits, Credits(Minus(Grant[u], usage))))
           n == head.active - Invocations[u]
           l == Later(head.blocked, until)
<1>1. head \in Bucket /\ head.active = bucket.active /\ head.blocked = bucket.blocked /\ head.at = now
  BY RefillValues
<1>2. c \in [Dimension -> Int] /\ n \in Int /\ l \in Nat
  <2> HIDE DEF head
  <2>1. Credits(Minus(Grant[u], usage)) \in [Dimension -> Int] /\ Credits(Burst) \in [Dimension -> Int]
    BY RateAssumption, ModelPolicyAssumption DEF Minus, Credits, Amounts
  <2>2. Plus(head.credits, Credits(Minus(Grant[u], usage))) \in [Dimension -> Int]
    BY <1>1, <2>1 DEF Plus, Bucket
  <2>3. c \in [Dimension -> Int]
    BY <2>1, <2>2 DEF Capped
  <2>4. n \in Int /\ l \in Nat
    BY <1>1, ModelPolicyAssumption DEF Bucket, Later
  <2> QED BY <2>3, <2>4
<1>3. bucket' = [[head EXCEPT !.credits = c] EXCEPT !.active = n, !.blocked = l]
  <2>1. bucket' = [RefundedBucket(head, Minus(Grant[u], usage)) EXCEPT !.active = @ - Invocations[u],
                                                                       !.blocked = l]
    BY DEF ReleaseModel, BlockedUntil
  <2>2. RefundedBucket(head, Minus(Grant[u], usage)) = [head EXCEPT !.credits = c]
    BY DEF RefundedBucket
  <2>3. [head EXCEPT !.credits = c].active = head.active
    BY <1>1 DEF Bucket
  <2> HIDE DEF head, c, l
  <2> QED BY <2>1, <2>2, <2>3
<1> HIDE DEF c, n, l, head
<1>4. BucketIs(bucket', c, n, l, now)
  BY <1>1, <1>2, <1>3 DEF BucketIs, Bucket
<1> QED BY <1>1, <1>4 DEF c, n, l, head

LEMMA OverrunBucket ==
  ASSUME bucket \in Bucket, now \in Nat, bucket.at <= now,
         NEW u \in Unit, NEW a \in Attempt, NEW usage \in Amounts, ReleaseOverrun(u, a, usage)
  PROVE  BucketIs(bucket', Minus(Refill(bucket, now).credits, Credits(Positive(Minus(usage, Grant[u])))),
                  bucket.active - Invocations[u], bucket.blocked, now)
<1> DEFINE head == Refill(bucket, now)
           c == Minus(head.credits, Credits(Positive(Minus(usage, Grant[u]))))
           n == head.active - Invocations[u]
<1>1. head \in Bucket /\ head.active = bucket.active /\ head.blocked = bucket.blocked /\ head.at = now
  BY RefillValues
<1>2. bucket' = [head EXCEPT !.credits = c, !.active = n]
  BY DEF ReleaseOverrun
<1> HIDE DEF head
<1>3. c \in [Dimension -> Int] /\ n \in Int
  <2>1. Credits(Positive(Minus(usage, Grant[u]))) \in [Dimension -> Int]
    BY RateAssumption, ModelPolicyAssumption DEF Minus, Credits, Positive, Amounts
  <2>2. c \in [Dimension -> Int]
    BY <1>1, <2>1 DEF Minus, Bucket
  <2>3. n \in Int
    BY <1>1, ModelPolicyAssumption DEF Bucket
  <2> QED BY <2>2, <2>3
<1> HIDE DEF c, n
<1>4. BucketIs(bucket', c, n, head.blocked, head.at)
  BY <1>1, <1>2, <1>3 DEF BucketIs, Bucket
<1> QED BY <1>1, <1>4 DEF c, n, head

LEMMA CancellationBucket ==
  ASSUME bucket \in Bucket, now \in Nat, bucket.at <= now,
         NEW u \in Unit, NEW a \in Attempt, NEW acknowledged \in BOOLEAN,
         RecordCancellation(u, a, acknowledged)
  PROVE  BucketIs(bucket', Refill(bucket, now).credits, bucket.active - ReleasedUnits(u, acknowledged),
                  bucket.blocked, now)
<1> DEFINE head == Refill(bucket, now)
           n == head.active - ReleasedUnits(u, acknowledged)
<1>1. head \in Bucket /\ head.active = bucket.active /\ head.blocked = bucket.blocked /\ head.at = now
  BY RefillValues
<1>2. bucket' = [head EXCEPT !.active = n]
  BY DEF RecordCancellation
<1>3. n \in Int
  BY <1>1, ModelPolicyAssumption DEF Bucket, ReleasedUnits
<1> HIDE DEF head, n
<1>4. BucketIs(bucket', head.credits, n, head.blocked, head.at)
  BY <1>1, <1>2, <1>3 DEF BucketIs, Bucket
<1> QED BY <1>1, <1>4 DEF n, head

\* The head of job j moves by these amounts, those of other jobs stay.
JobMoves(j, n, r, c) ==
  /\ jobModel' \in [Job -> JobHead]
  /\ jobModel'[j].active = jobModel[j].active + n
  /\ \A d \in Dimension : /\ jobModel'[j].reserved[d] = jobModel[j].reserved[d] + r[d]
                          /\ jobModel'[j].consumed[d] = jobModel[j].consumed[d] + c[d]
  /\ \A i \in Job \ {j} : jobModel'[i] = jobModel[i]

\* A job's head written entry by entry.
HeadWith(head, n, r, c) == [head EXCEPT !.active = n, !.reserved = r, !.consumed = c]

\* The heads f with some entries of job j written.
WithHead(f, j, n, r, c) == [f EXCEPT ![j] = HeadWith(@, n, r, c)]
WithActiveReserved(f, j, n, r) == [f EXCEPT ![j].active = n, ![j].reserved = r]
WithReservedConsumed(f, j, r, c) == [f EXCEPT ![j].reserved = r, ![j].consumed = c]
WithActive(f, j, n) == [f EXCEPT ![j].active = n]

\* The heads g are the heads f with that of job j written so.
Writes(f, g, j, n, r, c) ==
  /\ f \in [Job -> JobHead] /\ j \in Job
  /\ n \in Int /\ r \in [Dimension -> Int] /\ c \in [Dimension -> Int]
  /\ g = WithHead(f, j, n, r, c)

Written(f, g, j, n, r, c) ==
  /\ g \in [Job -> JobHead]
  /\ g[j].active = n /\ g[j].reserved = r /\ g[j].consumed = c
  /\ \A i \in Job \ {j} : g[i] = f[i]

LEMMA HeadWritten ==
  ASSUME NEW f, NEW g, NEW j, NEW n, NEW r, NEW c, Writes(f, g, j, n, r, c)
  PROVE  Written(f, g, j, n, r, c)
<1>1. /\ HeadWith(f[j], n, r, c) \in JobHead
      /\ HeadWith(f[j], n, r, c).active = n
      /\ HeadWith(f[j], n, r, c).reserved = r
      /\ HeadWith(f[j], n, r, c).consumed = c
  BY DEF Writes, HeadWith, JobHead
<1> QED BY <1>1 DEF Writes, Written, WithHead

LEMMA SettledJob ==
  ASSUME jobModel \in [Job -> JobHead], NEW u \in Unit, NEW usage \in Amounts,
         jobModel' = Settle(JobOf[u], u, usage, Invocations[u])
  PROVE  JobMoves(JobOf[u], -Invocations[u], [d \in Dimension |-> -Grant[u][d]], usage)
<1> DEFINE j == JobOf[u]
           n == jobModel[j].active - Invocations[u]
           r == Minus(jobModel[j].reserved, Grant[u])
           c == Plus(jobModel[j].consumed, usage)
<1>1. j \in Job /\ jobModel[j] \in JobHead
  BY GraphAssumption
<1>2. n \in Int /\ r \in [Dimension -> Int] /\ c \in [Dimension -> Int]
  BY <1>1, ModelPolicyAssumption DEF JobHead, Minus, Plus, Amounts
<1>3. jobModel' = WithHead(jobModel, j, n, r, c)
  BY DEF Settle, HeadWith, WithHead
<1>4. \A d \in Dimension : /\ r[d] = jobModel[j].reserved[d] + (-Grant[u][d])
                           /\ c[d] = jobModel[j].consumed[d] + usage[d]
  BY <1>1, ModelPolicyAssumption DEF JobHead, Minus, Plus, Amounts
<1>5. n = jobModel[j].active + (-Invocations[u])
  BY <1>1, ModelPolicyAssumption DEF JobHead
<1> HIDE DEF n, r, c
<1>6. Written(jobModel, jobModel', j, n, r, c)
  <2>1. Writes(jobModel, jobModel', j, n, r, c)
    BY <1>1, <1>2, <1>3 DEF Writes
  <2> QED BY <2>1, HeadWritten, Zenon
<1> HIDE DEF j
<1>7. JobMoves(j, -Invocations[u], [d \in Dimension |-> -Grant[u][d]], usage)
  BY <1>4, <1>5, <1>6 DEF JobMoves, Written
<1> QED BY <1>7 DEF j

\* Entries that are not written keep their value.
LEMMA ActiveReservedEntries ==
  ASSUME NEW f \in [Job -> JobHead], NEW j \in Job, NEW n, NEW r
  PROVE  WithActiveReserved(f, j, n, r) = WithHead(f, j, n, r, f[j].consumed)
<1>1. [f[j] EXCEPT !.active = n, !.reserved = r] = HeadWith(f[j], n, r, f[j].consumed)
  BY DEF HeadWith, JobHead
<1> QED BY <1>1 DEF WithActiveReserved, WithHead

LEMMA ReservedConsumedEntries ==
  ASSUME NEW f \in [Job -> JobHead], NEW j \in Job, NEW r, NEW c
  PROVE  WithReservedConsumed(f, j, r, c) = WithHead(f, j, f[j].active, r, c)
<1>1. [f[j] EXCEPT !.reserved = r, !.consumed = c] = HeadWith(f[j], f[j].active, r, c)
  BY DEF HeadWith, JobHead
<1> QED BY <1>1 DEF WithReservedConsumed, WithHead

LEMMA ActiveEntry ==
  ASSUME NEW f \in [Job -> JobHead], NEW j \in Job, NEW n
  PROVE  WithActive(f, j, n) = WithHead(f, j, n, f[j].reserved, f[j].consumed)
<1>1. [f[j] EXCEPT !.active = n] = HeadWith(f[j], n, f[j].reserved, f[j].consumed)
  BY DEF HeadWith, JobHead
<1> QED BY <1>1 DEF WithActive, WithHead

LEMMA ReservedJob ==
  ASSUME jobModel \in [Job -> JobHead], NEW u \in Unit, NEW a \in Attempt, NEW head, NEW t,
         ReserveModel(u, a, head, t)
  PROVE  JobMoves(JobOf[u], Invocations[u], Grant[u], None)
<1> DEFINE j == JobOf[u]
           n == jobModel[j].active + Invocations[u]
           r == Plus(jobModel[j].reserved, Grant[u])
           c == jobModel[j].consumed
<1>1. j \in Job /\ jobModel[j] \in JobHead
  BY GraphAssumption
<1>2. n \in Int /\ r \in [Dimension -> Int] /\ c \in [Dimension -> Int]
  BY <1>1, ModelPolicyAssumption DEF JobHead, Plus
<1>3. jobModel' = WithHead(jobModel, j, n, r, c)
  <2>1. jobModel' = WithActiveReserved(jobModel, j, n, r)
    BY DEF ReserveModel, WithActiveReserved
  <2> HIDE DEF n, r, j
  <2> QED BY <1>1, <2>1, ActiveReservedEntries, Zenon
<1>4. \A d \in Dimension : /\ r[d] = jobModel[j].reserved[d] + Grant[u][d]
                           /\ c[d] = jobModel[j].consumed[d] + None[d]
  BY <1>1 DEF JobHead, Plus, None
<1> HIDE DEF n, r, c
<1>5. Written(jobModel, jobModel', j, n, r, c)
  <2>1. Writes(jobModel, jobModel', j, n, r, c)
    BY <1>1, <1>2, <1>3 DEF Writes
  <2> QED BY <2>1, HeadWritten, Zenon
<1>6. n = jobModel[j].active + Invocations[u]
  BY DEF n
<1> HIDE DEF j
<1>7. JobMoves(j, Invocations[u], Grant[u], None)
  BY <1>4, <1>5, <1>6 DEF JobMoves, Written
<1> QED BY <1>7 DEF j

LEMMA CancelledJob ==
  ASSUME jobModel \in [Job -> JobHead], NEW u \in Unit, NEW a \in Attempt, NEW acknowledged \in BOOLEAN,
         RecordCancellation(u, a, acknowledged)
  PROVE  JobMoves(JobOf[u], -ReleasedUnits(u, acknowledged), None, None)
<1> DEFINE j == JobOf[u]
           n == jobModel[j].active - ReleasedUnits(u, acknowledged)
           r == jobModel[j].reserved
           c == jobModel[j].consumed
<1>1. j \in Job /\ jobModel[j] \in JobHead
  BY GraphAssumption
<1>2. n \in Int /\ r \in [Dimension -> Int] /\ c \in [Dimension -> Int]
      /\ n = jobModel[j].active + (-ReleasedUnits(u, acknowledged))
  BY <1>1, ModelPolicyAssumption DEF JobHead, ReleasedUnits
<1>3. jobModel' = WithHead(jobModel, j, n, r, c)
  <2>1. jobModel' = WithActive(jobModel, j, n)
    BY DEF RecordCancellation, WithActive
  <2> HIDE DEF n, j
  <2> QED BY <1>1, <2>1, ActiveEntry, Zenon
<1>4. \A d \in Dimension : /\ r[d] = jobModel[j].reserved[d] + None[d]
                           /\ c[d] = jobModel[j].consumed[d] + None[d]
  BY <1>1 DEF JobHead, None
<1> HIDE DEF n, r, c
<1>5. Written(jobModel, jobModel', j, n, r, c)
  <2>1. Writes(jobModel, jobModel', j, n, r, c)
    BY <1>1, <1>2, <1>3 DEF Writes
  <2> QED BY <2>1, HeadWritten, Zenon
<1> HIDE DEF j
<1>6. JobMoves(j, -ReleasedUnits(u, acknowledged), None, None)
  BY <1>2, <1>4, <1>5 DEF JobMoves, Written
<1> QED BY <1>6 DEF j

\* The grants of the attempts S.
Grants(S) == [d \in Dimension |-> SumFunctionOnSet([ua \in S |-> Grant[ua[1]][d]], S)]

\* There are finitely many attempts.
ModelRows == Unit \X Attempt

LEMMA FiniteModelRows ==
  /\ IsFiniteSet(ModelRows)
  /\ \A j \in Job : ModelAttempts(j) \in SUBSET ModelRows /\ IsFiniteSet(ModelAttempts(j))
<1>1. IsFiniteSet(Attempt)
  BY FS_Interval, PolicyAssumption DEF Attempt
<1>2. IsFiniteSet(ModelRows)
  BY <1>1, FS_Product, RateAssumption DEF ModelRows
<1>3. \A j \in Job : ModelAttempts(j) \in SUBSET ModelRows
  BY DEF ModelAttempts, ModelRows
<1> QED BY <1>2, <1>3, FS_Subset

LEMMA GrantsInt ==
  ASSUME NEW S \in SUBSET ModelRows
  PROVE  Grants(S) \in [Dimension -> Int]
<1> DEFINE F(d) == SumFunctionOnSet([ua \in S |-> Grant[ua[1]][d]], S)
<1>1. ASSUME NEW d \in Dimension PROVE F(d) \in Int
  <2> DEFINE f == [ua \in S |-> Grant[ua[1]][d]]
  <2>1. \A x \in S : f[x] \in Int
    BY ModelPolicyAssumption DEF ModelRows
  <2>2. IsFiniteSet(S)
    BY FiniteModelRows, FS_Subset
  <2> HIDE DEF f
  <2>3. SumFunctionOnSet(f, S) \in Int
    BY <2>1, <2>2, SumInt
  <2> QED BY <2>3 DEF f
<1>2. Grants(S) = [d \in Dimension |-> F(d)]
  BY Zenon DEF Grants
<1> HIDE DEF F
<1> QED BY <1>1, <1>2

LEMMA AbortedJob ==
  ASSUME jobModel \in [Job -> JobHead], NEW j \in Job, NEW S \in SUBSET ModelRows, CloseAbortedModel(j, S)
  PROVE  JobMoves(j, 0, [d \in Dimension |-> -Grants(S)[d]], Grants(S))
<1> DEFINE n == jobModel[j].active
           r == Minus(jobModel[j].reserved, Grants(S))
           c == Plus(jobModel[j].consumed, Grants(S))
<1>1. jobModel[j] \in JobHead /\ Grants(S) \in [Dimension -> Int]
  BY GrantsInt
<1>2. n \in Int /\ r \in [Dimension -> Int] /\ c \in [Dimension -> Int] /\ n = jobModel[j].active + 0
  BY <1>1 DEF JobHead, Minus, Plus
<1>3. jobModel' = WithHead(jobModel, j, n, r, c)
  <2>1. jobModel' = WithReservedConsumed(jobModel, j, r, c)
    BY Zenon DEF CloseAbortedModel, Grants, WithReservedConsumed
  <2> HIDE DEF r, c
  <2> QED BY <1>1, <2>1, ReservedConsumedEntries, Zenon
<1>4. \A d \in Dimension : /\ r[d] = jobModel[j].reserved[d] + (-Grants(S)[d])
                           /\ c[d] = jobModel[j].consumed[d] + Grants(S)[d]
  BY <1>1 DEF JobHead, Minus, Plus
<1> HIDE DEF n, r, c
<1>5. Written(jobModel, jobModel', j, n, r, c)
  <2>1. Writes(jobModel, jobModel', j, n, r, c)
    BY <1>1, <1>2, <1>3 DEF Writes
  <2> QED BY <2>1, HeadWritten, Zenon
<1> QED BY <1>2, <1>4, <1>5 DEF JobMoves, Written

-----------------------------------------------------------------------------
(* Concurrency.  A slot of the pool is held from admission until the       *)
(* attempt completes or the provider acknowledges its cancellation.        *)

SlotState == {"ACTIVE", "RELEASE_PENDING_ACK", "QUARANTINED"}

SlotsOf == [x \in ModelRows |->
              IF modelReservation[x[1]][x[2]].state \in SlotState THEN Invocations[x[1]] ELSE 0]

SlotsCounted == bucket.active = SumFunctionOnSet(SlotsOf, ModelRows)

\* What a row says of itself and of the invocation it is for: nothing is
\* charged before the reservation is closed, and an open invocation keeps its
\* slot.
Measured(row, open) ==
  /\ row.state \in {"NONE", "ACTIVE"} => row.usage = None
  /\ open => row.state \in SlotState

RowsMeasured ==
  \A u \in Unit : \A a \in Attempt : Measured(modelReservation[u][a], invoking[u][a])

InvokingType == invoking \in [Unit -> [Attempt -> BOOLEAN]]

LEMMA SlotValues ==
  ASSUME NEW u \in Unit, NEW a \in Attempt
  PROVE  /\ SlotsOf[<<u, a>>] = IF modelReservation[u][a].state \in SlotState THEN Invocations[u] ELSE 0
         /\ SlotsOf'[<<u, a>>] = IF modelReservation'[u][a].state \in SlotState THEN Invocations[u] ELSE 0
         /\ SlotsOf[<<u, a>>] \in Int /\ Invocations[u] \in Nat \ {0}
BY ModelPolicyAssumption DEF SlotsOf, ModelRows

LEMMA SlotsInt == \A x \in ModelRows : SlotsOf[x] \in Int
BY ModelPolicyAssumption DEF SlotsOf, ModelRows

\* One row is written, the others stay.
ModelRowWritten(u, a, row) ==
  /\ modelReservation'[u][a] = row
  /\ \A v \in Unit : \A b \in Attempt :
       ~(v = u /\ b = a) => modelReservation'[v][b] = modelReservation[v][b]

LEMMA ModelRowReplaced ==
  ASSUME ModelRowsType, NEW u \in Unit, NEW a \in Attempt, NEW row,
         modelReservation' = [modelReservation EXCEPT ![u][a] = row]
  PROVE  ModelRowWritten(u, a, row)
BY DEF ModelRowsType, ModelRowWritten

\* The pool's count follows a row that takes or gives back slots.
LEMMA OneSlotStep ==
  ASSUME SlotsCounted, NEW u \in Unit, NEW a \in Attempt, NEW row, ModelRowWritten(u, a, row),
         NEW n \in Int, SlotsOf'[<<u, a>>] = SlotsOf[<<u, a>>] + n, bucket'.active = bucket.active + n
  PROVE  SlotsCounted'
<1> DEFINE x == <<u, a>>
           S == {x}
           f == SlotsOf
           g == SlotsOf'
           d == [y \in S |-> n]
<1>1. IsFiniteSet(ModelRows) /\ S \in SUBSET ModelRows
  BY FiniteModelRows DEF ModelRows
<1>2. ASSUME NEW y \in ModelRows \ S PROVE g[y] = f[y]
  <2>1. PICK v \in Unit, b \in Attempt : y = <<v, b>>
    BY DEF ModelRows
  <2>2. modelReservation'[v][b] = modelReservation[v][b]
    BY <2>1 DEF ModelRowWritten
  <2>3. SlotsOf'[<<v, b>>] = SlotsOf[<<v, b>>]
    <3>1. /\ SlotsOf[<<v, b>>] = IF modelReservation[v][b].state \in SlotState THEN Invocations[v] ELSE 0
          /\ SlotsOf'[<<v, b>>] = IF modelReservation'[v][b].state \in SlotState THEN Invocations[v] ELSE 0
      BY SlotValues
    <3> QED BY <2>2, <3>1, Zenon
  <2> QED BY <2>1, <2>3
<1>3. d[x] = n /\ \A y \in S : y = x
  OBVIOUS
<1>4. \A y \in ModelRows : f[y] \in Int
  BY SlotsInt
<1>5. g[x] = f[x] + n
  OBVIOUS
<1>6. bucket.active = SumFunctionOnSet(f, ModelRows)
  BY DEF SlotsCounted
<1> HIDE DEF f, g, d, x
<1>7. DiffersBy(f, g, ModelRows, S, d)
  BY <1>2, <1>3, <1>4, <1>5 DEF DiffersBy
<1>8. SumFunctionOnSet(d, S) = n
  BY <1>3, SumSingleton
<1>9. SumFunctionOnSet(g, ModelRows) = SumFunctionOnSet(f, ModelRows) + n
  BY <1>1, <1>7, <1>8, SumChange
<1> QED BY <1>6, <1>9 DEF SlotsCounted, g, ModelRows

\* Rows that keep their slots.
LEMMA SlotsKept ==
  ASSUME SlotsCounted, bucket'.active = bucket.active,
         \A u \in Unit : \A a \in Attempt :
           modelReservation'[u][a].state \in SlotState <=> modelReservation[u][a].state \in SlotState
  PROVE  SlotsCounted'
<1> DEFINE f == SlotsOf
           g == SlotsOf'
<1>1. \A x \in ModelRows : f[x] = g[x]
  BY DEF SlotsOf, ModelRows
<1>2. bucket.active = SumFunctionOnSet(f, ModelRows)
  BY DEF SlotsCounted
<1> HIDE DEF f, g
<1>3. SumFunctionOnSet(f, ModelRows) = SumFunctionOnSet(g, ModelRows)
  BY <1>1, FiniteModelRows, SumCongruent
<1> QED BY <1>2, <1>3 DEF SlotsCounted, g, ModelRows

\* The flags and the rows after one of each is written.
LEMMA OneRowMeasured ==
  ASSUME RowsMeasured, InvokingType, NEW u \in Unit, NEW a \in Attempt, NEW row, NEW e \in BOOLEAN,
         ModelRowWritten(u, a, row), invoking' = [invoking EXCEPT ![u][a] = e], Measured(row, e)
  PROVE  RowsMeasured' /\ InvokingType'
<1>1. ASSUME NEW v \in Unit, NEW b \in Attempt
      PROVE  invoking'[v][b] = IF v = u /\ b = a THEN e ELSE invoking[v][b]
  BY DEF InvokingType
<1>2. ASSUME NEW v \in Unit, NEW b \in Attempt
      PROVE  Measured(modelReservation'[v][b], invoking'[v][b])
  <2>1. CASE v = u /\ b = a
    BY <1>1, <2>1 DEF ModelRowWritten
  <2>2. CASE ~(v = u /\ b = a)
    BY <1>1, <2>2 DEF ModelRowWritten, RowsMeasured
  <2> QED BY <2>1, <2>2
<1>3. InvokingType'
  BY DEF InvokingType
<1> QED BY <1>2, <1>3 DEF RowsMeasured

\* The pool's slots: none is lost or given out twice, and the bucket's clock
\* is never ahead.
SlotsInv ==
  /\ bucket \in Bucket /\ now \in Nat /\ bucket.at <= now
  /\ InvokingType /\ RowsMeasured /\ SlotsCounted
  /\ bucket.active <= PoolConcurrent

\* What the operations on the model tables leave of it, at the time of the
\* operation.
SlotsAfter ==
  /\ bucket' \in Bucket /\ bucket'.at <= now
  /\ InvokingType' /\ RowsMeasured' /\ SlotsCounted'
  /\ bucket'.active <= PoolConcurrent

\* The decision to admit, for a head that was refilled not later than now.
Fits(u, head) ==
  /\ \E t \in Nat : bucket.at <= t /\ t <= now /\ head = Refill(bucket, t)
  /\ Within(Plus(Plus(jobModel[JobOf[u]].consumed, jobModel[JobOf[u]].reserved), Grant[u]),
            JobModelMax[JobOf[u]])
  /\ head.blocked <= now
  /\ head.active + Invocations[u] <= PoolConcurrent

LEMMA ReserveSlots ==
  ASSUME ModelRowsType, SlotsInv, NEW u \in Unit, NEW a \in Attempt, NEW head, Fits(u, head),
         modelReservation[u][a].state = "NONE", ReserveModel(u, a, head, now)
  PROVE  SlotsAfter
<1> DEFINE row == [state |-> "ACTIVE", usage |-> None]
<1>1. head \in Bucket /\ head.active = bucket.active /\ now \in Nat
  BY RefillValues DEF Fits, SlotsInv
<1>2. BucketIs(bucket', Minus(head.credits, Credits(Grant[u])), head.active + Invocations[u],
               head.blocked, now)
  BY <1>1, ReservedBucket
<1>3. /\ bucket' \in Bucket /\ bucket'.active = bucket.active + Invocations[u] /\ bucket'.at = now
      /\ bucket'.active <= PoolConcurrent
  BY <1>1, <1>2 DEF BucketIs, Fits
<1>4. ModelRowWritten(u, a, row)
  <2>1. modelReservation' = [modelReservation EXCEPT ![u][a] = row]
    BY DEF ReserveModel
  <2> HIDE DEF row
  <2> QED BY <2>1, ModelRowReplaced
<1>5. row.state = "ACTIVE" /\ row.usage = None
  OBVIOUS
<1> HIDE DEF row
<1>6. SlotsOf[<<u, a>>] = 0 /\ SlotsOf'[<<u, a>>] = Invocations[u] /\ Invocations[u] \in Nat \ {0}
  <2>1. modelReservation'[u][a].state = "ACTIVE"
    BY <1>4, <1>5 DEF ModelRowWritten
  <2> QED BY <2>1, SlotValues DEF SlotState
<1>7. SlotsCounted'
  <2>1. SlotsOf'[<<u, a>>] = SlotsOf[<<u, a>>] + Invocations[u] /\ Invocations[u] \in Int
    BY <1>6
  <2> QED BY <1>3, <1>4, <2>1, OneSlotStep DEF SlotsInv
<1>8. RowsMeasured' /\ InvokingType'
  <2>1. Measured(row, TRUE)
    BY <1>5 DEF Measured, SlotState
  <2>2. invoking' = [invoking EXCEPT ![u][a] = TRUE]
    BY DEF ReserveModel
  <2> QED BY <1>4, <2>1, <2>2, OneRowMeasured DEF SlotsInv
<1> QED BY <1>1, <1>3, <1>7, <1>8 DEF SlotsAfter

\* A completion gives its slots back.
LEMMA SettleSlots ==
  ASSUME ModelRowsType, SlotsInv, NEW u \in Unit, NEW a \in Attempt, NEW usage \in Amounts,
         ModelSettled(u, a, usage), invoking' = [invoking EXCEPT ![u][a] = FALSE],
         bucket' \in Bucket, bucket'.at = now, bucket'.active = bucket.active - Invocations[u]
  PROVE  SlotsAfter
<1> DEFINE row == [state |-> "RELEASED", usage |-> usage]
<1>1. ModelRowWritten(u, a, row)
  <2>1. modelReservation' = [modelReservation EXCEPT ![u][a] = row]
    BY DEF ModelSettled
  <2> HIDE DEF row
  <2> QED BY <2>1, ModelRowReplaced
<1>2. row.state = "RELEASED"
  OBVIOUS
<1> HIDE DEF row
<1>3. SlotsOf[<<u, a>>] = Invocations[u] /\ SlotsOf'[<<u, a>>] = 0 /\ Invocations[u] \in Nat \ {0}
  <2>1. modelReservation'[u][a].state = "RELEASED" /\ modelReservation[u][a].state = "ACTIVE"
    BY <1>1, <1>2 DEF ModelRowWritten, ModelSettled
  <2> QED BY <2>1, SlotValues DEF SlotState
<1>4. bucket.active \in Int /\ PoolConcurrent \in Nat
  BY RateAssumption DEF SlotsInv, Bucket
<1>5. SlotsCounted'
  <2>1. /\ SlotsOf'[<<u, a>>] = SlotsOf[<<u, a>>] + (-Invocations[u]) /\ -Invocations[u] \in Int
        /\ bucket'.active = bucket.active + (-Invocations[u])
    BY <1>3, <1>4
  <2> QED BY <1>1, <2>1, OneSlotStep DEF SlotsInv
<1>6. RowsMeasured' /\ InvokingType'
  <2>1. Measured(row, FALSE)
    BY <1>2 DEF Measured
  <2> QED BY <1>1, <2>1, OneRowMeasured DEF SlotsInv
<1>7. bucket'.active <= PoolConcurrent
  BY <1>3, <1>4 DEF SlotsInv
<1> QED BY <1>5, <1>6, <1>7 DEF SlotsAfter, SlotsInv, Bucket

LEMMA ReleaseSlots ==
  ASSUME ModelRowsType, SlotsInv, NEW u \in Unit, NEW a \in Attempt, NEW usage \in Amounts, NEW kind,
         NEW until \in Nat, ReleaseModel(u, a, usage, kind, until)
  PROVE  SlotsAfter
<1>1. BucketIs(bucket', Capped(Plus(Refill(bucket, now).credits, Credits(Minus(Grant[u], usage)))),
               bucket.active - Invocations[u], Later(bucket.blocked, until), now)
  BY ReleasedBucket DEF SlotsInv
<1>2. bucket' \in Bucket /\ bucket'.at = now /\ bucket'.active = bucket.active - Invocations[u]
  BY <1>1 DEF BucketIs
<1>3. ModelSettled(u, a, usage) /\ invoking' = [invoking EXCEPT ![u][a] = FALSE]
  BY DEF ReleaseModel, ModelSettled
<1> QED BY <1>2, <1>3, SettleSlots

LEMMA OverrunSlots ==
  ASSUME ModelRowsType, SlotsInv, NEW u \in Unit, NEW a \in Attempt, NEW usage \in Amounts,
         ReleaseOverrun(u, a, usage)
  PROVE  SlotsAfter
<1>1. BucketIs(bucket', Minus(Refill(bucket, now).credits, Credits(Positive(Minus(usage, Grant[u])))),
               bucket.active - Invocations[u], bucket.blocked, now)
  BY OverrunBucket DEF SlotsInv
<1>2. bucket' \in Bucket /\ bucket'.at = now /\ bucket'.active = bucket.active - Invocations[u]
  BY <1>1 DEF BucketIs
<1>3. ModelSettled(u, a, usage) /\ invoking' = [invoking EXCEPT ![u][a] = FALSE]
  BY DEF ReleaseOverrun, ModelSettled
<1> QED BY <1>2, <1>3, SettleSlots

\* An aborted attempt keeps its slots.
LEMMA AbortSlots ==
  ASSUME ModelRowsType, SlotsInv, NEW j \in Job, NEW S \in SUBSET ModelRows, CloseAbortedModel(j, S),
         \A v \in Unit : \A b \in Attempt : <<v, b>> \in S => modelReservation[v][b].state = "ACTIVE"
  PROVE  SlotsAfter
<1>1. /\ modelReservation' = [u \in Unit |-> [a \in Attempt |->
                                IF <<u, a>> \in S
                                THEN [state |-> "RELEASE_PENDING_ACK", usage |-> Grant[u]]
                                ELSE modelReservation[u][a]]]
      /\ invoking' = invoking
      /\ bucket' = IF S = {} THEN bucket ELSE Refill(bucket, now)
  BY DEF CloseAbortedModel
<1>2. ASSUME NEW u \in Unit, NEW a \in Attempt
      PROVE  /\ <<u, a>> \in S => /\ modelReservation'[u][a].state = "RELEASE_PENDING_ACK"
                                  /\ modelReservation[u][a].state = "ACTIVE"
             /\ <<u, a>> \notin S => modelReservation'[u][a] = modelReservation[u][a]
  BY <1>1
<1>3. /\ Refill(bucket, now) \in Bucket /\ Refill(bucket, now).at = now
      /\ Refill(bucket, now).active = bucket.active
  BY RefillValues DEF SlotsInv
<1>4. bucket' \in Bucket /\ bucket'.at <= now /\ bucket'.active = bucket.active
  BY <1>1, <1>3 DEF SlotsInv, Bucket
<1>5. SlotsCounted'
  <2>1. \A u \in Unit : \A a \in Attempt :
          modelReservation'[u][a].state \in SlotState <=> modelReservation[u][a].state \in SlotState
    BY <1>2 DEF SlotState
  <2> QED BY <1>4, <2>1, SlotsKept DEF SlotsInv
<1>6. RowsMeasured'
  BY <1>1, <1>2 DEF SlotsInv, RowsMeasured, Measured, SlotState
<1> QED BY <1>1, <1>4, <1>5, <1>6 DEF SlotsAfter, SlotsInv, InvokingType

\* Only an acknowledged cancellation gives the slots back.
LEMMA CancellationSlots ==
  ASSUME ModelRowsType, SlotsInv, NEW u \in Unit, NEW a \in Attempt, NEW acknowledged \in BOOLEAN,
         RecordCancellation(u, a, acknowledged)
  PROVE  SlotsAfter
<1> DEFINE n == ReleasedUnits(u, acknowledged)
           row == modelReservation'[u][a]
           e == invoking[u][a] /\ ~acknowledged
<1>1. BucketIs(bucket', Refill(bucket, now).credits, bucket.active - n, bucket.blocked, now)
  BY CancellationBucket DEF SlotsInv
<1>2. bucket' \in Bucket /\ bucket'.active = bucket.active - n /\ bucket'.at = now
  BY <1>1 DEF BucketIs
<1>3. /\ \A v \in Unit : \A b \in Attempt :
           ~(v = u /\ b = a) => modelReservation'[v][b] = modelReservation[v][b]
      /\ modelReservation[u][a].state = "RELEASE_PENDING_ACK"
      /\ modelReservation'[u][a].state = IF acknowledged THEN "RELEASED" ELSE "QUARANTINED"
  BY CancellationRows
<1>4. ModelRowWritten(u, a, row)
  BY <1>3, Zenon DEF ModelRowWritten
<1>5. /\ SlotsOf[<<u, a>>] = Invocations[u] /\ SlotsOf'[<<u, a>>] = Invocations[u] - n
      /\ n \in Nat /\ Invocations[u] \in Nat
  <2>1. SlotsOf[<<u, a>>] = Invocations[u] /\ Invocations[u] \in Nat \ {0}
    BY <1>3, SlotValues DEF SlotState
  <2>2. SlotsOf'[<<u, a>>] = IF acknowledged THEN 0 ELSE Invocations[u]
    BY <1>3, SlotValues DEF SlotState
  <2> QED BY <2>1, <2>2 DEF ReleasedUnits
<1>6. bucket.active \in Int /\ PoolConcurrent \in Nat
  BY RateAssumption DEF SlotsInv, Bucket
<1> HIDE DEF n
<1>7. SlotsCounted'
  <2>1. /\ SlotsOf'[<<u, a>>] = SlotsOf[<<u, a>>] + (-n) /\ -n \in Int
        /\ bucket'.active = bucket.active + (-n)
    BY <1>2, <1>5, <1>6
  <2> HIDE DEF row
  <2> QED BY <1>4, <2>1, OneSlotStep DEF SlotsInv
<1>8. RowsMeasured' /\ InvokingType'
  <2>1. Measured(row, e)
    BY <1>3 DEF Measured, SlotState
  <2>2. invoking' = [invoking EXCEPT ![u][a] = e]
    BY DEF RecordCancellation, SlotsInv, InvokingType
  <2>3. e \in BOOLEAN
    BY DEF SlotsInv, InvokingType
  <2> HIDE DEF row, e
  <2> QED BY <1>4, <2>1, <2>2, <2>3, OneRowMeasured DEF SlotsInv
<1>9. bucket'.active <= PoolConcurrent
  BY <1>2, <1>5, <1>6 DEF SlotsInv
<1> QED BY <1>2, <1>7, <1>8, <1>9 DEF SlotsAfter, SlotsInv, Bucket

LEMMA EndSlots ==
  ASSUME ModelRowsType, SlotsInv, NEW u \in Unit, NEW a \in Attempt, InvocationEnds(u, a)
  PROVE  SlotsAfter
<1>1. /\ modelReservation' = modelReservation /\ bucket' = bucket
      /\ invoking' = [invoking EXCEPT ![u][a] = FALSE]
  BY DEF InvocationEnds
<1>2. SlotsCounted'
  BY <1>1, SlotsKept DEF SlotsInv
<1>3. \A v \in Unit : \A b \in Attempt : invoking'[v][b] => invoking[v][b]
  BY <1>1 DEF SlotsInv, InvokingType
<1>4. RowsMeasured'
  BY <1>1, <1>3 DEF SlotsInv, RowsMeasured, Measured
<1>5. InvokingType'
  BY <1>1 DEF SlotsInv, InvokingType
<1> QED BY <1>1, <1>2, <1>4, <1>5 DEF SlotsAfter, SlotsInv

\* The invocations open at the provider hold slots that the pool counts.
LEMMA SlotsBoundInvocations == SlotsInv => InvocationsBounded
<1> SUFFICES ASSUME SlotsInv PROVE InvocationsBounded
  OBVIOUS
<1> DEFINE open == {ua \in Unit \X Attempt : invoking[ua[1]][ua[2]]}
           f == [ua \in open |-> Invocations[ua[1]]]
           g == SlotsOf
           h == [x \in ModelRows |-> IF x \in open THEN g[x] ELSE 0]
<1>1. open \in SUBSET ModelRows /\ IsFiniteSet(ModelRows)
  BY FiniteModelRows DEF ModelRows
<1>2. \A x \in open : f[x] = g[x]
  BY DEF SlotsInv, RowsMeasured, Measured, SlotsOf, ModelRows
<1>3. \A x \in ModelRows : g[x] \in Nat
  BY ModelPolicyAssumption DEF SlotsOf, ModelRows
<1>4. SumFunctionOnSet(g, ModelRows) <= PoolConcurrent
  BY DEF SlotsInv, SlotsCounted
<1>5. \A x \in ModelRows : h[x] \in Int /\ g[x] \in Int /\ h[x] <= g[x]
  BY <1>3
<1>6. /\ \A x \in ModelRows \ open : h[x] = 0
      /\ \A x \in open : h[x] = f[x]
      /\ \A x \in ModelRows : h[x] \in Int
  <2> HIDE DEF open, f, g
  <2> QED BY <1>1, <1>2, <1>3
<1> HIDE DEF open, f, g, h
<1>7. IsFiniteSet(open)
  BY <1>1, FS_Subset
<1>8. SumFunctionOnSet(h, ModelRows) <= SumFunctionOnSet(g, ModelRows)
  BY <1>1, <1>5, SumMonotone
<1>9. SumFunctionOnSet(h, ModelRows) = SumFunctionOnSet(h, open)
  BY <1>1, <1>6, SumSupport
<1>10. SumFunctionOnSet(h, open) = SumFunctionOnSet(f, open)
  BY <1>6, <1>7, SumCongruent
<1>11. /\ SumFunctionOnSet(h, ModelRows) \in Int /\ SumFunctionOnSet(g, ModelRows) \in Int
       /\ PoolConcurrent \in Int
  BY <1>1, <1>5, SumInt, RateAssumption
<1>12. SumFunctionOnSet(f, open) <= PoolConcurrent
  BY <1>4, <1>8, <1>9, <1>10, <1>11
<1> QED BY <1>12, Zenon DEF InvocationsBounded, open, f

-----------------------------------------------------------------------------
(* Credits.  What the jobs hold and were charged, together.                *)

JobTables == jobModel \in [Job -> JobHead]

Charges(d) == SumFunctionOnSet([j \in Job |-> jobModel[j].reserved[d] + jobModel[j].consumed[d]], Job)

HeldMoves(j, n, d) ==
  /\ Charges(d)' = Charges(d) + n
  /\ Charges(d) \in Int /\ n \in Int
  /\ jobModel'[j].reserved[d] + jobModel'[j].consumed[d]
       = jobModel[j].reserved[d] + jobModel[j].consumed[d] + n
  /\ jobModel[j].reserved[d] \in Int /\ jobModel[j].consumed[d] \in Int
  /\ \A i \in Job \ {j} : jobModel'[i] = jobModel[i]

LEMMA JobHolds ==
  ASSUME JobTables, NEW j \in Job, NEW n, NEW r, NEW c, JobMoves(j, n, r, c), NEW d \in Dimension,
         r[d] \in Int, c[d] \in Int
  PROVE  HeldMoves(j, r[d] + c[d], d)
<1> DEFINE f == [i \in Job |-> jobModel[i].reserved[d] + jobModel[i].consumed[d]]
           g == [i \in Job |-> jobModel'[i].reserved[d] + jobModel'[i].consumed[d]]
           S == {j}
           e == [i \in S |-> r[d] + c[d]]
<1>1. \A i \in Job : jobModel[i].reserved[d] \in Int /\ jobModel[i].consumed[d] \in Int
  BY DEF JobTables, JobHead
<1>2. /\ jobModel'[j].reserved[d] = jobModel[j].reserved[d] + r[d]
      /\ jobModel'[j].consumed[d] = jobModel[j].consumed[d] + c[d]
      /\ \A i \in Job \ {j} : jobModel'[i] = jobModel[i]
  BY DEF JobMoves
<1>3. /\ \A i \in Job : f[i] \in Int
      /\ e[j] = r[d] + c[d] /\ e[j] \in Int /\ g[j] = f[j] + e[j]
      /\ \A i \in Job \ S : g[i] = f[i]
      /\ \A i \in S : i = j
  BY <1>1, <1>2
<1>4. Charges(d) = SumFunctionOnSet(f, Job) /\ Charges(d)' = SumFunctionOnSet(g, Job)
  BY Zenon DEF Charges
<1>5. IsFiniteSet(Job) /\ S \in SUBSET Job
  BY RateAssumption
<1> HIDE DEF f, g, e
<1>6. DiffersBy(f, g, Job, S, e)
  BY <1>3 DEF DiffersBy
<1>7. SumFunctionOnSet(e, S) = e[j]
  BY <1>3, SumSingleton
<1>8. SumFunctionOnSet(g, Job) = SumFunctionOnSet(f, Job) + e[j] /\ SumFunctionOnSet(f, Job) \in Int
  BY <1>5, <1>6, <1>7, SumChange
<1> QED BY <1>1, <1>2, <1>3, <1>4, <1>8 DEF HeldMoves

\* The credits of the pool with those that the jobs hold, on dimension d.
Conserved(d, credits, held, at) ==
  credits + CreditsPerUnit * held <= Credits(Burst)[d] + RefillRate[d] * at

LEMMA RateIsConserved ==
  RateConserved <=> \A d \in Dimension : Conserved(d, bucket.credits[d], Charges(d), bucket.at)
BY DEF RateConserved, Conserved, Charges

\* Refilling adds no more than what the time brings.
LEMMA RefillConserves ==
  ASSUME NEW head \in Bucket, NEW t \in Nat, NEW s \in Nat, head.at <= t, t <= s,
         NEW d \in Dimension, NEW held \in Int, Conserved(d, head.credits[d], held, head.at)
  PROVE  /\ Refill(head, t).credits[d] \in Int
         /\ Conserved(d, Refill(head, t).credits[d], held, s)
<1> DEFINE c == head.credits[d]
           k == CreditsPerUnit * held
           b == Credits(Burst)[d]
           x == RefillRate[d]
           y == Refill(head, t).credits[d]
<1>1. c \in Int /\ b \in Int /\ x \in Nat /\ k \in Int /\ head.at \in Nat /\ CreditsPerUnit \in Nat
  BY RateAssumption DEF Bucket, Credits
<1>2. /\ Refilled(head, t, d) = c + (t - head.at) * x
      /\ y = IF Refilled(head, t, d) > b THEN b ELSE Refilled(head, t, d)
      /\ Refilled(head, t, d) \in Int
  BY RefillValues DEF Refilled
<1>3. c + k <= b + x * head.at
  BY DEF Conserved
<1> HIDE DEF c, k, b, x, y
<1>4. (t - head.at) * x = x * t - x * head.at /\ x * t <= x * s /\ x * t \in Int /\ x * head.at \in Int
      /\ x * s \in Int
  BY <1>1
<1>5. y \in Int /\ y <= c + (x * t - x * head.at)
  BY <1>1, <1>2, <1>4
<1>6. y + k <= b + x * s
  BY <1>1, <1>3, <1>4, <1>5
<1> QED BY <1>5, <1>6 DEF Conserved, k, b, x, y

\* What the operations on the model tables leave of the account.
RateAfter == \A d \in Dimension : Conserved(d, bucket'.credits[d], Charges(d)', bucket'.at)

\* A grant leaves the pool as it enters the job's head.
LEMMA ReserveConserves ==
  ASSUME SlotsInv, JobTables, RateConserved, NEW u \in Unit, NEW a \in Attempt, NEW head, Fits(u, head),
         ReserveModel(u, a, head, now)
  PROVE  RateAfter
<1> SUFFICES ASSUME NEW d \in Dimension
             PROVE  Conserved(d, bucket'.credits[d], Charges(d)', bucket'.at)
  BY DEF RateAfter
<1>1. PICK t \in Nat : bucket.at <= t /\ t <= now /\ head = Refill(bucket, t)
  BY DEF Fits
<1>2. bucket \in Bucket /\ now \in Nat /\ head \in Bucket /\ JobOf[u] \in Job
  BY <1>1, RefillValues, GraphAssumption DEF SlotsInv
<1>3. bucket'.credits = Minus(head.credits, Credits(Grant[u])) /\ bucket'.at = now
  <2>1. BucketIs(bucket', Minus(head.credits, Credits(Grant[u])), head.active + Invocations[u],
                 head.blocked, now)
    BY <1>2, ReservedBucket
  <2> QED BY <2>1 DEF BucketIs
<1>4. /\ bucket'.credits[d] = head.credits[d] - CreditsPerUnit * Grant[u][d]
      /\ Grant[u][d] \in Int /\ None[d] = 0 /\ CreditsPerUnit \in Int
  BY <1>3, RateAssumption, ModelPolicyAssumption DEF Minus, Credits, None
<1>5. HeldMoves(JobOf[u], Grant[u][d] + None[d], d)
  <2>1. JobMoves(JobOf[u], Invocations[u], Grant[u], None)
    BY ReservedJob DEF JobTables
  <2> QED BY <1>2, <1>4, <2>1, JobHolds
<1>6. Charges(d)' = Charges(d) + Grant[u][d] /\ Charges(d) \in Int
  BY <1>4, <1>5 DEF HeldMoves
<1>7. Conserved(d, bucket.credits[d], Charges(d), bucket.at)
  BY RateIsConserved
<1>8. head.credits[d] \in Int /\ Conserved(d, head.credits[d], Charges(d), now)
  BY <1>1, <1>2, <1>6, <1>7, RefillConserves
<1> DEFINE g == Grant[u][d]
           h == Charges(d)
           c == head.credits[d]
<1>9. g \in Int /\ h \in Int /\ c \in Int
  BY <1>4, <1>6, <1>8
<1> HIDE DEF g, h, c
<1>10. CreditsPerUnit * (h + g) = CreditsPerUnit * h + CreditsPerUnit * g
       /\ CreditsPerUnit * h \in Int /\ CreditsPerUnit * g \in Int
  BY <1>4, <1>9
<1>11. (c - CreditsPerUnit * g) + CreditsPerUnit * (h + g) = c + CreditsPerUnit * h
  BY <1>9, <1>10
<1> QED BY <1>3, <1>4, <1>6, <1>8, <1>11 DEF Conserved, g, h, c

\* What a settlement gives back to the pool it takes from the job, at most.
LEMMA SettleConserves ==
  ASSUME SlotsInv, JobTables, RateConserved, NEW u \in Unit, NEW usage \in Amounts,
         jobModel' = Settle(JobOf[u], u, usage, Invocations[u]), bucket'.at = now,
         \A d \in Dimension :
           /\ bucket'.credits[d] \in Int
           /\ bucket'.credits[d] <= Refill(bucket, now).credits[d] + CreditsPerUnit * (Grant[u][d] - usage[d])
  PROVE  RateAfter
<1> SUFFICES ASSUME NEW d \in Dimension
             PROVE  Conserved(d, bucket'.credits[d], Charges(d)', bucket'.at)
  BY DEF RateAfter
<1> DEFINE r == [e \in Dimension |-> -Grant[u][e]]
<1>1. bucket \in Bucket /\ now \in Nat /\ bucket.at <= now /\ JobOf[u] \in Job
  BY GraphAssumption DEF SlotsInv
<1>2. Grant[u][d] \in Int /\ usage[d] \in Int /\ r[d] = -Grant[u][d] /\ CreditsPerUnit \in Int
  BY RateAssumption, ModelPolicyAssumption DEF Amounts
<1>3. HeldMoves(JobOf[u], r[d] + usage[d], d)
  <2>1. JobMoves(JobOf[u], -Invocations[u], r, usage)
    BY SettledJob DEF JobTables
  <2>2. r[d] \in Int
    BY <1>2
  <2> HIDE DEF r
  <2> QED BY <1>1, <1>2, <2>1, <2>2, JobHolds
<1>4. Charges(d)' = Charges(d) + (-Grant[u][d] + usage[d]) /\ Charges(d) \in Int
  BY <1>2, <1>3 DEF HeldMoves
<1>5. Conserved(d, bucket.credits[d], Charges(d), bucket.at)
  BY RateIsConserved
<1>6. Refill(bucket, now).credits[d] \in Int /\ Conserved(d, Refill(bucket, now).credits[d], Charges(d), now)
  <2>1. now <= now
    BY <1>1
  <2> QED BY <1>1, <1>4, <1>5, <2>1, RefillConserves
<1> DEFINE g == Grant[u][d]
           w == usage[d]
           h == Charges(d)
           c == Refill(bucket, now).credits[d]
           b == bucket'.credits[d]
           k == CreditsPerUnit
<1>7. g \in Int /\ w \in Int /\ h \in Int /\ c \in Int /\ b \in Int /\ k \in Int /\ b <= c + k * (g - w)
  BY <1>2, <1>4, <1>6
<1>8. c + k * h <= Credits(Burst)[d] + RefillRate[d] * now
  BY <1>6 DEF Conserved
<1> HIDE DEF g, w, h, c, b, k
<1>9. /\ k * (h + (-g + w)) = k * h - k * g + k * w /\ k * (g - w) = k * g - k * w
      /\ k * h \in Int /\ k * g \in Int /\ k * w \in Int
  BY <1>7
<1>10. b + k * (h + (-g + w)) <= c + k * h /\ b + k * (h + (-g + w)) \in Int /\ c + k * h \in Int
  BY <1>7, <1>9
<1>11. Credits(Burst)[d] + RefillRate[d] * now \in Int
  BY <1>1, RateAssumption DEF Credits
<1>12. b + k * (h + (-g + w)) <= Credits(Burst)[d] + RefillRate[d] * now
  BY <1>8, <1>10, <1>11
<1> QED BY <1>4, <1>12 DEF Conserved, g, w, h, b, k

LEMMA ReleaseConserves ==
  ASSUME SlotsInv, JobTables, RateConserved, NEW u \in Unit, NEW a \in Attempt, NEW usage \in Amounts,
         NEW kind, NEW until \in Nat, ReleaseModel(u, a, usage, kind, until)
  PROVE  RateAfter
<1> DEFINE head == Refill(bucket, now)
           p == Plus(head.credits, Credits(Minus(Grant[u], usage)))
<1>1. head \in Bucket
  BY RefillValues DEF SlotsInv
<1>2. bucket'.credits = Capped(p) /\ bucket'.at = now
  <2>1. BucketIs(bucket', Capped(p), bucket.active - Invocations[u], Later(bucket.blocked, until), now)
    BY ReleasedBucket DEF SlotsInv
  <2> QED BY <2>1 DEF BucketIs
<1>3. ASSUME NEW d \in Dimension
      PROVE  /\ bucket'.credits[d] \in Int
             /\ bucket'.credits[d] <= head.credits[d] + CreditsPerUnit * (Grant[u][d] - usage[d])
  <2> HIDE DEF head
  <2>1. Grant[u][d] \in Int /\ usage[d] \in Int /\ CreditsPerUnit \in Int /\ Credits(Burst)[d] \in Int
    BY RateAssumption, ModelPolicyAssumption DEF Amounts, Credits
  <2>2. p[d] = head.credits[d] + (Grant[u][d] - usage[d]) * CreditsPerUnit
    BY DEF Plus, Credits, Minus
  <2>3. head.credits[d] \in Int
    BY <1>1 DEF Bucket
  <2>4. bucket'.credits[d] = IF p[d] > Credits(Burst)[d] THEN Credits(Burst)[d] ELSE p[d]
    BY <1>2 DEF Capped
  <2> DEFINE x == (Grant[u][d] - usage[d]) * CreditsPerUnit
  <2>5. x \in Int /\ x = CreditsPerUnit * (Grant[u][d] - usage[d])
    BY <2>1
  <2> HIDE DEF x, p
  <2>6. p[d] = head.credits[d] + x
    BY <2>2 DEF x
  <2>7. bucket'.credits[d] \in Int /\ bucket'.credits[d] <= head.credits[d] + x
    BY <2>1, <2>3, <2>4, <2>5, <2>6
  <2> QED BY <2>5, <2>7
<1>4. jobModel' = Settle(JobOf[u], u, usage, Invocations[u])
  BY DEF ReleaseModel
<1> QED BY <1>2, <1>3, <1>4, SettleConserves

LEMMA OverrunConserves ==
  ASSUME SlotsInv, JobTables, RateConserved, NEW u \in Unit, NEW a \in Attempt, NEW usage \in Amounts,
         ReleaseOverrun(u, a, usage)
  PROVE  RateAfter
<1> DEFINE head == Refill(bucket, now)
           p == Positive(Minus(usage, Grant[u]))
<1>1. head \in Bucket
  BY RefillValues DEF SlotsInv
<1>2. bucket'.credits = Minus(head.credits, Credits(p)) /\ bucket'.at = now
  <2>1. BucketIs(bucket', Minus(head.credits, Credits(p)), bucket.active - Invocations[u], bucket.blocked, now)
    BY OverrunBucket DEF SlotsInv
  <2> QED BY <2>1 DEF BucketIs
<1>3. ASSUME NEW d \in Dimension
      PROVE  /\ bucket'.credits[d] \in Int
             /\ bucket'.credits[d] <= head.credits[d] + CreditsPerUnit * (Grant[u][d] - usage[d])
  <2> HIDE DEF head
  <2>1. Grant[u][d] \in Int /\ usage[d] \in Int /\ CreditsPerUnit \in Nat
    BY RateAssumption, ModelPolicyAssumption DEF Amounts
  <2>2. p[d] \in Int /\ p[d] >= usage[d] - Grant[u][d]
    BY <2>1 DEF Positive, Minus
  <2>3. head.credits[d] \in Int
    BY <1>1 DEF Bucket
  <2> HIDE DEF p
  <2>4. bucket'.credits[d] = head.credits[d] - p[d] * CreditsPerUnit
    BY <1>2 DEF Minus, Credits
  <2> DEFINE g == Grant[u][d]
             w == usage[d]
             q == p[d]
             k == CreditsPerUnit
  <2>5. g \in Int /\ w \in Int /\ k \in Nat /\ q \in Int /\ q - (w - g) \in Nat
    BY <2>1, <2>2
  <2> HIDE DEF g, w, q, k
  <2>6. k * (q - (w - g)) >= 0 /\ k * (q - (w - g)) = k * q - k * w + k * g
        /\ k * (g - w) = k * g - k * w /\ q * k = k * q /\ k * q \in Int /\ k * w \in Int /\ k * g \in Int
    BY <2>5
  <2>7. -(q * k) <= k * (g - w) /\ q * k \in Int /\ k * (g - w) \in Int
    BY <2>6
  <2>8. -(p[d] * CreditsPerUnit) <= CreditsPerUnit * (Grant[u][d] - usage[d])
        /\ p[d] * CreditsPerUnit \in Int /\ CreditsPerUnit * (Grant[u][d] - usage[d]) \in Int
    BY <2>7 DEF g, w, q, k
  <2> QED BY <2>3, <2>4, <2>8
<1>4. jobModel' = Settle(JobOf[u], u, usage, Invocations[u])
  BY DEF ReleaseOverrun
<1> QED BY <1>2, <1>3, <1>4, SettleConserves

\* An operation that charges what was reserved and refills the pool.
LEMMA RefillOnlyConserves ==
  ASSUME SlotsInv, RateConserved,
         \/ bucket'.credits = bucket.credits /\ bucket'.at = bucket.at
         \/ bucket'.credits = Refill(bucket, now).credits /\ bucket'.at = now,
         \A d \in Dimension : Charges(d)' = Charges(d) /\ Charges(d) \in Int
  PROVE  RateAfter
<1> SUFFICES ASSUME NEW d \in Dimension
             PROVE  Conserved(d, bucket'.credits[d], Charges(d)', bucket'.at)
  BY DEF RateAfter
<1>1. bucket \in Bucket /\ now \in Nat /\ bucket.at <= now /\ now <= now
  BY DEF SlotsInv
<1>2. Conserved(d, bucket.credits[d], Charges(d), bucket.at) /\ Charges(d) \in Int /\ Charges(d)' = Charges(d)
  BY RateIsConserved
<1>3. Conserved(d, Refill(bucket, now).credits[d], Charges(d), now)
  BY <1>1, <1>2, RefillConserves
<1>4. CASE bucket'.credits = bucket.credits /\ bucket'.at = bucket.at
  BY <1>2, <1>4
<1>5. CASE bucket'.credits = Refill(bucket, now).credits /\ bucket'.at = now
  BY <1>2, <1>3, <1>5
<1> QED BY <1>4, <1>5

LEMMA AbortConserves ==
  ASSUME SlotsInv, JobTables, RateConserved, NEW j \in Job, NEW S \in SUBSET ModelRows,
         CloseAbortedModel(j, S)
  PROVE  RateAfter
<1> DEFINE r == [e \in Dimension |-> -Grants(S)[e]]
<1>1. JobMoves(j, 0, r, Grants(S)) /\ Grants(S) \in [Dimension -> Int]
  BY AbortedJob, GrantsInt DEF JobTables
<1>2. ASSUME NEW d \in Dimension PROVE Charges(d)' = Charges(d) /\ Charges(d) \in Int
  <2>1. r[d] = -Grants(S)[d] /\ Grants(S)[d] \in Int /\ r[d] \in Int /\ r[d] + Grants(S)[d] = 0
    BY <1>1
  <2> HIDE DEF r
  <2>2. HeldMoves(j, r[d] + Grants(S)[d], d)
    BY <1>1, <2>1, JobHolds
  <2> QED BY <2>1, <2>2 DEF HeldMoves
<1>3. bucket' = IF S = {} THEN bucket ELSE Refill(bucket, now)
  BY DEF CloseAbortedModel
<1>4. Refill(bucket, now).at = now
  BY RefillValues DEF SlotsInv
<1>5. \/ bucket'.credits = bucket.credits /\ bucket'.at = bucket.at
      \/ bucket'.credits = Refill(bucket, now).credits /\ bucket'.at = now
  BY <1>3, <1>4
<1> QED BY <1>2, <1>5, RefillOnlyConserves

LEMMA CancellationConserves ==
  ASSUME SlotsInv, JobTables, RateConserved, NEW u \in Unit, NEW a \in Attempt,
         NEW acknowledged \in BOOLEAN, RecordCancellation(u, a, acknowledged)
  PROVE  RateAfter
<1>1. JobMoves(JobOf[u], -ReleasedUnits(u, acknowledged), None, None) /\ JobOf[u] \in Job
  BY CancelledJob, GraphAssumption DEF JobTables
<1>2. ASSUME NEW d \in Dimension PROVE Charges(d)' = Charges(d) /\ Charges(d) \in Int
  <2>1. None[d] = 0 /\ None[d] \in Int
    BY DEF None
  <2>2. HeldMoves(JobOf[u], None[d] + None[d], d)
    BY <1>1, <2>1, JobHolds
  <2> QED BY <2>1, <2>2 DEF HeldMoves
<1>3. bucket'.credits = Refill(bucket, now).credits /\ bucket'.at = now
  <2>1. BucketIs(bucket', Refill(bucket, now).credits, bucket.active - ReleasedUnits(u, acknowledged),
                 bucket.blocked, now)
    BY CancellationBucket DEF SlotsInv
  <2> QED BY <2>1 DEF BucketIs
<1> QED BY <1>2, <1>3, RefillOnlyConserves

-----------------------------------------------------------------------------
(* The job's budget.  What the attempt overran, and what a job's did.      *)

Overran(v, b, d) == Positive(Minus(modelReservation[v][b].usage, Grant[v]))[d]

JobOverran(j, d) == SumFunctionOnSet([ua \in ModelAttempts(j) |-> Overran(ua[1], ua[2], d)], ModelAttempts(j))

LEMMA BudgetIsHeld ==
  ModelBudgetHeld <=> \A j \in Job : \A d \in Dimension :
                        jobModel[j].reserved[d] + jobModel[j].consumed[d] <= JobModelMax[j][d] + JobOverran(j, d)
BY DEF ModelBudgetHeld, JobOverran, Overran

LEMMA OverranValue ==
  ASSUME ModelRowsType, NEW v \in Unit, NEW b \in Attempt, NEW d \in Dimension
  PROVE  /\ Overran(v, b, d) \in Nat
         /\ Overran(v, b, d) = LET x == modelReservation[v][b].usage[d] - Grant[v][d]
                               IN IF x > 0 THEN x ELSE 0
         /\ modelReservation[v][b].usage[d] \in Nat /\ Grant[v][d] \in Nat \ {0}
<1>1. modelReservation[v][b].usage[d] \in Nat /\ Grant[v][d] \in Nat \ {0}
  BY ModelPolicyAssumption DEF ModelRowsType, ModelReservation, Amounts
<1> QED BY <1>1 DEF Overran, Positive, Minus

LEMMA OverranNat ==
  ASSUME ModelRowsType, NEW j \in Job, NEW d \in Dimension
  PROVE  JobOverran(j, d) \in Nat
<1> DEFINE f == [ua \in ModelAttempts(j) |-> Overran(ua[1], ua[2], d)]
<1>1. \A x \in ModelAttempts(j) : f[x] \in Nat
  BY OverranValue DEF ModelAttempts
<1>2. JobOverran(j, d) = SumFunctionOnSet(f, ModelAttempts(j))
  BY Zenon DEF JobOverran
<1> HIDE DEF f
<1> QED BY <1>1, <1>2, FiniteModelRows, SumNat

\* Rows that overran what they had overran before.
OverranKept(j, d) ==
  \A v \in Unit : \A b \in Attempt : JobOf[v] = j => Overran(v, b, d)' = Overran(v, b, d)

LEMMA SameOverrun ==
  ASSUME NEW j \in Job, NEW d \in Dimension, OverranKept(j, d)
  PROVE  JobOverran(j, d)' = JobOverran(j, d)
<1> DEFINE f == [ua \in ModelAttempts(j) |-> Overran(ua[1], ua[2], d)]
           g == [ua \in ModelAttempts(j) |-> Overran(ua[1], ua[2], d)']
<1>1. \A x \in ModelAttempts(j) : f[x] = g[x]
  BY DEF ModelAttempts, OverranKept
<1>2. JobOverran(j, d) = SumFunctionOnSet(f, ModelAttempts(j))
  BY Zenon DEF JobOverran
<1>3. JobOverran(j, d)' = SumFunctionOnSet(g, ModelAttempts(j))
  BY Zenon DEF JobOverran, ModelAttempts
<1> HIDE DEF f, g
<1> QED BY <1>1, <1>2, <1>3, FiniteModelRows, SumCongruent

\* One row overran more than before.
LEMMA OneOverrun ==
  ASSUME ModelRowsType, NEW u \in Unit, NEW a \in Attempt, NEW d \in Dimension, NEW n \in Int,
         Overran(u, a, d)' = Overran(u, a, d) + n,
         \A v \in Unit : \A b \in Attempt : ~(v = u /\ b = a) => Overran(v, b, d)' = Overran(v, b, d)
  PROVE  JobOverran(JobOf[u], d)' = JobOverran(JobOf[u], d) + n
<1> DEFINE A == ModelAttempts(JobOf[u])
           x == <<u, a>>
           S == {x}
           f == [ua \in A |-> Overran(ua[1], ua[2], d)]
           g == [ua \in A |-> Overran(ua[1], ua[2], d)']
           e == [y \in S |-> n]
<1>1. IsFiniteSet(A) /\ S \in SUBSET A /\ x \in A
  BY FiniteModelRows, GraphAssumption DEF ModelAttempts
<1>2. \A y \in A : f[y] \in Int
  BY OverranValue DEF ModelAttempts
<1>3. g[x] = f[x] + n /\ e[x] = n /\ \A y \in S : y = x
  BY <1>1
<1>4. ASSUME NEW y \in A \ S PROVE g[y] = f[y]
  <2>1. PICK v \in Unit, b \in Attempt : y = <<v, b>>
    BY DEF ModelAttempts
  <2> QED BY <2>1
<1>5. JobOverran(JobOf[u], d) = SumFunctionOnSet(f, A)
  BY Zenon DEF JobOverran
<1>6. JobOverran(JobOf[u], d)' = SumFunctionOnSet(g, A)
  BY Zenon DEF JobOverran, ModelAttempts
<1> HIDE DEF f, g, e, x, A
<1>7. DiffersBy(f, g, A, S, e)
  BY <1>2, <1>3, <1>4 DEF DiffersBy
<1>8. SumFunctionOnSet(e, S) = n
  BY <1>3, SumSingleton
<1> QED BY <1>1, <1>5, <1>6, <1>7, <1>8, SumChange

\* What a usage exceeds a unit's grant by.
OverBy(usage, v, d) == Positive(Minus(usage, Grant[v]))[d]

LEMMA OverByValue ==
  ASSUME NEW v \in Unit, NEW d \in Dimension
  PROVE  /\ OverBy(None, v, d) = 0 /\ OverBy(Grant[v], v, d) = 0
         /\ \A usage \in Amounts : Within(usage, Grant[v]) => OverBy(usage, v, d) = 0
         /\ \A usage \in Amounts :
              /\ usage[d] \in Nat /\ OverBy(usage, v, d) \in Nat
              /\ OverBy(usage, v, d) >= usage[d] - Grant[v][d]
         /\ Grant[v][d] \in Nat
<1>1. Grant[v][d] \in Nat \ {0}
  BY ModelPolicyAssumption
<1>2. OverBy(None, v, d) = 0 /\ OverBy(Grant[v], v, d) = 0
  BY <1>1 DEF OverBy, Positive, Minus, None
<1>3. ASSUME NEW usage \in Amounts
      PROVE  /\ usage[d] \in Nat
             /\ OverBy(usage, v, d) = LET x == usage[d] - Grant[v][d] IN IF x > 0 THEN x ELSE 0
  BY <1>1 DEF OverBy, Positive, Minus, Amounts
<1>4. ASSUME NEW usage \in Amounts, Within(usage, Grant[v]) PROVE OverBy(usage, v, d) = 0
  BY <1>1, <1>3, <1>4 DEF Within
<1> QED BY <1>1, <1>2, <1>3, <1>4

LEMMA OverranIs ==
  ASSUME NEW v, NEW b, NEW d
  PROVE  /\ Overran(v, b, d) = OverBy(modelReservation[v][b].usage, v, d)
         /\ Overran(v, b, d)' = OverBy(modelReservation'[v][b].usage, v, d)
BY DEF Overran, OverBy

\* What the operations on the model tables leave of the budget.
BudgetAfter ==
  \A j \in Job : \A d \in Dimension :
    jobModel'[j].reserved[d] + jobModel'[j].consumed[d] <= JobModelMax[j][d] + JobOverran(j, d)'

\* An operation that gives job j no more, and overruns nothing.
LEMMA BudgetKept ==
  ASSUME ModelRowsType, JobTables, ModelBudgetHeld, NEW j \in Job,
         \A d \in Dimension : \E n \in Int : n <= 0 /\ HeldMoves(j, n, d),
         \A i \in Job : \A d \in Dimension : OverranKept(i, d)
  PROVE  BudgetAfter
<1> SUFFICES ASSUME NEW i \in Job, NEW d \in Dimension
             PROVE  jobModel'[i].reserved[d] + jobModel'[i].consumed[d] <= JobModelMax[i][d] + JobOverran(i, d)'
  BY DEF BudgetAfter
<1>1. JobOverran(i, d)' = JobOverran(i, d) /\ JobOverran(i, d) \in Int
  BY SameOverrun, OverranNat
<1>2. jobModel[i].reserved[d] + jobModel[i].consumed[d] <= JobModelMax[i][d] + JobOverran(i, d)
  BY BudgetIsHeld
<1>3. PICK n \in Int : n <= 0 /\ HeldMoves(j, n, d)
  OBVIOUS
<1>4. CASE i = j
  <2>1. /\ jobModel'[i].reserved[d] + jobModel'[i].consumed[d]
             = jobModel[i].reserved[d] + jobModel[i].consumed[d] + n
        /\ jobModel[i].reserved[d] \in Int /\ jobModel[i].consumed[d] \in Int
    BY <1>3, <1>4 DEF HeldMoves
  <2>2. JobModelMax[i][d] \in Int
    BY ModelPolicyAssumption DEF Amounts
  <2> QED BY <1>1, <1>2, <1>3, <2>1, <2>2
<1>5. CASE i # j
  <2>1. jobModel'[i] = jobModel[i]
    BY <1>3, <1>5 DEF HeldMoves
  <2> QED BY <1>1, <1>2, <2>1
<1> QED BY <1>4, <1>5

\* A row written with a usage that overruns as little as the one before.
LEMMA RowOverranKept ==
  ASSUME NEW u \in Unit, NEW a \in Attempt, NEW row, ModelRowWritten(u, a, row),
         \A d \in Dimension : OverBy(row.usage, u, d) = OverBy(modelReservation[u][a].usage, u, d)
  PROVE  \A i \in Job : \A d \in Dimension : OverranKept(i, d)
<1> SUFFICES ASSUME NEW d \in Dimension, NEW v \in Unit, NEW b \in Attempt
             PROVE  Overran(v, b, d)' = Overran(v, b, d)
  BY DEF OverranKept
<1>1. CASE v = u /\ b = a
  <2>1. modelReservation'[u][a].usage = row.usage
    BY DEF ModelRowWritten
  <2>2. /\ Overran(u, a, d) = OverBy(modelReservation[u][a].usage, u, d)
        /\ Overran(u, a, d)' = OverBy(modelReservation'[u][a].usage, u, d)
    BY OverranIs
  <2> QED BY <1>1, <2>1, <2>2
<1>2. CASE ~(v = u /\ b = a)
  <2>1. modelReservation'[v][b] = modelReservation[v][b]
    BY <1>2 DEF ModelRowWritten
  <2>2. /\ Overran(v, b, d) = OverBy(modelReservation[v][b].usage, v, d)
        /\ Overran(v, b, d)' = OverBy(modelReservation'[v][b].usage, v, d)
    BY OverranIs
  <2> QED BY <2>1, <2>2
<1> QED BY <1>1, <1>2

\* Admission compared the budget with what the grant makes of it.
LEMMA ReserveBudget ==
  ASSUME ModelRowsType, SlotsInv, JobTables, ModelBudgetHeld, NEW u \in Unit, NEW a \in Attempt, NEW head,
         Fits(u, head), modelReservation[u][a].state = "NONE", ReserveModel(u, a, head, now)
  PROVE  BudgetAfter
<1> DEFINE row == [state |-> "ACTIVE", usage |-> None]
           j == JobOf[u]
<1>1. j \in Job /\ JobMoves(j, Invocations[u], Grant[u], None)
  BY GraphAssumption, ReservedJob DEF JobTables
<1>2. ModelRowWritten(u, a, row)
  <2>1. modelReservation' = [modelReservation EXCEPT ![u][a] = row]
    BY DEF ReserveModel
  <2> HIDE DEF row
  <2> QED BY <2>1, ModelRowReplaced
<1>3. row.usage = None
  OBVIOUS
<1>4. modelReservation[u][a].usage = None
  BY DEF SlotsInv, RowsMeasured, Measured
<1> HIDE DEF row
<1>5. \A i \in Job : \A d \in Dimension : OverranKept(i, d)
  BY <1>2, <1>3, <1>4, RowOverranKept
<1> SUFFICES ASSUME NEW i \in Job, NEW d \in Dimension
             PROVE  jobModel'[i].reserved[d] + jobModel'[i].consumed[d] <= JobModelMax[i][d] + JobOverran(i, d)'
  BY DEF BudgetAfter
<1>6. JobOverran(i, d)' = JobOverran(i, d) /\ JobOverran(i, d) \in Nat
  BY <1>5, SameOverrun, OverranNat
<1>7. HeldMoves(j, Grant[u][d] + None[d], d)
  <2>1. Grant[u][d] \in Int /\ None[d] \in Int
    BY ModelPolicyAssumption DEF None
  <2> HIDE DEF j
  <2> QED BY <1>1, <2>1, JobHolds
<1>8. CASE i = j
  <2>1. /\ jobModel[j].reserved[d] \in Int /\ jobModel[j].consumed[d] \in Int /\ Grant[u][d] \in Int
        /\ None[d] = 0 /\ JobModelMax[j][d] \in Int
    BY <1>1, <1>7, ModelPolicyAssumption DEF HeldMoves, None, Amounts
  <2>2. jobModel[j].consumed[d] + jobModel[j].reserved[d] + Grant[u][d] <= JobModelMax[j][d]
    BY <2>1 DEF Fits, Within, Plus
  <2>3. jobModel'[j].reserved[d] + jobModel'[j].consumed[d]
          = jobModel[j].reserved[d] + jobModel[j].consumed[d] + (Grant[u][d] + None[d])
    BY <1>7 DEF HeldMoves
  <2> HIDE DEF j
  <2> QED BY <1>6, <1>8, <2>1, <2>2, <2>3
<1>9. CASE i # j
  <2>1. jobModel'[i] = jobModel[i]
    BY <1>7, <1>9 DEF HeldMoves
  <2>2. jobModel[i].reserved[d] + jobModel[i].consumed[d] <= JobModelMax[i][d] + JobOverran(i, d)
    BY BudgetIsHeld
  <2> QED BY <1>6, <2>1, <2>2
<1> QED BY <1>8, <1>9

LEMMA SettleMoves ==
  ASSUME JobTables, NEW u \in Unit, NEW usage \in Amounts,
         jobModel' = Settle(JobOf[u], u, usage, Invocations[u]), NEW d \in Dimension
  PROVE  HeldMoves(JobOf[u], -Grant[u][d] + usage[d], d)
<1> DEFINE r == [e \in Dimension |-> -Grant[u][e]]
<1>1. Grant[u][d] \in Int /\ usage[d] \in Int /\ r[d] = -Grant[u][d] /\ r[d] \in Int /\ JobOf[u] \in Job
  BY ModelPolicyAssumption, GraphAssumption DEF Amounts
<1>2. JobMoves(JobOf[u], -Invocations[u], r, usage)
  BY SettledJob DEF JobTables
<1> HIDE DEF r
<1>3. HeldMoves(JobOf[u], r[d] + usage[d], d)
  BY <1>1, <1>2, JobHolds
<1> QED BY <1>1, <1>3

LEMMA ReleaseBudget ==
  ASSUME ModelRowsType, SlotsInv, JobTables, ModelBudgetHeld, NEW u \in Unit, NEW a \in Attempt,
         NEW usage \in Amounts, NEW kind, NEW until, ReleaseModel(u, a, usage, kind, until)
  PROVE  BudgetAfter
<1> DEFINE row == [state |-> "RELEASED", usage |-> usage]
<1>1. /\ modelReservation' = [modelReservation EXCEPT ![u][a] = row]
      /\ Within(usage, Grant[u]) /\ modelReservation[u][a].state = "ACTIVE"
      /\ jobModel' = Settle(JobOf[u], u, usage, Invocations[u])
  BY DEF ReleaseModel
<1>2. row.usage = usage
  OBVIOUS
<1> HIDE DEF row
<1>3. ModelRowWritten(u, a, row)
  BY <1>1, ModelRowReplaced
<1>4. modelReservation[u][a].usage = None
  BY <1>1 DEF SlotsInv, RowsMeasured, Measured
<1>5. \A d \in Dimension : OverBy(row.usage, u, d) = OverBy(modelReservation[u][a].usage, u, d)
  BY <1>1, <1>2, <1>4, OverByValue
<1>6. \A i \in Job : \A d \in Dimension : OverranKept(i, d)
  BY <1>3, <1>5, RowOverranKept
<1>7. ASSUME NEW d \in Dimension PROVE \E n \in Int : n <= 0 /\ HeldMoves(JobOf[u], n, d)
  <2>1. HeldMoves(JobOf[u], -Grant[u][d] + usage[d], d)
    BY <1>1, SettleMoves
  <2>2. -Grant[u][d] + usage[d] \in Int /\ -Grant[u][d] + usage[d] <= 0
    BY <1>1, ModelPolicyAssumption DEF Within, Amounts
  <2> QED BY <2>1, <2>2
<1>8. JobOf[u] \in Job
  BY GraphAssumption
<1> QED BY <1>6, <1>7, <1>8, BudgetKept

\* The job is charged for what the attempt overran, and no more.
LEMMA OverrunBudget ==
  ASSUME ModelRowsType, SlotsInv, JobTables, ModelBudgetHeld, NEW u \in Unit, NEW a \in Attempt,
         NEW usage \in Amounts, ReleaseOverrun(u, a, usage)
  PROVE  BudgetAfter
<1> DEFINE row == [state |-> "RELEASED", usage |-> usage]
           j == JobOf[u]
<1>1. /\ modelReservation' = [modelReservation EXCEPT ![u][a] = row]
      /\ modelReservation[u][a].state = "ACTIVE"
      /\ jobModel' = Settle(JobOf[u], u, usage, Invocations[u])
  BY DEF ReleaseOverrun
<1>2. row.usage = usage /\ j \in Job
  BY GraphAssumption
<1> HIDE DEF row
<1>3. ModelRowWritten(u, a, row)
  BY <1>1, ModelRowReplaced
<1>4. modelReservation[u][a].usage = None
  BY <1>1 DEF SlotsInv, RowsMeasured, Measured
<1> SUFFICES ASSUME NEW i \in Job, NEW d \in Dimension
             PROVE  jobModel'[i].reserved[d] + jobModel'[i].consumed[d] <= JobModelMax[i][d] + JobOverran(i, d)'
  BY DEF BudgetAfter
<1>5. jobModel[i].reserved[d] + jobModel[i].consumed[d] <= JobModelMax[i][d] + JobOverran(i, d)
  BY BudgetIsHeld
<1>6. HeldMoves(j, -Grant[u][d] + usage[d], d)
  BY <1>1, SettleMoves
<1>7. ASSUME NEW v \in Unit, NEW b \in Attempt, ~(v = u /\ b = a) PROVE Overran(v, b, d)' = Overran(v, b, d)
  <2>1. modelReservation'[v][b] = modelReservation[v][b]
    BY <1>3, <1>7 DEF ModelRowWritten
  <2>2. /\ Overran(v, b, d) = OverBy(modelReservation[v][b].usage, v, d)
        /\ Overran(v, b, d)' = OverBy(modelReservation'[v][b].usage, v, d)
    BY OverranIs
  <2> QED BY <2>1, <2>2
<1>8. CASE i = j
  <2> DEFINE n == OverBy(usage, u, d)
  <2>1. n \in Nat /\ n >= usage[d] - Grant[u][d] /\ usage[d] \in Nat /\ Grant[u][d] \in Nat
        /\ OverBy(None, u, d) = 0
    BY OverByValue
  <2> HIDE DEF n
  <2>2. Overran(u, a, d)' = Overran(u, a, d) + n
    <3>1. /\ Overran(u, a, d) = OverBy(modelReservation[u][a].usage, u, d)
          /\ Overran(u, a, d)' = OverBy(modelReservation'[u][a].usage, u, d)
      BY OverranIs
    <3>2. modelReservation'[u][a].usage = usage
      BY <1>2, <1>3 DEF ModelRowWritten
    <3> QED BY <1>4, <2>1, <3>1, <3>2 DEF n
  <2>3. JobOverran(j, d)' = JobOverran(j, d) + n /\ JobOverran(j, d) \in Nat
    <3>1. n \in Int
      BY <2>1
    <3> QED BY <1>2, <1>7, <2>2, <3>1, OneOverrun, OverranNat
  <2>4. /\ jobModel'[j].reserved[d] + jobModel'[j].consumed[d]
             = jobModel[j].reserved[d] + jobModel[j].consumed[d] + (-Grant[u][d] + usage[d])
        /\ jobModel[j].reserved[d] \in Int /\ jobModel[j].consumed[d] \in Int
    BY <1>6 DEF HeldMoves
  <2>5. JobModelMax[j][d] \in Int
    BY <1>2, ModelPolicyAssumption DEF Amounts
  <2> HIDE DEF j
  <2> QED BY <1>5, <1>8, <2>1, <2>3, <2>4, <2>5
<1>9. CASE i # j
  <2>1. jobModel'[i] = jobModel[i]
    BY <1>6, <1>9 DEF HeldMoves
  <2>2. OverranKept(i, d)
    BY <1>7, <1>9 DEF OverranKept
  <2>3. JobOverran(i, d)' = JobOverran(i, d)
    BY <2>2, SameOverrun
  <2> QED BY <1>5, <2>1, <2>3
<1> QED BY <1>8, <1>9

LEMMA AbortBudget ==
  ASSUME ModelRowsType, SlotsInv, JobTables, ModelBudgetHeld, NEW j \in Job, NEW S \in SUBSET ModelRows,
         CloseAbortedModel(j, S),
         \A v \in Unit : \A b \in Attempt : <<v, b>> \in S => modelReservation[v][b].state = "ACTIVE"
  PROVE  BudgetAfter
<1> DEFINE r == [e \in Dimension |-> -Grants(S)[e]]
<1>1. JobMoves(j, 0, r, Grants(S)) /\ Grants(S) \in [Dimension -> Int]
  BY AbortedJob, GrantsInt DEF JobTables
<1>2. ASSUME NEW d \in Dimension PROVE \E n \in Int : n <= 0 /\ HeldMoves(j, n, d)
  <2>1. Grants(S)[d] \in Int /\ r[d] \in Int /\ r[d] + Grants(S)[d] = 0
    BY <1>1
  <2> HIDE DEF r
  <2>2. HeldMoves(j, r[d] + Grants(S)[d], d)
    BY <1>1, <2>1, JobHolds
  <2> QED BY <2>1, <2>2
<1>3. ASSUME NEW v \in Unit, NEW b \in Attempt, NEW d \in Dimension PROVE Overran(v, b, d)' = Overran(v, b, d)
  <2>1. modelReservation'[v][b] = IF <<v, b>> \in S
                                  THEN [state |-> "RELEASE_PENDING_ACK", usage |-> Grant[v]]
                                  ELSE modelReservation[v][b]
    BY DEF CloseAbortedModel
  <2>2. /\ Overran(v, b, d) = OverBy(modelReservation[v][b].usage, v, d)
        /\ Overran(v, b, d)' = OverBy(modelReservation'[v][b].usage, v, d)
    BY OverranIs
  <2>3. CASE <<v, b>> \in S
    <3>1. modelReservation[v][b].usage = None
      BY <2>3 DEF SlotsInv, RowsMeasured, Measured
    <3>2. modelReservation'[v][b].usage = Grant[v]
      BY <2>1, <2>3
    <3> QED BY <2>2, <3>1, <3>2, OverByValue
  <2>4. CASE <<v, b>> \notin S
    BY <2>1, <2>2, <2>4
  <2> QED BY <2>3, <2>4
<1>4. \A i \in Job : \A d \in Dimension : OverranKept(i, d)
  BY <1>3 DEF OverranKept
<1> QED BY <1>2, <1>4, BudgetKept

LEMMA CancellationBudget ==
  ASSUME ModelRowsType, JobTables, ModelBudgetHeld, NEW u \in Unit, NEW a \in Attempt,
         NEW acknowledged \in BOOLEAN, RecordCancellation(u, a, acknowledged)
  PROVE  BudgetAfter
<1>1. JobMoves(JobOf[u], -ReleasedUnits(u, acknowledged), None, None) /\ JobOf[u] \in Job
  BY CancelledJob, GraphAssumption DEF JobTables
<1>2. ASSUME NEW d \in Dimension PROVE \E n \in Int : n <= 0 /\ HeldMoves(JobOf[u], n, d)
  <2>1. None[d] \in Int /\ None[d] + None[d] = 0
    BY DEF None
  <2>2. HeldMoves(JobOf[u], None[d] + None[d], d)
    BY <1>1, <2>1, JobHolds
  <2> QED BY <2>1, <2>2
<1>3. \A v \in Unit : \A b \in Attempt : modelReservation'[v][b].usage = modelReservation[v][b].usage
  BY CancellationRows
<1>4. \A i \in Job : \A d \in Dimension : OverranKept(i, d)
  BY <1>3 DEF OverranKept, Overran
<1> QED BY <1>1, <1>2, <1>4, BudgetKept

-----------------------------------------------------------------------------
(* Backpressure.  The head remembers the latest time that any event asked  *)
(* to wait for.                                                            *)

LogInv ==
  /\ poolLog \in Seq(PoolEvent)
  /\ \A k \in DOMAIN poolLog : poolLog[k].blocked <= bucket.blocked
  /\ BackpressureHonoured

LEMMA LogAppended ==
  ASSUME LogInv, bucket \in Bucket, bucket' \in Bucket, NEW e \in PoolEvent, poolLog' = Append(poolLog, e),
         bucket.blocked <= bucket'.blocked, e.blocked <= bucket'.blocked,
         e.kind = "ADMITTED" => bucket.blocked <= e.at
  PROVE  LogInv'
<1> DEFINE n == Len(poolLog)
<1>1. poolLog \in Seq(PoolEvent) /\ poolLog' \in Seq(PoolEvent) /\ n \in Nat
  BY DEF LogInv
<1>2. /\ DOMAIN poolLog = 1..n /\ DOMAIN poolLog' = 1..(n + 1)
      /\ poolLog'[n + 1] = e
      /\ \A k \in 1..n : poolLog'[k] = poolLog[k]
  BY <1>1
<1>3. bucket.blocked \in Nat /\ bucket'.blocked \in Nat
  BY DEF Bucket
<1>4. \A k \in 1..n : poolLog[k].blocked \in Nat /\ poolLog[k].blocked <= bucket.blocked
  <2>1. \A k \in 1..n : poolLog[k] \in PoolEvent
    BY <1>1, <1>2
  <2>2. \A x \in PoolEvent : x.blocked \in Nat
    BY DEF PoolEvent
  <2>3. \A k \in 1..n : poolLog[k].blocked <= bucket.blocked
    BY <1>2 DEF LogInv
  <2> QED BY <2>1, <2>2, <2>3
<1>5. ASSUME NEW k \in DOMAIN poolLog' PROVE poolLog'[k].blocked <= bucket'.blocked
  <2>1. CASE k = n + 1
    BY <1>2, <2>1
  <2>2. CASE k # n + 1
    BY <1>1, <1>2, <1>3, <1>4, <2>2
  <2> QED BY <2>1, <2>2
<1>6. ASSUME NEW k \in DOMAIN poolLog', poolLog'[k].kind = "ADMITTED", NEW i \in 1..(k - 1)
      PROVE  poolLog'[i].blocked <= poolLog'[k].at
  <2>1. i \in 1..n /\ poolLog'[i] = poolLog[i]
    BY <1>1, <1>2
  <2>2. CASE k = n + 1
    <3>1. e.at \in Nat
      BY DEF PoolEvent
    <3> QED BY <1>2, <1>3, <1>4, <1>6, <2>1, <2>2, <3>1
  <2>3. CASE k # n + 1
    <3>1. k \in 1..n /\ poolLog'[k] = poolLog[k]
      BY <1>1, <1>2, <2>3
    <3> QED BY <1>2, <1>6, <2>1, <3>1 DEF LogInv, BackpressureHonoured
  <2> QED BY <2>2, <2>3
<1> QED BY <1>1, <1>5, <1>6 DEF LogInv, BackpressureHonoured

LEMMA LogExtended ==
  ASSUME LogInv, NEW new \in Seq(PoolEvent), poolLog' = poolLog \o new, bucket'.blocked = bucket.blocked,
         bucket \in Bucket, \A i \in DOMAIN new : new[i].kind # "ADMITTED" /\ new[i].blocked = 0
  PROVE  LogInv'
<1> DEFINE n == Len(poolLog)
           m == Len(new)
<1>1. poolLog \in Seq(PoolEvent) /\ poolLog' \in Seq(PoolEvent) /\ n \in Nat /\ m \in Nat
  BY DEF LogInv
<1>2. /\ DOMAIN poolLog = 1..n /\ DOMAIN poolLog' = 1..(n + m) /\ DOMAIN new = 1..m
      /\ \A k \in 1..n : poolLog'[k] = poolLog[k]
      /\ \A k \in 1..(n + m) : k > n => poolLog'[k] = new[k - n]
  BY <1>1
<1>3. bucket.blocked \in Nat
  BY DEF Bucket
<1>4. \A k \in 1..(n + m) : k > n => poolLog'[k].kind # "ADMITTED" /\ poolLog'[k].blocked = 0
  BY <1>1, <1>2
<1>5. ASSUME NEW k \in DOMAIN poolLog' PROVE poolLog'[k].blocked <= bucket'.blocked
  <2>1. CASE k > n
    BY <1>2, <1>3, <1>4, <2>1
  <2>2. CASE ~(k > n)
    <3>1. k \in 1..n
      BY <1>1, <1>2, <2>2
    <3> QED BY <1>2, <3>1 DEF LogInv
  <2> QED BY <2>1, <2>2
<1>6. ASSUME NEW k \in DOMAIN poolLog', poolLog'[k].kind = "ADMITTED", NEW i \in 1..(k - 1)
      PROVE  poolLog'[i].blocked <= poolLog'[k].at
  <2>1. k \in 1..n /\ i \in 1..n
    BY <1>1, <1>2, <1>4, <1>6
  <2> QED BY <1>2, <1>6, <2>1 DEF LogInv, BackpressureHonoured
<1> QED BY <1>1, <1>5, <1>6 DEF LogInv, BackpressureHonoured

\* A pool event with these entries.
EventOf(kind, u, t, usage, refund, released, until) ==
  [kind |-> kind, unit |-> u, at |-> t, usage |-> usage, refund |-> refund, released |-> released,
   blocked |-> until]

LEMMA EventType ==
  ASSUME NEW kind \in EventKind, NEW u \in Unit, NEW t \in Nat, NEW usage \in Amounts, NEW refund \in Amounts,
         NEW released \in Nat, NEW until \in Nat
  PROVE  /\ EventOf(kind, u, t, usage, refund, released, until) \in PoolEvent
         /\ EventOf(kind, u, t, usage, refund, released, until).kind = kind
         /\ EventOf(kind, u, t, usage, refund, released, until).at = t
         /\ EventOf(kind, u, t, usage, refund, released, until).blocked = until
BY DEF EventOf, PoolEvent

LEMMA ReserveLog ==
  ASSUME SlotsInv, LogInv, NEW u \in Unit, NEW a \in Attempt, NEW head, Fits(u, head),
         ReserveModel(u, a, head, now)
  PROVE  LogInv'
<1> DEFINE e == EventOf("ADMITTED", u, now, None, None, 0, 0)
<1>1. head \in Bucket /\ head.blocked = bucket.blocked /\ now \in Nat /\ bucket \in Bucket
  BY RefillValues DEF Fits, SlotsInv
<1>2. BucketIs(bucket', Minus(head.credits, Credits(Grant[u])), head.active + Invocations[u],
               head.blocked, now)
  BY <1>1, ReservedBucket
<1>3. bucket' \in Bucket /\ bucket'.blocked = bucket.blocked
  BY <1>1, <1>2 DEF BucketIs
<1>4. e \in PoolEvent /\ e.at = now /\ e.blocked = 0
  <2>1. "ADMITTED" \in EventKind /\ None \in Amounts /\ 0 \in Nat
    BY UsageAmounts DEF EventKind
  <2> QED BY <1>1, <2>1, EventType
<1>5. poolLog' = Append(poolLog, e)
  BY Zenon DEF ReserveModel, EventOf
<1>6. bucket.blocked <= now /\ bucket.blocked \in Nat
  BY <1>1 DEF Fits, Bucket
<1> HIDE DEF e
<1>7. bucket.blocked <= bucket'.blocked /\ e.blocked <= bucket'.blocked /\ bucket.blocked <= e.at
  BY <1>3, <1>4, <1>6
<1> QED BY <1>1, <1>3, <1>4, <1>5, <1>7, LogAppended

LEMMA ReleaseLog ==
  ASSUME SlotsInv, LogInv, NEW u \in Unit, NEW a \in Attempt, NEW usage \in Amounts,
         NEW kind \in EventKind \ {"ADMITTED"}, NEW until \in Nat, ReleaseModel(u, a, usage, kind, until)
  PROVE  LogInv'
<1> DEFINE refund == Minus(Grant[u], usage)
           n == Invocations[u]
           e == EventOf(kind, u, now, usage, refund, n, until)
<1>1. BucketIs(bucket', Capped(Plus(Refill(bucket, now).credits, Credits(Minus(Grant[u], usage)))),
               bucket.active - Invocations[u], Later(bucket.blocked, until), now)
  BY ReleasedBucket DEF SlotsInv
<1>2. bucket' \in Bucket /\ bucket'.blocked = Later(bucket.blocked, until) /\ bucket \in Bucket
  BY <1>1 DEF BucketIs, SlotsInv
<1>3. bucket.blocked <= bucket'.blocked /\ until <= bucket'.blocked
  BY <1>2 DEF Later, Bucket
<1>4. e \in PoolEvent /\ e.kind = kind /\ e.blocked = until
  <2>1. refund \in Amounts
    BY ModelPolicyAssumption DEF ReleaseModel, Minus, Within, Amounts
  <2>2. n \in Nat /\ now \in Nat
    BY ModelPolicyAssumption DEF SlotsInv
  <2>3. kind \in EventKind
    OBVIOUS
  <2> HIDE DEF refund, n
  <2> QED BY <2>1, <2>2, <2>3, EventType
<1>5. poolLog' = Append(poolLog, e)
  BY Zenon DEF ReleaseModel, EventOf
<1> HIDE DEF e
<1>6. e.blocked <= bucket'.blocked /\ e.kind # "ADMITTED"
  BY <1>3, <1>4
<1> QED BY <1>2, <1>3, <1>4, <1>5, <1>6, LogAppended

LEMMA OverrunLog ==
  ASSUME SlotsInv, LogInv, NEW u \in Unit, NEW a \in Attempt, NEW usage \in Amounts,
         ReleaseOverrun(u, a, usage)
  PROVE  LogInv'
<1> DEFINE e == EventOf("USAGE_OVERRUN_RELEASED", u, now, usage, None, Invocations[u], 0)
<1>1. BucketIs(bucket', Minus(Refill(bucket, now).credits, Credits(Positive(Minus(usage, Grant[u])))),
               bucket.active - Invocations[u], bucket.blocked, now)
  BY OverrunBucket DEF SlotsInv
<1>2. bucket' \in Bucket /\ bucket'.blocked = bucket.blocked /\ bucket \in Bucket
  BY <1>1 DEF BucketIs, SlotsInv
<1>3. e \in PoolEvent /\ e.kind = "USAGE_OVERRUN_RELEASED" /\ e.blocked = 0
  <2>1. "USAGE_OVERRUN_RELEASED" \in EventKind /\ Invocations[u] \in Nat /\ now \in Nat /\ 0 \in Nat
    BY ModelPolicyAssumption DEF SlotsInv, EventKind
  <2>2. None \in Amounts
    BY UsageAmounts
  <2> QED BY <2>1, <2>2, EventType
<1>4. poolLog' = Append(poolLog, e)
  BY Zenon DEF ReleaseOverrun, EventOf
<1> HIDE DEF e
<1>5. bucket.blocked <= bucket'.blocked /\ e.blocked <= bucket'.blocked /\ e.kind # "ADMITTED"
  BY <1>2, <1>3 DEF Bucket
<1> QED BY <1>2, <1>3, <1>4, <1>5, LogAppended

LEMMA CancellationLog ==
  ASSUME SlotsInv, LogInv, NEW u \in Unit, NEW a \in Attempt, NEW acknowledged \in BOOLEAN,
         RecordCancellation(u, a, acknowledged)
  PROVE  LogInv'
<1> DEFINE kind == IF acknowledged THEN "ACKNOWLEDGED_RELEASED" ELSE "QUARANTINED"
           n == ReleasedUnits(u, acknowledged)
           e == EventOf(kind, u, now, None, None, n, 0)
<1>1. BucketIs(bucket', Refill(bucket, now).credits, bucket.active - n, bucket.blocked, now)
  BY CancellationBucket DEF SlotsInv
<1>2. bucket' \in Bucket /\ bucket'.blocked = bucket.blocked /\ bucket \in Bucket
  BY <1>1 DEF BucketIs, SlotsInv
<1>3. kind \in EventKind /\ kind # "ADMITTED" /\ n \in Nat /\ now \in Nat /\ 0 \in Nat
  BY ModelPolicyAssumption DEF EventKind, ReleasedUnits, SlotsInv
<1>4. poolLog' = Append(poolLog, e)
  BY Zenon DEF RecordCancellation, EventOf
<1> HIDE DEF kind, n
<1>5. e \in PoolEvent /\ e.kind = kind /\ e.blocked = 0
  <2>1. None \in Amounts
    BY UsageAmounts
  <2> QED BY <1>3, <2>1, EventType
<1> HIDE DEF e
<1>6. bucket.blocked <= bucket'.blocked /\ e.blocked <= bucket'.blocked /\ e.kind # "ADMITTED"
  BY <1>2, <1>3, <1>5 DEF Bucket
<1> QED BY <1>2, <1>4, <1>5, <1>6, LogAppended

\* A finite set has a sequence of its elements.
LEMMA SetAsSequence ==
  ASSUME NEW S, IsFiniteSet(S)
  PROVE  SetToSeq(S) \in [1..Cardinality(S) -> S] /\ Cardinality(S) \in Nat
<1>1. Cardinality(S) \in Nat /\ ExistsBijection(1..Cardinality(S), S)
  BY FS_CardinalityType
<1>2. PICK f \in [1..Cardinality(S) -> S] : IsInjective(f)
  BY <1>1 DEF ExistsBijection, Bijection, Injection, IsInjective
<1>3. SetToSeq(S) \in [1..Cardinality(S) -> S]
  BY <1>2, Zenon DEF SetToSeq
<1> QED BY <1>1, <1>3

LEMMA AbortLog ==
  ASSUME SlotsInv, LogInv, NEW j \in Job, NEW S \in SUBSET ModelRows, CloseAbortedModel(j, S)
  PROVE  LogInv'
<1> DEFINE q == SetToSeq(S)
           F(i) == EventOf("RELEASE_PENDING_ACK", q[i][1], now, Grant[q[i][1]], None, 0, 0)
           new == [i \in DOMAIN q |-> F(i)]
<1>1. poolLog' = poolLog \o new
  BY Zenon DEF CloseAbortedModel, EventOf
<1>2. q \in [1..Cardinality(S) -> S] /\ Cardinality(S) \in Nat
  BY FiniteModelRows, FS_Subset, SetAsSequence
<1> HIDE DEF q
<1>3. ASSUME NEW i \in DOMAIN q
      PROVE  F(i) \in PoolEvent /\ F(i).kind = "RELEASE_PENDING_ACK" /\ F(i).blocked = 0
  <2>1. q[i][1] \in Unit
    BY <1>2 DEF ModelRows
  <2>2. "RELEASE_PENDING_ACK" \in EventKind /\ now \in Nat /\ 0 \in Nat
    BY DEF EventKind, SlotsInv
  <2>3. Grant[q[i][1]] \in Amounts /\ None \in Amounts
    BY <2>1, UsageAmounts
  <2>4. ASSUME NEW v \in Unit, Grant[v] \in Amounts
        PROVE  LET e == EventOf("RELEASE_PENDING_ACK", v, now, Grant[v], None, 0, 0)
               IN e \in PoolEvent /\ e.kind = "RELEASE_PENDING_ACK" /\ e.blocked = 0
    <3> DEFINE g == Grant[v]
    <3>1. g \in Amounts
      BY <2>4
    <3> HIDE DEF g
    <3>2. LET e == EventOf("RELEASE_PENDING_ACK", v, now, g, None, 0, 0)
          IN e \in PoolEvent /\ e.kind = "RELEASE_PENDING_ACK" /\ e.blocked = 0
      BY <2>2, <2>3, <3>1, EventType
    <3> QED BY <3>2 DEF g
  <2> QED BY <2>1, <2>3, <2>4
<1> HIDE DEF F
<1>4. new \in Seq(PoolEvent)
  BY <1>2, <1>3
<1>5. \A i \in DOMAIN new : new[i].kind # "ADMITTED" /\ new[i].blocked = 0
  BY <1>3
<1>6. bucket'.blocked = bucket.blocked /\ bucket \in Bucket
  <2>1. Refill(bucket, now).blocked = bucket.blocked
    BY RefillValues DEF SlotsInv
  <2> QED BY <2>1 DEF CloseAbortedModel, SlotsInv
<1> HIDE DEF new
<1> QED BY <1>1, <1>4, <1>5, <1>6, LogExtended

-----------------------------------------------------------------------------
(* The accounts of the pool are kept by every operation on its tables.     *)

PoolInv == SlotsInv /\ JobTables /\ RateConserved /\ ModelBudgetHeld /\ LogInv

\* What a step of a service does to the model tables.
TableStep ==
  \/ UNCHANGED <<modelReservation, bucket, poolLog, jobModel, invoking>>
  \/ \E u \in Unit, a \in Attempt :
       \/ InvocationEnds(u, a)
       \/ \E acknowledged \in BOOLEAN : RecordCancellation(u, a, acknowledged)
       \/ \E head : /\ Fits(u, head) /\ modelReservation[u][a].state = "NONE"
                    /\ ReserveModel(u, a, head, now)
       \/ \E usage \in Amounts :
            \/ ReleaseOverrun(u, a, usage)
            \/ \E kind \in EventKind \ {"ADMITTED"}, until \in Nat : ReleaseModel(u, a, usage, kind, until)
  \/ \E j \in Job, S \in SUBSET ModelRows :
       /\ \A v \in Unit : \A b \in Attempt : <<v, b>> \in S => modelReservation[v][b].state = "ACTIVE"
       /\ CloseAbortedModel(j, S)

TimePasses == now' \in Nat /\ now <= now'

LEMMA PoolAfter ==
  ASSUME SlotsInv, TimePasses, SlotsAfter, RateAfter, BudgetAfter, LogInv', JobTables'
  PROVE  PoolInv'
<1>1. bucket'.at <= now'
  <2>1. bucket'.at \in Nat /\ now \in Nat
    BY DEF SlotsAfter, Bucket, SlotsInv
  <2> QED BY <2>1 DEF SlotsAfter, TimePasses
<1>2. SlotsInv'
  BY <1>1 DEF SlotsInv, SlotsAfter, TimePasses
<1>3. RateConserved'
  BY DEF RateAfter, RateConserved, Conserved, Charges
<1>4. ModelBudgetHeld'
  BY DEF BudgetAfter, ModelBudgetHeld, JobOverran, Overran
<1> QED BY <1>2, <1>3, <1>4 DEF PoolInv

LEMMA UntouchedPool ==
  ASSUME PoolInv, TimePasses, UNCHANGED <<modelReservation, bucket, poolLog, jobModel>>,
         InvokingType', RowsMeasured'
  PROVE  PoolInv'
<1>1. SlotsInv'
  <2>1. bucket'.at <= now'
    BY DEF PoolInv, SlotsInv, Bucket, TimePasses
  <2>2. SlotsCounted'
    BY SlotsKept DEF PoolInv, SlotsInv
  <2> QED BY <2>1, <2>2 DEF PoolInv, SlotsInv, TimePasses
<1>2. JobTables' /\ RateConserved'
  BY Zenon DEF PoolInv, JobTables, RateConserved
<1>3. ModelBudgetHeld'
  BY Zenon DEF PoolInv, ModelBudgetHeld, ModelAttempts
<1>4. LogInv'
  BY DEF PoolInv, LogInv, BackpressureHonoured
<1> QED BY <1>1, <1>2, <1>3, <1>4 DEF PoolInv

LEMMA PoolInvStep ==
  ASSUME ModelRowsType, PoolInv, TimePasses, TableStep
  PROVE  PoolInv'
<1>1. SlotsInv /\ JobTables /\ RateConserved /\ ModelBudgetHeld /\ LogInv
  BY DEF PoolInv
<1>2. CASE UNCHANGED <<modelReservation, bucket, poolLog, jobModel, invoking>>
  BY <1>2, UntouchedPool DEF PoolInv, SlotsInv, InvokingType, RowsMeasured
<1>3. ASSUME NEW u \in Unit, NEW a \in Attempt, InvocationEnds(u, a) PROVE PoolInv'
  <2>1. SlotsAfter
    BY <1>1, <1>3, EndSlots
  <2> QED BY <1>3, <2>1, UntouchedPool DEF InvocationEnds, SlotsAfter
<1>4. ASSUME NEW u \in Unit, NEW a \in Attempt, NEW acknowledged \in BOOLEAN,
             RecordCancellation(u, a, acknowledged)
      PROVE  PoolInv'
  <2>1. JobTables'
    BY <1>1, <1>4, CancelledJob DEF JobTables, JobMoves
  <2>2. SlotsAfter /\ RateAfter /\ BudgetAfter /\ LogInv'
    BY <1>1, <1>4, CancellationSlots, CancellationConserves, CancellationBudget, CancellationLog
  <2> QED BY <1>1, <2>1, <2>2, PoolAfter
<1>5. ASSUME NEW u \in Unit, NEW a \in Attempt, NEW head, Fits(u, head),
             modelReservation[u][a].state = "NONE", ReserveModel(u, a, head, now)
      PROVE  PoolInv'
  <2>1. JobTables'
    BY <1>1, <1>5, ReservedJob DEF JobTables, JobMoves
  <2>2. SlotsAfter /\ RateAfter /\ BudgetAfter /\ LogInv'
    BY <1>1, <1>5, ReserveSlots, ReserveConserves, ReserveBudget, ReserveLog
  <2> QED BY <1>1, <2>1, <2>2, PoolAfter
<1>6. ASSUME NEW u \in Unit, NEW a \in Attempt, NEW usage \in Amounts, ReleaseOverrun(u, a, usage)
      PROVE  PoolInv'
  <2>1. JobTables'
    BY <1>1, <1>6, SettledJob DEF JobTables, JobMoves, ReleaseOverrun
  <2>2. SlotsAfter /\ RateAfter /\ BudgetAfter /\ LogInv'
    BY <1>1, <1>6, OverrunSlots, OverrunConserves, OverrunBudget, OverrunLog
  <2> QED BY <1>1, <2>1, <2>2, PoolAfter
<1>7. ASSUME NEW u \in Unit, NEW a \in Attempt, NEW usage \in Amounts,
             NEW kind \in EventKind \ {"ADMITTED"}, NEW until \in Nat, ReleaseModel(u, a, usage, kind, until)
      PROVE  PoolInv'
  <2>1. JobTables'
    BY <1>1, <1>7, SettledJob DEF JobTables, JobMoves, ReleaseModel
  <2>2. SlotsAfter /\ RateAfter /\ BudgetAfter /\ LogInv'
    BY <1>1, <1>7, ReleaseSlots, ReleaseConserves, ReleaseBudget, ReleaseLog
  <2> QED BY <1>1, <2>1, <2>2, PoolAfter
<1>8. ASSUME NEW j \in Job, NEW S \in SUBSET ModelRows, CloseAbortedModel(j, S),
             \A v \in Unit : \A b \in Attempt : <<v, b>> \in S => modelReservation[v][b].state = "ACTIVE"
      PROVE  PoolInv'
  <2>1. JobTables'
    BY <1>1, <1>8, AbortedJob DEF JobTables, JobMoves
  <2>2. SlotsAfter /\ RateAfter /\ BudgetAfter /\ LogInv'
    BY <1>1, <1>8, AbortSlots, AbortConserves, AbortBudget, AbortLog
  <2> QED BY <1>1, <2>1, <2>2, PoolAfter
<1> QED BY <1>2, <1>3, <1>4, <1>5, <1>6, <1>7, <1>8 DEF TableStep

\* The empty tables.
LEMMA PoolInvInit == Init /\ ModelInit => PoolInv
<1> SUFFICES ASSUME Init, ModelInit PROVE PoolInv
  OBVIOUS
<1>1. /\ bucket = FullBucket /\ now = 0 /\ poolLog = <<>>
      /\ jobModel = [j \in Job |-> [active |-> 0, reserved |-> None, consumed |-> None]]
      /\ invoking = [u \in Unit |-> [a \in Attempt |-> FALSE]]
      /\ \A u \in Unit : \A a \in Attempt :
           modelReservation[u][a].state = "NONE" /\ modelReservation[u][a].usage = None
  BY DEF Init, ModelInit, NoModelReservation
<1>2. /\ bucket \in Bucket /\ bucket.at = 0 /\ bucket.active = 0
      /\ \A d \in Dimension : bucket.credits[d] = Credits(Burst)[d] /\ Credits(Burst)[d] \in Int
  <2>1. Credits(Burst) \in [Dimension -> Int]
    BY RateAssumption DEF Credits
  <2> QED BY <1>1, <2>1 DEF FullBucket, Bucket
<1>3. JobTables
  <2>1. None \in [Dimension -> Int]
    BY DEF None
  <2> QED BY <1>1, <2>1 DEF JobTables, JobHead
<1>4. InvokingType /\ RowsMeasured
  BY <1>1 DEF InvokingType, RowsMeasured, Measured
<1>5. SlotsCounted
  <2> DEFINE f == SlotsOf
  <2>1. \A x \in ModelRows : f[x] = 0
    BY <1>1 DEF SlotsOf, ModelRows, SlotState
  <2> HIDE DEF f
  <2>2. SumFunctionOnSet(f, ModelRows) = 0
    BY <2>1, FiniteModelRows, SumZero
  <2> QED BY <1>2, <2>2 DEF SlotsCounted, f
<1>6. SlotsInv
  BY <1>1, <1>2, <1>4, <1>5, RateAssumption DEF SlotsInv
<1>7. ASSUME NEW d \in Dimension PROVE Charges(d) = 0
  <2> DEFINE f == [j \in Job |-> jobModel[j].reserved[d] + jobModel[j].consumed[d]]
  <2>1. \A j \in Job : f[j] = 0
    BY <1>1 DEF None
  <2>2. Charges(d) = SumFunctionOnSet(f, Job)
    BY Zenon DEF Charges
  <2> HIDE DEF f
  <2> QED BY <2>1, <2>2, SumZero, RateAssumption
<1>8. RateConserved
  <2>1. ASSUME NEW d \in Dimension PROVE Conserved(d, bucket.credits[d], Charges(d), bucket.at)
    <3>1. CreditsPerUnit * 0 = 0 /\ RefillRate[d] * 0 = 0
      BY RateAssumption
    <3> QED BY <1>2, <1>7, <3>1 DEF Conserved
  <2> QED BY <2>1, RateIsConserved
<1>9. ModelBudgetHeld
  <2>1. ModelRowsType
    BY UsageAmounts DEF ModelInit, ModelRowsType, NoModelReservation, ModelReservation, ModelOutcome
  <2>2. ASSUME NEW j \in Job, NEW d \in Dimension
        PROVE  jobModel[j].reserved[d] + jobModel[j].consumed[d] <= JobModelMax[j][d] + JobOverran(j, d)
    <3>1. JobOverran(j, d) \in Nat /\ JobModelMax[j][d] \in Nat
      BY <2>1, OverranNat, ModelPolicyAssumption DEF Amounts
    <3>2. jobModel[j].reserved[d] + jobModel[j].consumed[d] = 0
      BY <1>1 DEF None
    <3> QED BY <3>1, <3>2
  <2> QED BY <2>2, BudgetIsHeld
<1>10. LogInv
  BY <1>1 DEF LogInv, BackpressureHonoured
<1> QED BY <1>3, <1>6, <1>8, <1>9, <1>10 DEF PoolInv

-----------------------------------------------------------------------------
(* The service.  Every step of the model operations, also as a part of a   *)
(* combined one, is one of these.                                          *)

ModelStep ==
  \/ /\ UNCHANGED modelVars
     /\ \A v \in Unit : \A b \in Attempt : lease'[v][b].state = lease[v][b].state
  \/ \E u \in Unit, a \in Attempt :
       \/ RefuseModel(u, a)
       \/ InvocationEnds(u, a) /\ lease' = lease
       \/ \E acknowledged \in BOOLEAN : RecordCancellation(u, a, acknowledged) /\ lease' = lease
       \/ /\ modelReservation[u][a].state = "ACTIVE"
          /\ ExpireWorkLease(u, a) /\ CloseAbortedModel(JobOf[u], {<<u, a>>})
       \/ \E h \in Holder : \E head :
            AcquireWorkLease(u, a, h) /\ Fits(u, head) /\ ReserveModel(u, a, head, now)
       \/ \E k \in ClosedState, usage \in Amounts :
            /\ CloseLease(u, a, k)
            /\ \/ ReleaseOverrun(u, a, usage)
               \/ \E kind \in EventKind \ {"ADMITTED"}, until \in Nat :
                    ReleaseModel(u, a, usage, kind, until)
  \/ \E j \in Job : CancelJobWork(j) /\ CloseAbortedModel(j, ActiveModelReservations(j))

LEMMA ModelStepFollows ==
  ASSUME ModelLeaseInv, ModelStep
  PROVE  ModelRowsType' /\ ModelFollowsLease'
<1>1. CASE UNCHANGED modelVars /\ \A v \in Unit : \A b \in Attempt : lease'[v][b].state = lease[v][b].state
  BY <1>1, UntouchedFollows DEF modelVars
<1>2. ASSUME NEW u \in Unit, NEW a \in Attempt, RefuseModel(u, a)
      PROVE  ModelRowsType' /\ ModelFollowsLease'
  BY <1>2, RefuseFollows
<1>3. ASSUME NEW u \in Unit, NEW a \in Attempt, InvocationEnds(u, a), lease' = lease
      PROVE  ModelRowsType' /\ ModelFollowsLease'
  BY <1>3, UntouchedFollows DEF InvocationEnds
<1>4. ASSUME NEW u \in Unit, NEW a \in Attempt, NEW acknowledged \in BOOLEAN,
             RecordCancellation(u, a, acknowledged), lease' = lease
      PROVE  ModelRowsType' /\ ModelFollowsLease'
  BY <1>4, RecordFollows
<1>5. ASSUME NEW u \in Unit, NEW a \in Attempt, modelReservation[u][a].state = "ACTIVE",
             ExpireWorkLease(u, a), CloseAbortedModel(JobOf[u], {<<u, a>>})
      PROVE  ModelRowsType' /\ ModelFollowsLease'
  BY <1>5, ExpireFollows
<1>6. ASSUME NEW u \in Unit, NEW a \in Attempt, NEW h \in Holder, NEW head, AcquireWorkLease(u, a, h),
             ReserveModel(u, a, head, now)
      PROVE  ModelRowsType' /\ ModelFollowsLease'
  BY <1>6, AdmitFollows
<1>7. ASSUME NEW u \in Unit, NEW a \in Attempt, NEW k \in ClosedState, NEW usage \in Amounts,
             CloseLease(u, a, k),
             \/ ReleaseOverrun(u, a, usage)
             \/ \E kind \in EventKind \ {"ADMITTED"}, until \in Nat : ReleaseModel(u, a, usage, kind, until)
      PROVE  ModelRowsType' /\ ModelFollowsLease'
  <2>1. ModelSettled(u, a, usage)
    BY <1>7 DEF ReleaseOverrun, ReleaseModel, ModelSettled
  <2> QED BY <1>7, <2>1, SettleFollows
<1>8. ASSUME NEW j \in Job, CancelJobWork(j), CloseAbortedModel(j, ActiveModelReservations(j))
      PROVE  ModelRowsType' /\ ModelFollowsLease'
  BY <1>8, CancelFollows
<1> QED BY <1>1, <1>2, <1>3, <1>4, <1>5, <1>6, <1>7, <1>8 DEF ModelStep

LEMMA ModelStepIsTableStep ==
  ASSUME ModelLeaseInv, ModelStep
  PROVE  TableStep
<1>1. CASE UNCHANGED modelVars
  BY <1>1 DEF TableStep, modelVars
<1>2. ASSUME NEW u \in Unit, NEW a \in Attempt, RefuseModel(u, a) PROVE TableStep
  BY <1>2 DEF TableStep, RefuseModel
<1>3. ASSUME NEW u \in Unit, NEW a \in Attempt, InvocationEnds(u, a) PROVE TableStep
  BY <1>3 DEF TableStep
<1>4. ASSUME NEW u \in Unit, NEW a \in Attempt, NEW acknowledged \in BOOLEAN,
             RecordCancellation(u, a, acknowledged)
      PROVE  TableStep
  BY <1>4 DEF TableStep
<1>5. ASSUME NEW j \in Job, NEW S \in SUBSET ModelRows, CloseAbortedModel(j, S),
             \A v \in Unit : \A b \in Attempt : <<v, b>> \in S => modelReservation[v][b].state = "ACTIVE"
      PROVE  TableStep
  BY <1>5 DEF TableStep
<1>6. ASSUME NEW u \in Unit, NEW a \in Attempt, modelReservation[u][a].state = "ACTIVE",
             CloseAbortedModel(JobOf[u], {<<u, a>>})
      PROVE  TableStep
  <2>1. JobOf[u] \in Job /\ {<<u, a>>} \in SUBSET ModelRows
    BY GraphAssumption DEF ModelRows
  <2>2. \A v \in Unit : \A b \in Attempt : <<v, b>> \in {<<u, a>>} => modelReservation[v][b].state = "ACTIVE"
    BY <1>6
  <2> QED BY <1>5, <1>6, <2>1, <2>2
<1>7. ASSUME NEW u \in Unit, NEW a \in Attempt, NEW h \in Holder, NEW head, AcquireWorkLease(u, a, h),
             Fits(u, head), ReserveModel(u, a, head, now)
      PROVE  TableStep
  <2>1. ~Exists(u, a)
    BY <1>7, AdmissibleIsUndispatched DEF AcquireWorkLease
  <2>2. modelReservation[u][a].state = "NONE"
    BY <2>1 DEF ModelLeaseInv, ModelFollowsLease
  <2> QED BY <1>7, <2>2, Zenon DEF TableStep
<1>8. ASSUME NEW u \in Unit, NEW a \in Attempt, NEW usage \in Amounts,
             \/ ReleaseOverrun(u, a, usage)
             \/ \E kind \in EventKind \ {"ADMITTED"}, until \in Nat : ReleaseModel(u, a, usage, kind, until)
      PROVE  TableStep
  BY <1>8, Zenon DEF TableStep
<1>9. ASSUME NEW j \in Job, CloseAbortedModel(j, ActiveModelReservations(j)) PROVE TableStep
  <2>1. /\ ActiveModelReservations(j) \in SUBSET ModelRows
        /\ \A v \in Unit : \A b \in Attempt :
             <<v, b>> \in ActiveModelReservations(j) => modelReservation[v][b].state = "ACTIVE"
    BY DEF ActiveModelReservations, ModelRows
  <2> QED BY <1>5, <1>9, <2>1
<1> QED BY <1>1, <1>2, <1>3, <1>4, <1>6, <1>7, <1>8, <1>9 DEF ModelStep

\* The inductive invariant of model control.
ModelInv == ModelLeaseInv /\ PoolInv

LEMMA ModelInvInit == Init /\ ModelInit => ModelInv
<1> SUFFICES ASSUME Init, ModelInit PROVE ModelInv
  OBVIOUS
<1>1. TypeOK
  BY TypeInit
<1>2. ModelRowsType
  BY UsageAmounts DEF ModelInit, ModelRowsType, NoModelReservation, ModelReservation, ModelOutcome
<1>3. ModelFollowsLease
  BY DEF Init, ModelInit, ModelFollowsLease, NoModelReservation, Active, Exists, NoLease
<1>4. PoolInv
  BY PoolInvInit
<1> QED BY <1>1, <1>2, <1>3, <1>4 DEF ModelInv, ModelLeaseInv

\* A step of the store never turns the clock back.
LEMMA ClockMoves ==
  ASSUME TypeOK, [Next]_vars
  PROVE  TimePasses
<1>1. now \in Nat
  BY DEF TypeOK
<1>2. now' = now \/ now' = now + 1
  <2>1. ASSUME NEW u \in Unit, UnitNext(u) PROVE now' = now
    BY <2>1, Zenon DEF UnitNext, RecordWorkReadiness, RecordSkippedItem, InsertSnapshot, ExpireWorkLease,
                AcquireWorkLease, HeartbeatWorkLease, CompleteStageWorkLease, CompleteArtifactGroupWorkLease
  <2> QED BY <2>1 DEF Next, vars, Tick, CancelJobWork, TransitionJob, TransitionItem
<1> QED BY <1>1, <1>2 DEF TimePasses

LEMMA ModelInvKept ==
  ASSUME ModelInv, ModelStep, [Next]_vars
  PROVE  ModelInv'
<1>1. TypeOK /\ TypeOK' /\ TimePasses
  BY TypeStep, ClockMoves DEF ModelInv, ModelLeaseInv
<1>2. ModelRowsType' /\ ModelFollowsLease'
  BY ModelStepFollows DEF ModelInv
<1>3. PoolInv'
  BY <1>1, ModelStepIsTableStep, PoolInvStep DEF ModelInv, ModelLeaseInv
<1> QED BY <1>1, <1>2, <1>3 DEF ModelInv, ModelLeaseInv

\* What an admission decided.
LEMMA AdmittedModelFits ==
  ASSUME SlotsInv, NEW u \in Unit, ModelClassify(u, Refill(bucket, now)) = "ADMITTED"
  PROVE  Fits(u, Refill(bucket, now))
<1> DEFINE head == Refill(bucket, now)
<1>1. head \in Bucket /\ now \in Nat /\ bucket.at <= now /\ now <= now
  BY RefillValues DEF SlotsInv
<1>2. /\ Within(Plus(Plus(jobModel[JobOf[u]].consumed, jobModel[JobOf[u]].reserved), Grant[u]),
                JobModelMax[JobOf[u]])
      /\ ~(head.blocked > now) /\ ~(head.active + Invocations[u] > PoolConcurrent)
  BY DEF ModelClassify
<1>3. head.blocked \in Nat /\ head.active \in Int /\ Invocations[u] \in Nat /\ PoolConcurrent \in Nat
  BY <1>1, ModelPolicyAssumption, RateAssumption DEF Bucket
<1>4. \E t \in Nat : bucket.at <= t /\ t <= now /\ head = Refill(bucket, t)
  BY <1>1
<1> HIDE DEF head
<1>5. head.blocked <= now /\ head.active + Invocations[u] <= PoolConcurrent
  BY <1>1, <1>2, <1>3
<1>6. Fits(u, head)
  BY <1>2, <1>4, <1>5 DEF Fits
<1> QED BY <1>6 DEF head

\* Completions of a stage or an artifact group with their usage.
LEMMA NormalizedIsTime ==
  ASSUME now \in Nat, NEW wait \in 1..MaxBackpressure
  PROVE  NormalizedEligibleAt(wait) \in Nat
BY RateAssumption, ModelPolicyAssumption DEF NormalizedEligibleAt, Later

LEMMA ModelNextIsModelStep ==
  ASSUME ModelInv, [ModelNext]_<<vars, modelVars>>
  PROVE  ModelStep
<1>1. TypeOK /\ SlotsInv /\ now \in Nat
  BY DEF ModelInv, ModelLeaseInv, PoolInv, TypeOK
<1>2. CASE UNCHANGED <<vars, modelVars>>
  BY <1>2 DEF ModelStep, vars
<1>3. CASE (Tick \/ StoreNext) /\ UNCHANGED modelVars
  BY <1>1, <1>3, StoreKeepsStates DEF ModelStep
<1>4. ASSUME NEW j \in Job, CancelModelJob(j) PROVE ModelStep
  BY <1>4 DEF ModelStep, CancelModelJob
<1>5. ASSUME NEW u \in Unit, NEW a \in Attempt,
             \/ RefuseModel(u, a) \/ ExpireModel(u, a) \/ (InvocationEnds(u, a) /\ UNCHANGED vars)
             \/ \E acknowledged \in BOOLEAN : RecordCancellation(u, a, acknowledged) /\ UNCHANGED vars
      PROVE  ModelStep
  BY <1>5 DEF ModelStep, ExpireModel, vars
<1>6. ASSUME NEW u \in Unit, NEW a \in Attempt, NEW h \in Holder, AdmitModel(u, a, h) PROVE ModelStep
  <2> DEFINE head == Refill(bucket, now)
  <2>1. AcquireWorkLease(u, a, h) /\ ReserveModel(u, a, head, now) /\ Fits(u, head)
    BY <1>1, <1>6, AdmittedModelFits DEF AdmitModel
  <2> HIDE DEF head
  <2> QED BY <2>1, Zenon DEF ModelStep
<1>7. ASSUME NEW u \in Unit, NEW a \in Attempt, NEW h \in Holder, NEW usage \in ModelUsage(u),
             \/ CompleteUsageOverrun(u, a, h, usage)
             \/ \E wait \in 1..MaxBackpressure : CompleteStageBackpressured(u, a, h, usage, wait)
             \/ \E status \in TERMINAL_STAGE_STATUSES, retryable \in BOOLEAN :
                  CompleteModelStage(u, a, h, status, retryable, usage)
             \/ \E kind \in {"SUCCEEDED", "RETRYABLE_FAILURE", "TERMINAL_FAILURE"} :
                  CompleteModelArtifactGroup(u, a, h, kind, usage)
      PROVE  ModelStep
  <2>1. usage \in Amounts
    BY UsageAmounts
  <2>2. \E k \in ClosedState : CloseLease(u, a, k)
    <3>1. "RETRYABLE_FAILURE" \in TERMINAL_STAGE_STATUSES /\ TRUE \in BOOLEAN
      BY DEF TERMINAL_STAGE_STATUSES, RETRYABLE_STAGE_STATUSES
    <3> QED BY <1>7, <3>1, CompletionsClose DEF CompleteUsageOverrun, CompleteStageBackpressured,
                                              CompleteModelStage, CompleteModelArtifactGroup
  <2>3. \/ ReleaseOverrun(u, a, usage)
        \/ \E kind \in EventKind \ {"ADMITTED"}, until \in Nat : ReleaseModel(u, a, usage, kind, until)
    <3>1. /\ "COMPLETED_RELEASED" \in EventKind \ {"ADMITTED"} /\ 0 \in Nat
          /\ "BACKPRESSURED_RELEASED" \in EventKind \ {"ADMITTED"}
          /\ \A wait \in 1..MaxBackpressure : NormalizedEligibleAt(wait) \in Nat
      BY <1>1, NormalizedIsTime DEF EventKind
    <3> QED BY <1>7, <3>1 DEF CompleteUsageOverrun, CompleteStageBackpressured, CompleteModelStage,
                              CompleteModelArtifactGroup
  <2> QED BY <2>1, <2>2, <2>3, Zenon DEF ModelStep
<1> QED BY <1>2, <1>3, <1>4, <1>5, <1>6, <1>7 DEF ModelNext, ModelUnitNext

\* The accounts of the pool and of the jobs, with the rows they are about.
THEOREM ModelSafety == ModelSpec => []ModelInv
<1>1. ModelInv /\ [ModelNext]_<<vars, modelVars>> => ModelInv'
  BY ModelNextIsModelStep, ModelStepIsWorkStep, ModelInvKept
<1> QED BY <1>1, ModelInvInit, PTL DEF ModelSpec

\* Every lease of a model-controlled job has a reservation, active exactly as
\* long as the lease: acquire, the completions, expire and cancel_job move
\* both in one transaction.
THEOREM ModelLeaseSafety == ModelSpec => []ModelFollowsLease
<1>1. ModelInv => ModelFollowsLease
  BY DEF ModelInv, ModelLeaseInv
<1> QED BY <1>1, ModelSafety, PTL

\* The invocations open at the provider never exceed the pool's concurrency,
\* also when leases expire or jobs are cancelled under them: a slot is given
\* back by a completion or an acknowledged cancellation only.
THEOREM InvocationSafety == ModelSpec => []InvocationsBounded
<1>1. ModelInv => InvocationsBounded
  BY SlotsBoundInvocations DEF ModelInv, PoolInv
<1> QED BY <1>1, ModelSafety, PTL

\* Credits are never created: refills, refunds, aborts and overruns keep what
\* the pool offers and what was granted and charged under burst and refill.
THEOREM RateSafety == ModelSpec => []RateConserved
<1>1. ModelInv => RateConserved
  BY DEF ModelInv, PoolInv
<1> QED BY <1>1, ModelSafety, PTL

\* A job passes its model budget only by what its attempts overran.
THEOREM BudgetSafety == ModelSpec => []ModelBudgetHeld
<1>1. ModelInv => ModelBudgetHeld
  BY DEF ModelInv, PoolInv
<1> QED BY <1>1, ModelSafety, PTL

\* No attempt is admitted before the latest time that an earlier answer of the
\* provider asked to wait for.
THEOREM BackpressureSafety == ModelSpec => []BackpressureHonoured
<1>1. ModelInv => BackpressureHonoured
  BY DEF ModelInv, PoolInv, LogInv
<1> QED BY <1>1, ModelSafety, PTL

-----------------------------------------------------------------------------
(* The wait hint.                                                          *)

\* The largest of finitely many naturals.
LEMMA MaxValue ==
  ASSUME NEW S, IsFiniteSet(S), S # {}, \A x \in S : x \in Nat
  PROVE  Max(S) \in S /\ \A y \in S : Max(S) >= y
<1>1. \E x \in S : \A y \in S : x >= y
  BY LargestElement
<1> QED BY <1>1, Zenon DEF Max

\* Rounding up: the least number of ticks that brings n credits.
LEMMA CeilDivValue ==
  ASSUME NEW n \in Nat \ {0}, NEW k \in Nat \ {0}
  PROVE  /\ CeilDiv(n, k) \in Nat \ {0}
         /\ CeilDiv(n, k) * k >= n
         /\ (CeilDiv(n, k) - 1) * k < n
<1> DEFINE m == n + k - 1
           q == m \div k
           r == m % k
<1>1. m \in Nat /\ m >= k
  OBVIOUS
<1>2. q \in Int /\ r \in 0..(k - 1) /\ m = k * q + r
  BY <1>1
<1> HIDE DEF q, r
<1>3. k * q >= n /\ k * q < n + k /\ k * q \in Int
  BY <1>2
<1>4. q >= 1
  <2>1. CASE q <= 0
    <3>1. k * q <= 0
      BY <1>2, <2>1
    <3> QED BY <1>3, <3>1
  <2> QED BY <1>2, <2>1
<1>5. q * k = k * q /\ (q - 1) * k = k * q - k
  BY <1>2
<1>6. CeilDiv(n, k) = q
  BY DEF CeilDiv, q
<1> QED BY <1>2, <1>3, <1>4, <1>5, <1>6

\* Credits that unit u lacks on dimension d, and the ticks that bring them.
Lack(u, head, d) == Credits(Grant[u])[d] - head.credits[d]
Ticks(u, head, d) == CeilDiv(Lack(u, head, d), RefillRate[d])
Lacking(u, head) == {d \in Dimension : Credits(Grant[u])[d] > head.credits[d]}

\* The refilled head covers the grant on a dimension from the tick on that
\* brings the last credit lacking.
LEMMA CoveredFrom ==
  ASSUME NEW u \in Unit, NEW head \in Bucket, NEW t \in Nat, head.at <= t, Within(Grant[u], Burst),
         NEW d \in Dimension
  PROVE  /\ d \in Lacking(u, head) => /\ Ticks(u, head, d) \in Nat \ {0}
                                      /\ Credits(Grant[u])[d] <= Refill(head, t).credits[d]
                                           <=> Ticks(u, head, d) <= t - head.at
         /\ d \notin Lacking(u, head) => Credits(Grant[u])[d] <= Refill(head, t).credits[d]
<1> DEFINE g == Credits(Grant[u])[d]
           b == Credits(Burst)[d]
           c == head.credits[d]
           k == RefillRate[d]
           n == Ticks(u, head, d)
           s == t - head.at
           y == Refill(head, t).credits[d]
<1>1. c \in Int /\ k \in Nat \ {0} /\ s \in Nat
  BY RateAssumption DEF Bucket
<1>2. g \in Int /\ b \in Int /\ g <= b
  <2>1. Grant[u][d] \in Nat /\ Burst[d] \in Nat /\ Grant[u][d] <= Burst[d] /\ CreditsPerUnit \in Nat
    BY RateAssumption, ModelPolicyAssumption DEF Within
  <2>2. Grant[u][d] * CreditsPerUnit <= Burst[d] * CreditsPerUnit
        /\ Grant[u][d] * CreditsPerUnit \in Int /\ Burst[d] * CreditsPerUnit \in Int
    BY <2>1
  <2> QED BY <2>2 DEF Credits
<1>3. y = (IF c + s * k > b THEN b ELSE c + s * k) /\ s * k \in Nat
  <2>1. /\ Refilled(head, t, d) = c + s * k
        /\ y = IF Refilled(head, t, d) > b THEN b ELSE Refilled(head, t, d)
    BY RefillValues DEF Refilled
  <2>2. s * k \in Nat
    BY <1>1
  <2> QED BY <2>1, <2>2
<1> HIDE DEF g, b, c, k, s, y
<1>4. g <= y <=> g <= c + s * k
  BY <1>1, <1>2, <1>3
<1>5. d \in Lacking(u, head) <=> g > c
  BY DEF Lacking, g, c
<1>6. CASE g > c
  <2> DEFINE l == g - c
  <2>1. l \in Nat \ {0} /\ (g <= c + s * k <=> l <= s * k)
    BY <1>1, <1>2, <1>3, <1>6
  <2>2. n = CeilDiv(l, k)
    BY DEF n, Ticks, Lack, g, c, k
  <2> HIDE DEF l, n
  <2>3. n \in Nat \ {0} /\ n * k >= l /\ (n - 1) * k < l
    BY <1>1, <2>1, <2>2, CeilDivValue
  <2>4. n <= s => l <= s * k
    <3>1. n <= s => n * k <= s * k
      BY <1>1, <2>3
    <3>2. n * k \in Int /\ s * k \in Int
      BY <1>1, <2>3
    <3> QED BY <2>1, <2>3, <3>1, <3>2
  <2>5. s < n => ~(l <= s * k)
    <3>1. s < n => s * k <= (n - 1) * k
      BY <1>1, <2>3
    <3>2. (n - 1) * k \in Int /\ s * k \in Int
      BY <1>1, <2>3
    <3> QED BY <2>1, <2>3, <3>1, <3>2
  <2>6. n <= s <=> l <= s * k
    BY <1>1, <2>3, <2>4, <2>5
  <2> QED BY <1>4, <1>5, <1>6, <2>1, <2>3, <2>6 DEF n, s, g, y
<1>7. CASE ~(g > c)
  <2>1. g <= y
    BY <1>1, <1>2, <1>3, <1>4, <1>7
  <2> QED BY <1>5, <1>7, <2>1 DEF g, y
<1> QED BY <1>6, <1>7

\* The decision WAITING_RATE names the first time at which the refilled pool
\* covers the grant.
LEMMA WaitIsExact == SlotsInv => WaitHintExact
<1> SUFFICES ASSUME SlotsInv, NEW u \in Unit, ModelClassify(u, Refill(bucket, now)) = "WAITING_RATE"
             PROVE  LET head == Refill(bucket, now)
                    IN /\ EligibleAt(u, head) > now
                       /\ RateCovers(u, Refill(head, EligibleAt(u, head)))
                       /\ ~RateCovers(u, Refill(head, EligibleAt(u, head) - 1))
  BY DEF WaitHintExact
<1> DEFINE head == Refill(bucket, now)
           D == Lacking(u, head)
           K == {Ticks(u, head, d) : d \in D}
           m == Max(K)
<1>1. head \in Bucket /\ head.at = now /\ now \in Nat
  BY RefillValues DEF SlotsInv
<1>2. Within(Grant[u], Burst) /\ ~RateCovers(u, head)
  BY DEF ModelClassify
<1>3. EligibleAt(u, head) = now + m
  BY DEF EligibleAt, Ticks, Lack, Lacking
<1> HIDE DEF head
<1>4. ASSUME NEW t \in Nat, now <= t, NEW d \in Dimension
      PROVE  /\ d \in D => /\ Ticks(u, head, d) \in Nat \ {0}
                           /\ Credits(Grant[u])[d] <= Refill(head, t).credits[d]
                                <=> Ticks(u, head, d) <= t - now
             /\ d \notin D => Credits(Grant[u])[d] <= Refill(head, t).credits[d]
  BY <1>1, <1>2, <1>4, CoveredFrom
<1>5. D \in SUBSET Dimension /\ IsFiniteSet(D) /\ D # {}
  <2>1. D \in SUBSET Dimension
    BY DEF Lacking
  <2>2. PICK d \in Dimension : ~(Credits(Grant[u])[d] <= head.credits[d])
    BY <1>2 DEF RateCovers, Within
  <2>3. Credits(Grant[u])[d] \in Int /\ head.credits[d] \in Int
    BY <1>1, RateAssumption, ModelPolicyAssumption DEF Credits, Bucket
  <2>4. d \in D
    BY <2>2, <2>3 DEF Lacking
  <2>5. IsFiniteSet(D)
    BY <2>1, FS_Subset, RateAssumption
  <2> QED BY <2>1, <2>4, <2>5
<1>6. \A x \in K : x \in Nat /\ x # 0
  <2>1. now <= now
    BY <1>1
  <2> QED BY <1>1, <1>4, <1>5, <2>1
<1>7. IsFiniteSet(K) /\ K # {}
  <2> HIDE DEF D
  <2>1. IsFiniteSet(K)
    <3> DEFINE f == [d \in D |-> Ticks(u, head, d)]
    <3>1. f \in Surjection(D, K)
      BY DEF Surjection
    <3> HIDE DEF f, K
    <3> QED BY <1>5, <3>1, FS_Surjection
  <2> QED BY <1>5, <2>1
<1>8. m \in K /\ \A x \in K : m >= x
  <2> HIDE DEF K
  <2> QED BY <1>6, <1>7, MaxValue
<1>9. \A d \in D : Ticks(u, head, d) \in K
  OBVIOUS
<1>10. PICK w \in D : m = Ticks(u, head, w)
  BY <1>8
<1>11. m \in Nat \ {0}
  BY <1>6, <1>8
<1> HIDE DEF D, K, m
<1> DEFINE t == now + m
<1>12. t \in Nat /\ now <= t /\ t - now = m /\ t - 1 \in Nat /\ now <= t - 1 /\ (t - 1) - now = m - 1
       /\ t > now
  BY <1>1, <1>11
<1> HIDE DEF t
<1>13. RateCovers(u, Refill(head, t))
  <2>1. ASSUME NEW d \in Dimension PROVE Credits(Grant[u])[d] <= Refill(head, t).credits[d]
    <3>1. CASE d \in D
      <4>1. Ticks(u, head, d) <= m /\ Ticks(u, head, d) \in Nat
        BY <1>6, <1>8, <1>9, <1>11, <3>1
      <4> QED BY <1>4, <1>12, <3>1, <4>1
    <3>2. CASE d \notin D
      BY <1>4, <1>12, <3>2
    <3> QED BY <3>1, <3>2
  <2> QED BY <2>1 DEF RateCovers, Within
<1>14. ~RateCovers(u, Refill(head, t - 1))
  <2>1. ~(m <= m - 1)
    BY <1>11
  <2>2. w \in Dimension /\ w \in D
    BY <1>5, <1>10
  <2>3. ~(Credits(Grant[u])[w] <= Refill(head, t - 1).credits[w])
    BY <1>4, <1>10, <1>12, <2>1, <2>2
  <2> QED BY <2>2, <2>3 DEF RateCovers, Within
<1>15. EligibleAt(u, head) = t
  BY <1>3 DEF t
<1> QED BY <1>12, <1>13, <1>14, <1>15 DEF head

\* A caller that waits for the time named in a WAITING_RATE decision finds the
\* rate covered then, and at no earlier tick.
THEOREM WaitHintSafety == ModelSpec => []WaitHintExact
<1>1. ModelInv => WaitHintExact
  BY WaitIsExact DEF ModelInv, PoolInv
<1> QED BY <1>1, ModelSafety, PTL

-----------------------------------------------------------------------------
(* The pool's head and its replay.  Rebuilding folds the events from left  *)
(* to right: Replayed(log, i) is the head after the first i of them.       *)

ReplayStep(log, s, g) ==
  IF s = {} THEN FullBucket ELSE Replay(g[s \ {Max(s)}], log[Max(s)])

\* g is the recursive function by which the fold of n events is defined.
IsReplay(log, n, g) == g = [s \in SUBSET (1..n) |-> ReplayStep(log, s, g)]

Replayed(log, n) == (CHOOSE g : IsReplay(log, n, g))[1..n]

LEMMA FoldIsReplayed ==
  ASSUME NEW log, DOMAIN log = 1..Len(log)
  PROVE  FoldLeft(Replay, FullBucket, log) = Replayed(log, Len(log))
BY Zenon DEF FoldLeft, MapThenFoldSet, Replayed, IsReplay, ReplayStep

LEMMA PrefixMax ==
  ASSUME NEW i \in Nat
  PROVE  /\ 1..(i + 1) # {} /\ Max(1..(i + 1)) = i + 1 /\ (1..(i + 1)) \ {i + 1} = 1..i
         /\ 1..0 = {}
         /\ \A s \in SUBSET (1..(i + 1)) : i + 1 \in s => Max(s) = i + 1
<1>1. ASSUME NEW s \in SUBSET (1..(i + 1)), i + 1 \in s PROVE Max(s) = i + 1
  <2>1. IsFiniteSet(1..(i + 1))
    BY FS_Interval
  <2>2. IsFiniteSet(s)
    BY <2>1, FS_Subset, Zenon
  <2>3. (\A x \in s : x \in Nat) /\ s # {}
    BY <1>1
  <2>4. Max(s) \in s /\ \A y \in s : Max(s) >= y
    BY <2>2, <2>3, MaxValue, Zenon
  <2>5. Max(s) \in 1..(i + 1) /\ Max(s) >= i + 1
    BY <1>1, <2>4
  <2> QED BY <2>5
<1>2. i + 1 \in 1..(i + 1)
  OBVIOUS
<1> QED BY <1>1, <1>2

LEMMA ReplayExists ==
  ASSUME NEW log, NEW n \in Nat
  PROVE  \E g : IsReplay(log, n, g)
<1> DEFINE G == {i \in Nat : \E g : IsReplay(log, i, g)}
<1>1. 0 \in G
  <2> DEFINE g == [s \in SUBSET (1..0) |-> FullBucket]
  <2>1. 1..0 = {}
    OBVIOUS
  <2>2. \A s \in SUBSET (1..0) : s = {}
    BY <2>1
  <2>3. g = [s \in SUBSET (1..0) |-> ReplayStep(log, s, g)]
    BY <2>2 DEF ReplayStep
  <2> HIDE DEF g
  <2> QED BY <2>3, Zenon DEF IsReplay
<1>2. ASSUME NEW i \in Nat, i \in G PROVE i + 1 \in G
  <2>1. PICK h : IsReplay(log, i, h)
    BY <1>2
  <2> DEFINE g == [s \in SUBSET (1..(i + 1)) |->
                     IF i + 1 \in s THEN Replay(h[s \ {i + 1}], log[i + 1]) ELSE h[s]]
  <2>2. \A s \in SUBSET (1..i) : s \in SUBSET (1..(i + 1)) /\ i + 1 \notin s
    OBVIOUS
  <2>3. \A s \in SUBSET (1..i) : g[s] = h[s]
    BY <2>2
  <2>4. \A s \in SUBSET (1..i) : h[s] = ReplayStep(log, s, h)
    BY <2>1, Zenon DEF IsReplay
  <2>5. ASSUME NEW s \in SUBSET (1..(i + 1)) PROVE g[s] = ReplayStep(log, s, g)
    <3>1. CASE i + 1 \in s
      <4>1. Max(s) = i + 1 /\ s # {}
        BY <3>1, PrefixMax
      <4>2. s \ {i + 1} \in SUBSET (1..i)
        OBVIOUS
      <4>3. g[s] = Replay(h[s \ {i + 1}], log[i + 1])
        BY <3>1
      <4>4. g[s \ {i + 1}] = h[s \ {i + 1}]
        BY <2>3, <4>2
      <4> HIDE DEF g
      <4> QED BY <4>1, <4>3, <4>4 DEF ReplayStep
    <3>2. CASE i + 1 \notin s
      <4>1. s \in SUBSET (1..i)
        BY <3>2
      <4>2. g[s] = ReplayStep(log, s, h)
        BY <2>3, <2>4, <4>1
      <4>3. CASE s = {}
        BY <4>2, <4>3 DEF ReplayStep
      <4>4. CASE s # {}
        <5>1. s \ {Max(s)} \in SUBSET (1..i)
          BY <4>1
        <5>2. g[s \ {Max(s)}] = h[s \ {Max(s)}]
          BY <2>3, <5>1
        <5> HIDE DEF g
        <5> QED BY <4>2, <4>4, <5>2 DEF ReplayStep
      <4> QED BY <4>3, <4>4
    <3> QED BY <3>1, <3>2
  <2>6. g = [s \in SUBSET (1..(i + 1)) |-> ReplayStep(log, s, g)]
    <3>1. g = [s \in SUBSET (1..(i + 1)) |-> g[s]]
      OBVIOUS
    <3> HIDE DEF g
    <3>2. [s \in SUBSET (1..(i + 1)) |-> g[s]] = [s \in SUBSET (1..(i + 1)) |-> ReplayStep(log, s, g)]
      BY <2>5, Zenon
    <3> QED BY <3>1, <3>2, Zenon
  <2> HIDE DEF g
  <2>7. IsReplay(log, i + 1, g)
    BY <2>6, Zenon DEF IsReplay
  <2> QED BY <2>7
<1> HIDE DEF G
<1>3. n \in G
  BY <1>1, <1>2, NaturalsInSet
<1> QED BY <1>3 DEF G

\* g replays m events of k, h replays n of l, and the logs share the first i.
AgreeTo(i, k, l, m, n, g, h) ==
  /\ m \in Nat /\ n \in Nat /\ i \in Nat /\ i <= m /\ i <= n
  /\ IsReplay(k, m, g) /\ IsReplay(l, n, h)
  /\ \A x \in 1..i : k[x] = l[x]

AgreeAt(i, g, h) == g[1..i] = h[1..i]

LEMMA ReplayPrefix ==
  ASSUME NEW i, NEW k, NEW l, NEW m, NEW n, NEW g, NEW h, AgreeTo(i, k, l, m, n, g, h)
  PROVE  AgreeAt(i, g, h)
<1> m \in Nat /\ n \in Nat /\ i \in Nat /\ i <= m /\ i <= n
  BY DEF AgreeTo
<1> IsReplay(k, m, g) /\ IsReplay(l, n, h) /\ \A x \in 1..i : k[x] = l[x]
  BY Zenon DEF AgreeTo
<1> DEFINE G == {x \in Nat : x <= i => g[1..x] = h[1..x]}
<1>1. /\ \A s \in SUBSET (1..m) : g[s] = ReplayStep(k, s, g)
      /\ \A s \in SUBSET (1..n) : h[s] = ReplayStep(l, s, h)
  BY Zenon DEF IsReplay
<1>2. 0 \in G
  <2>1. 1..0 = {} /\ {} \in SUBSET (1..m) /\ {} \in SUBSET (1..n)
    OBVIOUS
  <2>2. g[{}] = FullBucket /\ h[{}] = FullBucket
    BY <1>1, <2>1 DEF ReplayStep
  <2>3. g[1..0] = h[1..0]
    BY <2>1, <2>2
  <2> QED BY <2>3
<1>3. ASSUME NEW x \in Nat, x \in G PROVE x + 1 \in G
  <2> SUFFICES ASSUME x + 1 <= i PROVE g[1..(x + 1)] = h[1..(x + 1)]
    OBVIOUS
  <2>1. g[1..x] = h[1..x]
    BY <1>3
  <2>2. 1..(x + 1) \in SUBSET (1..m) /\ 1..(x + 1) \in SUBSET (1..n)
    OBVIOUS
  <2>3. /\ g[1..(x + 1)] = Replay(g[1..x], k[x + 1])
        /\ h[1..(x + 1)] = Replay(h[1..x], l[x + 1])
    <3>1. /\ g[1..(x + 1)] = ReplayStep(k, 1..(x + 1), g)
          /\ h[1..(x + 1)] = ReplayStep(l, 1..(x + 1), h)
      BY <1>1, <2>2
    <3>2. 1..(x + 1) # {} /\ Max(1..(x + 1)) = x + 1 /\ (1..(x + 1)) \ {x + 1} = 1..x
      BY PrefixMax
    <3> QED BY <3>1, <3>2, Zenon DEF ReplayStep
  <2>4. k[x + 1] = l[x + 1]
    OBVIOUS
  <2> QED BY <2>1, <2>3, <2>4, Zenon
<1> HIDE DEF G
<1>4. i \in G
  BY <1>2, <1>3, NaturalsInSet
<1> QED BY <1>4 DEF G, AgreeAt

\* The fold, one event at a time.
LEMMA ReplayedEvents ==
  ASSUME NEW log, NEW i \in Nat
  PROVE  /\ Replayed(log, 0) = FullBucket
         /\ Replayed(log, i + 1) = Replay(Replayed(log, i), log[i + 1])
<1> DEFINE g(n) == CHOOSE f : IsReplay(log, n, f)
<1>1. \A n \in Nat : IsReplay(log, n, g(n))
  BY ReplayExists, Zenon
<1>2. \A n \in Nat : Replayed(log, n) = g(n)[1..n]
  BY Zenon DEF Replayed
<1> HIDE DEF g
<1>3. \A n \in Nat : \A s \in SUBSET (1..n) : g(n)[s] = ReplayStep(log, s, g(n))
  BY <1>1, Zenon DEF IsReplay
<1>4. Replayed(log, 0) = FullBucket
  <2>1. 1..0 = {} /\ 1..0 \in SUBSET (1..0) /\ 0 \in Nat
    OBVIOUS
  <2>2. g(0)[1..0] = ReplayStep(log, 1..0, g(0))
    BY <1>3, <2>1
  <2> QED BY <1>2, <2>1, <2>2 DEF ReplayStep
<1>5. Replayed(log, i + 1) = Replay(Replayed(log, i), log[i + 1])
  <2>1. i + 1 \in Nat /\ i <= i + 1 /\ i <= i /\ 1..(i + 1) \in SUBSET (1..(i + 1))
    OBVIOUS
  <2>2. g(i + 1)[1..(i + 1)] = ReplayStep(log, 1..(i + 1), g(i + 1))
    BY <1>3, <2>1
  <2>3. g(i + 1)[1..i] = g(i)[1..i]
    <3>1. IsReplay(log, i + 1, g(i + 1)) /\ IsReplay(log, i, g(i))
      BY <1>1, <2>1
    <3>2. \A x \in 1..i : log[x] = log[x]
      OBVIOUS
    <3>3. AgreeTo(i, log, log, i + 1, i, g(i + 1), g(i))
      BY <2>1, <3>1, <3>2, Zenon DEF AgreeTo
    <3>4. AgreeAt(i, g(i + 1), g(i))
      BY <3>3, ReplayPrefix, Zenon
    <3> QED BY <3>4, Zenon DEF AgreeAt
  <2>4. 1..(i + 1) # {} /\ Max(1..(i + 1)) = i + 1 /\ (1..(i + 1)) \ {i + 1} = 1..i
    BY PrefixMax
  <2>5. ReplayStep(log, 1..(i + 1), g(i + 1)) = Replay(g(i + 1)[1..i], log[i + 1])
    BY <2>4, Zenon DEF ReplayStep
  <2> QED BY <1>2, <2>1, <2>2, <2>3, <2>5
<1> QED BY <1>4, <1>5

\* Events added at the end leave the replay of the others alone.
LEMMA ReplayedPrefix ==
  ASSUME NEW k, NEW l, NEW i \in Nat, \A x \in 1..i : k[x] = l[x]
  PROVE  Replayed(k, i) = Replayed(l, i)
<1> DEFINE g == CHOOSE f : IsReplay(k, i, f)
           h == CHOOSE f : IsReplay(l, i, f)
<1>1. IsReplay(k, i, g) /\ IsReplay(l, i, h)
  BY ReplayExists, Zenon
<1>2. Replayed(k, i) = g[1..i] /\ Replayed(l, i) = h[1..i]
  BY Zenon DEF Replayed
<1> HIDE DEF g, h
<1>3. i <= i
  OBVIOUS
<1>4. g[1..i] = h[1..i]
  <2>1. AgreeTo(i, k, l, i, i, g, h)
    BY <1>1, <1>3, Zenon DEF AgreeTo
  <2>2. AgreeAt(i, g, h)
    BY <2>1, ReplayPrefix, Zenon
  <2> QED BY <2>2, Zenon DEF AgreeAt
<1> QED BY <1>2, <1>4

LEMMA EventFields ==
  ASSUME NEW kind, NEW u, NEW t, NEW usage, NEW refund, NEW released, NEW until, NEW e,
         e = EventOf(kind, u, t, usage, refund, released, until)
  PROVE  /\ e.kind = kind /\ e.unit = u /\ e.at = t /\ e.usage = usage
         /\ e.refund = refund /\ e.released = released /\ e.blocked = until
BY DEF EventOf

\* Credits that one event moves.
ReplayedCredits(h, e) ==
  CASE e.kind = "ADMITTED" -> Minus(h.credits, Credits(Grant[e.unit]))
    [] e.kind = "USAGE_OVERRUN_RELEASED" ->
         Minus(h.credits, Credits(Positive(Minus(e.usage, Grant[e.unit]))))
    [] OTHER -> Capped(Plus(h.credits, Credits(e.refund)))

ReplayedActive(h, e) ==
  IF e.kind = "ADMITTED" THEN h.active + Invocations[e.unit] ELSE h.active - e.released

LEMMA ReplayBucket ==
  ASSUME NEW head \in Bucket, NEW e, e.at \in Nat, head.at <= e.at, e.blocked \in Nat,
         ReplayedCredits(Refill(head, e.at), e) \in [Dimension -> Int],
         ReplayedActive(Refill(head, e.at), e) \in Int
  PROVE  BucketIs(Replay(head, e), ReplayedCredits(Refill(head, e.at), e),
                  ReplayedActive(Refill(head, e.at), e), Later(head.blocked, e.blocked), e.at)
<1> DEFINE h == Refill(head, e.at)
           c == ReplayedCredits(h, e)
           n == ReplayedActive(h, e)
           b == Later(h.blocked, e.blocked)
<1>1. h \in Bucket /\ h.blocked = head.blocked /\ h.at = e.at
  BY RefillValues
<1>2. Replay(head, e) = [h EXCEPT !.credits = c, !.active = n, !.blocked = b]
  BY DEF Replay, ReplayedCredits, ReplayedActive
<1>3. c \in [Dimension -> Int] /\ n \in Int
  OBVIOUS
<1> HIDE DEF h
<1>4. b \in Nat
  BY <1>1 DEF Bucket, Later
<1> HIDE DEF c, n, b
<1>5. BucketIs(Replay(head, e), c, n, b, h.at)
  BY <1>1, <1>2, <1>3, <1>4 DEF BucketIs, Bucket
<1> QED BY <1>1, <1>5 DEF c, n, b, h

LEMMA SameBucket ==
  ASSUME NEW x, NEW y, NEW c, NEW n, NEW b, NEW t, BucketIs(x, c, n, b, t), BucketIs(y, c, n, b, t)
  PROVE  x = y
BY DEF BucketIs, Bucket

\* The head is the replay of the events.
HeadReplayed == bucket = Replayed(poolLog, Len(poolLog))

LEMMA HeadAppended ==
  ASSUME HeadReplayed, LogInv, NEW e, poolLog' = Append(poolLog, e), bucket' = Replay(bucket, e)
  PROVE  HeadReplayed'
<1> DEFINE n == Len(poolLog)
<1>1. poolLog \in Seq(PoolEvent) /\ n \in Nat
  BY DEF LogInv
<1>2. Len(poolLog') = n + 1 /\ poolLog'[n + 1] = e /\ \A x \in 1..n : poolLog'[x] = poolLog[x]
  BY <1>1
<1>3. Replayed(poolLog', n) = bucket
  BY <1>1, <1>2, ReplayedPrefix DEF HeadReplayed
<1>4. Replayed(poolLog', n + 1) = Replay(Replayed(poolLog', n), poolLog'[n + 1])
  BY <1>1, ReplayedEvents
<1> HIDE DEF n
<1> QED BY <1>2, <1>3, <1>4, Zenon DEF HeadReplayed

\* The head refilled now.
LEMMA RefilledHead ==
  ASSUME SlotsInv
  PROVE  /\ bucket \in Bucket /\ now \in Nat /\ bucket.at <= now
         /\ Refill(bucket, now) \in Bucket
         /\ Refill(bucket, now).active = bucket.active
         /\ Refill(bucket, now).blocked = bucket.blocked
         /\ Refill(bucket, now).at = now
         /\ Later(bucket.blocked, 0) = bucket.blocked
BY RefillValues DEF SlotsInv, Later, Bucket

LEMMA ReserveReplays ==
  ASSUME SlotsInv, LogInv, HeadReplayed, NEW u \in Unit, NEW a \in Attempt,
         ReserveModel(u, a, Refill(bucket, now), now)
  PROVE  HeadReplayed'
<1> DEFINE h == Refill(bucket, now)
           e == EventOf("ADMITTED", u, now, None, None, 0, 0)
<1>1. bucket \in Bucket /\ now \in Nat /\ bucket.at <= now /\ Later(bucket.blocked, 0) = bucket.blocked
  BY RefilledHead
<1>2. h \in Bucket /\ h.active = bucket.active /\ h.blocked = bucket.blocked
  BY RefilledHead
<1>3. BucketIs(bucket', Minus(h.credits, Credits(Grant[u])), h.active + Invocations[u], h.blocked, now)
  BY <1>1, <1>2, ReservedBucket
<1>4. e.kind = "ADMITTED" /\ e.unit = u /\ e.at = now /\ e.blocked = 0
  BY EventFields
<1>5. poolLog' = Append(poolLog, e)
  BY Zenon DEF ReserveModel, EventOf
<1>6. Refill(bucket, e.at) = h
  BY <1>4
<1> HIDE DEF h, e
<1>7. /\ ReplayedCredits(h, e) = Minus(h.credits, Credits(Grant[u]))
      /\ ReplayedActive(h, e) = h.active + Invocations[u]
  BY <1>4 DEF ReplayedCredits, ReplayedActive
<1>8. ReplayedCredits(h, e) \in [Dimension -> Int] /\ ReplayedActive(h, e) \in Int
  BY <1>3, <1>7 DEF BucketIs, Bucket
<1>9. BucketIs(Replay(bucket, e), ReplayedCredits(h, e), ReplayedActive(h, e), Later(bucket.blocked, 0), now)
  BY <1>1, <1>4, <1>6, <1>8, ReplayBucket
<1>10. bucket' = Replay(bucket, e)
  BY <1>1, <1>2, <1>3, <1>7, <1>9, SameBucket
<1> QED BY <1>5, <1>10, HeadAppended

LEMMA ReleaseReplays ==
  ASSUME SlotsInv, LogInv, HeadReplayed, NEW u \in Unit, NEW a \in Attempt, NEW usage \in Amounts,
         NEW kind \in EventKind \ {"ADMITTED", "USAGE_OVERRUN_RELEASED"}, NEW until \in Nat,
         ReleaseModel(u, a, usage, kind, until)
  PROVE  HeadReplayed'
<1> DEFINE h == Refill(bucket, now)
           refund == Minus(Grant[u], usage)
           c == Capped(Plus(h.credits, Credits(refund)))
           n == Invocations[u]
           e == EventOf(kind, u, now, usage, refund, n, until)
<1>1. bucket \in Bucket /\ now \in Nat /\ bucket.at <= now /\ h.active = bucket.active
  BY RefilledHead
<1>2. BucketIs(bucket', c, bucket.active - n, Later(bucket.blocked, until), now)
  BY <1>1, ReleasedBucket
<1>3. e.kind = kind /\ e.at = now /\ e.refund = refund /\ e.released = n /\ e.blocked = until
  BY EventFields
<1>4. poolLog' = Append(poolLog, e)
  BY Zenon DEF ReleaseModel, EventOf
<1>5. Refill(bucket, e.at) = h
  BY <1>3
<1>6. ReplayedCredits(h, e) = Capped(Plus(h.credits, Credits(e.refund)))
  <2>1. e.kind # "ADMITTED" /\ e.kind # "USAGE_OVERRUN_RELEASED"
    BY <1>3
  <2> HIDE DEF e, h
  <2> QED BY <2>1 DEF ReplayedCredits
<1>7. ReplayedCredits(h, e) = c
  BY <1>3, <1>6
<1> HIDE DEF h, e, c, n
<1>8. ReplayedActive(h, e) = bucket.active - n
  BY <1>1, <1>3 DEF ReplayedActive
<1>9. ReplayedCredits(h, e) \in [Dimension -> Int] /\ ReplayedActive(h, e) \in Int
  BY <1>2, <1>7, <1>8 DEF BucketIs, Bucket
<1>10. BucketIs(Replay(bucket, e), ReplayedCredits(h, e), ReplayedActive(h, e),
                Later(bucket.blocked, until), now)
  BY <1>1, <1>3, <1>5, <1>9, ReplayBucket
<1>11. bucket' = Replay(bucket, e)
  BY <1>2, <1>7, <1>8, <1>10, SameBucket
<1> QED BY <1>4, <1>11, HeadAppended

LEMMA OverrunReplays ==
  ASSUME SlotsInv, LogInv, HeadReplayed, NEW u \in Unit, NEW a \in Attempt, NEW usage \in Amounts,
         ReleaseOverrun(u, a, usage)
  PROVE  HeadReplayed'
<1> DEFINE h == Refill(bucket, now)
           c == Minus(h.credits, Credits(Positive(Minus(usage, Grant[u]))))
           n == Invocations[u]
           e == EventOf("USAGE_OVERRUN_RELEASED", u, now, usage, None, n, 0)
<1>1. /\ bucket \in Bucket /\ now \in Nat /\ bucket.at <= now /\ h.active = bucket.active
      /\ Later(bucket.blocked, 0) = bucket.blocked
  BY RefilledHead
<1>2. BucketIs(bucket', c, bucket.active - n, bucket.blocked, now)
  BY <1>1, OverrunBucket
<1>3. /\ e.kind = "USAGE_OVERRUN_RELEASED" /\ e.unit = u /\ e.at = now /\ e.usage = usage
      /\ e.released = n /\ e.blocked = 0
  BY EventFields
<1>4. poolLog' = Append(poolLog, e)
  BY Zenon DEF ReleaseOverrun, EventOf
<1>5. Refill(bucket, e.at) = h
  BY <1>3
<1>6. ReplayedCredits(h, e) = Minus(h.credits, Credits(Positive(Minus(e.usage, Grant[e.unit]))))
  <2> HIDE DEF e, h
  <2> QED BY <1>3 DEF ReplayedCredits
<1>7. ReplayedCredits(h, e) = c
  BY <1>3, <1>6
<1> HIDE DEF h, e, c, n
<1>8. ReplayedActive(h, e) = bucket.active - n
  BY <1>1, <1>3 DEF ReplayedActive
<1>9. ReplayedCredits(h, e) \in [Dimension -> Int] /\ ReplayedActive(h, e) \in Int
  BY <1>2, <1>7, <1>8 DEF BucketIs, Bucket
<1>10. BucketIs(Replay(bucket, e), ReplayedCredits(h, e), ReplayedActive(h, e), Later(bucket.blocked, 0), now)
  BY <1>1, <1>3, <1>5, <1>9, ReplayBucket
<1>11. bucket' = Replay(bucket, e)
  BY <1>1, <1>2, <1>7, <1>8, <1>10, SameBucket
<1> QED BY <1>4, <1>11, HeadAppended

\* A refilled head is full at most: an event that refunds nothing leaves its
\* credits.
LEMMA NothingRefunded ==
  ASSUME NEW h \in Bucket, \A d \in Dimension : h.credits[d] <= Credits(Burst)[d]
  PROVE  Capped(Plus(h.credits, Credits(None))) = h.credits
<1>1. Credits(None) = None /\ Credits(Burst) \in [Dimension -> Int]
  BY RateAssumption DEF Credits, None
<1>2. h.credits \in [Dimension -> Int]
  BY DEF Bucket
<1>3. Plus(h.credits, None) = h.credits
  BY <1>2 DEF Plus, None
<1>4. Capped(h.credits) = h.credits
  BY <1>1, <1>2 DEF Capped
<1> QED BY <1>1, <1>3, <1>4

LEMMA RefilledIsCapped ==
  ASSUME NEW head \in Bucket, NEW t \in Nat, head.at <= t
  PROVE  \A d \in Dimension : Refill(head, t).credits[d] <= Credits(Burst)[d]
BY RefillValues

LEMMA CancellationReplays ==
  ASSUME SlotsInv, LogInv, HeadReplayed, NEW u \in Unit, NEW a \in Attempt,
         NEW acknowledged \in BOOLEAN, RecordCancellation(u, a, acknowledged)
  PROVE  HeadReplayed'
<1> DEFINE h == Refill(bucket, now)
           kind == IF acknowledged THEN "ACKNOWLEDGED_RELEASED" ELSE "QUARANTINED"
           n == ReleasedUnits(u, acknowledged)
           e == EventOf(kind, u, now, None, None, n, 0)
<1>1. /\ bucket \in Bucket /\ now \in Nat /\ bucket.at <= now /\ h.active = bucket.active
      /\ h \in Bucket /\ Later(bucket.blocked, 0) = bucket.blocked
  BY RefilledHead
<1>2. BucketIs(bucket', h.credits, bucket.active - n, bucket.blocked, now)
  BY <1>1, CancellationBucket
<1>3. e.kind = kind /\ e.at = now /\ e.refund = None /\ e.released = n /\ e.blocked = 0
  BY EventFields
<1>4. poolLog' = Append(poolLog, e)
  BY Zenon DEF RecordCancellation, EventOf
<1>5. Refill(bucket, e.at) = h
  BY <1>3
<1>6. e.kind # "ADMITTED" /\ e.kind # "USAGE_OVERRUN_RELEASED"
  BY <1>3
<1>7. \A d \in Dimension : h.credits[d] <= Credits(Burst)[d]
  BY <1>1, RefilledIsCapped
<1> HIDE DEF h, e, n
<1>8. ReplayedCredits(h, e) = h.credits
  <2>1. ReplayedCredits(h, e) = Capped(Plus(h.credits, Credits(e.refund)))
    BY <1>6 DEF ReplayedCredits
  <2> QED BY <1>1, <1>3, <1>7, <2>1, NothingRefunded
<1>9. ReplayedActive(h, e) = bucket.active - n
  BY <1>1, <1>3, <1>6 DEF ReplayedActive
<1>10. ReplayedCredits(h, e) \in [Dimension -> Int] /\ ReplayedActive(h, e) \in Int
  BY <1>2, <1>8, <1>9 DEF BucketIs, Bucket
<1>11. BucketIs(Replay(bucket, e), ReplayedCredits(h, e), ReplayedActive(h, e), Later(bucket.blocked, 0), now)
  BY <1>1, <1>3, <1>5, <1>10, ReplayBucket
<1>12. bucket' = Replay(bucket, e)
  BY <1>1, <1>2, <1>8, <1>9, <1>11, SameBucket
<1> QED BY <1>4, <1>12, HeadAppended

\* The event of an aborted attempt only brings the clock of the head forward.
LEMMA AbortedReplay ==
  ASSUME NEW head \in Bucket, NEW t \in Nat, head.at <= t, NEW e, e.kind = "RELEASE_PENDING_ACK",
         e.at = t, e.refund = None, e.released = 0, e.blocked = 0
  PROVE  Replay(head, e) = Refill(head, t)
<1> DEFINE h == Refill(head, t)
<1>1. /\ h \in Bucket /\ h.active = head.active /\ h.blocked = head.blocked /\ h.at = t
      /\ \A d \in Dimension : h.credits[d] <= Credits(Burst)[d]
  BY RefillValues, RefilledIsCapped
<1>2. Refill(head, e.at) = h
  OBVIOUS
<1> HIDE DEF h
<1>3. ReplayedCredits(h, e) = h.credits
  <2>1. e.kind # "ADMITTED" /\ e.kind # "USAGE_OVERRUN_RELEASED"
    OBVIOUS
  <2>2. ReplayedCredits(h, e) = Capped(Plus(h.credits, Credits(e.refund)))
    BY <2>1 DEF ReplayedCredits
  <2> QED BY <1>1, <2>2, NothingRefunded
<1>4. ReplayedActive(h, e) = h.active /\ Later(head.blocked, e.blocked) = h.blocked
  BY <1>1 DEF ReplayedActive, Bucket, Later
<1>5. ReplayedCredits(h, e) \in [Dimension -> Int] /\ ReplayedActive(h, e) \in Int
  BY <1>1, <1>3, <1>4 DEF Bucket
<1>6. BucketIs(Replay(head, e), h.credits, h.active, h.blocked, t)
  BY <1>2, <1>3, <1>4, <1>5, ReplayBucket
<1>7. BucketIs(h, h.credits, h.active, h.blocked, t)
  BY <1>1 DEF BucketIs
<1>8. Replay(head, e) = h
  BY <1>6, <1>7, SameBucket
<1> QED BY <1>8 DEF h

\* A head that was refilled at t is unchanged by a refill at t.
LEMMA RefilledTwice ==
  ASSUME NEW head \in Bucket, NEW t \in Nat, head.at = t,
         \A d \in Dimension : head.credits[d] <= Credits(Burst)[d]
  PROVE  Refill(head, t) = head
<1>1. \A d \in Dimension : Refilled(head, t, d) = head.credits[d] + 0 * RefillRate[d]
  BY DEF Refilled
<1>2. \A d \in Dimension : RefillRate[d] \in Nat /\ head.credits[d] \in Int /\ Credits(Burst)[d] \in Int
  BY RateAssumption DEF Bucket, Credits
<1>3. \A d \in Dimension : Refilled(head, t, d) = head.credits[d]
  BY <1>1, <1>2
<1>4. /\ Refill(head, t) \in Bucket /\ Refill(head, t).active = head.active
      /\ Refill(head, t).blocked = head.blocked /\ Refill(head, t).at = t
      /\ \A d \in Dimension : Refill(head, t).credits[d] = IF Refilled(head, t, d) > Credits(Burst)[d]
                                                           THEN Credits(Burst)[d] ELSE Refilled(head, t, d)
  BY RefillValues
<1>5. Refill(head, t).credits = head.credits
  <2>1. Refill(head, t).credits \in [Dimension -> Int] /\ head.credits \in [Dimension -> Int]
    BY <1>4 DEF Bucket
  <2>2. \A d \in Dimension : Refill(head, t).credits[d] = head.credits[d]
    BY <1>2, <1>3, <1>4
  <2> QED BY <2>1, <2>2
<1>6. /\ BucketIs(Refill(head, t), head.credits, head.active, head.blocked, t)
      /\ BucketIs(head, head.credits, head.active, head.blocked, t)
  BY <1>4, <1>5 DEF BucketIs
<1> QED BY <1>6, SameBucket

LEMMA Concatenated ==
  ASSUME NEW E, NEW s \in Seq(E), NEW t \in Seq(E)
  PROVE  /\ Len(s \o t) = Len(s) + Len(t)
         /\ \A x \in 1..Len(s) : (s \o t)[x] = s[x]
         /\ \A x \in 1..Len(t) : (s \o t)[Len(s) + x] = t[x]
<1>1. Len(s) \in Nat /\ Len(t) \in Nat /\ Len(s \o t) = Len(s) + Len(t)
  OBVIOUS
<1>2. \A x \in 1..(Len(s) + Len(t)) : (s \o t)[x] = IF x <= Len(s) THEN s[x] ELSE t[x - Len(s)]
  OBVIOUS
<1>3. ASSUME NEW x \in 1..Len(t)
      PROVE  Len(s) + x \in 1..(Len(s) + Len(t)) /\ ~(Len(s) + x <= Len(s)) /\ (Len(s) + x) - Len(s) = x
  BY <1>1
<1>4. \A x \in 1..Len(s) : x \in 1..(Len(s) + Len(t)) /\ x <= Len(s)
  BY <1>1
<1> QED BY <1>1, <1>2, <1>3, <1>4

LEMMA AbortReplays ==
  ASSUME SlotsInv, LogInv, HeadReplayed, NEW j \in Job, NEW S \in SUBSET ModelRows,
         CloseAbortedModel(j, S)
  PROVE  HeadReplayed'
<1> DEFINE q == SetToSeq(S)
           F(i) == EventOf("RELEASE_PENDING_ACK", q[i][1], now, Grant[q[i][1]], None, 0, 0)
           new == [i \in DOMAIN q |-> F(i)]
           n == Len(poolLog)
           m == Cardinality(S)
           h == Refill(bucket, now)
<1>1. poolLog' = poolLog \o new
  BY Zenon DEF CloseAbortedModel, EventOf
<1>2. IsFiniteSet(S)
  BY FiniteModelRows, FS_Subset
<1>3. q \in [1..m -> S] /\ m \in Nat
  BY <1>2, SetAsSequence
<1>4. m = 0 <=> S = {}
  BY <1>2, FS_EmptySet
<1>5. /\ bucket \in Bucket /\ now \in Nat /\ bucket.at <= now /\ h \in Bucket /\ h.at = now
      /\ \A d \in Dimension : h.credits[d] <= Credits(Burst)[d]
  BY RefilledHead, RefilledIsCapped
<1>6. bucket' = IF S = {} THEN bucket ELSE h
  BY DEF CloseAbortedModel
<1> HIDE DEF q, m, h
<1>7. ASSUME NEW i \in 1..m
      PROVE  /\ new[i].kind = "RELEASE_PENDING_ACK" /\ new[i].at = now /\ new[i].refund = None
             /\ new[i].released = 0 /\ new[i].blocked = 0
  <2>1. new[i] = F(i)
    BY <1>3
  <2> HIDE DEF new
  <2> QED BY <2>1, EventFields
<1> DEFINE V == {F(i) : i \in 1..m}
<1>8. new \in Seq(V) /\ Len(new) = m
  <2>1. \A i \in 1..m : F(i) \in V
    OBVIOUS
  <2> HIDE DEF F, V
  <2>2. new \in [1..m -> V]
    BY <1>3, <2>1
  <2> HIDE DEF new
  <2> QED BY <1>3, <2>2
<1> HIDE DEF new, V
<1>9. poolLog \in Seq(PoolEvent) /\ n \in Nat
  BY DEF LogInv
<1>10. /\ Len(poolLog') = n + m
       /\ \A x \in 1..n : poolLog'[x] = poolLog[x]
       /\ \A i \in 1..m : poolLog'[n + i] = new[i]
  <2> DEFINE p == poolLog
  <2>1. p \in Seq(PoolEvent) /\ n = Len(p) /\ poolLog' = p \o new
    BY <1>1, <1>9
  <2> HIDE DEF p, n, F
  <2>2. /\ Len(p \o new) = n + m
        /\ \A x \in 1..n : (p \o new)[x] = p[x]
        /\ \A i \in 1..m : (p \o new)[n + i] = new[i]
    <3>1. p \in Seq(PoolEvent \cup V) /\ new \in Seq(PoolEvent \cup V)
      BY <1>8, <2>1
    <3> QED BY <1>8, <2>1, <3>1, Concatenated
  <2> QED BY <2>1, <2>2 DEF p
<1> HIDE DEF n
<1>11. Replayed(poolLog', n) = bucket
  BY <1>9, <1>10, ReplayedPrefix DEF HeadReplayed, n
<1>12. \A i \in Nat : Replayed(poolLog', n + i + 1) = Replay(Replayed(poolLog', n + i), poolLog'[n + i + 1])
  <2> SUFFICES ASSUME NEW i \in Nat
               PROVE  Replayed(poolLog', n + i + 1) = Replay(Replayed(poolLog', n + i), poolLog'[n + i + 1])
    OBVIOUS
  <2>1. n + i \in Nat
    BY <1>9
  <2> QED BY <2>1, ReplayedEvents
<1> DEFINE G == {i \in Nat : i < m => Replayed(poolLog', n + i + 1) = h}
<1>13. \A i \in Nat : i < m => \A b \in Bucket : b.at <= now => Replay(b, poolLog'[n + i + 1]) = Refill(b, now)
  <2> SUFFICES ASSUME NEW i \in Nat, i < m, NEW b \in Bucket, b.at <= now
               PROVE  Replay(b, poolLog'[n + i + 1]) = Refill(b, now)
    OBVIOUS
  <2>1. i + 1 \in 1..m /\ n + (i + 1) = n + i + 1
    BY <1>3, <1>9
  <2>2. poolLog'[n + i + 1] = new[i + 1]
    BY <1>10, <2>1
  <2>3. /\ new[i + 1].kind = "RELEASE_PENDING_ACK" /\ new[i + 1].at = now /\ new[i + 1].refund = None
        /\ new[i + 1].released = 0 /\ new[i + 1].blocked = 0
    BY <1>7, <2>1
  <2>4. Replay(b, new[i + 1]) = Refill(b, now)
    BY <1>5, <2>3, AbortedReplay
  <2> QED BY <2>2, <2>4
<1>14. 0 \in G
  <2> SUFFICES ASSUME 0 < m PROVE Replayed(poolLog', n + 0 + 1) = h
    OBVIOUS
  <2>1. n + 0 = n /\ 0 \in Nat
    BY <1>9
  <2>2. Replayed(poolLog', n + 0 + 1) = Replay(bucket, poolLog'[n + 0 + 1])
    BY <1>11, <1>12, <2>1
  <2>3. Replay(bucket, poolLog'[n + 0 + 1]) = Refill(bucket, now)
    BY <1>5, <1>13, <2>1
  <2> QED BY <2>2, <2>3 DEF h
<1>15. ASSUME NEW i \in Nat, i \in G PROVE i + 1 \in G
  <2> SUFFICES ASSUME i + 1 < m PROVE Replayed(poolLog', n + (i + 1) + 1) = h
    OBVIOUS
  <2>1. i + 1 \in Nat /\ n + (i + 1) = n + i + 1 /\ i < m
    BY <1>3, <1>9
  <2>2. Replayed(poolLog', n + i + 1) = h
    BY <1>15, <2>1
  <2>3. Replayed(poolLog', n + (i + 1) + 1) = Replay(Replayed(poolLog', n + (i + 1)), poolLog'[n + (i + 1) + 1])
    BY <1>12, <2>1
  <2>4. Replayed(poolLog', n + (i + 1)) = h
    BY <2>1, <2>2
  <2>5. Replay(h, poolLog'[n + (i + 1) + 1]) = Refill(h, now)
    BY <1>5, <1>13, <2>1
  <2>6. Refill(h, now) = h
    BY <1>5, RefilledTwice
  <2> QED BY <2>3, <2>4, <2>5, <2>6
<1> HIDE DEF G
<1>16. \A i \in Nat : i \in G
  BY <1>14, <1>15, NaturalsInSet
<1>17. CASE S = {}
  <2>1. Len(poolLog') = n /\ bucket' = bucket
    BY <1>4, <1>6, <1>9, <1>10, <1>17
  <2> QED BY <1>11, <2>1 DEF HeadReplayed
<1>18. CASE S # {}
  <2>1. m - 1 \in Nat /\ m - 1 < m /\ n + (m - 1) + 1 = n + m
    BY <1>3, <1>4, <1>9, <1>18
  <2>2. Replayed(poolLog', n + (m - 1) + 1) = h
    BY <1>16, <2>1 DEF G
  <2>3. Replayed(poolLog', Len(poolLog')) = h /\ bucket' = h
    BY <1>6, <1>10, <1>18, <2>1, <2>2
  <2> QED BY <2>3 DEF HeadReplayed
<1> QED BY <1>17, <1>18

LEMMA HeadKept ==
  ASSUME ModelInv, HeadReplayed, [ModelNext]_<<vars, modelVars>>
  PROVE  HeadReplayed'
<1>1. SlotsInv /\ LogInv
  BY DEF ModelInv, PoolInv
<1>2. CASE UNCHANGED <<bucket, poolLog>>
  BY <1>2 DEF HeadReplayed
<1>3. ASSUME NEW j \in Job, NEW S \in SUBSET ModelRows, CloseAbortedModel(j, S) PROVE HeadReplayed'
  BY <1>1, <1>3, AbortReplays
<1>4. ASSUME NEW j \in Job, CancelModelJob(j) PROVE HeadReplayed'
  <2>1. ActiveModelReservations(j) \in SUBSET ModelRows
    BY DEF ActiveModelReservations, ModelRows
  <2>2. CloseAbortedModel(j, ActiveModelReservations(j))
    BY <1>4 DEF CancelModelJob
  <2> QED BY <1>3, <2>1, <2>2
<1>5. ASSUME NEW u \in Unit, NEW a \in Attempt, RefuseModel(u, a) \/ InvocationEnds(u, a) PROVE HeadReplayed'
  BY <1>2, <1>5 DEF RefuseModel, InvocationEnds
<1>6. ASSUME NEW u \in Unit, NEW a \in Attempt, ExpireModel(u, a) PROVE HeadReplayed'
  <2>1. JobOf[u] \in Job /\ {<<u, a>>} \in SUBSET ModelRows
    BY GraphAssumption DEF ModelRows
  <2>2. CloseAbortedModel(JobOf[u], {<<u, a>>})
    BY <1>6 DEF ExpireModel
  <2> QED BY <1>3, <2>1, <2>2
<1>7. ASSUME NEW u \in Unit, NEW a \in Attempt, NEW acknowledged \in BOOLEAN,
             RecordCancellation(u, a, acknowledged)
      PROVE  HeadReplayed'
  BY <1>1, <1>7, CancellationReplays
<1>8. ASSUME NEW u \in Unit, NEW a \in Attempt, NEW h \in Holder, AdmitModel(u, a, h) PROVE HeadReplayed'
  BY <1>1, <1>8, ReserveReplays DEF AdmitModel
<1>9. ASSUME NEW u \in Unit, NEW a \in Attempt, NEW h \in Holder, NEW usage \in ModelUsage(u),
             \/ CompleteUsageOverrun(u, a, h, usage)
             \/ \E wait \in 1..MaxBackpressure : CompleteStageBackpressured(u, a, h, usage, wait)
             \/ \E status \in TERMINAL_STAGE_STATUSES, retryable \in BOOLEAN :
                  CompleteModelStage(u, a, h, status, retryable, usage)
             \/ \E kind \in {"SUCCEEDED", "RETRYABLE_FAILURE", "TERMINAL_FAILURE"} :
                  CompleteModelArtifactGroup(u, a, h, kind, usage)
      PROVE  HeadReplayed'
  <2>1. usage \in Amounts /\ now \in Nat
    BY UsageAmounts DEF ModelInv, PoolInv, SlotsInv
  <2>2. \/ ReleaseOverrun(u, a, usage)
        \/ \E kind \in EventKind \ {"ADMITTED", "USAGE_OVERRUN_RELEASED"}, until \in Nat :
             ReleaseModel(u, a, usage, kind, until)
    <3>1. /\ "COMPLETED_RELEASED" \in EventKind \ {"ADMITTED", "USAGE_OVERRUN_RELEASED"} /\ 0 \in Nat
          /\ "BACKPRESSURED_RELEASED" \in EventKind \ {"ADMITTED", "USAGE_OVERRUN_RELEASED"}
          /\ \A wait \in 1..MaxBackpressure : NormalizedEligibleAt(wait) \in Nat
      BY <2>1, NormalizedIsTime DEF EventKind
    <3> QED BY <1>9, <3>1 DEF CompleteUsageOverrun, CompleteStageBackpressured, CompleteModelStage,
                              CompleteModelArtifactGroup
  <2> QED BY <1>1, <2>1, <2>2, OverrunReplays, ReleaseReplays
<1> QED BY <1>2, <1>4, <1>5, <1>6, <1>7, <1>8, <1>9 DEF ModelNext, ModelUnitNext, modelVars

\* The materialised pool head is the replay of the pool's events after every
\* operation, so the comparison made when it is read never refuses the store:
\* each operation refills the head to the time it gives its event.
THEOREM PoolHeadSafety == ModelSpec => []PoolHeadMatchesEvents
<1>1. Init /\ ModelInit => HeadReplayed
  <2> SUFFICES ASSUME Init, ModelInit PROVE HeadReplayed
    OBVIOUS
  <2>1. poolLog = <<>> /\ bucket = FullBucket /\ Len(poolLog) = 0
    BY DEF ModelInit
  <2>2. Replayed(poolLog, 0) = FullBucket
    BY ReplayedEvents
  <2> QED BY <2>1, <2>2 DEF HeadReplayed
<1>2. ModelInv /\ HeadReplayed /\ [ModelNext]_<<vars, modelVars>> => HeadReplayed'
  BY HeadKept
<1>3. ModelInv /\ HeadReplayed => PoolHeadMatchesEvents
  <2> SUFFICES ASSUME ModelInv, HeadReplayed PROVE PoolHeadMatchesEvents
    OBVIOUS
  <2>1. DOMAIN poolLog = 1..Len(poolLog)
    BY DEF ModelInv, PoolInv, LogInv
  <2> QED BY <2>1, FoldIsReplayed DEF HeadReplayed, PoolHeadMatchesEvents, RebuiltBucket
<1> QED BY <1>1, <1>2, <1>3, ModelSafety, PTL DEF ModelSpec

=============================================================================
