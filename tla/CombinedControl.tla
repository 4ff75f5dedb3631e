-------------------------- MODULE CombinedControl --------------------------
(***************************************************************************)
(* Jobs bound to a resource policy and to a model policy.  The store asks  *)
(* both authorisations of every lease operation, so such a job works only  *)
(* through the combined operations of ModelControlService, which take one  *)
(* lease and a reservation of each kind, and give both back, in one        *)
(* transaction.  Terminations and cancellations are acknowledged apart.    *)
(*                                                                         *)
(* A BEGIN IMMEDIATE transaction keeps every other writer out, so it is    *)
(* one action, with one exception: acquire_combined reads the clock when   *)
(* it refills the pool for its decision and once more when it stores the   *)
(* reservation, and time may pass between the two readings.  It is split   *)
(* into the part up to the decision and the commit.  Other operations that *)
(* read the clock again use each reading for a separate row.               *)
(***************************************************************************)
EXTENDS ResourceControl, ModelControl

CONSTANT NoTransaction   \* no acquire_combined is under way

VARIABLE txn   \* the open acquire_combined: attempt, holder and refilled pool head

combinedVars == <<vars, resourceVars, modelVars, txn>>

-----------------------------------------------------------------------------
(* Admission *)

\* acquire_combined, refused: the model's decision is stored when the model
\* refuses, otherwise only the resource decision.
RefuseCombined(u, a) ==
  \/ RefuseModel(u, a) /\ UNCHANGED resourceVars
  \/ /\ ModelMayAsk(u, a)
     /\ ModelClassify(u, Refill(bucket, now)) = "ADMITTED"
     /\ RefuseWork(u, a)
     /\ UNCHANGED modelVars

\* acquire_combined up to both decisions; head is the pool refilled at the
\* first reading of the clock.
DecideCombined(u, a, h) ==
  LET head == Refill(bucket, now)
  IN /\ txn = NoTransaction
     /\ ModelMayAsk(u, a) /\ ModelClassify(u, head) = "ADMITTED"
     /\ MayAsk(u, a) /\ Classify(u) = "ADMITTED"
     /\ txn' = [unit |-> u, attempt |-> a, holder |-> h, head |-> head]
     /\ UNCHANGED <<vars, resourceVars, modelVars>>

\* Faulty variant of StoreAdmission: the resource reservation is left out.
StoreAdmissionModelOnly(u, a, head) ==
  ReserveModel(u, a, head, now) /\ UNCHANGED resourceVars

\* Both reservations; the model event is stamped with the second reading.
StoreAdmission(u, a, head) ==
  ReserveCapacity(u, a) /\ ReserveModel(u, a, head, now)

CommitCombined ==
  /\ txn # NoTransaction
  /\ AcquireWorkLease(txn.unit, txn.attempt, txn.holder)
  /\ StoreAdmission(txn.unit, txn.attempt, txn.head)
  /\ txn' = NoTransaction

\* The process stops before the commit: the transaction leaves no trace.
RollBack ==
  /\ txn # NoTransaction
  /\ txn' = NoTransaction
  /\ UNCHANGED <<vars, resourceVars, modelVars>>

-----------------------------------------------------------------------------
(* Completion and abortion *)

CompleteStageCombined(u, a, h, status, retryable, usage, modelUsage) ==
  /\ CompleteStageWorkLease(u, a, h, status, retryable)
  /\ ReleaseCompleted(u, a, usage)
  /\ ReleaseModel(u, a, modelUsage, "COMPLETED_RELEASED", 0)

CompleteArtifactGroupCombined(u, a, h, kind, usage, modelUsage) ==
  /\ CompleteArtifactGroupWorkLease(u, a, h, kind)
  /\ ReleaseCompleted(u, a, usage)
  /\ ReleaseModel(u, a, modelUsage, "COMPLETED_RELEASED", 0)

CompleteStageCombinedBackpressured(u, a, h, usage, modelUsage, wait) ==
  /\ CompleteStageWorkLease(u, a, h, "RETRYABLE_FAILURE", TRUE)
  /\ ReleaseCompleted(u, a, usage)
  /\ ReleaseModel(u, a, modelUsage, "BACKPRESSURED_RELEASED", NormalizedEligibleAt(wait))

CompleteUsageOverrunCombined(u, a, h, usage, modelUsage) ==
  /\ FailOverrun(u, a, h)
  /\ ReleaseCompleted(u, a, usage)
  /\ ReleaseOverrun(u, a, modelUsage)

ExpireCombined(u, a) ==
  /\ modelReservation[u][a].state = "ACTIVE"
  /\ reservation[u][a].state = "ACTIVE"
  /\ ExpireWorkLease(u, a)
  /\ CloseAbortedModel(JobOf[u], {<<u, a>>})
  /\ CloseAborted(JobOf[u], {<<u, a>>})

CancelJobCombined(j) ==
  /\ CancelJobWork(j)
  /\ CloseAbortedModel(j, ActiveModelReservations(j))
  /\ CloseAborted(j, ActiveReservations(j))

-----------------------------------------------------------------------------
CombinedInit == ResourceInit /\ ModelInit /\ txn = NoTransaction

\* Time and the outside world go on while a transaction is open.
WorldNext ==
  /\ \/ Tick /\ UNCHANGED <<resourceVars, modelVars>>
     \/ \E u \in Unit, a \in Attempt : ExecutionEnds(u, a) /\ UNCHANGED modelVars
     \/ \E u \in Unit, a \in Attempt : InvocationEnds(u, a) /\ UNCHANGED <<vars, resourceVars>>
  /\ UNCHANGED txn

CompleteCombined(u, a, h) ==
  \E usage \in Usage(u), modelUsage \in ModelUsage(u) :
    \/ CompleteUsageOverrunCombined(u, a, h, usage, modelUsage)
    \/ \E wait \in 1..MaxBackpressure :
         CompleteStageCombinedBackpressured(u, a, h, usage, modelUsage, wait)
    \/ \E status \in TERMINAL_STAGE_STATUSES, retryable \in BOOLEAN :
         CompleteStageCombined(u, a, h, status, retryable, usage, modelUsage)
    \/ \E kind \in {"SUCCEEDED", "RETRYABLE_FAILURE", "TERMINAL_FAILURE"} :
         CompleteArtifactGroupCombined(u, a, h, kind, usage, modelUsage)

\* Transactions of other callers wait while one is open.
ServiceNext ==
  /\ txn = NoTransaction
  /\ \/ StoreNext /\ UNCHANGED <<resourceVars, modelVars>>
     \/ \E j \in Job : CancelJobCombined(j)
     \/ \E u \in Unit, a \in Attempt :
          \/ RefuseCombined(u, a)
          \/ ExpireCombined(u, a)
          \/ \E stopped \in BOOLEAN : RecordTermination(u, a, stopped) /\ UNCHANGED modelVars
          \/ \E acknowledged \in BOOLEAN :
               RecordCancellation(u, a, acknowledged) /\ UNCHANGED <<vars, resourceVars>>
          \/ \E h \in Holder : CompleteCombined(u, a, h)
  /\ UNCHANGED txn

CombinedNext ==
  \/ WorldNext
  \/ ServiceNext
  \/ CommitCombined
  \/ RollBack
  \/ \E u \in Unit, a \in Attempt, h \in Holder : DecideCombined(u, a, h)

CombinedSpec == CombinedInit /\ [][CombinedNext]_combinedVars

-----------------------------------------------------------------------------
(* Properties *)

\* The two reservations of an attempt live and die with its lease, although
\* two services keep them and their ends are acknowledged apart: the check
\* cancel_job_combined makes before it closes them never fails.
CombinedFollowsLease == ReservationFollowsLease /\ ModelFollowsLease
=============================================================================
