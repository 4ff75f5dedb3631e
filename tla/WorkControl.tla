---------------------------- MODULE WorkControl ----------------------------
(***************************************************************************)
(* The work-control tables of the JobStore: jobs, items, readiness         *)
(* snapshots, fenced work leases with their event log, controlled stage    *)
(* runs, retry decisions and job cancellation.                             *)
(*                                                                         *)
(* Every public operation of the store runs in one BEGIN IMMEDIATE         *)
(* transaction, so each is one action here; an operation the code rejects  *)
(* rolls back and is simply not enabled.  Callers are concurrent and       *)
(* unsynchronised: any caller may try any operation on any lease, attempt  *)
(* or unit at any time.  Row versions, hashes, audits and the outbox carry *)
(* no control beyond the guards below and are left out; a lease version    *)
(* or holder that does not match is a rejected call.                       *)
(***************************************************************************)
EXTENDS Integers, Sequences, FiniteSets

CONSTANTS
  Job,                  \* job ids
  Unit,                 \* resolved work units of all job work graphs
  Item,                 \* item ids
  Holder,               \* workers that may hold a lease
  NoHolder, NoItem,     \* absent holder, absent item
  JobOf,                \* the job of each unit
  ItemOf,               \* the item of each unit, or NoItem for a job-scoped unit
  DependsOn,            \* depends_on_work_unit_refs
  AllSucceeded,         \* units whose join mode is ALL_SUCCEEDED
  ArtifactGroup,        \* units of scope ARTIFACT_GROUP: no StageRun
  LeaseDuration,        \* WorkControlPolicyV2.lease_duration_seconds
  HeartbeatExtension,   \* WorkControlPolicyV2.heartbeat_extension_seconds
  MaxAttempts,          \* WorkControlPolicyV2.max_attempts
  RetryDelay,           \* WorkControlPolicyV2.retry_delay_seconds
  RetryLeaseExpiry,     \* WorkControlPolicyV2.retry_lease_expiry
  MaxTime,              \* bound: the clock stops here
  MaxHeartbeats,        \* bound: heartbeats of one lease
  MaxSnapshots          \* bound: readiness snapshots recorded for one unit

Attempt == 1..MaxAttempts

ASSUME PolicyAssumption ==
  /\ LeaseDuration \in Nat \ {0}
  /\ HeartbeatExtension \in Nat \ {0}
  /\ MaxAttempts \in Nat \ {0}
  /\ RetryDelay \in [1..(MaxAttempts - 1) -> Nat]
  /\ RetryLeaseExpiry \in BOOLEAN

ASSUME GraphAssumption ==
  /\ JobOf \in [Unit -> Job]
  /\ ItemOf \in [Unit -> Item \cup {NoItem}]
  /\ NoItem \notin Item
  /\ NoHolder \notin Holder
  /\ ArtifactGroup \subseteq Unit
  /\ AllSucceeded \subseteq Unit
  /\ DependsOn \in [Unit -> SUBSET (Unit \ ArtifactGroup)]
  /\ \A u \in Unit : u \notin DependsOn[u]

ASSUME BoundAssumption == MaxTime \in Nat /\ MaxHeartbeats \in Nat /\ MaxSnapshots \in Nat

VARIABLES
  now,           \* the store's clock
  jobStatus,     \* jobs.status
  itemStatus,    \* items.status
  cancellation,  \* work_cancellations, one row per job at most
  lease,         \* work_leases and work_lease_heads, keyed by unit and attempt
  events,        \* work_lease_events of each lease, in version order
  stage,         \* stage_runs.status of each controlled attempt
  retry,         \* work_retry_decisions, keyed by the completed attempt
  lastFence,     \* work_lease_fences.last_fencing_token
  snapshots,     \* work_readiness_snapshots of each unit
  latest         \* readiness of the unit's newest snapshot

vars == <<now, jobStatus, itemStatus, cancellation, lease, events, stage,
          retry, lastFence, snapshots, latest>>

leaseVars == <<lease, events, stage, retry>>
graphVars == <<jobStatus, itemStatus, cancellation>>
readinessVars == <<snapshots, latest>>

-----------------------------------------------------------------------------
(* Statuses and transition tables *)

JobStatus == {"CREATED", "RUNNING", "BLOCKED", "SUCCEEDED", "FAILED", "CANCELLED"}

ItemStatus == {"CANDIDATE", "RUNNING", "NEEDS_REVIEW", "APPROVED", "REJECTED",
               "FAILED", "RELEASED", "REVOKED"}

JOB_TRANSITIONS ==
  [s \in JobStatus |->
     CASE s = "CREATED" -> {"RUNNING", "CANCELLED"}
       [] s = "RUNNING" -> {"BLOCKED", "SUCCEEDED", "FAILED", "CANCELLED"}
       [] s = "BLOCKED" -> {"RUNNING", "FAILED", "CANCELLED"}
       [] OTHER -> {}]

ITEM_TRANSITIONS ==
  [s \in ItemStatus |->
     CASE s = "CANDIDATE" -> {"RUNNING", "REJECTED", "FAILED"}
       [] s = "RUNNING" -> {"NEEDS_REVIEW", "APPROVED", "REJECTED", "FAILED"}
       [] s = "NEEDS_REVIEW" -> {"RUNNING", "APPROVED", "REJECTED", "FAILED"}
       [] s = "APPROVED" -> {"RELEASED", "REJECTED"}
       [] s = "RELEASED" -> {"REVOKED"}
       [] OTHER -> {}]

TerminalItem == {"REJECTED", "FAILED", "REVOKED"}

RETRYABLE_STAGE_STATUSES == {"BLOCKED_POLICY", "BLOCKED_CAPABILITY", "RETRYABLE_FAILURE"}

\* Terminal statuses a controlled StageRun can take.
TERMINAL_STAGE_STATUSES ==
  RETRYABLE_STAGE_STATUSES \cup {"TERMINAL_FAILURE", "SUCCEEDED", "CANCELLED"}

ClosedState == {"SUCCEEDED", "RETRYABLE_FAILURE", "TERMINAL_FAILURE", "EXPIRED", "CANCELLED"}

-----------------------------------------------------------------------------
(* Rows *)

NoLease == [state |-> "NONE", version |-> 0, fence |-> 0, holder |-> NoHolder,
            acquired |-> 0, expires |-> 0, closed |-> 0]

Lease == [state : {"NONE", "ACTIVE"} \cup ClosedState, version : Nat, fence : Nat,
          holder : Holder \cup {NoHolder}, acquired : Nat, expires : Nat, closed : Nat]

NoRetry == [decision |-> "NONE", eligible |-> 0]

Retry == [decision : {"NONE", "RETRY_SCHEDULED", "EXHAUSTED"}, eligible : Nat]

Event == [kind : {"HEARTBEAT"} \cup ClosedState, expires : Nat]

NoCancellation == [done |-> FALSE, cancelled |-> {}, preserved |-> {}]

Readiness == {"WAITING", "READY", "BLOCKED_DEPENDENCY", "SKIPPED_ITEM"}

\* One piece of dependency evidence, with the attempt it comes from.
Evidence ==
  [kind : {"WAITING", "SUCCEEDED", "RETRYABLE", "RETRY_SCHEDULED", "EXHAUSTED",
           "TERMINAL", "SKIPPED"},
   attempt : 0..MaxAttempts]

Snapshot(u) == [readiness : Readiness, evidence : [DependsOn[u] -> Evidence]]

TypeOK ==
  /\ now \in Nat
  /\ jobStatus \in [Job -> JobStatus]
  /\ itemStatus \in [Item -> ItemStatus]
  /\ cancellation \in [Job -> [done : BOOLEAN,
                               cancelled : SUBSET (Unit \X Attempt),
                               preserved : SUBSET (Unit \X Attempt)]]
  /\ lease \in [Unit -> [Attempt -> Lease]]
  /\ events \in [Unit -> [Attempt -> Seq(Event)]]
  /\ stage \in [Unit -> [Attempt -> {"NONE", "RUNNING"} \cup TERMINAL_STAGE_STATUSES]]
  /\ retry \in [Unit -> [Attempt -> Retry]]
  /\ lastFence \in [Unit -> Nat]
  /\ DOMAIN snapshots = Unit
  /\ \A u \in Unit : snapshots[u] \subseteq Snapshot(u)
  /\ latest \in [Unit -> Readiness \cup {"NONE"}]

-----------------------------------------------------------------------------
(* Helper state formulae *)

Exists(u, a) == lease[u][a].state # "NONE"
Active(u, a) == lease[u][a].state = "ACTIVE"
Closed(u, a) == lease[u][a].state \in ClosedState

\* _get_latest_work_lease_for_unit: the lease with the highest attempt.
IsLatestAttempt(u, a) ==
  /\ Exists(u, a)
  /\ \A b \in Attempt : b > a => ~Exists(u, b)

\* The stored failure of a closed attempt is retryable.
RetryableClose(u, a) ==
  \/ lease[u][a].state = "RETRYABLE_FAILURE"
  \/ lease[u][a].state = "EXPIRED" /\ RetryLeaseExpiry

ItemIsTerminal(u) == ItemOf[u] \in Item /\ itemStatus[ItemOf[u]] \in TerminalItem

\* Faulty variant of RetryDecision: the policy gives up one attempt early.
RetryDecisionOneShort(a) ==
  IF a + 1 < MaxAttempts
  THEN [decision |-> "RETRY_SCHEDULED", eligible |-> now + RetryDelay[a]]
  ELSE [decision |-> "EXHAUSTED", eligible |-> 0]

\* _create_work_retry_decision for attempt a closed now.
RetryDecision(a) ==
  IF a < MaxAttempts
  THEN [decision |-> "RETRY_SCHEDULED", eligible |-> now + RetryDelay[a]]
  ELSE [decision |-> "EXHAUSTED", eligible |-> 0]

\* Faulty variant of ClosedHead: the head's version is not advanced.
ClosedHeadSameVersion(l, kind) == [l EXCEPT !.state = kind, !.closed = now]

\* _close_work_lease: a terminal event is appended and the head follows it.
ClosedHead(l, kind) == [l EXCEPT !.state = kind, !.version = @ + 1, !.closed = now]

CloseLease(u, a, kind) ==
  /\ events' = [events EXCEPT ![u][a] = Append(@, [kind |-> kind, expires |-> 0])]
  /\ lease' = [lease EXCEPT ![u][a] = ClosedHead(@, kind)]

\* _rebuild_work_lease_head: fold the events over the lease as acquired.
RebuiltHead(u, a) ==
  LET evs == events[u][a]
      beats == {i \in DOMAIN evs : evs[i].kind = "HEARTBEAT"}
      last == CHOOSE i \in beats : \A j \in beats : j <= i
  IN [state   |-> IF evs # <<>> /\ evs[Len(evs)].kind # "HEARTBEAT"
                  THEN evs[Len(evs)].kind ELSE "ACTIVE",
      version |-> Len(evs),
      expires |-> IF beats = {} THEN lease[u][a].acquired + LeaseDuration
                                ELSE evs[last].expires]

-----------------------------------------------------------------------------
(* Readiness: WorkReadinessEvaluator.evaluate and record_work_readiness *)

\* Evidence about dependency d that the store's immutable rows support now.
\* Work still waiting is always admissible: the evaluator ran outside the
\* recording transaction and may have looked before d finished.
ObservableEvidence(d) ==
  {[kind |-> "WAITING", attempt |-> 0]}
  \cup {[kind |-> "SUCCEEDED", attempt |-> a] :
          a \in {b \in Attempt : stage[d][b] = "SUCCEEDED"}}
  \cup {[kind |-> "RETRYABLE", attempt |-> a] : a \in {b \in Attempt : RetryableClose(d, b)}}
  \cup {[kind |-> retry[d][a].decision, attempt |-> a] :
          a \in {b \in Attempt : retry[d][b].decision # "NONE"}}
  \cup {[kind |-> "TERMINAL", attempt |-> a] :
          a \in {b \in Attempt : /\ Closed(d, b)
                                 /\ stage[d][b] # "SUCCEEDED"
                                 /\ ~RetryableClose(d, b)}}
  \cup (IF ItemIsTerminal(d) THEN {[kind |-> "SKIPPED", attempt |-> 0]} ELSE {})

\* Faulty variant of Evaluate: work still in progress is taken for finished.
EvaluateIgnoringProgress(u, ev) ==
  IF {ev[d].kind : d \in DependsOn[u]} \cap {"RETRYABLE", "RETRY_SCHEDULED"} # {}
  THEN "WAITING" ELSE "READY"

\* The evaluator's decision from one piece of evidence per dependency.
Evaluate(u, ev) ==
  LET kinds == {ev[d].kind : d \in DependsOn[u]}
  IN IF kinds \cap {"WAITING", "RETRYABLE", "RETRY_SCHEDULED"} # {} THEN "WAITING"
     ELSE IF u \in AllSucceeded /\ kinds \cap {"TERMINAL", "EXHAUSTED", "SKIPPED"} # {}
     THEN "BLOCKED_DEPENDENCY"
     ELSE "READY"

\* A skipped item must match exactly one direct dependency.
SkipMatchesOne(u, d) == {e \in DependsOn[u] : ItemOf[e] = ItemOf[d]} = {d}

\* A snapshot's identity excludes its audit, so equal content is refused
\* under a second command.
InsertSnapshot(u, snapshot) ==
  /\ snapshot \notin snapshots[u]
  /\ Cardinality(snapshots[u]) < MaxSnapshots
  /\ snapshots' = [snapshots EXCEPT ![u] = @ \cup {snapshot}]
  /\ latest' = [latest EXCEPT ![u] = snapshot.readiness]
  /\ UNCHANGED <<now, graphVars, leaseVars, lastFence>>

RecordWorkReadiness(u) ==
  \E ev \in [DependsOn[u] -> Evidence] :
    /\ \A d \in DependsOn[u] :
         /\ ev[d] \in ObservableEvidence(d)
         /\ ev[d].kind = "SKIPPED" => SkipMatchesOne(u, d)
    /\ InsertSnapshot(u, [readiness |-> Evaluate(u, ev), evidence |-> ev])

\* The unit's own item is terminal: accepted only when the unit has a single
\* dependency and it belongs to that item.
RecordSkippedItem(u) ==
  /\ ItemIsTerminal(u)
  /\ \E d \in DependsOn[u] : DependsOn[u] = {d} /\ ItemOf[d] = ItemOf[u]
  /\ InsertSnapshot(u, [readiness |-> "SKIPPED_ITEM",
                        evidence  |-> [d \in DependsOn[u] |->
                                         [kind |-> "SKIPPED", attempt |-> 0]]])

-----------------------------------------------------------------------------
(* Jobs and items *)

Tick ==
  /\ now < MaxTime
  /\ now' = now + 1
  /\ UNCHANGED <<graphVars, leaseVars, lastFence, readinessVars>>

TransitionJob(j, target) ==
  /\ target \in JOB_TRANSITIONS[jobStatus[j]]
  /\ jobStatus' = [jobStatus EXCEPT ![j] = target]
  /\ UNCHANGED <<now, itemStatus, cancellation, leaseVars, lastFence, readinessVars>>

TransitionItem(i, target) ==
  /\ target \in ITEM_TRANSITIONS[itemStatus[i]]
  /\ itemStatus' = [itemStatus EXCEPT ![i] = target]
  /\ UNCHANGED <<now, jobStatus, cancellation, leaseVars, lastFence, readinessVars>>

-----------------------------------------------------------------------------
(* Leases *)

\* Faulty variant of LeaseAdmissible: a cancellation is not noticed.
LeaseAdmissibleAfterCancel(u, a) ==
  /\ latest[u] = "READY"
  /\ jobStatus[JobOf[u]] \in {"RUNNING", "CANCELLED"}
  /\ a = 1
  /\ \A b \in Attempt : ~Exists(u, b)

\* _validate_work_lease_admission and, for a StageRun, _validate_retry.
LeaseAdmissible(u, a) ==
  /\ latest[u] = "READY"
  /\ ~cancellation[JobOf[u]].done
  /\ jobStatus[JobOf[u]] = "RUNNING"
  /\ \A b \in Attempt : ~Active(u, b)
  /\ IF a = 1
     THEN \A b \in Attempt : ~Exists(u, b)
     ELSE /\ IsLatestAttempt(u, a - 1)
          /\ retry[u][a - 1].decision = "RETRY_SCHEDULED"
          /\ \A b \in Attempt : b >= a => retry[u][b].decision = "NONE"
          /\ now >= retry[u][a - 1].eligible
          /\ u \notin ArtifactGroup => stage[u][a - 1] \in RETRYABLE_STAGE_STATUSES

\* Faulty variant of NextFence: the token in use is handed out again.
NextFenceReused(u) == lastFence[u]

\* _allocate_work_fence
NextFence(u) == lastFence[u] + 1

AcquireWorkLease(u, a, h) ==
  /\ LeaseAdmissible(u, a)
  /\ lastFence' = [lastFence EXCEPT ![u] = NextFence(u)]
  /\ lease' = [lease EXCEPT ![u][a] =
                 [state |-> "ACTIVE", version |-> 0, fence |-> NextFence(u),
                  holder |-> h, acquired |-> now, expires |-> now + LeaseDuration,
                  closed |-> 0]]
  /\ stage' = [stage EXCEPT ![u][a] = IF u \in ArtifactGroup THEN "NONE" ELSE "RUNNING"]
  /\ UNCHANGED <<now, graphVars, events, retry, readinessVars>>

\* Faulty variant of HolderMayAct: no expiry check.
HolderMayActLate(u, a, h) == Active(u, a) /\ lease[u][a].holder = h

\* _require_active_work_lease and the expiry check of a holder's call.
HolderMayAct(u, a, h) ==
  /\ Active(u, a)
  /\ lease[u][a].holder = h
  /\ now < lease[u][a].expires

\* The head after a heartbeat event.
RenewedHead(l, until) == [l EXCEPT !.version = @ + 1, !.expires = until]

HeartbeatWorkLease(u, a, h) ==
  LET effective == IF now + HeartbeatExtension > lease[u][a].expires
                   THEN now + HeartbeatExtension ELSE lease[u][a].expires
  IN /\ HolderMayAct(u, a, h)
     /\ lease[u][a].version < MaxHeartbeats
     /\ events' = [events EXCEPT ![u][a] =
                     Append(@, [kind |-> "HEARTBEAT", expires |-> effective])]
     /\ lease' = [lease EXCEPT ![u][a] = RenewedHead(@, effective)]
     /\ UNCHANGED <<now, graphVars, stage, retry, lastFence, readinessVars>>

\* Faulty variant of OutcomeAllowed: terminal failures may claim to be retryable.
OutcomeAllowedAny(status, retryable) == status = "RETRYABLE_FAILURE" => retryable

\* _validate_control_stage_outcome: which failures a status may carry.
OutcomeAllowed(status, retryable) ==
  /\ status = "RETRYABLE_FAILURE" => retryable
  /\ status \in {"SUCCEEDED", "TERMINAL_FAILURE", "CANCELLED"} => ~retryable

\* Faulty variant of StageEventKind: the stage status is taken for the event kind.
StageEventKindVerbatim(status, retryable) == status

\* _stage_status_event_kind
StageEventKind(status, retryable) ==
  IF status \in {"SUCCEEDED", "CANCELLED"} THEN status
  ELSE IF retryable THEN "RETRYABLE_FAILURE" ELSE "TERMINAL_FAILURE"

CompleteStageWorkLease(u, a, h, status, retryable) ==
  LET kind == StageEventKind(status, retryable)
  IN /\ OutcomeAllowed(status, retryable)
     /\ HolderMayAct(u, a, h)
     /\ stage[u][a] = "RUNNING"
     /\ stage' = [stage EXCEPT ![u][a] = status]
     /\ CloseLease(u, a, kind)
     /\ retry' = IF kind = "RETRYABLE_FAILURE"
                 THEN [retry EXCEPT ![u][a] = RetryDecision(a)] ELSE retry
     /\ UNCHANGED <<now, graphVars, lastFence, readinessVars>>

CompleteArtifactGroupWorkLease(u, a, h, kind) ==
  /\ HolderMayAct(u, a, h)
  /\ u \in ArtifactGroup
  /\ CloseLease(u, a, kind)
  /\ retry' = IF kind = "RETRYABLE_FAILURE"
              THEN [retry EXCEPT ![u][a] = RetryDecision(a)] ELSE retry
  /\ UNCHANGED <<now, graphVars, stage, lastFence, readinessVars>>

\* Faulty variant of Expirable: a lease the holder has closed expires too.
ExpirableClosed(u, a) == Exists(u, a) /\ now >= lease[u][a].expires

\* On a lease already closed expire_work_lease only returns its last event.
Expirable(u, a) == Active(u, a) /\ now >= lease[u][a].expires

\* expire_work_lease: any caller, at or after the effective expiry.
ExpireWorkLease(u, a) ==
  /\ Expirable(u, a)
  /\ stage' = IF u \in ArtifactGroup THEN stage
              ELSE [stage EXCEPT ![u][a] = IF RetryLeaseExpiry THEN "RETRYABLE_FAILURE"
                                           ELSE "TERMINAL_FAILURE"]
  /\ CloseLease(u, a, "EXPIRED")
  /\ retry' = IF RetryLeaseExpiry
              THEN [retry EXCEPT ![u][a] = RetryDecision(a)] ELSE retry
  /\ UNCHANGED <<now, graphVars, lastFence, readinessVars>>

\* The attempt left a result: a stage result, or the result refs of a closing
\* event other than an artifact group's expiry, which carries none.
HasResult(u, a) ==
  \/ stage[u][a] \in TERMINAL_STAGE_STATUSES
  \/ u \in ArtifactGroup /\ Closed(u, a) /\ lease[u][a].state # "EXPIRED"

\* Attempts of job j whose results a cancellation records as preserved.
PreservedResults(j) ==
  {ua \in Unit \X Attempt : JobOf[ua[1]] = j /\ HasResult(ua[1], ua[2])}

ActiveLeases(j) == {ua \in Unit \X Attempt : JobOf[ua[1]] = j /\ Active(ua[1], ua[2])}

\* cancel_job_work closes every active lease of the job in one transaction.
CancelJobWork(j) ==
  /\ jobStatus[j] \notin {"SUCCEEDED", "FAILED", "CANCELLED"}
  /\ LET cancelled == ActiveLeases(j)
     IN /\ cancellation' = [cancellation EXCEPT ![j] =
                              [done |-> TRUE, cancelled |-> cancelled,
                               preserved |-> PreservedResults(j)]]
        /\ lease' = [u \in Unit |-> [a \in Attempt |->
                       IF <<u, a>> \in cancelled
                       THEN ClosedHead(lease[u][a], "CANCELLED")
                       ELSE lease[u][a]]]
        /\ events' = [u \in Unit |-> [a \in Attempt |->
                        IF <<u, a>> \in cancelled
                        THEN Append(events[u][a], [kind |-> "CANCELLED", expires |-> 0])
                        ELSE events[u][a]]]
        /\ stage' = [u \in Unit |-> [a \in Attempt |->
                       IF <<u, a>> \in cancelled /\ u \notin ArtifactGroup
                       THEN "CANCELLED" ELSE stage[u][a]]]
  /\ jobStatus' = [jobStatus EXCEPT ![j] = "CANCELLED"]
  /\ UNCHANGED <<now, itemStatus, retry, lastFence, readinessVars>>

-----------------------------------------------------------------------------
Init ==
  /\ now = 0
  /\ jobStatus = [j \in Job |-> "CREATED"]
  /\ itemStatus = [i \in Item |-> "CANDIDATE"]
  /\ cancellation = [j \in Job |-> NoCancellation]
  /\ lease = [u \in Unit |-> [a \in Attempt |-> NoLease]]
  /\ events = [u \in Unit |-> [a \in Attempt |-> <<>>]]
  /\ stage = [u \in Unit |-> [a \in Attempt |-> "NONE"]]
  /\ retry = [u \in Unit |-> [a \in Attempt |-> NoRetry]]
  /\ lastFence = [u \in Unit |-> 0]
  /\ snapshots = [u \in Unit |-> {}]
  /\ latest = [u \in Unit |-> "NONE"]

UnitNext(u) ==
  \/ RecordWorkReadiness(u)
  \/ RecordSkippedItem(u)
  \/ \E a \in Attempt :
       \/ ExpireWorkLease(u, a)
       \/ \E h \in Holder :
            \/ AcquireWorkLease(u, a, h)
            \/ HeartbeatWorkLease(u, a, h)
            \/ \E status \in TERMINAL_STAGE_STATUSES, retryable \in BOOLEAN :
                 CompleteStageWorkLease(u, a, h, status, retryable)
            \/ \E kind \in {"SUCCEEDED", "RETRYABLE_FAILURE", "TERMINAL_FAILURE"} :
                 CompleteArtifactGroupWorkLease(u, a, h, kind)

Next ==
  \/ Tick
  \/ \E j \in Job : CancelJobWork(j) \/ \E t \in JobStatus : TransitionJob(j, t)
  \/ \E i \in Item, t \in ItemStatus : TransitionItem(i, t)
  \/ \E u \in Unit : UnitNext(u)

Spec == Init /\ [][Next]_vars

-----------------------------------------------------------------------------
(* Properties *)

\* At most one attempt of a unit is in flight: an attempt is dispatched only
\* after every earlier one was closed, and no attempt is skipped.
OneAttemptInFlight ==
  \A u \in Unit : \A a, b \in Attempt : a < b /\ Exists(u, b) => Closed(u, a)

\* Fencing tokens grow with the attempts of a unit and none is ahead of the
\* fence row, so a worker of an earlier attempt always holds a smaller token.
FencesIncrease ==
  \A u \in Unit : \A b \in Attempt : Exists(u, b) =>
     /\ lease[u][b].fence <= lastFence[u]
     /\ \A a \in Attempt : a < b => lease[u][a].fence < lease[u][b].fence

\* A retry follows a retryable close and waits the policy's delay after it.
RetrySpacing ==
  \A u \in Unit : \A a \in Attempt : a + 1 \in Attempt /\ Exists(u, a + 1) =>
     /\ RetryableClose(u, a)
     /\ lease[u][a + 1].acquired >= lease[u][a].closed + RetryDelay[a]

\* A retryable close never strands its unit: the store holds the decision a
\* later dispatch needs, and the stage status passes the retry check; only
\* the policy's last attempt is exhausted.
RetryDispatchable ==
  \A u \in Unit : \A a \in Attempt : RetryableClose(u, a) =>
     IF a < MaxAttempts
     THEN /\ retry[u][a] = [decision |-> "RETRY_SCHEDULED",
                            eligible |-> lease[u][a].closed + RetryDelay[a]]
          /\ u \notin ArtifactGroup => stage[u][a] \in RETRYABLE_STAGE_STATUSES
     ELSE retry[u][a].decision = "EXHAUSTED"

\* The controlled StageRun and its lease tell the same story: running while
\* the lease is active, and a result of the kind the lease was closed with.
LeaseStageAgree ==
  \A u \in Unit \ ArtifactGroup : \A a \in Attempt :
     /\ Active(u, a) <=> stage[u][a] = "RUNNING"
     /\ Exists(u, a) <=> stage[u][a] # "NONE"
     /\ lease[u][a].state = "SUCCEEDED" <=> stage[u][a] = "SUCCEEDED"
     /\ lease[u][a].state = "CANCELLED" <=> stage[u][a] = "CANCELLED"
     /\ RetryableClose(u, a) => stage[u][a] \in RETRYABLE_STAGE_STATUSES

\* The materialised head always equals the fold of the immutable events, and
\* no event follows a terminal one; otherwise every later call on the lease
\* would be refused as corrupt.
HeadMatchesEvents ==
  \A u \in Unit : \A a \in Attempt :
     /\ Exists(u, a) =>
          RebuiltHead(u, a) = [state   |-> lease[u][a].state,
                               version |-> lease[u][a].version,
                               expires |-> lease[u][a].expires]
     /\ \A i \in 1..(Len(events[u][a]) - 1) : events[u][a][i].kind = "HEARTBEAT"

\* A holder's result counts only before the effective expiry, and an expiry
\* never takes a lease a heartbeat has already prolonged.
NoLateResult ==
  \A u \in Unit : \A a \in Attempt :
     /\ lease[u][a].state \in {"SUCCEEDED", "RETRYABLE_FAILURE", "TERMINAL_FAILURE"} =>
          lease[u][a].closed < lease[u][a].expires
     /\ lease[u][a].state = "EXPIRED" => lease[u][a].closed >= lease[u][a].expires

\* Once a job's cancellation is recorded the job stays CANCELLED, none of its
\* leases is active, and the record accounts for every stage result the job
\* will ever have, each as cancelled or as preserved but not both.
CancellationComplete ==
  \A j \in Job : cancellation[j].done =>
     /\ jobStatus[j] = "CANCELLED"
     /\ ActiveLeases(j) = {}
     /\ cancellation[j].cancelled \cap cancellation[j].preserved = {}
     /\ PreservedResults(j) \subseteq cancellation[j].cancelled \cup cancellation[j].preserved

\* A dependency can never change again: it succeeded, failed for good, or
\* its item has left the pipeline.
Settled(d) ==
  \/ ItemIsTerminal(d)
  \/ \E a \in Attempt : Closed(d, a) /\ (RetryableClose(d, a) => retry[d][a].decision = "EXHAUSTED")

\* Dispatched work had its dependencies met, although readiness was evaluated
\* outside the dispatching transaction: an ALL_SUCCEEDED join only after every
\* dependency succeeded, any other join only after every one was settled.
DependenciesHonoured ==
  \A u \in Unit : \A d \in DependsOn[u] : (\E a \in Attempt : Exists(u, a)) =>
     IF u \in AllSucceeded THEN \E a \in Attempt : stage[d][a] = "SUCCEEDED"
     ELSE Settled(d)

\* Stage results and closed leases are immutable: no later step changes the
\* head, the events, the stage status or the retry decision of a closed attempt.
ClosedAttemptFrozen ==
  [][\A u \in Unit : \A a \in Attempt : Closed(u, a) =>
       /\ lease'[u][a] = lease[u][a]
       /\ events'[u][a] = events[u][a]
       /\ stage'[u][a] = stage[u][a]
       /\ retry'[u][a] = retry[u][a]]_vars

\* What a lease state means to the worker and to the next attempt.
LeaseMeaning ==
  [s \in {"NONE", "ACTIVE"} \cup ClosedState |->
     CASE s = "NONE" -> "none"
       [] s = "ACTIVE" -> "held"
       [] s = "RETRYABLE_FAILURE" -> "failed"
       [] s = "EXPIRED" -> "expired"
       [] s = "CANCELLED" -> "withdrawn"
       [] OTHER -> "finished"]

Promises == INSTANCE AttemptLease WITH
  Subject <- Unit,
  Duration <- LeaseDuration,
  Extension <- HeartbeatExtension,
  RetryExpired <- RetryLeaseExpiry,
  state <- [u \in Unit |-> [a \in Attempt |-> LeaseMeaning[lease[u][a].state]]],
  promise <- [u \in Unit |-> [a \in Attempt |-> lease[u][a].expires]],
  ended <- [u \in Unit |-> [a \in Attempt |-> IF Closed(u, a) THEN lease[u][a].closed ELSE 0]]

\* The work leases are leases on attempts: through completions, expiries,
\* cancellations and retries by any caller in any order, an attempt stays with
\* its holder until the expiry last promised, or is withdrawn for good, no
\* outcome counts after it, and the next attempt waits for its turn.
KeepsAttemptLease == Promises!Spec
=============================================================================
