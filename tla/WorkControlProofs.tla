------------------------- MODULE WorkControlProofs -------------------------
(***************************************************************************)
(* Safety of the work-control store for every graph, policy and number of  *)
(* workers.                                                                *)
(***************************************************************************)
EXTENDS WorkControl, TLAPS

\* Closing a lease yields a well-formed closed head.
LEMMA ClosedHeadType ==
  ASSUME NEW l \in Lease, NEW k \in ClosedState, now \in Nat
  PROVE  ClosedHead(l, k) \in Lease
<1>1. l.version + 1 \in Nat
  BY DEF Lease
<1>2. k \in {"NONE", "ACTIVE"} \cup ClosedState
  OBVIOUS
<1> QED BY <1>1, <1>2 DEF ClosedHead, Lease

\* Appending a terminal event to a lease's log yields a log.
LEMMA TerminalEventType ==
  ASSUME NEW s \in Seq(Event), NEW k \in ClosedState
  PROVE  Append(s, [kind |-> k, expires |-> 0]) \in Seq(Event)
<1>1. [kind |-> k, expires |-> 0] \in Event
  BY DEF Event
<1> QED BY <1>1

\* A retry decision is well-formed: the delay of a scheduled retry exists.
LEMMA RetryDecisionType ==
  ASSUME NEW a \in Attempt, now \in Nat
  PROVE  RetryDecision(a) \in Retry
BY PolicyAssumption DEF RetryDecision, Retry, Attempt

\* Closing a lease keeps the lease and event tables well-typed.
LEMMA CloseLeaseType ==
  ASSUME TypeOK, NEW u \in Unit, NEW a \in Attempt, NEW k \in ClosedState, CloseLease(u, a, k)
  PROVE  /\ lease' \in [Unit -> [Attempt -> Lease]]
         /\ events' \in [Unit -> [Attempt -> Seq(Event)]]
<1>1. ClosedHead(lease[u][a], k) \in Lease
  BY ClosedHeadType DEF TypeOK
<1>2. Append(events[u][a], [kind |-> k, expires |-> 0]) \in Seq(Event)
  BY TerminalEventType DEF TypeOK
<1> QED BY <1>1, <1>2 DEF CloseLease, TypeOK

\* The empty store is well-typed.
LEMMA TypeInit == Init => TypeOK
BY PolicyAssumption, GraphAssumption
DEF Init, TypeOK, JobStatus, ItemStatus, NoCancellation, NoLease, Lease, NoRetry,
    Retry, Readiness, Snapshot, Attempt

\* Every operation of the store keeps its tables well-typed.
LEMMA TypeStep == TypeOK /\ [Next]_vars => TypeOK'
<1> SUFFICES ASSUME TypeOK, [Next]_vars PROVE TypeOK'
  OBVIOUS
<1>1. CASE Tick
  BY <1>1 DEF Tick, TypeOK, graphVars, leaseVars, readinessVars
<1>2. ASSUME NEW j \in Job, CancelJobWork(j) PROVE TypeOK'
  <2>0. "CANCELLED" \in ClosedState
    BY DEF ClosedState
  <2>1. lease' \in [Unit -> [Attempt -> Lease]]
    <3>1. \A u \in Unit, a \in Attempt : ClosedHead(lease[u][a], "CANCELLED") \in Lease
      BY <2>0, ClosedHeadType DEF TypeOK
    <3> QED BY <1>2, <3>1 DEF CancelJobWork, TypeOK
  <2>2. events' \in [Unit -> [Attempt -> Seq(Event)]]
    <3>1. \A u \in Unit, a \in Attempt :
            Append(events[u][a], [kind |-> "CANCELLED", expires |-> 0]) \in Seq(Event)
      BY <2>0, TerminalEventType DEF TypeOK
    <3> QED BY <1>2, <3>1 DEF CancelJobWork, TypeOK
  <2>3. stage' \in [Unit -> [Attempt -> {"NONE", "RUNNING"} \cup TERMINAL_STAGE_STATUSES]]
    BY <1>2 DEF CancelJobWork, TypeOK, TERMINAL_STAGE_STATUSES
  <2>4. ActiveLeases(j) \in SUBSET (Unit \X Attempt)
        /\ PreservedResults(j) \in SUBSET (Unit \X Attempt)
    BY DEF ActiveLeases, PreservedResults
  <2>5. cancellation' \in [Job -> [done : BOOLEAN, cancelled : SUBSET (Unit \X Attempt),
                                   preserved : SUBSET (Unit \X Attempt)]]
    BY <1>2, <2>4 DEF CancelJobWork, TypeOK
  <2> QED
    BY <1>2, <2>1, <2>2, <2>3, <2>5 DEF CancelJobWork, JobStatus, TypeOK, readinessVars
<1>3. ASSUME NEW j \in Job, NEW t \in JobStatus, TransitionJob(j, t) PROVE TypeOK'
  BY <1>3 DEF TransitionJob, TypeOK, leaseVars, readinessVars
<1>4. ASSUME NEW i \in Item, NEW t \in ItemStatus, TransitionItem(i, t) PROVE TypeOK'
  BY <1>4 DEF TransitionItem, TypeOK, leaseVars, readinessVars
<1>5. ASSUME NEW u \in Unit, NEW s \in Snapshot(u), InsertSnapshot(u, s) PROVE TypeOK'
  <2>1. s.readiness \in Readiness
    BY DEF Snapshot
  <2>2. latest' \in [Unit -> Readiness \cup {"NONE"}]
    BY <1>5, <2>1 DEF InsertSnapshot, TypeOK
  <2>3. DOMAIN snapshots' = Unit /\ \A v \in Unit : snapshots'[v] \subseteq Snapshot(v)
    BY <1>5 DEF InsertSnapshot, TypeOK
  <2> QED BY <1>5, <2>2, <2>3 DEF InsertSnapshot, TypeOK, graphVars, leaseVars
<1>6. ASSUME NEW u \in Unit, RecordWorkReadiness(u) PROVE TypeOK'
  <2>1. PICK ev \in [DependsOn[u] -> Evidence] :
           InsertSnapshot(u, [readiness |-> Evaluate(u, ev), evidence |-> ev])
    BY <1>6 DEF RecordWorkReadiness
  <2>2. Evaluate(u, ev) \in Readiness
    BY DEF Evaluate, Readiness
  <2>3. [readiness |-> Evaluate(u, ev), evidence |-> ev] \in Snapshot(u)
    BY <2>2 DEF Snapshot
  <2> QED BY <1>5, <2>1, <2>3
<1>7. ASSUME NEW u \in Unit, RecordSkippedItem(u) PROVE TypeOK'
  <2> DEFINE s == [readiness |-> "SKIPPED_ITEM",
                   evidence  |-> [d \in DependsOn[u] |-> [kind |-> "SKIPPED", attempt |-> 0]]]
  <2>1. [kind |-> "SKIPPED", attempt |-> 0] \in Evidence
    BY PolicyAssumption DEF Evidence
  <2>2. s \in Snapshot(u)
    BY <2>1 DEF Snapshot, Readiness
  <2>3. InsertSnapshot(u, s)
    BY <1>7 DEF RecordSkippedItem
  <2> HIDE DEF s
  <2> QED BY <1>5, <2>2, <2>3
<1>8. ASSUME NEW u \in Unit, NEW a \in Attempt, ExpireWorkLease(u, a) PROVE TypeOK'
  <2>1. lease' \in [Unit -> [Attempt -> Lease]] /\ events' \in [Unit -> [Attempt -> Seq(Event)]]
    BY <1>8, CloseLeaseType DEF ExpireWorkLease, ClosedState
  <2>2. stage' \in [Unit -> [Attempt -> {"NONE", "RUNNING"} \cup TERMINAL_STAGE_STATUSES]]
    BY <1>8 DEF ExpireWorkLease, TypeOK, TERMINAL_STAGE_STATUSES, RETRYABLE_STAGE_STATUSES
  <2>3. retry' \in [Unit -> [Attempt -> Retry]]
    BY <1>8, RetryDecisionType DEF ExpireWorkLease, TypeOK
  <2> QED BY <1>8, <2>1, <2>2, <2>3 DEF ExpireWorkLease, TypeOK, graphVars, readinessVars
<1>9. ASSUME NEW u \in Unit, NEW a \in Attempt, NEW h \in Holder, AcquireWorkLease(u, a, h)
      PROVE TypeOK'
  <2> DEFINE l == [state |-> "ACTIVE", version |-> 0, fence |-> NextFence(u),
                   holder |-> h, acquired |-> now, expires |-> now + LeaseDuration,
                   closed |-> 0]
  <2>1. l \in Lease
    BY PolicyAssumption DEF Lease, TypeOK, NextFence
  <2>2. lease' = [lease EXCEPT ![u][a] = l]
    BY <1>9 DEF AcquireWorkLease
  <2> HIDE DEF l
  <2>3. lease' \in [Unit -> [Attempt -> Lease]]
    BY <2>1, <2>2 DEF TypeOK
  <2> QED BY <1>9, <2>3 DEF AcquireWorkLease, NextFence, TypeOK, graphVars, readinessVars
<1>10. ASSUME NEW u \in Unit, NEW a \in Attempt, NEW h \in Holder, HeartbeatWorkLease(u, a, h)
       PROVE TypeOK'
  <2> DEFINE eff == IF now + HeartbeatExtension > lease[u][a].expires
                    THEN now + HeartbeatExtension ELSE lease[u][a].expires
  <2>1. lease[u][a] \in Lease
    BY DEF TypeOK
  <2>2. eff \in Nat
    BY <2>1, PolicyAssumption DEF Lease, TypeOK
  <2>3. /\ lease' = [lease EXCEPT ![u][a] = RenewedHead(lease[u][a], eff)]
        /\ events' = [events EXCEPT ![u][a] = Append(@, [kind |-> "HEARTBEAT", expires |-> eff])]
    BY <1>10 DEF HeartbeatWorkLease
  <2> HIDE DEF eff
  <2>4. RenewedHead(lease[u][a], eff) \in Lease
    <3>1. lease[u][a].version + 1 \in Nat
      BY <2>1 DEF Lease
    <3> QED BY <2>1, <2>2, <3>1 DEF Lease, RenewedHead
  <2>5. lease' \in [Unit -> [Attempt -> Lease]]
    BY <2>3, <2>4 DEF TypeOK
  <2>6. [kind |-> "HEARTBEAT", expires |-> eff] \in Event
    BY <2>2 DEF Event
  <2>7. events' \in [Unit -> [Attempt -> Seq(Event)]]
    BY <2>3, <2>6 DEF TypeOK
  <2> QED BY <1>10, <2>5, <2>7 DEF HeartbeatWorkLease, TypeOK, graphVars, readinessVars
<1>11. ASSUME NEW u \in Unit, NEW a \in Attempt, NEW h \in Holder,
              NEW s \in TERMINAL_STAGE_STATUSES, NEW r \in BOOLEAN,
              CompleteStageWorkLease(u, a, h, s, r)
       PROVE TypeOK'
  <2>1. StageEventKind(s, r) \in ClosedState
    BY DEF StageEventKind, ClosedState
  <2>2. lease' \in [Unit -> [Attempt -> Lease]] /\ events' \in [Unit -> [Attempt -> Seq(Event)]]
    BY <1>11, <2>1, CloseLeaseType DEF CompleteStageWorkLease
  <2>3. stage' \in [Unit -> [Attempt -> {"NONE", "RUNNING"} \cup TERMINAL_STAGE_STATUSES]]
    BY <1>11 DEF CompleteStageWorkLease, TypeOK
  <2>4. retry' \in [Unit -> [Attempt -> Retry]]
    BY <1>11, RetryDecisionType DEF CompleteStageWorkLease, TypeOK
  <2> QED BY <1>11, <2>2, <2>3, <2>4
          DEF CompleteStageWorkLease, TypeOK, graphVars, readinessVars
<1>12. ASSUME NEW u \in Unit, NEW a \in Attempt, NEW h \in Holder,
              NEW k \in {"SUCCEEDED", "RETRYABLE_FAILURE", "TERMINAL_FAILURE"},
              CompleteArtifactGroupWorkLease(u, a, h, k)
       PROVE TypeOK'
  <2>1. k \in ClosedState
    BY DEF ClosedState
  <2>2. lease' \in [Unit -> [Attempt -> Lease]] /\ events' \in [Unit -> [Attempt -> Seq(Event)]]
    BY <1>12, <2>1, CloseLeaseType DEF CompleteArtifactGroupWorkLease
  <2>3. retry' \in [Unit -> [Attempt -> Retry]]
    BY <1>12, RetryDecisionType DEF CompleteArtifactGroupWorkLease, TypeOK
  <2> QED BY <1>12, <2>2, <2>3
          DEF CompleteArtifactGroupWorkLease, TypeOK, graphVars, readinessVars
<1>13. CASE UNCHANGED vars
  BY <1>13 DEF vars, TypeOK
<1> QED
  BY <1>1, <1>2, <1>3, <1>4, <1>6, <1>7, <1>8, <1>9, <1>10, <1>11, <1>12, <1>13
  DEF Next, UnitNext

\* Every variable of WorkControl keeps its type: statuses, leases, events,
\* decisions and snapshots are always well-formed rows of their tables.
THEOREM TypeCorrect == Spec => []TypeOK
BY TypeInit, TypeStep, PTL DEF Spec

-----------------------------------------------------------------------------
(* What one step does to one attempt, and to the attempts of one unit.     *)

RowKept(u, a) ==
  /\ lease'[u][a] = lease[u][a]
  /\ events'[u][a] = events[u][a]
  /\ stage'[u][a] = stage[u][a]
  /\ retry'[u][a] = retry[u][a]

RowRenewed(u, a) ==
  /\ Active(u, a)
  /\ lease'[u][a].state = "ACTIVE"
  /\ lease'[u][a].fence = lease[u][a].fence
  /\ lease'[u][a].acquired = lease[u][a].acquired
  /\ stage'[u][a] = stage[u][a]
  /\ retry'[u][a] = retry[u][a]

\* The StageRun of a closing attempt ends the way its lease does.
StageEndsWith(u, a, k) ==
  IF u \in ArtifactGroup THEN stage'[u][a] = stage[u][a]
  ELSE /\ stage'[u][a] \in TERMINAL_STAGE_STATUSES
       /\ k = "SUCCEEDED" <=> stage'[u][a] = "SUCCEEDED"
       /\ k = "CANCELLED" <=> stage'[u][a] = "CANCELLED"
       /\ k = "RETRYABLE_FAILURE" \/ (k = "EXPIRED" /\ RetryLeaseExpiry)
            => stage'[u][a] \in RETRYABLE_STAGE_STATUSES

RowClosedAs(u, a, k) ==
  /\ Active(u, a)
  /\ lease'[u][a].state = k
  /\ lease'[u][a].fence = lease[u][a].fence
  /\ lease'[u][a].acquired = lease[u][a].acquired
  /\ lease'[u][a].expires = lease[u][a].expires
  /\ lease'[u][a].closed = now
  /\ k \in {"SUCCEEDED", "RETRYABLE_FAILURE", "TERMINAL_FAILURE"} => now < lease[u][a].expires
  /\ k = "EXPIRED" => now >= lease[u][a].expires
  /\ retry'[u][a] = IF k = "RETRYABLE_FAILURE" \/ (k = "EXPIRED" /\ RetryLeaseExpiry)
                    THEN RetryDecision(a) ELSE retry[u][a]
  /\ StageEndsWith(u, a, k)

RowClosed(u, a) == \E k \in ClosedState : RowClosedAs(u, a, k)

UnitAcquires(u, a) ==
  /\ LeaseAdmissible(u, a)
  /\ lease'[u][a].state = "ACTIVE"
  /\ lease'[u][a].fence = lastFence[u] + 1
  /\ lease'[u][a].acquired = now
  /\ stage'[u][a] = IF u \in ArtifactGroup THEN "NONE" ELSE "RUNNING"
  /\ retry'[u][a] = retry[u][a]
  /\ \A b \in Attempt : b # a => RowKept(u, b)
  /\ lastFence'[u] = lastFence[u] + 1

UnitStep(u) ==
  \/ /\ lastFence'[u] = lastFence[u]
     /\ \A a \in Attempt : RowKept(u, a) \/ RowRenewed(u, a) \/ RowClosed(u, a)
  \/ \E a \in Attempt : UnitAcquires(u, a)

\* The rows of an action that leaves the lease tables alone.
LEMMA UnchangedUnitStep ==
  ASSUME UNCHANGED leaseVars, UNCHANGED lastFence
  PROVE  \A u \in Unit : UnitStep(u)
BY DEF leaseVars, UnitStep, RowKept

\* The rows of an action that closes one lease with event kind k.
LEMMA ClosingUnitStep ==
  ASSUME TypeOK, NEW u \in Unit, NEW a \in Attempt, NEW k \in ClosedState,
         Active(u, a), CloseLease(u, a, k), UNCHANGED lastFence,
         k \in {"SUCCEEDED", "RETRYABLE_FAILURE", "TERMINAL_FAILURE"} => now < lease[u][a].expires,
         k = "EXPIRED" => now >= lease[u][a].expires,
         retry' = IF k = "RETRYABLE_FAILURE" \/ (k = "EXPIRED" /\ RetryLeaseExpiry)
                  THEN [retry EXCEPT ![u][a] = RetryDecision(a)] ELSE retry,
         \A v \in Unit : \A b \in Attempt : v # u \/ b # a => stage'[v][b] = stage[v][b],
         StageEndsWith(u, a, k)
  PROVE  \A v \in Unit : UnitStep(v)
<1>1. lease[u][a] \in Lease
  BY DEF TypeOK
<1>2. /\ lease'[u][a] = ClosedHead(lease[u][a], k)
      /\ \A v \in Unit : \A b \in Attempt : v # u \/ b # a =>
           lease'[v][b] = lease[v][b] /\ events'[v][b] = events[v][b]
  BY DEF CloseLease, TypeOK
<1>3. /\ ClosedHead(lease[u][a], k).state = k
      /\ ClosedHead(lease[u][a], k).fence = lease[u][a].fence
      /\ ClosedHead(lease[u][a], k).acquired = lease[u][a].acquired
      /\ ClosedHead(lease[u][a], k).expires = lease[u][a].expires
      /\ ClosedHead(lease[u][a], k).closed = now
  BY <1>1 DEF ClosedHead, Lease
<1>4. \A v \in Unit : \A b \in Attempt : v # u \/ b # a => retry'[v][b] = retry[v][b]
  BY DEF TypeOK
<1>5. retry'[u][a] = IF k = "RETRYABLE_FAILURE" \/ (k = "EXPIRED" /\ RetryLeaseExpiry)
                     THEN RetryDecision(a) ELSE retry[u][a]
  BY DEF TypeOK
<1>6. RowClosedAs(u, a, k)
  BY <1>2, <1>3, <1>5 DEF RowClosedAs
<1>7. \A v \in Unit : \A b \in Attempt : v # u \/ b # a => RowKept(v, b)
  BY <1>2, <1>4 DEF RowKept
<1>8. lastFence' = lastFence
  OBVIOUS
<1> QED BY <1>6, <1>7, <1>8 DEF UnitStep, RowClosed

\* An artifact group is worked without a StageRun.
ArtifactHasNoStage == \A u \in ArtifactGroup : \A a \in Attempt : stage[u][a] = "NONE"

\* Every step, seen from one unit: its attempts are kept, renewed or closed,
\* or one new attempt of it is acquired.
LEMMA EveryUnitStep ==
  ASSUME TypeOK, ArtifactHasNoStage, [Next]_vars
  PROVE  \A u \in Unit : UnitStep(u)
<1>1. CASE Tick
  BY <1>1, UnchangedUnitStep DEF Tick
<1>2. ASSUME NEW j \in Job, CancelJobWork(j) PROVE \A u \in Unit : UnitStep(u)
  <2> SUFFICES ASSUME NEW u \in Unit, NEW a \in Attempt
               PROVE  RowKept(u, a) \/ RowClosed(u, a)
    BY <1>2 DEF CancelJobWork, UnitStep
  <2>1. CASE <<u, a>> \in ActiveLeases(j)
    <3>1. lease[u][a] \in Lease /\ Active(u, a)
      BY <2>1 DEF TypeOK, ActiveLeases
    <3>2. /\ lease'[u][a] = ClosedHead(lease[u][a], "CANCELLED")
          /\ stage'[u][a] = IF u \notin ArtifactGroup THEN "CANCELLED" ELSE stage[u][a]
          /\ retry'[u][a] = retry[u][a]
      BY <1>2, <2>1 DEF CancelJobWork
    <3>3. StageEndsWith(u, a, "CANCELLED")
      BY <3>2 DEF StageEndsWith, TERMINAL_STAGE_STATUSES
    <3>4. RowClosedAs(u, a, "CANCELLED")
      BY <3>1, <3>2, <3>3 DEF RowClosedAs, ClosedHead, Lease
    <3> QED BY <3>4 DEF RowClosed, ClosedState
  <2>2. CASE <<u, a>> \notin ActiveLeases(j)
    BY <1>2, <2>2 DEF CancelJobWork, RowKept
  <2> QED BY <2>1, <2>2
<1>3. ASSUME NEW j \in Job, NEW t \in JobStatus, TransitionJob(j, t)
      PROVE  \A u \in Unit : UnitStep(u)
  BY <1>3, UnchangedUnitStep DEF TransitionJob
<1>4. ASSUME NEW i \in Item, NEW t \in ItemStatus, TransitionItem(i, t)
      PROVE  \A u \in Unit : UnitStep(u)
  BY <1>4, UnchangedUnitStep DEF TransitionItem
<1>5. ASSUME NEW v \in Unit, RecordWorkReadiness(v) \/ RecordSkippedItem(v)
      PROVE  \A u \in Unit : UnitStep(u)
  BY <1>5, UnchangedUnitStep DEF RecordWorkReadiness, RecordSkippedItem, InsertSnapshot
<1>6. ASSUME NEW v \in Unit, NEW a \in Attempt, ExpireWorkLease(v, a)
      PROVE  \A u \in Unit : UnitStep(u)
  <2>1. "EXPIRED" \in ClosedState
    BY DEF ClosedState
  <2>2. StageEndsWith(v, a, "EXPIRED")
    BY <1>6 DEF ExpireWorkLease, StageEndsWith, TypeOK, TERMINAL_STAGE_STATUSES,
                RETRYABLE_STAGE_STATUSES
  <2>3. \A w \in Unit : \A b \in Attempt : w # v \/ b # a => stage'[w][b] = stage[w][b]
    BY <1>6 DEF ExpireWorkLease, TypeOK
  <2>4. /\ Active(v, a) /\ now >= lease[v][a].expires
        /\ CloseLease(v, a, "EXPIRED")
        /\ retry' = IF RetryLeaseExpiry THEN [retry EXCEPT ![v][a] = RetryDecision(a)] ELSE retry
        /\ UNCHANGED lastFence
    BY <1>6 DEF ExpireWorkLease, Expirable
  <2> QED BY <2>1, <2>2, <2>3, <2>4, ClosingUnitStep
<1>7. ASSUME NEW v \in Unit, NEW a \in Attempt, NEW h \in Holder, AcquireWorkLease(v, a, h)
      PROVE  \A u \in Unit : UnitStep(u)
  <2> DEFINE l == [state |-> "ACTIVE", version |-> 0, fence |-> NextFence(v),
                   holder |-> h, acquired |-> now, expires |-> now + LeaseDuration,
                   closed |-> 0]
  <2>1. l.state = "ACTIVE" /\ l.fence = lastFence[v] + 1 /\ l.acquired = now
    BY DEF NextFence
  <2>2. lease' = [lease EXCEPT ![v][a] = l]
    BY <1>7 DEF AcquireWorkLease
  <2> HIDE DEF l
  <2>3. /\ lease'[v][a] = l
        /\ \A w \in Unit : \A b \in Attempt : w # v \/ b # a => lease'[w][b] = lease[w][b]
    BY <2>2 DEF TypeOK
  <2>4. /\ stage'[v][a] = IF v \in ArtifactGroup THEN "NONE" ELSE "RUNNING"
        /\ \A w \in Unit : \A b \in Attempt : w # v \/ b # a => stage'[w][b] = stage[w][b]
    BY <1>7 DEF AcquireWorkLease, TypeOK
  <2>5. /\ LeaseAdmissible(v, a) /\ retry' = retry /\ events' = events
        /\ lastFence'[v] = lastFence[v] + 1
        /\ \A w \in Unit : w # v => lastFence'[w] = lastFence[w]
    BY <1>7 DEF AcquireWorkLease, NextFence, TypeOK
  <2>6. \A w \in Unit : \A b \in Attempt : w # v \/ b # a => RowKept(w, b)
    BY <2>3, <2>4, <2>5 DEF RowKept
  <2>7. UnitAcquires(v, a)
    BY <2>1, <2>3, <2>4, <2>5, <2>6 DEF UnitAcquires
  <2> QED BY <2>5, <2>6, <2>7 DEF UnitStep
<1>8. ASSUME NEW v \in Unit, NEW a \in Attempt, NEW h \in Holder, HeartbeatWorkLease(v, a, h)
      PROVE  \A u \in Unit : UnitStep(u)
  <2> DEFINE eff == IF now + HeartbeatExtension > lease[v][a].expires
                    THEN now + HeartbeatExtension ELSE lease[v][a].expires
  <2>1. /\ lease' = [lease EXCEPT ![v][a] = RenewedHead(lease[v][a], eff)]
        /\ events' = [events EXCEPT ![v][a] = Append(@, [kind |-> "HEARTBEAT", expires |-> eff])]
        /\ Active(v, a) /\ stage' = stage /\ retry' = retry /\ lastFence' = lastFence
    BY <1>8 DEF HeartbeatWorkLease, HolderMayAct
  <2> HIDE DEF eff
  <2>2. /\ RenewedHead(lease[v][a], eff).state = lease[v][a].state
        /\ RenewedHead(lease[v][a], eff).fence = lease[v][a].fence
        /\ RenewedHead(lease[v][a], eff).acquired = lease[v][a].acquired
    <3>1. lease[v][a] \in Lease
      BY DEF TypeOK
    <3> QED BY <3>1 DEF RenewedHead, Lease
  <2>3. /\ lease'[v][a] = RenewedHead(lease[v][a], eff)
        /\ \A w \in Unit : \A b \in Attempt : w # v \/ b # a =>
             lease'[w][b] = lease[w][b] /\ events'[w][b] = events[w][b]
    BY <2>1 DEF TypeOK
  <2>4. RowRenewed(v, a)
    BY <2>1, <2>2, <2>3 DEF RowRenewed, Active
  <2> QED BY <2>1, <2>3, <2>4 DEF UnitStep, RowKept
<1>9. ASSUME NEW v \in Unit, NEW a \in Attempt, NEW h \in Holder,
             NEW s \in TERMINAL_STAGE_STATUSES, NEW r \in BOOLEAN,
             CompleteStageWorkLease(v, a, h, s, r)
      PROVE  \A u \in Unit : UnitStep(u)
  <2> DEFINE k == StageEventKind(s, r)
  <2>1. k \in ClosedState \ {"EXPIRED"}
    BY DEF StageEventKind, ClosedState
  <2>2. v \notin ArtifactGroup
    BY <1>9 DEF CompleteStageWorkLease, ArtifactHasNoStage
  <2>3. stage'[v][a] = s
    BY <1>9 DEF CompleteStageWorkLease, TypeOK
  <2>4. StageEndsWith(v, a, k)
    BY <1>9, <2>2, <2>3
    DEF CompleteStageWorkLease, StageEndsWith, StageEventKind, OutcomeAllowed,
        TERMINAL_STAGE_STATUSES, RETRYABLE_STAGE_STATUSES
  <2>5. \A w \in Unit : \A b \in Attempt : w # v \/ b # a => stage'[w][b] = stage[w][b]
    BY <1>9 DEF CompleteStageWorkLease, TypeOK
  <2>6. /\ Active(v, a) /\ now < lease[v][a].expires
        /\ CloseLease(v, a, k)
        /\ retry' = IF k = "RETRYABLE_FAILURE" THEN [retry EXCEPT ![v][a] = RetryDecision(a)] ELSE retry
        /\ UNCHANGED lastFence
    BY <1>9 DEF CompleteStageWorkLease, HolderMayAct
  <2> HIDE DEF k
  <2> QED BY <2>1, <2>4, <2>5, <2>6, ClosingUnitStep
<1>10. ASSUME NEW v \in Unit, NEW a \in Attempt, NEW h \in Holder,
              NEW k \in {"SUCCEEDED", "RETRYABLE_FAILURE", "TERMINAL_FAILURE"},
              CompleteArtifactGroupWorkLease(v, a, h, k)
       PROVE  \A u \in Unit : UnitStep(u)
  <2>1. k \in ClosedState \ {"EXPIRED"}
    BY DEF ClosedState
  <2>2. /\ Active(v, a) /\ now < lease[v][a].expires
        /\ CloseLease(v, a, k) /\ v \in ArtifactGroup /\ stage' = stage
        /\ retry' = IF k = "RETRYABLE_FAILURE" THEN [retry EXCEPT ![v][a] = RetryDecision(a)] ELSE retry
        /\ UNCHANGED lastFence
    BY <1>10 DEF CompleteArtifactGroupWorkLease, HolderMayAct
  <2>3. StageEndsWith(v, a, k)
    BY <2>2 DEF StageEndsWith
  <2> QED BY <2>1, <2>2, <2>3, ClosingUnitStep
<1>11. CASE UNCHANGED vars
  BY <1>11, UnchangedUnitStep DEF vars, leaseVars
<1> QED
  BY <1>1, <1>2, <1>3, <1>4, <1>5, <1>6, <1>7, <1>8, <1>9, <1>10, <1>11 DEF Next, UnitNext

-----------------------------------------------------------------------------
(* The invariants of the lease tables.                                     *)

\* A retry decision belongs to an attempt that was closed retryably.
RetryEarned ==
  \A u \in Unit : \A a \in Attempt : retry[u][a].decision # "NONE" => RetryableClose(u, a)

\* The invariants of the lease tables are inductive together: a dispatch of
\* attempt a + 1 reads the retry decision of attempt a, so its delay, its
\* stage status and the order of the attempts all rest on one another.
LeaseInv ==
  /\ TypeOK
  /\ ArtifactHasNoStage
  /\ OneAttemptInFlight
  /\ FencesIncrease
  /\ RetryEarned
  /\ RetryDispatchable
  /\ RetrySpacing
  /\ LeaseStageAgree
  /\ NoLateResult

\* A closed attempt is kept by every step.
LEMMA ClosedRowKept ==
  ASSUME \A u \in Unit : UnitStep(u), NEW u \in Unit, NEW a \in Attempt, Closed(u, a)
  PROVE  RowKept(u, a)
<1>1. ~Active(u, a) /\ Exists(u, a)
  BY DEF Closed, Active, Exists, ClosedState
<1>2. ~RowRenewed(u, a) /\ ~RowClosed(u, a)
  BY <1>1 DEF RowRenewed, RowClosed, RowClosedAs
<1>3. ASSUME NEW b \in Attempt, UnitAcquires(u, b) PROVE a # b
  <2>1. ~Exists(u, b)
    BY <1>3, PolicyAssumption DEF UnitAcquires, LeaseAdmissible, IsLatestAttempt, Attempt
  <2> QED BY <1>1, <2>1
<1> QED BY <1>2, <1>3 DEF UnitStep, UnitAcquires

\* An attempt that exists goes on existing, and one that appears was admitted.
LEMMA RowExistence ==
  ASSUME \A u \in Unit : UnitStep(u), NEW u \in Unit, NEW a \in Attempt
  PROVE  /\ Exists(u, a) => Exists(u, a)'
         /\ Exists(u, a)' => Exists(u, a) \/ UnitAcquires(u, a)
         /\ Active(u, a) /\ ~UnitAcquires(u, a) => RowKept(u, a) \/ RowRenewed(u, a) \/ RowClosed(u, a)
BY DEF UnitStep, RowKept, RowRenewed, RowClosed, RowClosedAs, UnitAcquires, Exists, Active, ClosedState

\* No step starts an attempt while an earlier one of its unit is open.
LEMMA OneAttemptStep ==
  ASSUME TypeOK, OneAttemptInFlight, \A u \in Unit : UnitStep(u)
  PROVE  OneAttemptInFlight'
<1> SUFFICES ASSUME NEW u \in Unit, NEW a \in Attempt, NEW b \in Attempt, a < b, Exists(u, b)'
             PROVE  Closed(u, a)'
  BY DEF OneAttemptInFlight
<1>1. Closed(u, a)
  <2>1. CASE Exists(u, b)
    BY <2>1 DEF OneAttemptInFlight
  <2>2. CASE UnitAcquires(u, b)
    <3>1. b # 1 /\ Exists(u, b - 1) /\ b - 1 \in Attempt
      BY <2>2, PolicyAssumption DEF UnitAcquires, LeaseAdmissible, IsLatestAttempt, Attempt
    <3>2. \A c \in Attempt : ~Active(u, c)
      BY <2>2 DEF UnitAcquires, LeaseAdmissible
    <3>3. lease[u][b - 1].state \in {"NONE", "ACTIVE"} \cup ClosedState
      BY <3>1 DEF TypeOK, Lease
    <3>4. Closed(u, b - 1)
      BY <3>1, <3>2, <3>3 DEF Exists, Active, Closed
    <3>5. a = b - 1 \/ a < b - 1
      BY DEF Attempt
    <3> QED BY <3>1, <3>4, <3>5 DEF OneAttemptInFlight
  <2> QED BY <2>1, <2>2, RowExistence
<1>2. RowKept(u, a)
  BY <1>1, ClosedRowKept
<1> QED BY <1>1, <1>2 DEF RowKept, Closed

\* No step hands out a fencing token that is not larger than all before it.
LEMMA FencesStep ==
  ASSUME TypeOK, OneAttemptInFlight, FencesIncrease, \A u \in Unit : UnitStep(u)
  PROVE  FencesIncrease'
<1> SUFFICES ASSUME NEW u \in Unit, NEW b \in Attempt, Exists(u, b)'
             PROVE  /\ lease'[u][b].fence <= lastFence'[u]
                    /\ \A a \in Attempt : a < b => lease'[u][a].fence < lease'[u][b].fence
  BY DEF FencesIncrease
<1>0. /\ lastFence[u] \in Nat
      /\ \A a \in Attempt : lease[u][a].fence \in Nat
  BY DEF TypeOK, Lease
<1>1. CASE \E a \in Attempt : UnitAcquires(u, a)
  <2>1. PICK c \in Attempt : UnitAcquires(u, c)
    BY <1>1
  <2>2. \A a \in Attempt : Exists(u, a) => a < c
    BY <2>1, PolicyAssumption DEF UnitAcquires, LeaseAdmissible, IsLatestAttempt, Attempt
  <2>3. \A a \in Attempt : a < c => Exists(u, a)
    <3>1. CASE c = 1
      BY <3>1 DEF Attempt
    <3>2. CASE c # 1
      <4>1. c - 1 \in Attempt /\ Exists(u, c - 1)
        BY <2>1, <3>2, PolicyAssumption DEF UnitAcquires, LeaseAdmissible, IsLatestAttempt, Attempt
      <4>2. \A a \in Attempt : a < c => a = c - 1 \/ a < c - 1
        BY DEF Attempt
      <4>3. \A a \in Attempt : Closed(u, a) => Exists(u, a)
        BY DEF Closed, Exists, ClosedState
      <4> QED BY <4>1, <4>2, <4>3 DEF OneAttemptInFlight
    <3> QED BY <3>1, <3>2
  <2>4. /\ lease'[u][c].fence = lastFence[u] + 1
        /\ lastFence'[u] = lastFence[u] + 1
        /\ \A a \in Attempt : a # c => lease'[u][a] = lease[u][a]
    BY <2>1 DEF UnitAcquires, RowKept
  <2>5. \A a \in Attempt : Exists(u, a) => lease[u][a].fence <= lastFence[u]
    BY DEF FencesIncrease
  <2>6. CASE b = c
    BY <1>0, <2>3, <2>4, <2>5, <2>6 DEF Attempt
  <2>7. CASE b # c
    <3>1. Exists(u, b) /\ b < c
      BY <2>2, <2>4, <2>7 DEF Exists
    <3>2. \A a \in Attempt : a < b => a # c /\ lease[u][a].fence < lease[u][b].fence
      BY <3>1 DEF FencesIncrease, Attempt
    <3> QED BY <1>0, <2>4, <2>5, <2>7, <3>1, <3>2
  <2> QED BY <2>6, <2>7
<1>2. CASE ~\E a \in Attempt : UnitAcquires(u, a)
  <2>1. lastFence'[u] = lastFence[u] /\ \A a \in Attempt : lease'[u][a].fence = lease[u][a].fence
    BY <1>2 DEF UnitStep, RowKept, RowRenewed, RowClosed, RowClosedAs
  <2>2. Exists(u, b)
    BY <1>2, RowExistence
  <2> QED BY <2>1, <2>2 DEF FencesIncrease
<1> QED BY <1>1, <1>2

\* What a step makes of one attempt, for the invariants about single attempts.
LEMMA RowCases ==
  ASSUME \A u \in Unit : UnitStep(u), NEW u \in Unit, NEW a \in Attempt
  PROVE  RowKept(u, a) \/ RowRenewed(u, a) \/ RowClosed(u, a) \/ UnitAcquires(u, a)
BY DEF UnitStep, UnitAcquires

\* Only a retryable close writes a retry decision.
LEMMA RetryEarnedStep ==
  ASSUME TypeOK, RetryEarned, \A u \in Unit : UnitStep(u)
  PROVE  RetryEarned'
<1> SUFFICES ASSUME NEW u \in Unit, NEW a \in Attempt, retry'[u][a].decision # "NONE"
             PROVE  RetryableClose(u, a)'
  BY DEF RetryEarned
<1>1. CASE RowKept(u, a)
  BY <1>1 DEF RowKept, RetryEarned, RetryableClose
<1>2. CASE RowRenewed(u, a)
  BY <1>2 DEF RowRenewed, RetryEarned, RetryableClose, Active
<1>3. CASE RowClosed(u, a)
  BY <1>3 DEF RowClosed, RowClosedAs, RetryEarned, RetryableClose, Active
<1>4. CASE UnitAcquires(u, a)
  <2>1. ~Exists(u, a)
    BY <1>4, PolicyAssumption DEF UnitAcquires, LeaseAdmissible, IsLatestAttempt, Attempt
  <2> QED BY <1>4, <2>1 DEF UnitAcquires, RetryEarned, RetryableClose, Exists
<1> QED BY <1>1, <1>2, <1>3, <1>4, RowCases

\* Every retryable close leaves the decision that a later dispatch needs.
LEMMA RetryDispatchableStep ==
  ASSUME TypeOK, RetryDispatchable, \A u \in Unit : UnitStep(u)
  PROVE  RetryDispatchable'
<1> SUFFICES ASSUME NEW u \in Unit, NEW a \in Attempt, RetryableClose(u, a)'
             PROVE  IF a < MaxAttempts
                    THEN /\ retry'[u][a] = [decision |-> "RETRY_SCHEDULED",
                                            eligible |-> lease'[u][a].closed + RetryDelay[a]]
                         /\ u \notin ArtifactGroup => stage'[u][a] \in RETRYABLE_STAGE_STATUSES
                    ELSE retry'[u][a].decision = "EXHAUSTED"
  BY DEF RetryDispatchable
<1>1. CASE RowKept(u, a)
  BY <1>1 DEF RowKept, RetryDispatchable, RetryableClose
<1>2. CASE RowRenewed(u, a)
  BY <1>2 DEF RowRenewed, RetryableClose
<1>3. CASE RowClosed(u, a)
  <2>1. PICK k \in ClosedState : RowClosedAs(u, a, k)
    BY <1>3 DEF RowClosed
  <2>2. k = "RETRYABLE_FAILURE" \/ (k = "EXPIRED" /\ RetryLeaseExpiry)
    BY <2>1 DEF RowClosedAs, RetryableClose
  <2>3. retry'[u][a] = RetryDecision(a) /\ lease'[u][a].closed = now
    BY <2>1, <2>2 DEF RowClosedAs
  <2>4. u \notin ArtifactGroup => stage'[u][a] \in RETRYABLE_STAGE_STATUSES
    BY <2>1, <2>2 DEF RowClosedAs, StageEndsWith
  <2> QED BY <2>3, <2>4 DEF RetryDecision
<1>4. CASE UnitAcquires(u, a)
  BY <1>4 DEF UnitAcquires, RetryableClose
<1> QED BY <1>1, <1>2, <1>3, <1>4, RowCases

\* No step dispatches a retry before the policy's delay has passed.
LEMMA RetrySpacingStep ==
  ASSUME TypeOK, OneAttemptInFlight, RetryEarned, RetryDispatchable, RetrySpacing,
         \A u \in Unit : UnitStep(u)
  PROVE  RetrySpacing'
<1> SUFFICES ASSUME NEW u \in Unit, NEW a \in Attempt, a + 1 \in Attempt, Exists(u, a + 1)'
             PROVE  /\ RetryableClose(u, a)'
                    /\ lease'[u][a + 1].acquired >= lease'[u][a].closed + RetryDelay[a]
  BY DEF RetrySpacing
<1>1. CASE Exists(u, a + 1)
  <2>1. /\ RetryableClose(u, a)
        /\ lease[u][a + 1].acquired >= lease[u][a].closed + RetryDelay[a]
    BY <1>1 DEF RetrySpacing
  <2>2. RowKept(u, a)
    BY <2>1, ClosedRowKept DEF RetryableClose, Closed, ClosedState
  <2>3. ~UnitAcquires(u, a + 1)
    BY <1>1, PolicyAssumption DEF UnitAcquires, LeaseAdmissible, IsLatestAttempt, Attempt
  <2>4. lease'[u][a + 1].acquired = lease[u][a + 1].acquired
    BY <2>3, RowCases DEF RowKept, RowRenewed, RowClosed, RowClosedAs
  <2> QED BY <2>1, <2>2, <2>4 DEF RowKept, RetryableClose
<1>2. CASE UnitAcquires(u, a + 1)
  <2>1. /\ retry[u][a].decision = "RETRY_SCHEDULED"
        /\ now >= retry[u][a].eligible
        /\ lease'[u][a + 1].acquired = now
        /\ a < MaxAttempts
    BY <1>2, PolicyAssumption DEF UnitAcquires, LeaseAdmissible, Attempt
  <2>2. RetryableClose(u, a)
    BY <2>1 DEF RetryEarned
  <2>3. retry[u][a] = [decision |-> "RETRY_SCHEDULED",
                       eligible |-> lease[u][a].closed + RetryDelay[a]]
    BY <2>1, <2>2 DEF RetryDispatchable
  <2>4. RowKept(u, a)
    BY <2>2, ClosedRowKept DEF RetryableClose, Closed, ClosedState
  <2> QED BY <2>1, <2>2, <2>3, <2>4 DEF RowKept, RetryableClose
<1> QED BY <1>1, <1>2, RowExistence

\* Every step moves a lease and its StageRun together.
LEMMA LeaseStageStep ==
  ASSUME TypeOK, LeaseStageAgree, \A u \in Unit : UnitStep(u)
  PROVE  LeaseStageAgree'
<1> SUFFICES ASSUME NEW u \in Unit \ ArtifactGroup, NEW a \in Attempt
             PROVE  /\ Active(u, a)' <=> stage'[u][a] = "RUNNING"
                    /\ Exists(u, a)' <=> stage'[u][a] # "NONE"
                    /\ lease'[u][a].state = "SUCCEEDED" <=> stage'[u][a] = "SUCCEEDED"
                    /\ lease'[u][a].state = "CANCELLED" <=> stage'[u][a] = "CANCELLED"
                    /\ RetryableClose(u, a)' => stage'[u][a] \in RETRYABLE_STAGE_STATUSES
  BY DEF LeaseStageAgree
<1>1. CASE RowKept(u, a)
  BY <1>1 DEF RowKept, LeaseStageAgree, Active, Exists, RetryableClose
<1>2. CASE RowRenewed(u, a)
  BY <1>2 DEF RowRenewed, LeaseStageAgree, Active, Exists, RetryableClose
<1>3. CASE RowClosed(u, a)
  <2>1. PICK k \in ClosedState : RowClosedAs(u, a, k)
    BY <1>3 DEF RowClosed
  <2> QED
    BY <2>1 DEF RowClosedAs, StageEndsWith, Active, Exists, RetryableClose, ClosedState,
                TERMINAL_STAGE_STATUSES, RETRYABLE_STAGE_STATUSES
<1>4. CASE UnitAcquires(u, a)
  BY <1>4 DEF UnitAcquires, Active, Exists, RetryableClose
<1> QED BY <1>1, <1>2, <1>3, <1>4, RowCases

\* No step accepts a result late or expires a lease early.
LEMMA NoLateResultStep ==
  ASSUME TypeOK, NoLateResult, \A u \in Unit : UnitStep(u)
  PROVE  NoLateResult'
<1> SUFFICES ASSUME NEW u \in Unit, NEW a \in Attempt
             PROVE  /\ lease'[u][a].state \in {"SUCCEEDED", "RETRYABLE_FAILURE", "TERMINAL_FAILURE"} =>
                         lease'[u][a].closed < lease'[u][a].expires
                    /\ lease'[u][a].state = "EXPIRED" => lease'[u][a].closed >= lease'[u][a].expires
  BY DEF NoLateResult
<1>1. CASE RowKept(u, a)
  BY <1>1 DEF RowKept, NoLateResult
<1>2. CASE RowRenewed(u, a)
  BY <1>2 DEF RowRenewed
<1>3. CASE RowClosed(u, a)
  BY <1>3 DEF RowClosed, RowClosedAs
<1>4. CASE UnitAcquires(u, a)
  BY <1>4 DEF UnitAcquires
<1> QED BY <1>1, <1>2, <1>3, <1>4, RowCases

\* No step gives an artifact group a StageRun.
LEMMA ArtifactStageStep ==
  ASSUME TypeOK, ArtifactHasNoStage, \A u \in Unit : UnitStep(u)
  PROVE  ArtifactHasNoStage'
<1> SUFFICES ASSUME NEW u \in ArtifactGroup, NEW a \in Attempt PROVE stage'[u][a] = "NONE"
  BY DEF ArtifactHasNoStage
<1>1. u \in Unit
  BY GraphAssumption
<1> QED
  BY <1>1, RowCases DEF RowKept, RowRenewed, RowClosed, RowClosedAs, StageEndsWith,
                        UnitAcquires, ArtifactHasNoStage

\* The empty store satisfies the inductive invariant.
LEMMA LeaseInvInit == Init => LeaseInv
<1> SUFFICES ASSUME Init PROVE LeaseInv
  OBVIOUS
<1>1. TypeOK
  BY TypeInit
<1>2. \A u \in Unit : \A a \in Attempt :
        /\ lease[u][a].state = "NONE" /\ stage[u][a] = "NONE" /\ retry[u][a].decision = "NONE"
  BY DEF Init, NoLease, NoRetry
<1> QED
  BY <1>1, <1>2, GraphAssumption
  DEF LeaseInv, ArtifactHasNoStage, OneAttemptInFlight, FencesIncrease, RetryEarned,
      RetryDispatchable, RetrySpacing, LeaseStageAgree, NoLateResult, Exists, Active,
      RetryableClose

\* Every operation of the store preserves the inductive invariant.
LEMMA LeaseInvStep == LeaseInv /\ [Next]_vars => LeaseInv'
<1> SUFFICES ASSUME LeaseInv, [Next]_vars PROVE LeaseInv'
  OBVIOUS
<1>1. \A u \in Unit : UnitStep(u)
  BY EveryUnitStep DEF LeaseInv
<1>2. TypeOK'
  BY TypeStep DEF LeaseInv
<1>3. ArtifactHasNoStage' /\ OneAttemptInFlight' /\ FencesIncrease'
  BY <1>1, ArtifactStageStep, OneAttemptStep, FencesStep DEF LeaseInv
<1>4. RetryEarned' /\ RetryDispatchable' /\ RetrySpacing'
  BY <1>1, RetryEarnedStep, RetryDispatchableStep, RetrySpacingStep DEF LeaseInv
<1>5. LeaseStageAgree' /\ NoLateResult'
  BY <1>1, LeaseStageStep, NoLateResultStep DEF LeaseInv
<1> QED BY <1>2, <1>3, <1>4, <1>5 DEF LeaseInv

\* For every graph, policy and set of workers: attempts of a unit follow one
\* another, fencing tokens grow, retries are earned and spaced, StageRuns agree
\* with their leases and no result is accepted after its lease ran out.
THEOREM LeaseSafety ==
  Spec => [](/\ OneAttemptInFlight
             /\ FencesIncrease
             /\ RetryDispatchable
             /\ RetrySpacing
             /\ LeaseStageAgree
             /\ NoLateResult)
<1>1. Spec => []LeaseInv
  BY LeaseInvInit, LeaseInvStep, PTL DEF Spec
<1>2. LeaseInv => /\ OneAttemptInFlight
                  /\ FencesIncrease
                  /\ RetryDispatchable
                  /\ RetrySpacing
                  /\ LeaseStageAgree
                  /\ NoLateResult
  BY DEF LeaseInv
<1> QED BY <1>1, <1>2, PTL

\* A worker of an earlier attempt always holds a smaller fencing token than a
\* worker of a later one, and no token is ahead of the fence row.
THEOREM FenceSafety == Spec => []FencesIncrease
BY LeaseSafety, PTL

\* A retry is dispatched only after a retryable close and the policy's delay.
THEOREM RetrySpacingSafety == Spec => []RetrySpacing
BY LeaseSafety, PTL

\* A retryable close always leaves the decision and the stage status that the
\* next dispatch asks for, up to the policy's last attempt.
THEOREM RetryDispatchSafety == Spec => []RetryDispatchable
BY LeaseSafety, PTL

\* A StageRun and the lease that controls it never disagree.
THEOREM LeaseStageSafety == Spec => []LeaseStageAgree
BY LeaseSafety, PTL

\* No result is accepted at or after the effective expiry, and no lease is
\* expired before it, however heartbeats, completions and expiries interleave.
THEOREM LateResultSafety == Spec => []NoLateResult
BY LeaseSafety, PTL

\* Closed attempts are immutable: no step of the store changes the head,
\* the events, the stage status or the retry decision of one.
THEOREM ClosedAttemptsFrozen == Spec => ClosedAttemptFrozen
<1> DEFINE Frozen == \A u \in Unit : \A a \in Attempt : Closed(u, a) =>
                       /\ lease'[u][a] = lease[u][a]
                       /\ events'[u][a] = events[u][a]
                       /\ stage'[u][a] = stage[u][a]
                       /\ retry'[u][a] = retry[u][a]
<1>1. LeaseInv /\ [Next]_vars => [Frozen]_vars
  <2> SUFFICES ASSUME LeaseInv, [Next]_vars PROVE Frozen
    OBVIOUS
  <2>1. \A u \in Unit : UnitStep(u)
    BY EveryUnitStep DEF LeaseInv
  <2> QED BY <2>1, ClosedRowKept DEF RowKept
<1> QED BY <1>1, LeaseInvInit, LeaseInvStep, PTL DEF Spec, ClosedAttemptFrozen

-----------------------------------------------------------------------------
(* Cancellation.                                                           *)

\* An operation on a unit leaves jobs, items and cancellations alone, and only
\* the two recording operations write readiness.
LEMMA UnitFrame ==
  ASSUME NEW u \in Unit, UnitNext(u)
  PROVE  /\ UNCHANGED <<jobStatus, itemStatus, cancellation>>
         /\ RecordWorkReadiness(u) \/ RecordSkippedItem(u) \/ UNCHANGED latest
<1>1. CASE RecordWorkReadiness(u) \/ RecordSkippedItem(u)
  BY <1>1 DEF RecordWorkReadiness, RecordSkippedItem, InsertSnapshot, graphVars
<1>2. ASSUME NEW a \in Attempt, ExpireWorkLease(u, a)
      PROVE  UNCHANGED <<jobStatus, itemStatus, cancellation, latest>>
  BY <1>2 DEF ExpireWorkLease, graphVars, readinessVars
<1>3. ASSUME NEW a \in Attempt, NEW h \in Holder,
             AcquireWorkLease(u, a, h) \/ HeartbeatWorkLease(u, a, h)
      PROVE  UNCHANGED <<jobStatus, itemStatus, cancellation, latest>>
  BY <1>3 DEF AcquireWorkLease, HeartbeatWorkLease, graphVars, readinessVars
<1>4. ASSUME NEW a \in Attempt, NEW h \in Holder, NEW s \in TERMINAL_STAGE_STATUSES,
             NEW r \in BOOLEAN, CompleteStageWorkLease(u, a, h, s, r)
      PROVE  UNCHANGED <<jobStatus, itemStatus, cancellation, latest>>
  BY <1>4 DEF CompleteStageWorkLease, graphVars, readinessVars
<1>5. ASSUME NEW a \in Attempt, NEW h \in Holder,
             NEW k \in {"SUCCEEDED", "RETRYABLE_FAILURE", "TERMINAL_FAILURE"},
             CompleteArtifactGroupWorkLease(u, a, h, k)
      PROVE  UNCHANGED <<jobStatus, itemStatus, cancellation, latest>>
  BY <1>5 DEF CompleteArtifactGroupWorkLease, graphVars, readinessVars
<1> QED BY <1>1, <1>2, <1>3, <1>4, <1>5 DEF UnitNext

\* Only a job's own cancellation writes its cancellation record, a cancelled
\* job is cancelled for good, and only once.
LEMMA JobStep ==
  ASSUME TypeOK, [Next]_vars, NEW j \in Job
  PROVE  \/ /\ cancellation'[j] = cancellation[j]
            /\ jobStatus[j] = "CANCELLED" => jobStatus'[j] = "CANCELLED"
         \/ CancelJobWork(j) /\ jobStatus[j] # "CANCELLED"
<1>1. ASSUME NEW k \in Job, CancelJobWork(k)
      PROVE  \/ cancellation'[j] = cancellation[j] /\ jobStatus'[j] = jobStatus[j]
             \/ CancelJobWork(j) /\ jobStatus[j] # "CANCELLED"
  BY <1>1 DEF CancelJobWork, TypeOK
<1>2. ASSUME NEW k \in Job, NEW t \in JobStatus, TransitionJob(k, t)
      PROVE  /\ cancellation'[j] = cancellation[j]
             /\ jobStatus[j] = "CANCELLED" => jobStatus'[j] = "CANCELLED"
  <2>1. jobStatus[k] # "CANCELLED"
    BY <1>2 DEF TransitionJob, JOB_TRANSITIONS, TypeOK, JobStatus
  <2> QED BY <1>2, <2>1 DEF TransitionJob, TypeOK
<1>3. ASSUME UNCHANGED <<jobStatus, cancellation>>
      PROVE  cancellation'[j] = cancellation[j] /\ jobStatus'[j] = jobStatus[j]
  BY <1>3
<1>4. ASSUME NEW u \in Unit, UnitNext(u) PROVE UNCHANGED <<jobStatus, cancellation>>
  BY <1>4, UnitFrame
<1>5. Tick \/ (\E i \in Item, t \in ItemStatus : TransitionItem(i, t)) \/ UNCHANGED vars
        => UNCHANGED <<jobStatus, cancellation>>
  BY DEF Tick, TransitionItem, vars, graphVars
<1> QED BY <1>1, <1>2, <1>3, <1>4, <1>5 DEF Next

\* The attempts a cancellation closes had no result before it.
LEMMA CancelPartition ==
  ASSUME LeaseInv, NEW j \in Job
  PROVE  ActiveLeases(j) \cap PreservedResults(j) = {}
<1> SUFFICES ASSUME NEW u \in Unit, NEW a \in Attempt, Active(u, a), HasResult(u, a) PROVE FALSE
  BY DEF ActiveLeases, PreservedResults
<1>1. ~Closed(u, a)
  BY DEF Active, Closed, ClosedState
<1>2. CASE u \in ArtifactGroup
  BY <1>1, <1>2 DEF HasResult, LeaseInv, ArtifactHasNoStage, TERMINAL_STAGE_STATUSES,
                    RETRYABLE_STAGE_STATUSES
<1>3. CASE u \notin ArtifactGroup
  BY <1>3 DEF HasResult, LeaseInv, LeaseStageAgree, TERMINAL_STAGE_STATUSES,
              RETRYABLE_STAGE_STATUSES
<1> QED BY <1>2, <1>3

\* A recorded cancellation stays complete under every step.
LEMMA CancellationStep ==
  ASSUME LeaseInv, CancellationComplete, [Next]_vars
  PROVE  CancellationComplete'
<1> SUFFICES ASSUME NEW j \in Job, cancellation'[j].done
             PROVE  /\ jobStatus'[j] = "CANCELLED"
                    /\ ActiveLeases(j)' = {}
                    /\ cancellation'[j].cancelled \cap cancellation'[j].preserved = {}
                    /\ PreservedResults(j)'
                         \subseteq cancellation'[j].cancelled \cup cancellation'[j].preserved
  BY DEF CancellationComplete
<1>0. TypeOK /\ \A u \in Unit : UnitStep(u)
  BY EveryUnitStep DEF LeaseInv
<1>1. CASE CancelJobWork(j)
  <2>1. /\ jobStatus'[j] = "CANCELLED"
        /\ cancellation'[j].cancelled = ActiveLeases(j)
        /\ cancellation'[j].preserved = PreservedResults(j)
    BY <1>0, <1>1 DEF CancelJobWork, TypeOK
  <2>2. ASSUME NEW u \in Unit, NEW a \in Attempt, JobOf[u] = j
        PROVE  /\ ~Active(u, a)'
               /\ HasResult(u, a)' => Active(u, a) \/ HasResult(u, a)
    <3>1. CASE Active(u, a)
      <4>1. <<u, a>> \in ActiveLeases(j) /\ lease[u][a] \in Lease
        BY <1>0, <2>2, <3>1 DEF ActiveLeases, TypeOK
      <4>2. lease'[u][a] = ClosedHead(lease[u][a], "CANCELLED")
        BY <1>1, <4>1 DEF CancelJobWork
      <4>3. lease'[u][a].state = "CANCELLED"
        BY <4>1, <4>2 DEF ClosedHead, Lease
      <4> QED BY <3>1, <4>3 DEF Active
    <3>2. CASE ~Active(u, a)
      <4>1. <<u, a>> \notin ActiveLeases(j)
        BY <3>2 DEF ActiveLeases
      <4>2. lease'[u][a] = lease[u][a] /\ stage'[u][a] = stage[u][a]
        BY <1>1, <4>1 DEF CancelJobWork
      <4> QED BY <3>2, <4>2 DEF Active, HasResult, Closed
    <3> QED BY <3>1, <3>2
  <2>3. ActiveLeases(j)' = {}
    BY <2>2 DEF ActiveLeases
  <2>4. PreservedResults(j)' \subseteq ActiveLeases(j) \cup PreservedResults(j)
    BY <2>2 DEF ActiveLeases, PreservedResults
  <2> QED BY <2>1, <2>3, <2>4, CancelPartition
<1>2. CASE /\ cancellation'[j] = cancellation[j]
           /\ jobStatus[j] = "CANCELLED" => jobStatus'[j] = "CANCELLED"
  <2>1. /\ jobStatus[j] = "CANCELLED" /\ jobStatus'[j] = "CANCELLED"
        /\ ActiveLeases(j) = {}
        /\ cancellation[j].cancelled \cap cancellation[j].preserved = {}
        /\ PreservedResults(j) \subseteq cancellation[j].cancelled \cup cancellation[j].preserved
    BY <1>2 DEF CancellationComplete
  <2>2. ASSUME NEW u \in Unit, NEW a \in Attempt, JobOf[u] = j
        PROVE  /\ ~Active(u, a)'
               /\ HasResult(u, a)' => HasResult(u, a)
    <3>1. ~Active(u, a)
      <4>1. <<u, a>> \in Unit \X Attempt /\ <<u, a>>[1] = u /\ <<u, a>>[2] = a
        OBVIOUS
      <4> QED BY <2>1, <2>2, <4>1 DEF ActiveLeases
    <3>2. ~UnitAcquires(u, a)
      BY <2>1, <2>2 DEF UnitAcquires, LeaseAdmissible
    <3>3. RowKept(u, a)
      BY <1>0, <3>1, <3>2, RowCases DEF RowRenewed, RowClosed, RowClosedAs
    <3> QED BY <3>1, <3>3 DEF RowKept, Active, HasResult, Closed
  <2>3. ActiveLeases(j)' = {}
    BY <2>2 DEF ActiveLeases
  <2>4. PreservedResults(j)' \subseteq PreservedResults(j)
    BY <2>2 DEF PreservedResults
  <2> QED BY <1>2, <2>1, <2>3, <2>4
<1> QED BY <1>0, <1>1, <1>2, JobStep

\* Once a job is cancelled nothing of it runs again, and the cancellation
\* record accounts for every result the job has, for any number of units.
THEOREM CancellationSafety == Spec => []CancellationComplete
<1>1. Init => CancellationComplete
  BY DEF Init, CancellationComplete, NoCancellation
<1> QED BY <1>1, LeaseInvInit, LeaseInvStep, CancellationStep, PTL DEF Spec

-----------------------------------------------------------------------------
(* Dependencies.                                                           *)

\* Dependency d is good enough for the join of unit u.
Met(u, d) ==
  IF u \in AllSucceeded THEN \E a \in Attempt : stage[d][a] = "SUCCEEDED" ELSE Settled(d)

\* A READY snapshot, however old, still tells the truth.
ReadyIsMet == \A u \in Unit : latest[u] = "READY" => \A d \in DependsOn[u] : Met(u, d)

\* Terminal items stay terminal.
LEMMA ItemStep ==
  ASSUME TypeOK, [Next]_vars, NEW i \in Item, itemStatus[i] \in TerminalItem
  PROVE  itemStatus'[i] \in TerminalItem
<1>1. ASSUME NEW k \in Item, NEW t \in ItemStatus, TransitionItem(k, t)
      PROVE  itemStatus'[i] = itemStatus[i]
  <2>1. k # i
    BY <1>1 DEF TransitionItem, ITEM_TRANSITIONS, TypeOK, ItemStatus, TerminalItem
  <2> QED BY <1>1, <2>1 DEF TransitionItem, TypeOK
<1>2. ASSUME UNCHANGED itemStatus PROVE itemStatus'[i] = itemStatus[i]
  BY <1>2
<1>3. ASSUME NEW u \in Unit, UnitNext(u) PROVE UNCHANGED itemStatus
  BY <1>3, UnitFrame
<1>4. ASSUME NEW j \in Job, CancelJobWork(j) \/ \E t \in JobStatus : TransitionJob(j, t)
      PROVE  UNCHANGED itemStatus
  BY <1>4 DEF CancelJobWork, TransitionJob
<1>5. Tick \/ UNCHANGED vars => UNCHANGED itemStatus
  BY DEF Tick, vars, graphVars
<1> QED BY <1>1, <1>2, <1>3, <1>4, <1>5 DEF Next

\* Dependencies are stage units.
LEMMA DependencyIsStage ==
  ASSUME NEW u \in Unit, NEW d \in DependsOn[u]
  PROVE  d \in Unit \ ArtifactGroup
BY GraphAssumption

\* A dependency that is met stays met.
LEMMA MetStable ==
  ASSUME LeaseInv, [Next]_vars, NEW u \in Unit, NEW d \in DependsOn[u], Met(u, d)
  PROVE  Met(u, d)'
<1>0. d \in Unit \ ArtifactGroup /\ TypeOK /\ \A v \in Unit : UnitStep(v)
  BY DependencyIsStage, EveryUnitStep DEF LeaseInv
<1>1. ASSUME NEW a \in Attempt, stage[d][a] = "SUCCEEDED" PROVE stage'[d][a] = "SUCCEEDED"
  <2>1. Closed(d, a)
    BY <1>0, <1>1 DEF LeaseInv, LeaseStageAgree, Closed, ClosedState
  <2> QED BY <1>0, <1>1, <2>1, ClosedRowKept DEF RowKept
<1>2. ItemIsTerminal(d) => ItemIsTerminal(d)'
  BY <1>0, ItemStep DEF ItemIsTerminal
<1>3. ASSUME NEW a \in Attempt, Closed(d, a),
             RetryableClose(d, a) => retry[d][a].decision = "EXHAUSTED"
      PROVE  Closed(d, a)' /\ (RetryableClose(d, a)' => retry'[d][a].decision = "EXHAUSTED")
  <2>1. RowKept(d, a)
    BY <1>0, <1>3, ClosedRowKept
  <2> QED BY <1>3, <2>1 DEF RowKept, Closed, RetryableClose
<1> QED BY <1>1, <1>2, <1>3 DEF Met, Settled

\* What a READY snapshot records about its dependencies is true.
LEMMA ReadyEvidenceIsTrue ==
  ASSUME LeaseInv, NEW u \in Unit, NEW ev \in [DependsOn[u] -> Evidence],
         \A d \in DependsOn[u] : ev[d] \in ObservableEvidence(d),
         Evaluate(u, ev) = "READY", NEW d \in DependsOn[u]
  PROVE  Met(u, d)
<1>0. d \in Unit \ ArtifactGroup /\ ev[d] \in ObservableEvidence(d) /\ ev[d] \in Evidence
  BY DependencyIsStage
<1>1. /\ ev[d].kind \notin {"WAITING", "RETRYABLE", "RETRY_SCHEDULED"}
      /\ u \in AllSucceeded => ev[d].kind \notin {"TERMINAL", "EXHAUSTED", "SKIPPED"}
  BY DEF Evaluate
<1>2. CASE ev[d].kind = "SUCCEEDED"
  <2>1. PICK a \in Attempt : stage[d][a] = "SUCCEEDED"
    <3>1. \A a \in Attempt : retry[d][a].decision \in {"NONE", "RETRY_SCHEDULED", "EXHAUSTED"}
      BY <1>0 DEF LeaseInv, TypeOK, Retry
    <3> QED BY <1>0, <1>2, <3>1 DEF ObservableEvidence
  <2>2. Closed(d, a) /\ ~RetryableClose(d, a)
    BY <1>0, <2>1 DEF LeaseInv, LeaseStageAgree, Closed, ClosedState, RetryableClose
  <2> QED BY <2>1, <2>2 DEF Met, Settled
<1>3. CASE ev[d].kind = "EXHAUSTED"
  <2>1. PICK a \in Attempt : retry[d][a].decision = "EXHAUSTED"
    BY <1>0, <1>3 DEF ObservableEvidence
  <2>2. Closed(d, a)
    BY <1>0, <2>1 DEF LeaseInv, RetryEarned, RetryableClose, Closed, ClosedState
  <2> QED BY <1>1, <1>3, <2>1, <2>2 DEF Met, Settled
<1>4. CASE ev[d].kind = "TERMINAL"
  <2>1. PICK a \in Attempt : Closed(d, a) /\ ~RetryableClose(d, a)
    <3>1. \A a \in Attempt : retry[d][a].decision \in {"NONE", "RETRY_SCHEDULED", "EXHAUSTED"}
      BY <1>0 DEF LeaseInv, TypeOK, Retry
    <3> QED BY <1>0, <1>4, <3>1 DEF ObservableEvidence
  <2> QED BY <1>1, <1>4, <2>1 DEF Met, Settled
<1>5. CASE ev[d].kind = "SKIPPED"
  <2>1. ItemIsTerminal(d)
    <3>1. \A a \in Attempt : retry[d][a].decision \in {"NONE", "RETRY_SCHEDULED", "EXHAUSTED"}
      BY <1>0 DEF LeaseInv, TypeOK, Retry
    <3> QED BY <1>0, <1>5, <3>1 DEF ObservableEvidence
  <2> QED BY <1>1, <1>5, <2>1 DEF Met, Settled
<1> QED BY <1>0, <1>1, <1>2, <1>3, <1>4, <1>5 DEF Evidence

\* The readiness a step leaves behind: the one before, or one just recorded.
LEMMA ReadinessStep ==
  ASSUME LeaseInv, [Next]_vars, NEW u \in Unit, latest'[u] = "READY", latest[u] # "READY"
  PROVE  \A d \in DependsOn[u] : Met(u, d)
<1>1. ASSUME NEW v \in Unit, NEW s, InsertSnapshot(v, s) PROVE v = u /\ s.readiness = "READY"
  BY <1>1 DEF InsertSnapshot, LeaseInv, TypeOK
<1>2. ASSUME NEW v \in Unit, RecordWorkReadiness(v) PROVE \A d \in DependsOn[u] : Met(u, d)
  <2>1. PICK ev \in [DependsOn[v] -> Evidence] :
          /\ \A d \in DependsOn[v] : ev[d] \in ObservableEvidence(d)
          /\ InsertSnapshot(v, [readiness |-> Evaluate(v, ev), evidence |-> ev])
    BY <1>2 DEF RecordWorkReadiness
  <2>2. v = u /\ Evaluate(v, ev) = "READY"
    BY <1>1, <2>1
  <2> QED BY <2>1, <2>2, ReadyEvidenceIsTrue
<1>3. ASSUME NEW v \in Unit, RecordSkippedItem(v) PROVE FALSE
  <2>1. PICK e : InsertSnapshot(v, [readiness |-> "SKIPPED_ITEM", evidence |-> e])
    BY <1>3 DEF RecordSkippedItem
  <2> QED BY <1>1, <2>1
<1>4. ASSUME UNCHANGED latest PROVE FALSE
  BY <1>4
<1>5. ASSUME NEW v \in Unit, UnitNext(v) PROVE \A d \in DependsOn[u] : Met(u, d)
  BY <1>2, <1>3, <1>4, <1>5, UnitFrame
<1>6. ASSUME NEW j \in Job, CancelJobWork(j) \/ \E t \in JobStatus : TransitionJob(j, t)
      PROVE  UNCHANGED latest
  BY <1>6 DEF CancelJobWork, TransitionJob, readinessVars
<1>7. Tick \/ (\E i \in Item, t \in ItemStatus : TransitionItem(i, t)) \/ UNCHANGED vars
        => UNCHANGED latest
  BY DEF Tick, TransitionItem, vars, readinessVars
<1> QED BY <1>4, <1>5, <1>6, <1>7 DEF Next

\* Dispatched work had its dependencies met, for every graph: neither a stale
\* readiness snapshot nor a retry can dispatch a unit too early.
THEOREM DependencySafety == Spec => []DependenciesHonoured
<1> DEFINE DepInv == ReadyIsMet /\ DependenciesHonoured
<1>1. Init => DepInv
  BY DEF Init, ReadyIsMet, DependenciesHonoured, Exists, NoLease
<1>2. LeaseInv /\ DepInv /\ [Next]_vars => DepInv'
  <2> SUFFICES ASSUME LeaseInv, DepInv, [Next]_vars PROVE DepInv'
    OBVIOUS
  <2>1. ASSUME NEW u \in Unit, latest'[u] = "READY", NEW d \in DependsOn[u] PROVE Met(u, d)'
    <3>1. Met(u, d)
      BY <2>1, ReadinessStep DEF ReadyIsMet
    <3> QED BY <3>1, MetStable
  <2>2. ASSUME NEW u \in Unit, NEW a \in Attempt, Exists(u, a)', NEW d \in DependsOn[u]
        PROVE  Met(u, d)'
    <3>1. Exists(u, a) \/ latest[u] = "READY"
      <4>1. \A v \in Unit : UnitStep(v)
        BY EveryUnitStep DEF LeaseInv
      <4> QED BY <2>2, <4>1, RowExistence DEF UnitAcquires, LeaseAdmissible
    <3>2. Met(u, d)
      BY <2>2, <3>1 DEF ReadyIsMet, DependenciesHonoured, Met
    <3> QED BY <3>2, MetStable
  <2> QED BY <2>1, <2>2 DEF ReadyIsMet, DependenciesHonoured, Met
<1> QED BY <1>1, <1>2, LeaseInvInit, LeaseInvStep, PTL DEF Spec

-----------------------------------------------------------------------------
(* The event log and the head that is materialised from it.                *)

\* How many events of log s are heartbeats, when lease row l heads it.
Beats(l, s) == IF l.state \in ClosedState THEN Len(s) - 1 ELSE Len(s)

\* Log s is a run of heartbeats, closed by the event row l was closed with,
\* and l carries the log's length and the expiry of its last heartbeat.
WellLogged(l, s) ==
  /\ l.state = "NONE" => s = <<>>
  /\ l.state \in ClosedState => s # <<>> /\ s[Len(s)].kind = l.state
  /\ \A i \in 1..Beats(l, s) : s[i].kind = "HEARTBEAT"
  /\ l.state # "NONE" =>
       /\ l.version = Len(s)
       /\ l.expires = IF Beats(l, s) = 0 THEN l.acquired + LeaseDuration
                      ELSE s[Beats(l, s)].expires

EveryLeaseWellLogged == \A u \in Unit : \A a \in Attempt : WellLogged(lease[u][a], events[u][a])

\* A heartbeat on an active lease keeps its log and its head together.
LEMMA RenewedWellLogged ==
  ASSUME NEW l \in Lease, NEW s \in Seq(Event), NEW until \in Nat,
         l.state = "ACTIVE", WellLogged(l, s)
  PROVE  WellLogged(RenewedHead(l, until),
                    Append(s, [kind |-> "HEARTBEAT", expires |-> until]))
<1> DEFINE e == [kind |-> "HEARTBEAT", expires |-> until]
           t == Append(s, e)
           m == RenewedHead(l, until)
<1>1. e \in Event /\ e.kind = "HEARTBEAT" /\ e.expires = until
  BY DEF Event
<1>2. m.state = "ACTIVE" /\ m.version = l.version + 1 /\ m.expires = until
  BY DEF RenewedHead, Lease
<1>3. "ACTIVE" \notin ClosedState
  BY DEF ClosedState
<1>4. \A i \in 1..Len(s) : s[i].kind = "HEARTBEAT"
  BY <1>3 DEF WellLogged, Beats
<1>5. l.version = Len(s)
  BY DEF WellLogged
<1> HIDE DEF e
<1>6. /\ Len(t) = Len(s) + 1 /\ Len(s) \in Nat
      /\ t[Len(t)] = e
      /\ \A i \in 1..Len(s) : t[i] = s[i]
  BY <1>1
<1> HIDE DEF m, t
<1>7. Beats(m, t) = Len(t)
  BY <1>2, <1>3 DEF Beats
<1> QED BY <1>1, <1>2, <1>3, <1>4, <1>5, <1>6, <1>7 DEF WellLogged, m, t, e

\* So does the event that closes it.
LEMMA ClosedWellLogged ==
  ASSUME NEW l \in Lease, NEW s \in Seq(Event), NEW k \in ClosedState,
         now \in Nat, l.state = "ACTIVE", WellLogged(l, s)
  PROVE  WellLogged(ClosedHead(l, k), Append(s, [kind |-> k, expires |-> 0]))
<1> DEFINE e == [kind |-> k, expires |-> 0]
           t == Append(s, e)
           m == ClosedHead(l, k)
<1>1. e \in Event /\ e.kind = k
  BY DEF Event
<1>2. /\ m.state = k /\ m.version = l.version + 1 /\ m.expires = l.expires
      /\ m.acquired = l.acquired
  BY DEF ClosedHead, Lease
<1>3. "ACTIVE" \notin ClosedState /\ "NONE" \notin ClosedState
  BY DEF ClosedState
<1>4. /\ \A i \in 1..Len(s) : s[i].kind = "HEARTBEAT"
      /\ l.version = Len(s)
      /\ l.expires = IF Len(s) = 0 THEN l.acquired + LeaseDuration ELSE s[Len(s)].expires
  BY <1>3 DEF WellLogged, Beats
<1> HIDE DEF e
<1>5. /\ Len(t) = Len(s) + 1 /\ Len(s) \in Nat
      /\ t[Len(t)] = e
      /\ \A i \in 1..Len(s) : t[i] = s[i]
      /\ t # <<>>
  BY <1>1
<1> HIDE DEF m, t
<1>6. Beats(m, t) = Len(s)
  BY <1>2, <1>5 DEF Beats
<1> QED BY <1>1, <1>2, <1>3, <1>4, <1>5, <1>6 DEF WellLogged, m, t, e

\* Rebuilding the head of a well-kept log gives the materialised head.
LEMMA RebuiltHeadIsHead ==
  ASSUME TypeOK, NEW u \in Unit, NEW a \in Attempt, Exists(u, a),
         WellLogged(lease[u][a], events[u][a])
  PROVE  RebuiltHead(u, a) = [state   |-> lease[u][a].state,
                              version |-> lease[u][a].version,
                              expires |-> lease[u][a].expires]
<1> DEFINE l == lease[u][a]
           s == events[u][a]
           n == Beats(l, s)
           beats == {i \in DOMAIN s : s[i].kind = "HEARTBEAT"}
           last == CHOOSE i \in beats : \A j \in beats : j <= i
<1>0. l \in Lease /\ s \in Seq(Event) /\ l.state # "NONE"
  BY DEF TypeOK, Exists
<1>1. /\ Len(s) \in Nat /\ DOMAIN s = 1..Len(s)
      /\ s = <<>> <=> Len(s) = 0
  BY <1>0
<1>2. l.state \in ClosedState => l.state # "HEARTBEAT"
  BY DEF ClosedState
<1> HIDE DEF l, s
<1>3. n \in 0..Len(s)
  BY <1>1 DEF WellLogged, Beats, l, s
<1>4. beats = 1..n
  <2>1. CASE l.state \in ClosedState
    <3>1. n = Len(s) - 1 /\ s[Len(s)].kind # "HEARTBEAT" /\ \A i \in 1..n : s[i].kind = "HEARTBEAT"
      BY <1>2, <2>1 DEF WellLogged, Beats, l, s
    <3> QED BY <1>1, <1>3, <3>1
  <2>2. CASE l.state \notin ClosedState
    <3>1. n = Len(s) /\ \A i \in 1..n : s[i].kind = "HEARTBEAT"
      BY <2>2 DEF WellLogged, Beats, l, s
    <3> QED BY <1>1, <3>1
  <2> QED BY <2>1, <2>2
<1>5. n # 0 => last = n
  <2> HIDE DEF n, beats
  <2> SUFFICES ASSUME n # 0 PROVE last = n
    OBVIOUS
  <2>1. n \in beats /\ \A j \in beats : j <= n
    BY <1>3, <1>4
  <2>2. last \in beats /\ \A j \in beats : j <= last
    BY <2>1
  <2>3. last <= n /\ n <= last /\ last \in Int /\ n \in Int
    BY <1>3, <1>4, <2>1, <2>2
  <2> QED BY <2>3
<1>6. (IF s # <<>> /\ s[Len(s)].kind # "HEARTBEAT" THEN s[Len(s)].kind ELSE "ACTIVE") = l.state
  <2>1. CASE l.state \in ClosedState
    BY <1>2, <2>1 DEF WellLogged, l, s
  <2>2. CASE l.state \notin ClosedState
    <3>1. l.state = "ACTIVE"
      BY <1>0, <2>2 DEF Lease
    <3>2. n = Len(s) /\ \A i \in 1..n : s[i].kind = "HEARTBEAT"
      BY <2>2 DEF WellLogged, Beats, l, s
    <3> QED BY <1>1, <3>1, <3>2
  <2> QED BY <2>1, <2>2
<1>7. Len(s) = l.version
  BY <1>0 DEF WellLogged, l, s
<1>8. (IF beats = {} THEN l.acquired + LeaseDuration ELSE s[last].expires) = l.expires
  <2>1. beats = {} <=> n = 0
    BY <1>3, <1>4
  <2>2. l.expires = IF n = 0 THEN l.acquired + LeaseDuration ELSE s[n].expires
    BY <1>0 DEF WellLogged, l, s
  <2> HIDE DEF n, beats, last
  <2> QED BY <1>5, <2>1, <2>2
<1>9. RebuiltHead(u, a) =
        [state   |-> IF s # <<>> /\ s[Len(s)].kind # "HEARTBEAT" THEN s[Len(s)].kind ELSE "ACTIVE",
         version |-> Len(s),
         expires |-> IF beats = {} THEN l.acquired + LeaseDuration ELSE s[last].expires]
  BY DEF RebuiltHead, l, s
<1> QED BY <1>6, <1>7, <1>8, <1>9 DEF l

\* Every operation appends to the log of a lease and moves its head together.
LEMMA WellLoggedStep ==
  ASSUME LeaseInv, EveryLeaseWellLogged, [Next]_vars
  PROVE  EveryLeaseWellLogged'
<1> SUFFICES ASSUME NEW v \in Unit, NEW b \in Attempt
             PROVE  WellLogged(lease'[v][b], events'[v][b])
  BY DEF EveryLeaseWellLogged, WellLogged, Beats
<1>0. /\ lease[v][b] \in Lease /\ events[v][b] \in Seq(Event) /\ now \in Nat
      /\ WellLogged(lease[v][b], events[v][b])
  BY DEF LeaseInv, TypeOK, EveryLeaseWellLogged
<1> DEFINE Goal == WellLogged(lease'[v][b], events'[v][b])
<1>1. ASSUME UNCHANGED <<lease, events>> PROVE Goal
  BY <1>0, <1>1
<1>2. ASSUME NEW u \in Unit, NEW a \in Attempt, NEW k \in ClosedState, Active(u, a),
             CloseLease(u, a, k)
      PROVE  Goal
  <2>1. CASE u = v /\ a = b
    <3>1. /\ lease'[v][b] = ClosedHead(lease[v][b], k)
          /\ events'[v][b] = Append(events[v][b], [kind |-> k, expires |-> 0])
      BY <1>2, <2>1 DEF CloseLease, LeaseInv, TypeOK
    <3> QED BY <1>0, <1>2, <2>1, <3>1, ClosedWellLogged DEF Active
  <2>2. CASE u # v \/ a # b
    <3>1. lease'[v][b] = lease[v][b] /\ events'[v][b] = events[v][b]
      BY <1>2, <2>2 DEF CloseLease, LeaseInv, TypeOK
    <3> QED BY <1>0, <3>1
  <2> QED BY <2>1, <2>2
<1>3. ASSUME NEW j \in Job, CancelJobWork(j) PROVE Goal
  <2>1. CASE <<v, b>> \in ActiveLeases(j)
    <3>1. lease[v][b].state = "ACTIVE" /\ "CANCELLED" \in ClosedState
      BY <2>1 DEF ActiveLeases, Active, ClosedState
    <3>2. /\ lease'[v][b] = ClosedHead(lease[v][b], "CANCELLED")
          /\ events'[v][b] = Append(events[v][b], [kind |-> "CANCELLED", expires |-> 0])
      BY <1>3, <2>1 DEF CancelJobWork
    <3> QED BY <1>0, <3>1, <3>2, ClosedWellLogged
  <2>2. CASE <<v, b>> \notin ActiveLeases(j)
    <3>1. lease'[v][b] = lease[v][b] /\ events'[v][b] = events[v][b]
      BY <1>3, <2>2 DEF CancelJobWork
    <3> QED BY <1>0, <3>1
  <2> QED BY <2>1, <2>2
<1>4. ASSUME NEW u \in Unit, NEW a \in Attempt, NEW h \in Holder, AcquireWorkLease(u, a, h)
      PROVE  Goal
  <2>1. CASE u = v /\ a = b
    <3>1. lease[v][b].state = "NONE"
      <4>1. ~Exists(u, a)
        BY <1>4, PolicyAssumption DEF AcquireWorkLease, LeaseAdmissible, IsLatestAttempt, Attempt
      <4> QED BY <2>1, <4>1 DEF Exists
    <3>2. /\ lease'[v][b].state = "ACTIVE" /\ lease'[v][b].version = 0
          /\ lease'[v][b].expires = lease'[v][b].acquired + LeaseDuration
          /\ events'[v][b] = events[v][b]
      BY <1>4, <2>1 DEF AcquireWorkLease, LeaseInv, TypeOK
    <3>3. events'[v][b] = <<>>
      BY <1>0, <3>1, <3>2 DEF WellLogged
    <3> QED BY <3>2, <3>3 DEF WellLogged, Beats, ClosedState
  <2>2. CASE u # v \/ a # b
    <3>1. lease'[v][b] = lease[v][b] /\ events'[v][b] = events[v][b]
      BY <1>4, <2>2 DEF AcquireWorkLease, LeaseInv, TypeOK
    <3> QED BY <1>0, <3>1
  <2> QED BY <2>1, <2>2
<1>5. ASSUME NEW u \in Unit, NEW a \in Attempt, NEW h \in Holder, HeartbeatWorkLease(u, a, h)
      PROVE  Goal
  <2>1. CASE u = v /\ a = b
    <3> DEFINE until == IF now + HeartbeatExtension > lease[u][a].expires
                        THEN now + HeartbeatExtension ELSE lease[u][a].expires
    <3>1. until \in Nat
      BY <1>0, <2>1, PolicyAssumption DEF Lease
    <3>2. /\ lease' = [lease EXCEPT ![u][a] = RenewedHead(@, until)]
          /\ events' = [events EXCEPT ![u][a] =
                          Append(@, [kind |-> "HEARTBEAT", expires |-> until])]
          /\ lease[v][b].state = "ACTIVE"
      BY <1>5, <2>1 DEF HeartbeatWorkLease, HolderMayAct, Active
    <3> HIDE DEF until
    <3>3. /\ lease'[v][b] = RenewedHead(lease[v][b], until)
          /\ events'[v][b] = Append(events[v][b], [kind |-> "HEARTBEAT", expires |-> until])
      BY <2>1, <3>2 DEF LeaseInv, TypeOK
    <3> QED BY <1>0, <3>1, <3>2, <3>3, RenewedWellLogged
  <2>2. CASE u # v \/ a # b
    <3>1. lease'[v][b] = lease[v][b] /\ events'[v][b] = events[v][b]
      BY <1>5, <2>2 DEF HeartbeatWorkLease, LeaseInv, TypeOK
    <3> QED BY <1>0, <3>1
  <2> QED BY <2>1, <2>2
<1>6. ASSUME NEW u \in Unit, NEW a \in Attempt, ExpireWorkLease(u, a) PROVE Goal
  BY <1>2, <1>6 DEF ExpireWorkLease, Expirable, ClosedState
<1>7. ASSUME NEW u \in Unit, NEW a \in Attempt, NEW h \in Holder,
             NEW s \in TERMINAL_STAGE_STATUSES, NEW r \in BOOLEAN,
             CompleteStageWorkLease(u, a, h, s, r)
      PROVE  Goal
  <2>1. StageEventKind(s, r) \in ClosedState
    BY DEF StageEventKind, ClosedState
  <2> QED BY <1>2, <1>7, <2>1 DEF CompleteStageWorkLease, HolderMayAct
<1>8. ASSUME NEW u \in Unit, NEW a \in Attempt, NEW h \in Holder,
             NEW k \in {"SUCCEEDED", "RETRYABLE_FAILURE", "TERMINAL_FAILURE"},
             CompleteArtifactGroupWorkLease(u, a, h, k)
      PROVE  Goal
  BY <1>2, <1>8 DEF CompleteArtifactGroupWorkLease, HolderMayAct, ClosedState
<1>9. ASSUME NEW u \in Unit, RecordWorkReadiness(u) \/ RecordSkippedItem(u) PROVE Goal
  BY <1>1, <1>9 DEF RecordWorkReadiness, RecordSkippedItem, InsertSnapshot, leaseVars
<1>10. Tick \/ (\E i \in Item, t \in ItemStatus : TransitionItem(i, t)) \/ UNCHANGED vars
         \/ (\E j \in Job, t \in JobStatus : TransitionJob(j, t))
       => UNCHANGED <<lease, events>>
  BY DEF Tick, TransitionItem, TransitionJob, vars, leaseVars
<1> QED
  BY <1>1, <1>3, <1>4, <1>5, <1>6, <1>7, <1>8, <1>9, <1>10 DEF Next, UnitNext

\* The head row of every lease can be rebuilt from its immutable events, after
\* any number of heartbeats, and a terminal event is always the last.
THEOREM LeaseLogSafety == Spec => []HeadMatchesEvents
<1>1. Init => EveryLeaseWellLogged
  BY DEF Init, EveryLeaseWellLogged, WellLogged, Beats, NoLease, ClosedState
<1>2. LeaseInv /\ EveryLeaseWellLogged => HeadMatchesEvents
  <2> SUFFICES ASSUME LeaseInv, EveryLeaseWellLogged, NEW u \in Unit, NEW a \in Attempt
               PROVE  /\ Exists(u, a) =>
                           RebuiltHead(u, a) = [state   |-> lease[u][a].state,
                                                version |-> lease[u][a].version,
                                                expires |-> lease[u][a].expires]
                      /\ \A i \in 1..(Len(events[u][a]) - 1) : events[u][a][i].kind = "HEARTBEAT"
    BY DEF HeadMatchesEvents
  <2>1. WellLogged(lease[u][a], events[u][a]) /\ TypeOK
    BY DEF EveryLeaseWellLogged, LeaseInv
  <2>2. \A i \in 1..(Len(events[u][a]) - 1) : events[u][a][i].kind = "HEARTBEAT"
    <3>1. events[u][a] \in Seq(Event)
      BY <2>1 DEF TypeOK
    <3> QED BY <2>1, <3>1 DEF WellLogged, Beats
  <2> QED BY <2>1, <2>2, RebuiltHeadIsHead
<1> QED BY <1>1, <1>2, LeaseInvInit, LeaseInvStep, WellLoggedStep, PTL DEF Spec

-----------------------------------------------------------------------------
(* For the control services, which move reservations along with leases.   *)

\* How the lease operations move the states of all leases.
LEMMA AcquireStates ==
  ASSUME TypeOK, NEW u \in Unit, NEW a \in Attempt, NEW h \in Holder, AcquireWorkLease(u, a, h)
  PROVE  \A v \in Unit : \A b \in Attempt :
           lease'[v][b].state = IF v = u /\ b = a THEN "ACTIVE" ELSE lease[v][b].state
<1> DEFINE l == [state |-> "ACTIVE", version |-> 0, fence |-> NextFence(u), holder |-> h,
                 acquired |-> now, expires |-> now + LeaseDuration, closed |-> 0]
<1>1. l.state = "ACTIVE" /\ lease' = [lease EXCEPT ![u][a] = l]
  BY DEF AcquireWorkLease
<1> HIDE DEF l
<1> QED BY <1>1 DEF TypeOK

\* A closed lease takes the state of its terminal event, no other changes.
LEMMA CloseStates ==
  ASSUME TypeOK, NEW u \in Unit, NEW a \in Attempt, NEW k \in ClosedState, CloseLease(u, a, k)
  PROVE  \A v \in Unit : \A b \in Attempt :
           lease'[v][b].state = IF v = u /\ b = a THEN k ELSE lease[v][b].state
<1>1. lease[u][a] \in Lease
  BY DEF TypeOK
<1>2. ClosedHead(lease[u][a], k).state = k
  BY <1>1 DEF ClosedHead, Lease
<1>3. lease' = [lease EXCEPT ![u][a] = ClosedHead(lease[u][a], k)]
  BY DEF CloseLease
<1> QED BY <1>2, <1>3 DEF TypeOK

\* A heartbeat moves no lease to another state.
LEMMA HeartbeatStates ==
  ASSUME TypeOK, NEW u \in Unit, NEW a \in Attempt, NEW h \in Holder, HeartbeatWorkLease(u, a, h)
  PROVE  \A v \in Unit : \A b \in Attempt : lease'[v][b].state = lease[v][b].state
<1> DEFINE eff == IF now + HeartbeatExtension > lease[u][a].expires
                  THEN now + HeartbeatExtension ELSE lease[u][a].expires
<1>1. lease' = [lease EXCEPT ![u][a] = RenewedHead(lease[u][a], eff)]
  BY DEF HeartbeatWorkLease
<1> HIDE DEF eff
<1>2. lease[u][a] \in Lease
  BY DEF TypeOK
<1>3. RenewedHead(lease[u][a], eff).state = lease[u][a].state
  BY <1>2 DEF RenewedHead, Lease
<1> QED BY <1>1, <1>3 DEF TypeOK

\* A cancellation moves the active leases of its job to CANCELLED.
LEMMA CancelStates ==
  ASSUME TypeOK, NEW j \in Job, CancelJobWork(j)
  PROVE  \A v \in Unit : \A b \in Attempt :
           lease'[v][b].state = IF <<v, b>> \in ActiveLeases(j) THEN "CANCELLED"
                                ELSE lease[v][b].state
<1> SUFFICES ASSUME NEW v \in Unit, NEW b \in Attempt
             PROVE  lease'[v][b].state = IF <<v, b>> \in ActiveLeases(j) THEN "CANCELLED"
                                         ELSE lease[v][b].state
  OBVIOUS
<1>1. lease[v][b] \in Lease
  BY DEF TypeOK
<1>2. ClosedHead(lease[v][b], "CANCELLED").state = "CANCELLED"
  BY <1>1 DEF ClosedHead, Lease
<1> QED BY <1>2 DEF CancelJobWork

\* An attempt that may be dispatched has no lease yet.
LEMMA AdmissibleIsUndispatched ==
  ASSUME NEW u \in Unit, NEW a \in Attempt, LeaseAdmissible(u, a)
  PROVE  ~Exists(u, a)
<1>1. a \in Int /\ a - 1 < a
  BY DEF Attempt
<1> QED BY <1>1 DEF LeaseAdmissible, IsLatestAttempt

-----------------------------------------------------------------------------
(* Work leases keep what a lease on an attempt promises.                   *)

\* The leases as AttemptLease sees them.
Meant == [u \in Unit |-> [a \in Attempt |-> LeaseMeaning[lease[u][a].state]]]
Promised == [u \in Unit |-> [a \in Attempt |-> lease[u][a].expires]]
EndedAt == [u \in Unit |-> [a \in Attempt |-> IF Closed(u, a) THEN lease[u][a].closed ELSE 0]]

LEMMA PromiseTables ==
  /\ Meant' = [u \in Unit |-> [a \in Attempt |-> LeaseMeaning[lease'[u][a].state]]]
  /\ Promised' = [u \in Unit |-> [a \in Attempt |-> lease'[u][a].expires]]
  /\ EndedAt' = [u \in Unit |-> [a \in Attempt |-> IF Closed(u, a)' THEN lease'[u][a].closed ELSE 0]]
BY DEF Meant, Promised, EndedAt, LeaseMeaning

\* The meaning of a state.
LEMMA Meanings ==
  /\ LeaseMeaning["NONE"] = "none" /\ LeaseMeaning["ACTIVE"] = "held"
  /\ LeaseMeaning["RETRYABLE_FAILURE"] = "failed" /\ LeaseMeaning["EXPIRED"] = "expired"
  /\ LeaseMeaning["CANCELLED"] = "withdrawn"
  /\ LeaseMeaning["SUCCEEDED"] = "finished" /\ LeaseMeaning["TERMINAL_FAILURE"] = "finished"
BY DEF LeaseMeaning, ClosedState

\* A table of which one row changes.
LEMMA OneRowChanges ==
  ASSUME NEW f, NEW g,
         f = [v \in Unit |-> [b \in Attempt |-> f[v][b]]],
         g = [v \in Unit |-> [b \in Attempt |-> g[v][b]]],
         NEW u \in Unit, NEW a \in Attempt,
         \A v \in Unit : \A b \in Attempt : v # u \/ b # a => g[v][b] = f[v][b]
  PROVE  g = [f EXCEPT ![u][a] = g[u][a]]
<1> DEFINE h == [f EXCEPT ![u][a] = g[u][a]]
<1>1. h = [v \in Unit |-> [b \in Attempt |-> IF v = u /\ b = a THEN g[u][a] ELSE f[v][b]]]
  OBVIOUS
<1>2. \A v \in Unit : \A b \in Attempt :
        g[v][b] = IF v = u /\ b = a THEN g[u][a] ELSE f[v][b]
  OBVIOUS
<1>3. g = [v \in Unit |-> [b \in Attempt |-> IF v = u /\ b = a THEN g[u][a] ELSE f[v][b]]]
  BY <1>2
<1> QED BY <1>1, <1>3

\* The rows of such a table.
LEMMA RowsOfChanged ==
  ASSUME NEW f, NEW g, NEW x, f = [v \in Unit |-> [b \in Attempt |-> f[v][b]]],
         NEW u \in Unit, NEW a \in Attempt, g = [f EXCEPT ![u][a] = x],
         NEW v \in Unit, NEW b \in Attempt
  PROVE  g[v][b] = IF v = u /\ b = a THEN x ELSE f[v][b]
<1>1. g = [w \in Unit |-> [c \in Attempt |-> IF w = u /\ c = a THEN x ELSE f[w][c]]]
  OBVIOUS
<1> QED BY <1>1

\* What a step on one lease does to the three tables.
LEMMA OneLeaseChanges ==
  ASSUME NEW u \in Unit, NEW a \in Attempt,
         \A v \in Unit : \A b \in Attempt : v # u \/ b # a => lease'[v][b] = lease[v][b]
  PROVE  /\ Meant' = [Meant EXCEPT ![u][a] = LeaseMeaning[lease'[u][a].state]]
         /\ Promised' = [Promised EXCEPT ![u][a] = lease'[u][a].expires]
         /\ lease'[u][a].expires = lease[u][a].expires => Promised' = Promised
         /\ EndedAt' = [EndedAt EXCEPT ![u][a] = IF Closed(u, a)' THEN lease'[u][a].closed ELSE 0]
         /\ ~Closed(u, a) /\ ~Closed(u, a)' => EndedAt' = EndedAt
<1>1. /\ \A v \in Unit : \A b \in Attempt :
           /\ Meant[v][b] = LeaseMeaning[lease[v][b].state]
           /\ Meant'[v][b] = LeaseMeaning[lease'[v][b].state]
           /\ Promised[v][b] = lease[v][b].expires
           /\ Promised'[v][b] = lease'[v][b].expires
           /\ EndedAt[v][b] = IF Closed(v, b) THEN lease[v][b].closed ELSE 0
           /\ EndedAt'[v][b] = IF Closed(v, b)' THEN lease'[v][b].closed ELSE 0
      /\ Meant = [v \in Unit |-> [b \in Attempt |-> Meant[v][b]]]
      /\ Meant' = [v \in Unit |-> [b \in Attempt |-> Meant'[v][b]]]
      /\ Promised = [v \in Unit |-> [b \in Attempt |-> Promised[v][b]]]
      /\ Promised' = [v \in Unit |-> [b \in Attempt |-> Promised'[v][b]]]
      /\ EndedAt = [v \in Unit |-> [b \in Attempt |-> EndedAt[v][b]]]
      /\ EndedAt' = [v \in Unit |-> [b \in Attempt |-> EndedAt'[v][b]]]
  BY PromiseTables DEF Meant, Promised, EndedAt
<1>2. \A v \in Unit : \A b \in Attempt : v # u \/ b # a =>
        Meant'[v][b] = Meant[v][b] /\ Promised'[v][b] = Promised[v][b] /\ EndedAt'[v][b] = EndedAt[v][b]
  <2> SUFFICES ASSUME NEW v \in Unit, NEW b \in Attempt, v # u \/ b # a
               PROVE  /\ Meant'[v][b] = Meant[v][b] /\ Promised'[v][b] = Promised[v][b]
                      /\ EndedAt'[v][b] = EndedAt[v][b]
    BY Zenon
  <2>1. lease'[v][b] = lease[v][b] /\ (Closed(v, b)' <=> Closed(v, b))
    BY DEF Closed
  <2>2. /\ Meant[v][b] = LeaseMeaning[lease[v][b].state]
        /\ Meant'[v][b] = LeaseMeaning[lease'[v][b].state]
        /\ Promised[v][b] = lease[v][b].expires /\ Promised'[v][b] = lease'[v][b].expires
        /\ EndedAt[v][b] = IF Closed(v, b) THEN lease[v][b].closed ELSE 0
        /\ EndedAt'[v][b] = IF Closed(v, b)' THEN lease'[v][b].closed ELSE 0
    BY <1>1
  <2> QED BY <2>1, <2>2
<1>3. /\ Meant' = [Meant EXCEPT ![u][a] = Meant'[u][a]]
      /\ Promised' = [Promised EXCEPT ![u][a] = Promised'[u][a]]
      /\ EndedAt' = [EndedAt EXCEPT ![u][a] = EndedAt'[u][a]]
  BY <1>1, <1>2, OneRowChanges
<1>4. ASSUME lease'[u][a].expires = lease[u][a].expires PROVE Promised' = Promised
  <2>1. \A v \in Unit : \A b \in Attempt : Promised'[v][b] = Promised[v][b]
    BY <1>1, <1>2, <1>4
  <2> QED BY <1>1, <2>1
<1>5. ASSUME ~Closed(u, a), ~Closed(u, a)' PROVE EndedAt' = EndedAt
  <2>1. \A v \in Unit : \A b \in Attempt : EndedAt'[v][b] = EndedAt[v][b]
    BY <1>1, <1>2, <1>5
  <2> QED BY <1>1, <2>1
<1> QED BY <1>1, <1>3, <1>4, <1>5

\* Steps that leave the leases alone.
LEMMA PromisesStay ==
  ASSUME lease' = lease
  PROVE  Meant' = Meant /\ Promised' = Promised /\ EndedAt' = EndedAt
BY PromiseTables DEF Meant, Promised, EndedAt, Closed

\* Closing a lease ends the attempt now, with the meaning of its last event.
LEMMA CloseEnds ==
  ASSUME TypeOK, NEW u \in Unit, NEW a \in Attempt, NEW k \in ClosedState,
         Active(u, a), CloseLease(u, a, k)
  PROVE  /\ Meant[u][a] = "held" /\ Promised[u][a] = lease[u][a].expires
         /\ Meant' = [Meant EXCEPT ![u][a] = LeaseMeaning[k]]
         /\ EndedAt' = [EndedAt EXCEPT ![u][a] = now]
         /\ Promised' = Promised
<1>1. lease[u][a] \in Lease
  BY DEF TypeOK
<1>2. /\ lease'[u][a] = ClosedHead(lease[u][a], k)
      /\ \A v \in Unit : \A b \in Attempt : v # u \/ b # a => lease'[v][b] = lease[v][b]
  BY DEF CloseLease, TypeOK
<1>3. /\ lease'[u][a].state = k /\ lease'[u][a].closed = now
      /\ lease'[u][a].expires = lease[u][a].expires
  BY <1>1, <1>2 DEF ClosedHead, Lease
<1>4. Closed(u, a)'
  BY <1>3 DEF Closed
<1>5. Meant[u][a] = "held" /\ Promised[u][a] = lease[u][a].expires
  BY Meanings DEF Meant, Promised, Active
<1> QED BY <1>2, <1>3, <1>4, <1>5, OneLeaseChanges

\* Attempts held that end now with nothing to retry are withdrawn.
LEMMA WithdrawnTables ==
  ASSUME NEW held \in SUBSET (Unit \X Attempt), now' = now, Promised' = Promised,
         \A p \in held : Meant[p[1]][p[2]] = "held",
         \A v \in Unit : \A b \in Attempt :
           /\ Meant'[v][b] = IF <<v, b>> \in held THEN "withdrawn" ELSE Meant[v][b]
           /\ EndedAt'[v][b] = IF <<v, b>> \in held THEN now ELSE EndedAt[v][b]
  PROVE  Promises!Next
<1>1. /\ Meant' = [v \in Unit |-> [b \in Attempt |-> Meant'[v][b]]]
      /\ EndedAt' = [v \in Unit |-> [b \in Attempt |-> EndedAt'[v][b]]]
  BY PromiseTables
<1>2. /\ Meant' = [v \in Unit |-> [b \in Attempt |->
                     IF <<v, b>> \in held THEN "withdrawn" ELSE Meant[v][b]]]
      /\ EndedAt' = [v \in Unit |-> [b \in Attempt |->
                       IF <<v, b>> \in held THEN now ELSE EndedAt[v][b]]]
  BY <1>1
<1>3. Promises!Attempt = Attempt
  BY DEF Attempt, Promises!Attempt
<1>4. Promises!Withdraw(held)
  BY <1>2, <1>3 DEF Promises!Withdraw, Promises!Held, Meant, Promised, EndedAt
<1> QED BY <1>3, <1>4 DEF Promises!Next

\* A holder's completion reports an outcome in time, or withdraws the attempt.
LEMMA CompletionKeepsPromise ==
  ASSUME TypeOK, NEW u \in Unit, NEW a \in Attempt, NEW k \in ClosedState \ {"EXPIRED"},
         Active(u, a), now < lease[u][a].expires, CloseLease(u, a, k), now' = now
  PROVE  Promises!Next
<1>1. /\ Meant[u][a] = "held" /\ Promised[u][a] = lease[u][a].expires
      /\ Meant' = [Meant EXCEPT ![u][a] = LeaseMeaning[k]]
      /\ EndedAt' = [EndedAt EXCEPT ![u][a] = now]
      /\ Promised' = Promised
  BY CloseEnds
<1>2. now \in Nat /\ now \in 0..now /\ a \in Promises!Attempt
  BY DEF TypeOK, Attempt, Promises!Attempt
<1>3. CASE k # "CANCELLED"
  <2>1. LeaseMeaning[k] \in {"finished", "failed"}
    BY <1>3, Meanings DEF ClosedState
  <2>2. Promises!End(u, a, LeaseMeaning[k], now)
    BY <1>1, <1>2 DEF Promises!End, Promises!Held, Meant, Promised, EndedAt
  <2>3. Promises!Report(u, a, LeaseMeaning[k], now)
    BY <1>1, <2>2 DEF Promises!Report, Promised
  <2> QED BY <1>2, <2>1, <2>3 DEF Promises!Next
<1>4. CASE k = "CANCELLED"
  <2>1. /\ \A v \in Unit : \A b \in Attempt :
             /\ Meant'[v][b] = IF <<v, b>> \in {<<u, a>>} THEN "withdrawn" ELSE Meant[v][b]
             /\ EndedAt'[v][b] = IF <<v, b>> \in {<<u, a>>} THEN now ELSE EndedAt[v][b]
    <3>1. /\ Meant = [v \in Unit |-> [b \in Attempt |-> Meant[v][b]]]
          /\ EndedAt = [v \in Unit |-> [b \in Attempt |-> EndedAt[v][b]]]
      BY DEF Meant, EndedAt
    <3> SUFFICES ASSUME NEW v \in Unit, NEW b \in Attempt
                 PROVE  /\ Meant'[v][b] = IF v = u /\ b = a THEN "withdrawn" ELSE Meant[v][b]
                        /\ EndedAt'[v][b] = IF v = u /\ b = a THEN now ELSE EndedAt[v][b]
      OBVIOUS
    <3> QED BY <1>1, <1>4, <3>1, Meanings, RowsOfChanged
  <2>2. {<<u, a>>} \in SUBSET (Unit \X Attempt) /\ \A p \in {<<u, a>>} : p[1] = u /\ p[2] = a
    OBVIOUS
  <2> QED BY <1>1, <2>1, <2>2, WithdrawnTables
<1> QED BY <1>3, <1>4

\* expire_work_lease takes an attempt whose promise has run out.
LEMMA ExpiryKeepsPromise ==
  ASSUME TypeOK, NEW u \in Unit, NEW a \in Attempt, ExpireWorkLease(u, a)
  PROVE  Promises!Next
<1>1. Active(u, a) /\ now >= lease[u][a].expires /\ CloseLease(u, a, "EXPIRED") /\ now' = now
  BY DEF ExpireWorkLease, Expirable
<1>2. /\ Meant[u][a] = "held" /\ Promised[u][a] = lease[u][a].expires
      /\ Meant' = [Meant EXCEPT ![u][a] = "expired"]
      /\ EndedAt' = [EndedAt EXCEPT ![u][a] = now]
      /\ Promised' = Promised
  BY <1>1, CloseEnds, Meanings DEF ClosedState
<1>3. now \in Nat /\ lease[u][a].expires \in Nat /\ a \in Promises!Attempt
  BY DEF TypeOK, Lease, Attempt, Promises!Attempt
<1>4. Promises!End(u, a, "expired", now)
  BY <1>1, <1>2, <1>3 DEF Promises!End, Promises!Held, Meant, Promised, EndedAt
<1>5. Promises!Expire(u, a, now)
  BY <1>1, <1>2, <1>3, <1>4 DEF Promises!Expire, Promised
<1> QED BY <1>3, <1>5 DEF Promises!Next

\* heartbeat_work_lease promises a held attempt more time.
LEMMA HeartbeatKeepsPromise ==
  ASSUME TypeOK, NEW u \in Unit, NEW a \in Attempt, NEW h \in Holder, HeartbeatWorkLease(u, a, h)
  PROVE  Promises!Next
<1> DEFINE x == IF now + HeartbeatExtension > lease[u][a].expires
                THEN now + HeartbeatExtension ELSE lease[u][a].expires
<1>1. /\ Active(u, a) /\ now < lease[u][a].expires /\ now' = now
      /\ lease' = [lease EXCEPT ![u][a] = RenewedHead(lease[u][a], x)]
  BY DEF HeartbeatWorkLease, HolderMayAct
<1> HIDE DEF x
<1>2. lease[u][a] \in Lease /\ a \in Promises!Attempt
  BY DEF TypeOK, Attempt, Promises!Attempt
<1>3. /\ lease'[u][a] = RenewedHead(lease[u][a], x)
      /\ \A v \in Unit : \A b \in Attempt : v # u \/ b # a => lease'[v][b] = lease[v][b]
  BY <1>1 DEF TypeOK
<1>4. lease'[u][a].state = "ACTIVE" /\ lease'[u][a].expires = x /\ lease[u][a].state = "ACTIVE"
  BY <1>1, <1>2, <1>3 DEF RenewedHead, Lease, Active
<1>5. ~Closed(u, a) /\ ~Closed(u, a)'
  BY <1>4 DEF Closed, ClosedState
<1>6. /\ Meant' = [Meant EXCEPT ![u][a] = "held"]
      /\ Promised' = [Promised EXCEPT ![u][a] = x]
      /\ EndedAt' = EndedAt
  BY <1>3, <1>4, <1>5, OneLeaseChanges, Meanings
<1>7. Meant[u][a] = "held" /\ Promised[u][a] = lease[u][a].expires
  BY <1>4, Meanings DEF Meant, Promised
<1>8. Meant' = Meant
  <2>1. Meant = [v \in Unit |-> [b \in Attempt |-> Meant[v][b]]]
    BY DEF Meant
  <2> QED BY <1>6, <1>7, <2>1
<1>9. Promised' = [Promised EXCEPT ![u][a] = IF now + HeartbeatExtension > @
                                             THEN now + HeartbeatExtension ELSE @]
  BY <1>6, <1>7 DEF x
<1>10. Promises!Renew(u, a)
  BY <1>1, <1>7, <1>8, <1>6, <1>9 DEF Promises!Renew, Promises!Held, Meant, Promised, EndedAt
<1> QED BY <1>2, <1>10 DEF Promises!Next

\* acquire_work_lease grants the next attempt, when it is due.
LEMMA AcquireKeepsPromise ==
  ASSUME LeaseInv, NEW u \in Unit, NEW a \in Attempt, NEW h \in Holder, AcquireWorkLease(u, a, h)
  PROVE  Promises!Next
<1> DEFINE l == [state |-> "ACTIVE", version |-> 0, fence |-> NextFence(u), holder |-> h,
                 acquired |-> now, expires |-> now + LeaseDuration, closed |-> 0]
<1>1. LeaseAdmissible(u, a) /\ lease' = [lease EXCEPT ![u][a] = l] /\ now' = now
  BY DEF AcquireWorkLease
<1>2. l.state = "ACTIVE" /\ l.expires = now + LeaseDuration
  OBVIOUS
<1> HIDE DEF l
<1>3. /\ TypeOK /\ now \in Nat /\ now \in 0..now /\ a \in 1..MaxAttempts /\ MaxAttempts \in Nat
      /\ Promises!Attempt = Attempt
  BY PolicyAssumption DEF LeaseInv, TypeOK, Attempt, Promises!Attempt
<1>4. /\ lease'[u][a] = l
      /\ \A v \in Unit : \A b \in Attempt : v # u \/ b # a => lease'[v][b] = lease[v][b]
  BY <1>1, <1>3 DEF TypeOK
<1>5. \A b \in Attempt : b >= a => lease[u][b].state = "NONE"
  <2> SUFFICES ASSUME NEW b \in Attempt, b >= a PROVE ~Exists(u, b)
    BY DEF Exists
  <2>1. a # 1 => b > a - 1
    BY <1>3 DEF Attempt
  <2> QED BY <1>1, <2>1 DEF LeaseAdmissible, IsLatestAttempt
<1>6. ~Closed(u, a) /\ ~Closed(u, a)'
  BY <1>2, <1>3, <1>4, <1>5 DEF Closed, ClosedState
<1>7. /\ Meant' = [Meant EXCEPT ![u][a] = "held"]
      /\ Promised' = [Promised EXCEPT ![u][a] = now + LeaseDuration]
      /\ EndedAt' = EndedAt
  BY <1>2, <1>4, <1>6, OneLeaseChanges, Meanings
<1>8. \A b \in Attempt : b >= a => Meant[u][b] = "none"
  BY <1>5, Meanings DEF Meant
<1>9. ASSUME a > 1
      PROVE  /\ Meant[u][a - 1] = "failed" \/ (Meant[u][a - 1] = "expired" /\ RetryLeaseExpiry)
             /\ EndedAt[u][a - 1] + RetryDelay[a - 1] <= now
  <2>1. a - 1 \in Attempt /\ a - 1 < MaxAttempts
    BY <1>3, <1>9 DEF Attempt
  <2>2. /\ retry[u][a - 1].decision = "RETRY_SCHEDULED" /\ retry[u][a - 1].eligible <= now
    BY <1>1, <1>3, <1>9, <2>1 DEF LeaseAdmissible, TypeOK, Retry
  <2>3. RetryableClose(u, a - 1)
    BY <2>1, <2>2 DEF LeaseInv, RetryEarned
  <2>4. retry[u][a - 1].eligible = lease[u][a - 1].closed + RetryDelay[a - 1]
    <3>1. RetryDispatchable
      BY DEF LeaseInv
    <3>2. retry[u][a - 1] = [decision |-> "RETRY_SCHEDULED",
                             eligible |-> lease[u][a - 1].closed + RetryDelay[a - 1]]
      BY <2>1, <2>3, <3>1, Zenon DEF RetryDispatchable
    <3> QED BY <3>2
  <2>5. Closed(u, a - 1)
    BY <2>3 DEF RetryableClose, Closed, ClosedState
  <2>6. EndedAt[u][a - 1] = lease[u][a - 1].closed
    BY <2>1, <2>5 DEF EndedAt
  <2>7. Meant[u][a - 1] = "failed" \/ (Meant[u][a - 1] = "expired" /\ RetryLeaseExpiry)
    BY <2>1, <2>3, Meanings DEF RetryableClose, Meant
  <2> QED BY <2>2, <2>4, <2>6, <2>7
<1>10. PICK c \in 0..now : c = now
  BY <1>3
<1>11. Promises!MayFollow(u, a, c)
  BY <1>9, <1>10 DEF Promises!MayFollow, Meant, EndedAt
<1>12. Promises!Assign(u, a, c)
  BY <1>1, <1>3, <1>7, <1>8, <1>10, <1>11 DEF Promises!Assign, Meant, Promised, EndedAt
<1>13. a \in Promises!Attempt
  BY <1>3 DEF Attempt
<1> QED BY <1>12, <1>13 DEF Promises!Next

\* cancel_job_work withdraws every attempt in flight of the job.
LEMMA CancelKeepsPromise ==
  ASSUME TypeOK, NEW j \in Job, CancelJobWork(j)
  PROVE  Promises!Next
<1> DEFINE held == ActiveLeases(j)
<1>1. held \in SUBSET (Unit \X Attempt) /\ now' = now
  BY DEF CancelJobWork, ActiveLeases
<1>2. ASSUME NEW p \in held PROVE Meant[p[1]][p[2]] = "held"
  BY <1>2, Meanings DEF ActiveLeases, Active, Meant
<1>3. ASSUME NEW v \in Unit, NEW b \in Attempt
      PROVE  /\ Meant'[v][b] = IF <<v, b>> \in held THEN "withdrawn" ELSE Meant[v][b]
             /\ EndedAt'[v][b] = IF <<v, b>> \in held THEN now ELSE EndedAt[v][b]
             /\ Promised'[v][b] = Promised[v][b]
  <2>1. /\ Meant[v][b] = LeaseMeaning[lease[v][b].state]
        /\ Meant'[v][b] = LeaseMeaning[lease'[v][b].state]
        /\ Promised[v][b] = lease[v][b].expires /\ Promised'[v][b] = lease'[v][b].expires
        /\ EndedAt[v][b] = IF Closed(v, b) THEN lease[v][b].closed ELSE 0
        /\ EndedAt'[v][b] = IF Closed(v, b)' THEN lease'[v][b].closed ELSE 0
    BY PromiseTables DEF Meant, Promised, EndedAt
  <2>2. CASE <<v, b>> \in held
    <3>1. lease'[v][b] = ClosedHead(lease[v][b], "CANCELLED")
      BY <2>2 DEF CancelJobWork
    <3>2. lease[v][b] \in Lease
      BY DEF TypeOK
    <3>3. /\ lease'[v][b].state = "CANCELLED" /\ lease'[v][b].closed = now
          /\ lease'[v][b].expires = lease[v][b].expires
      BY <3>1, <3>2 DEF ClosedHead, Lease
    <3>4. Closed(v, b)'
      BY <3>3 DEF Closed, ClosedState
    <3> QED BY <2>1, <2>2, <3>3, <3>4, Meanings
  <2>3. CASE <<v, b>> \notin held
    <3>1. lease'[v][b] = lease[v][b]
      BY <2>3 DEF CancelJobWork
    <3>2. Closed(v, b)' <=> Closed(v, b)
      BY <3>1 DEF Closed
    <3> QED BY <2>1, <2>3, <3>1, <3>2
  <2> QED BY <2>2, <2>3
<1>4. Promised' = Promised
  <2>1. /\ Promised = [v \in Unit |-> [b \in Attempt |-> Promised[v][b]]]
        /\ Promised' = [v \in Unit |-> [b \in Attempt |-> Promised'[v][b]]]
    BY PromiseTables DEF Promised
  <2> QED BY <1>3, <2>1
<1> HIDE DEF held
<1> QED BY <1>1, <1>2, <1>3, <1>4, WithdrawnTables

\* An empty store has promised nothing.
LEMMA NothingPromised == Init => Promises!Init
<1> SUFFICES ASSUME Init PROVE Promises!Init
  OBVIOUS
<1>1. \A u \in Unit : \A a \in Attempt :
        lease[u][a].state = "NONE" /\ lease[u][a].expires = 0 /\ ~Closed(u, a)
  BY DEF Init, NoLease, Closed, ClosedState
<1>2. /\ Meant = [u \in Unit |-> [a \in Attempt |-> "none"]]
      /\ Promised = [u \in Unit |-> [a \in Attempt |-> 0]]
      /\ EndedAt = [u \in Unit |-> [a \in Attempt |-> 0]]
  BY <1>1, Meanings DEF Meant, Promised, EndedAt
<1> QED BY <1>2 DEF Init, Promises!Init, Promises!Attempt, Attempt, Meant, Promised, EndedAt

\* Every step of the store is a step of AttemptLease or a stutter.
LEMMA PromiseStep == LeaseInv /\ [Next]_vars => [Promises!Next]_(Promises!vars)
<1> SUFFICES ASSUME LeaseInv, [Next]_vars PROVE Promises!Next \/ UNCHANGED Promises!vars
  OBVIOUS
<1>0. TypeOK
  BY DEF LeaseInv
<1>1. ASSUME lease' = lease, now' = now PROVE UNCHANGED Promises!vars
  BY <1>1, PromisesStay DEF Promises!vars, Meant, Promised, EndedAt
<1>2. CASE UNCHANGED vars
  BY <1>1, <1>2 DEF vars
<1>3. CASE Tick
  <2>1. lease' = lease /\ now' = now + 1
    BY <1>3 DEF Tick, leaseVars
  <2>2. Promises!Tick
    BY <2>1, PromisesStay DEF Promises!Tick, Meant, Promised, EndedAt
  <2> QED BY <2>2 DEF Promises!Next
<1>4. ASSUME NEW j \in Job, NEW t, TransitionJob(j, t) PROVE UNCHANGED Promises!vars
  BY <1>1, <1>4 DEF TransitionJob, leaseVars
<1>5. ASSUME NEW i \in Item, NEW t, TransitionItem(i, t) PROVE UNCHANGED Promises!vars
  BY <1>1, <1>5 DEF TransitionItem, leaseVars
<1>6. ASSUME NEW j \in Job, CancelJobWork(j) PROVE Promises!Next
  BY <1>0, <1>6, CancelKeepsPromise
<1>7. ASSUME NEW u \in Unit, RecordWorkReadiness(u) \/ RecordSkippedItem(u)
      PROVE  UNCHANGED Promises!vars
  BY <1>1, <1>7 DEF RecordWorkReadiness, RecordSkippedItem, InsertSnapshot, leaseVars
<1>8. ASSUME NEW u \in Unit, NEW a \in Attempt, ExpireWorkLease(u, a) PROVE Promises!Next
  BY <1>0, <1>8, ExpiryKeepsPromise
<1>9. ASSUME NEW u \in Unit, NEW a \in Attempt, NEW h \in Holder,
             AcquireWorkLease(u, a, h) \/ HeartbeatWorkLease(u, a, h)
      PROVE  Promises!Next
  BY <1>0, <1>9, AcquireKeepsPromise, HeartbeatKeepsPromise
<1>10. ASSUME NEW u \in Unit, NEW a \in Attempt, NEW h \in Holder,
              NEW s \in TERMINAL_STAGE_STATUSES, NEW r \in BOOLEAN,
              CompleteStageWorkLease(u, a, h, s, r)
       PROVE  Promises!Next
  <2>1. StageEventKind(s, r) \in ClosedState \ {"EXPIRED"}
    BY DEF StageEventKind, ClosedState
  <2>2. /\ Active(u, a) /\ now < lease[u][a].expires /\ now' = now
        /\ CloseLease(u, a, StageEventKind(s, r))
    BY <1>10 DEF CompleteStageWorkLease, HolderMayAct
  <2> QED BY <1>0, <2>1, <2>2, CompletionKeepsPromise
<1>11. ASSUME NEW u \in Unit, NEW a \in Attempt, NEW h \in Holder,
              NEW k \in {"SUCCEEDED", "RETRYABLE_FAILURE", "TERMINAL_FAILURE"},
              CompleteArtifactGroupWorkLease(u, a, h, k)
       PROVE  Promises!Next
  <2>1. k \in ClosedState \ {"EXPIRED"}
    BY DEF ClosedState
  <2>2. Active(u, a) /\ now < lease[u][a].expires /\ now' = now /\ CloseLease(u, a, k)
    BY <1>11 DEF CompleteArtifactGroupWorkLease, HolderMayAct
  <2> QED BY <1>0, <2>1, <2>2, CompletionKeepsPromise
<1> QED BY <1>2, <1>3, <1>4, <1>5, <1>6, <1>7, <1>8, <1>9, <1>10, <1>11 DEF Next, UnitNext

\* For every graph, policy and set of workers the work leases implement the
\* lease on an attempt: no holder loses an attempt before the expiry last
\* promised to it except by the cancellation of its job, no outcome counts
\* from then on, and a retry follows a retryable end after the policy's delay.
THEOREM WorkKeepsAttemptLease == Spec => KeepsAttemptLease
<1>1. Spec => []LeaseInv
  BY LeaseInvInit, LeaseInvStep, PTL DEF Spec
<1> QED BY <1>1, NothingPromised, PromiseStep, PTL DEF Spec, KeepsAttemptLease, Promises!Spec
=============================================================================
