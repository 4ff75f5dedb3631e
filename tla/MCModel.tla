------------------------------ MODULE MCModel ------------------------------
(***************************************************************************)
(* Model control of the units of one job.  A stage run and an artifact     *)
(* group share one token bucket, and the group takes all its concurrency;  *)
(* a second stage run may be in flight beside the first, so that the       *)
(* provider's answers come in any order.                                   *)
(***************************************************************************)
EXTENDS ModelControl

CONSTANTS j1, u1, u2, u3, h1, requests

MCJob == {j1}
MCUnit == {u1, u2, u3}
MCHolder == {h1}
MCJobOf == [u \in Unit |-> j1]
MCItemOf == [u \in Unit |-> NoItem]
MCDependsOn == [u \in Unit |-> {}]
MCRetryDelay == <<>>
MCInvocations == [u \in Unit |-> IF u = u2 THEN 2 ELSE 1]

\* Two thirds of a unit arrive per tick.
MCRefillRate == [d \in Dimension |-> 2]
MCGrant == [u \in Unit |-> [d \in Dimension |-> IF u = u2 THEN 2 ELSE 1]]

\* The bucket holds the larger grant, the budget that and one more.
MCBurst == [d \in Dimension |-> 2]
MCModelMax == [j \in Job |-> [d \in Dimension |-> 3]]
MCConcurrent == [j \in Job |-> 2]

\* The first stage and the group alone, whatever happens to them.
OneStageAlone == latest[u3] = "NONE" /\ ~Exists(u3, 1)

\* Both stages dispatched and answered in time, with or without backpressure,
\* and the group waiting for its admission: the units are ready before the
\* first dispatch, the job stays alive and no usage passes its grant.
AnswersInAnyOrder ==
  /\ now <= 2
  /\ \A j \in Job : jobStatus[j] \in {"CREATED", "RUNNING"}
  /\ \A u \in Unit : modelReservation[u][1].state \in {"NONE", "ACTIVE", "RELEASED"}
  /\ \A u \in Unit : invoking[u][1] = (modelReservation[u][1].state = "ACTIVE")
  /\ \A u \in Unit : Within(modelReservation[u][1].usage, Grant[u])
  /\ \A u \in Unit : Exists(u, 1) => \A w \in Unit : latest[w] = "READY"
  /\ \A u \in Unit \ ArtifactGroup : stage[u][1] \in {"NONE", "RUNNING", "RETRYABLE_FAILURE", "SUCCEEDED"}
  /\ modelReservation[u2][1].state # "RELEASED"

\* The states explored.
Scenario == OneStageAlone \/ AnswersInAnyOrder
=============================================================================
