----------------------------- MODULE PlanControl -----------------------------
(***************************************************************************)
(* Plans, plan reviews and domain results of one factory run: the run and  *)
(* plan tables of FactoryControlStore, PlanReviewService on top of them,   *)
(* and the runtimes that ask for a review and execute what was resumed.    *)
(*                                                                         *)
(* Every operation is one BEGIN IMMEDIATE transaction.  Operations that    *)
(* compare the whole run with what the caller read are single actions;     *)
(* what a runtime reads before it awaits its agents and uses afterwards is *)
(* kept in its own state.  A crash rolls a transaction back and a replayed *)
(* idempotency key returns the stored answer, so both are stutters.        *)
(*                                                                         *)
(* A plan is named by its kind and version: the tables hold at most one    *)
(* plan of a version.  A review is named by the plan it was opened for.    *)
(***************************************************************************)
EXTENDS Integers, FiniteSets

CONSTANTS
  DomainKind,      \* plan kinds of PlanKindV2 other than GLOBAL_BUILD
  Opener,          \* calls of prepare_review or review_global_plan in flight
  Executor,        \* calls of a runtime's execution in flight
  MaxVersion,      \* bound: versions of the plan of each kind
  MaxSince         \* bound: snapshots of the run while one review is pending

Global == "GLOBAL_BUILD"
PlanKind == DomainKind \cup {Global}
Version(k) == 1..MaxVersion[k]
NoReview == <<"NONE", 0>>

ASSUME PlanAssumption ==
  /\ DomainKind \subseteq {"TRACE_CLEANING", "TASK_REWRITE", "ATTACHMENT_GENERATION",
                           "CRITERIA_RUBRIC", "GRADING_DESIGN", "FINAL_DELIVERY"}
  /\ MaxVersion \in [PlanKind -> Nat \ {0}] /\ MaxSince \in Nat \ {0}

VARIABLES
  run,        \* the current FactoryRunV2; since: snapshots since its pending review's
  head,       \* plan_current_heads and domain_plan_current_heads: version, by kind
  material,   \* domain_plan_materials: versions stored, promoted or drafted by an edit
  review,     \* plan_review_requests and their current results
  results,    \* domain_results: the plan versions that have one
  current,    \* domain_result_current_heads: the plan version, 0 without one
  client      \* what each client is about to do

planVars == <<head, material>>
resultVars == <<results, current>>
vars == <<run, planVars, review, resultVars, client>>

Unopened == [state |-> "NONE", successor |-> 0, plan |-> 0]
Idle == [at |-> "idle", kind |-> "NONE", plan |-> 0]

\* create_run
Init ==
  /\ run = [since |-> 0, status |-> "CREATED", plan |-> 0, pending |-> NoReview]
  /\ head = [k \in PlanKind |-> 0]
  /\ material = [k \in PlanKind |-> {}]
  /\ review = [k \in PlanKind |-> [v \in Version(k) |-> Unopened]]
  /\ results = [k \in PlanKind |-> {}]
  /\ current = [k \in PlanKind |-> 0]
  /\ client = [c \in Opener \cup Executor |-> Idle]

-----------------------------------------------------------------------------
(* Reading the store *)

\* list_reviews, filtered to the resumed reviews whose view shows this plan.
ResumedReviews(k, v) ==
  {w \in Version(k) : review[k][w].state = "RESUMED" /\ review[k][w].plan = v}

\* Faulty variant of Resumed: any resumed review of the kind will do.
ResumedOnceBefore(k, v) == \E w \in Version(k) : review[k][w].state = "RESUMED"

\* require_resumed_review of the current plan: exactly one review.
Resumed(k, v) == Cardinality(ResumedReviews(k, v)) = 1

\* _validate_waiting_run: the run waits for this review, on the snapshot that
\* follows the one the review was opened for.
WaitingOn(k, v) ==
  /\ run.status = "WAITING_REVIEW" /\ run.pending = <<k, v>>
  /\ run.since = 1

Attached == {"ATTACHMENT_GENERATION", "CRITERIA_RUBRIC", "GRADING_DESIGN"}

\* Faulty variant of InvalidatedResultKinds: the kind's own result stays.
InvalidatedDownstream(k) ==
  CASE k \in {"TRACE_CLEANING", "TASK_REWRITE"} -> Attached
    [] k = "ATTACHMENT_GENERATION" -> Attached \ {k}
    [] k = "CRITERIA_RUBRIC" -> {"GRADING_DESIGN"}
    [] OTHER -> {}

\* _invalidated_result_kinds
InvalidatedResultKinds(k) ==
  CASE k \in {"TRACE_CLEANING", "TASK_REWRITE"} -> Attached \cup {k}
    [] k = "ATTACHMENT_GENERATION" -> Attached
    [] k = "CRITERIA_RUBRIC" -> Attached \ {"ATTACHMENT_GENERATION"}
    [] OTHER -> {k}

\* _insert_run and the update of factory_run_current_heads.
\* Of the snapshot's version only its distance from the one the pending review
\* was opened for is kept.
NextRun(status, plan, pending) ==
  run' = [since |-> IF pending = NoReview THEN 0 ELSE run.since + 1,
          status |-> status, plan |-> plan, pending |-> pending]

\* _promote_domain_plan: a plan that replaces another takes the current results
\* of its kind and of the kinds downstream with it.
Promote(k, v) ==
  /\ head' = [head EXCEPT ![k] = v]
  /\ current' = [j \in PlanKind |->
       IF head[k] # 0 /\ j \in InvalidatedResultKinds(k) THEN 0 ELSE current[j]]

-----------------------------------------------------------------------------
(* FactoryControlStore *)

\* begin_item_planning, for the created run of an item.
BeginItemPlanning ==
  /\ run.status = "CREATED"
  /\ NextRun("PLANNING", run.plan, run.pending)
  /\ UNCHANGED <<planVars, review, resultVars, client>>

\* Faulty variant of AfterPlan: the run keeps what it waits for.
AfterPlanWaiting(v) == NextRun(run.status, v, run.pending)

\* commit_plan: the run plans on, whatever it waited for.
AfterPlan(v) == NextRun("PLANNING", v, NoReview)

\* commit_plan: the next global plan, in every state of the run.
CommitPlan ==
  LET v == head[Global] + 1
  IN /\ v \in Version(Global)
     /\ AfterPlan(v)
     /\ head' = [head EXCEPT ![Global] = v]
     /\ UNCHANGED <<material, review, resultVars, client>>

\* commit_planner_assessment: a new snapshot of the run, whatever it waits for.
CommitPlannerAssessment ==
  /\ run.plan # 0
  /\ run.since < MaxSince
  /\ NextRun(run.status, run.plan, run.pending)
  /\ UNCHANGED <<planVars, review, resultVars, client>>

\* commit_domain_plan: the next plan of the kind, if no edit has stored that
\* version before.
CommitDomainPlan(k) ==
  LET v == head[k] + 1
  IN /\ run.status = "PLANNING"
     /\ v \in Version(k) \ material[k]
     /\ material' = [material EXCEPT ![k] = @ \cup {v}]
     /\ Promote(k, v)
     /\ NextRun("PLANNING", run.plan, NoReview)
     /\ UNCHANGED <<review, results, client>>

\* rebuild_current_heads of the results: those of the current plans.
Rebuilt == [k \in PlanKind |-> IF head[k] \in results[k] THEN head[k] ELSE 0]

RebuildCurrentHeads ==
  /\ current' = Rebuilt
  /\ UNCHANGED <<run, planVars, review, results, client>>

-----------------------------------------------------------------------------
(* Clients *)

Become(c, state) == client' = [client EXCEPT ![c] = state]

\* prepare_review or review_global_plan: the plan has no resumed review and a
\* review will be asked for.
AskReview(c, k) ==
  /\ client[c] = Idle
  /\ head[k] # 0 /\ ~Resumed(k, head[k])
  /\ k = Global => run.status # "WAITING_REVIEW" /\ ResumedReviews(k, head[k]) = {}
  /\ Become(c, [at |-> "opening", kind |-> k, plan |-> 0])
  /\ UNCHANGED <<run, planVars, review, resultVars>>

\* open_plan, open_global_plan: a review of what is now the current plan, or a
\* conflict.
OpenReview(c) ==
  LET k == client[c].kind
      v == head[k]
  IN /\ client[c].at = "opening"
     /\ IF run.status = "PLANNING" /\ review[k][v] = Unopened
        THEN /\ review' = [review EXCEPT ![k][v] =
                  [state |-> "PENDING_REVIEW", successor |-> 0, plan |-> v]]
             /\ NextRun("WAITING_REVIEW", run.plan, <<k, v>>)
        ELSE UNCHANGED <<run, review>>
     /\ Become(c, Idle)
     /\ UNCHANGED <<planVars, resultVars>>

\* require_resumed_plan, before the agents are awaited.
BeginExecution(c, k) ==
  /\ client[c] = Idle
  /\ head[k] # 0 /\ Resumed(k, head[k])
  /\ Become(c, [at |-> "executing", kind |-> k, plan |-> head[k]])
  /\ UNCHANGED <<run, planVars, review, resultVars>>

\* commit_domain_result, or its refusal.
CommitDomainResult(c) ==
  LET k == client[c].kind
      v == client[c].plan
  IN /\ client[c].at = "executing"
     /\ IF run.status # "FAILED" /\ v = head[k] /\ v \notin results[k]
        THEN /\ results' = [results EXCEPT ![k] = @ \cup {v}]
             /\ current' = [current EXCEPT ![k] = v]
        ELSE UNCHANGED resultVars
     /\ Become(c, Idle)
     /\ UNCHANGED <<run, planVars, review>>

-----------------------------------------------------------------------------
(* PlanReviewService, called by the user *)

Decided == [APPROVE |-> "APPROVED", REJECT |-> "REJECTED", DEFER |-> "DEFERRED",
            REQUEST_MORE |-> "REVISION_REQUESTED"]

\* decide
Decide(k, v, decision) ==
  /\ review[k][v].state = "PENDING_REVIEW" /\ WaitingOn(k, v)
  /\ review' = [review EXCEPT ![k][v].state = Decided[decision]]
  /\ IF decision = "REJECT" THEN NextRun("FAILED", run.plan, NoReview) ELSE UNCHANGED run
  /\ UNCHANGED <<planVars, resultVars, client>>

\* edit_plan, edit_global_plan: the successor is stored but not yet promoted.
EditPlan(k, v) ==
  /\ review[k][v].state = "PENDING_REVIEW" /\ WaitingOn(k, v)
  /\ head[k] = v /\ v + 1 \in Version(k) \ material[k]
  /\ review' = [review EXCEPT ![k][v] =
                  [state |-> "REVISION_REQUESTED", successor |-> v + 1, plan |-> v + 1]]
  /\ material' = IF k = Global THEN material ELSE [material EXCEPT ![k] = @ \cup {v + 1}]
  /\ UNCHANGED <<run, head, resultVars, client>>

\* Faulty variant of Resumable: only an approval is resumed.
ResumableApproved(k, v) == review[k][v].state = "APPROVED"

\* resume: approved, or edited with a compiled successor.
Resumable(k, v) ==
  \/ review[k][v].state = "APPROVED"
  \/ review[k][v].state = "REVISION_REQUESTED" /\ review[k][v].successor # 0

\* resume: an edited plan is promoted, and the run plans on.
Resume(k, v) ==
  LET s == review[k][v].successor
  IN /\ Resumable(k, v) /\ WaitingOn(k, v)
     /\ s # 0 => s = head[k] + 1
     /\ CASE s = 0 -> UNCHANGED <<head, current>>
          [] s # 0 /\ k = Global -> head' = [head EXCEPT ![k] = s] /\ UNCHANGED current
          [] OTHER -> Promote(k, s)
     /\ review' = [review EXCEPT ![k][v] = [@ EXCEPT !.state = "RESUMED", !.successor = 0]]
     /\ NextRun("PLANNING", IF k = Global /\ s # 0 THEN s ELSE run.plan, NoReview)
     /\ UNCHANGED <<material, results, client>>

-----------------------------------------------------------------------------

UserDecides ==
  \E k \in PlanKind : \E v \in Version(k) :
    \/ \E decision \in DOMAIN Decided : Decide(k, v, decision)
    \/ EditPlan(k, v)

UserResumes == \E k \in PlanKind : \E v \in Version(k) : Resume(k, v)

Next ==
  \/ BeginItemPlanning \/ CommitPlan \/ CommitPlannerAssessment
  \/ \E k \in DomainKind : CommitDomainPlan(k)
  \/ RebuildCurrentHeads
  \/ \E c \in Opener : OpenReview(c) \/ \E k \in PlanKind : AskReview(c, k)
  \/ \E c \in Executor : CommitDomainResult(c) \/ \E k \in DomainKind : BeginExecution(c, k)
  \/ UserDecides \/ UserResumes

Spec == Init /\ [][Next]_vars

\* The user answers the review the run waits for, and resumes what is decided.
FairSpec == Spec /\ WF_vars(UserDecides) /\ WF_vars(UserResumes)

-----------------------------------------------------------------------------
(* Properties *)

\* Nothing is executed that the user did not release: the plan of every domain
\* result was promoted and is the plan a resumed review ended with, although a
\* runtime asks for the review before its agents run and commits long after,
\* and edits, other plans and other reviews come in between.
ExecutedPlanWasResumed ==
  \A k \in DomainKind : \A v \in results[k] :
    /\ v <= head[k]
    /\ \E w \in Version(k) : review[k][w].state = "RESUMED" /\ review[k][w].plan = v

\* While the run waits for a review, the plan under review is the current one
\* of its kind, the review is still unanswered or unresumed, no other edit of
\* the kind was promoted meanwhile, and the run names the current global plan:
\* the user never decides on, and resume never releases, a superseded plan.
WaitingPlanIsCurrent ==
  /\ run.plan = head[Global]
  /\ run.status = "WAITING_REVIEW" =>
       \E k \in PlanKind : \E v \in Version(k) :
         /\ run.pending = <<k, v>> /\ head[k] = v
         /\ review[k][v].state \in {"PENDING_REVIEW", "APPROVED", "REVISION_REQUESTED", "DEFERRED"}
         /\ review[k][v].successor \in {0, v + 1}
  /\ run.status # "WAITING_REVIEW" => run.pending = NoReview

\* A result that a promotion invalidated stays stale: a result becomes current
\* only when it is committed.  rebuild_current_heads knows the current plans
\* alone and not what was invalidated, so it makes such a result current again.
InvalidatedStaysStale ==
  [][\A k \in DomainKind :
       current[k] = 0 /\ current'[k] # 0 => results'[k] # results[k]]_vars

\* rebuild_current_heads loses and replaces no current result: whatever was
\* edited, promoted and executed, a result that counts is of the plan that counts.
CurrentResultsSurviveRebuild ==
  \A k \in DomainKind : current[k] # 0 => Rebuilt[k] = current[k]

\* What InvalidatedStaysStale can lose: a result is brought back only where a
\* plan upstream of its own was replaced.
RevivedWasInvalidated ==
  \A k \in DomainKind :
    current[k] = 0 /\ Rebuilt[k] # 0 =>
      \E u \in DomainKind \ {k} : k \in InvalidatedResultKinds(u) /\ head[u] > 1

\* A review nobody can finish: it was deferred, sent back without a successor,
\* or the run took an assessment while it waited.
Stuck ==
  LET k == run.pending[1]
      v == run.pending[2]
  IN /\ run.status = "WAITING_REVIEW"
     /\ \/ review[k][v].state = "DEFERRED"
        \/ review[k][v].state = "REVISION_REQUESTED" /\ review[k][v].successor = 0
        \/ run.since # 1

\* There are no other dead ends: whatever was edited, promoted or committed
\* since, the user's next decision, or the resume of what is decided, is accepted.
WaitingIsAnswerable ==
  LET k == run.pending[1]
      v == run.pending[2]
  IN run.status = "WAITING_REVIEW" /\ ~Stuck =>
       /\ WaitingOn(k, v)
       /\ review[k][v].state # "PENDING_REVIEW" =>
            Resumable(k, v) /\ review[k][v].successor \in {0, head[k] + 1}

\* A run that waits for a review goes on or fails, unless it meets one of the
\* three known dead ends.
WaitingEndsOrStuck ==
  run.status = "WAITING_REVIEW" ~> run.status # "WAITING_REVIEW" \/ Stuck
=============================================================================
