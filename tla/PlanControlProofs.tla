-------------------------- MODULE PlanControlProofs --------------------------
(***************************************************************************)
(* Safety of plan reviews and domain results for every set of plan kinds,  *)
(* any number of versions, openers and executors.                          *)
(***************************************************************************)
EXTENDS PlanControl, TLAPS, FiniteSetTheorems

RunStatus == {"CREATED", "PLANNING", "WAITING_REVIEW", "FAILED"}

Review ==
  [state : {"NONE", "PENDING_REVIEW", "APPROVED", "REJECTED", "DEFERRED",
            "REVISION_REQUESTED", "RESUMED"},
   successor : Nat, plan : Nat]

Run == [since : Nat, status : RunStatus, plan : Nat,
        pending : {NoReview} \cup {<<k, v>> : k \in PlanKind, v \in Nat}]

Client == [at : {"idle", "opening", "executing"}, kind : PlanKind \cup {"NONE"}, plan : Nat]

PlanTypeOK ==
  /\ run \in Run
  /\ head \in [PlanKind -> Nat]
  /\ material \in [PlanKind -> SUBSET Nat]
  /\ DOMAIN review = PlanKind
  /\ \A k \in PlanKind : review[k] \in [Version(k) -> Review]
  /\ results \in [PlanKind -> SUBSET Nat]
  /\ current \in [PlanKind -> Nat]
  /\ client \in [Opener \cup Executor -> Client]

\* Versions are counted in natural numbers.
LEMMA VersionIsNat ==
  ASSUME NEW k \in PlanKind
  PROVE  /\ MaxVersion[k] \in Nat \ {0}
         /\ Version(k) \subseteq Nat
         /\ \A v \in Nat : v \in Version(k) <=> v # 0 /\ v <= MaxVersion[k]
BY PlanAssumption DEF Version

\* The kinds are known strings, none of them the absent one.
LEMMA KindFacts ==
  /\ "NONE" \notin PlanKind
  /\ Global \in PlanKind /\ Global \notin DomainKind
  /\ DomainKind \subseteq PlanKind
BY PlanAssumption DEF PlanKind, Global

\* The review of a plan is never the absent one.
LEMMA ReviewIsNamed ==
  ASSUME NEW k \in PlanKind, NEW v \in Nat
  PROVE  <<k, v>> # NoReview
BY KindFacts DEF NoReview

\* A snapshot of the run is well-formed.
LEMMA NextRunType ==
  ASSUME run \in Run, NEW status \in RunStatus, NEW plan \in Nat,
         NEW pending \in {NoReview} \cup {<<k, v>> : k \in PlanKind, v \in Nat},
         NextRun(status, plan, pending)
  PROVE  /\ run' \in Run
         /\ run'.status = status /\ run'.plan = plan /\ run'.pending = pending
<1>1. run.since + 1 \in Nat
  BY DEF Run
<1> QED BY <1>1 DEF NextRun, Run

\* Promoting a plan keeps the heads well-formed.
LEMMA PromoteType ==
  ASSUME PlanTypeOK, NEW k \in PlanKind, NEW v \in Nat, Promote(k, v)
  PROVE  head' \in [PlanKind -> Nat] /\ current' \in [PlanKind -> Nat]
BY DEF Promote, PlanTypeOK

\* One row of the review table is replaced.
OnlyReviewChanges(k, v, r) ==
  /\ DOMAIN review' = PlanKind
  /\ \A j \in PlanKind : review'[j] \in [Version(j) -> Review]
  /\ review'[k][v] = r
  /\ \A j \in PlanKind : \A w \in Version(j) : <<j, w>> # <<k, v>> =>
       review'[j][w] = review[j][w]


\* Rewriting one review keeps the reviews well-formed and the others as they are.
LEMMA ReviewUpdate ==
  ASSUME PlanTypeOK, NEW k \in PlanKind, NEW v \in Version(k), NEW r \in Review,
         review' = [review EXCEPT ![k][v] = r]
  PROVE  OnlyReviewChanges(k, v, r)
<1>1. review[k] \in [Version(k) -> Review] /\ DOMAIN review = PlanKind
  BY DEF PlanTypeOK
<1>2. /\ DOMAIN review' = PlanKind
      /\ review'[k] = [review[k] EXCEPT ![v] = r]
      /\ \A j \in PlanKind : j # k => review'[j] = review[j]
  BY <1>1
<1> QED BY <1>1, <1>2 DEF PlanTypeOK, OnlyReviewChanges

-----------------------------------------------------------------------------
(* The inductive invariant.                                                *)

\* Plan v of kind k was promoted, and a resumed review ended with it.
Released(k, v) ==
  /\ v <= head[k]
  /\ \E w \in Version(k) : review[k][w].state = "RESUMED" /\ review[k][w].plan = v

HeadsInRange == \A k \in PlanKind : head[k] <= MaxVersion[k]

\* A successor, once compiled, is the next version of the plan under review.
SuccessorIsNext ==
  \A k \in PlanKind : \A v \in Version(k) :
    review[k][v].successor # 0 => review[k][v].successor = v + 1 /\ v + 1 \in Version(k)

\* What a client is about to do, it may do: a review is asked for a plan that
\* exists, and only a released plan is executed.
ClientsKnowTheirPlan ==
  \A c \in Opener \cup Executor :
    /\ client[c].at = "opening" => client[c].kind \in PlanKind /\ head[client[c].kind] # 0
    /\ client[c].at = "executing" =>
         /\ client[c].kind \in DomainKind /\ client[c].plan # 0
         /\ Released(client[c].kind, client[c].plan)

ResultsReleased ==
  \A k \in DomainKind : \A v \in results[k] : v # 0 /\ Released(k, v)

\* A current result is one of the current plan.
CurrentIsHead ==
  \A k \in DomainKind : current[k] # 0 => current[k] = head[k] /\ head[k] \in results[k]

PlanInv ==
  /\ PlanTypeOK
  /\ HeadsInRange
  /\ SuccessorIsNext
  /\ WaitingPlanIsCurrent
  /\ ClientsKnowTheirPlan
  /\ ResultsReleased
  /\ CurrentIsHead
  /\ RevivedWasInvalidated

\* A released plan stays released while heads only grow and resumed reviews
\* are left alone; so do the plans of clients and of results.
LEMMA ReleasedStays ==
  ASSUME PlanInv,
         \A k \in PlanKind : head'[k] \in Nat /\ head[k] <= head'[k],
         \A k \in PlanKind : \A w \in Version(k) :
           review[k][w].state = "RESUMED" => review'[k][w] = review[k][w]
  PROVE  /\ \A k \in PlanKind : \A v \in Nat : Released(k, v) => Released(k, v)'
         /\ client' = client => ClientsKnowTheirPlan'
         /\ results' = results => ResultsReleased'
<1>1. ASSUME NEW k \in PlanKind, NEW v \in Nat, Released(k, v) PROVE Released(k, v)'
  <2>1. head[k] \in Nat
    BY DEF PlanInv, PlanTypeOK
  <2>2. v <= head'[k]
    BY <1>1, <2>1 DEF Released
  <2> QED BY <1>1, <2>2 DEF Released
<1>2. ASSUME client' = client PROVE ClientsKnowTheirPlan'
  <2> SUFFICES ASSUME NEW c \in Opener \cup Executor
               PROVE  /\ client[c].at = "opening" =>
                           client[c].kind \in PlanKind /\ head'[client[c].kind] # 0
                      /\ client[c].at = "executing" =>
                           /\ client[c].kind \in DomainKind /\ client[c].plan # 0
                           /\ Released(client[c].kind, client[c].plan)'
    BY <1>2 DEF ClientsKnowTheirPlan
  <2>1. client[c] \in Client /\ head \in [PlanKind -> Nat]
    BY DEF PlanInv, PlanTypeOK
  <2>2. CASE client[c].at = "opening"
    BY <2>1, <2>2 DEF PlanInv, ClientsKnowTheirPlan
  <2>3. CASE client[c].at = "executing"
    <3>1. /\ client[c].kind \in DomainKind /\ client[c].plan # 0 /\ client[c].plan \in Nat
          /\ Released(client[c].kind, client[c].plan)
      BY <2>1, <2>3 DEF PlanInv, ClientsKnowTheirPlan, Client
    <3>2. client[c].kind \in PlanKind
      BY <3>1, KindFacts
    <3>3. Released(client[c].kind, client[c].plan)'
      BY <1>1, <1>2, <3>1, <3>2
    <3> QED BY <2>3, <3>1, <3>3
  <2> QED BY <2>2, <2>3
<1>3. ASSUME results' = results PROVE ResultsReleased'
  <2> SUFFICES ASSUME NEW k \in DomainKind, NEW v \in results[k] PROVE v # 0 /\ Released(k, v)'
    BY <1>3 DEF ResultsReleased
  <2>1. v # 0 /\ Released(k, v) /\ v \in Nat /\ k \in PlanKind
    BY KindFacts DEF PlanInv, ResultsReleased, PlanTypeOK
  <2> QED BY <1>1, <2>1
<1> QED BY <1>1, <1>2, <1>3

\* Nothing but the run and the clients changes: the plans and results of the
\* invariant are untouched.
LEMMA StoreKept ==
  ASSUME PlanInv, UNCHANGED <<planVars, review, resultVars>>
  PROVE  /\ HeadsInRange' /\ SuccessorIsNext' /\ ResultsReleased' /\ CurrentIsHead'
         /\ RevivedWasInvalidated'
<1>1. HeadsInRange' /\ SuccessorIsNext' /\ CurrentIsHead'
  BY DEF PlanInv, planVars, resultVars, HeadsInRange, SuccessorIsNext, CurrentIsHead
<1>2. ResultsReleased'
  BY DEF PlanInv, planVars, resultVars, ResultsReleased, Released
<1>3. Rebuilt' = Rebuilt
  BY DEF Rebuilt, planVars, resultVars
<1>4. RevivedWasInvalidated'
  BY <1>3 DEF PlanInv, planVars, resultVars, RevivedWasInvalidated
<1> QED BY <1>1, <1>2, <1>4

\* The run moves on without changing what it waits for.
LEMMA QuietRunStep ==
  ASSUME PlanInv, BeginItemPlanning \/ CommitPlannerAssessment
  PROVE  PlanInv'
<1> USE DEF PlanInv
<1>1. UNCHANGED <<planVars, review, resultVars, client>>
  BY DEF BeginItemPlanning, CommitPlannerAssessment
<1>2. /\ run' \in Run /\ run'.plan = run.plan /\ run'.pending = run.pending
      /\ (run.status = "CREATED" /\ run'.status = "PLANNING") \/ run'.status = run.status
  <2>0. run \in Run /\ run.status \in RunStatus /\ run.plan \in Nat
        /\ run.pending \in {NoReview} \cup {<<k, v>> : k \in PlanKind, v \in Nat}
    BY DEF PlanTypeOK, Run
  <2>1. CASE BeginItemPlanning
    BY <2>0, <2>1, NextRunType DEF BeginItemPlanning, RunStatus
  <2>2. CASE CommitPlannerAssessment
    BY <2>0, <2>2, NextRunType DEF CommitPlannerAssessment
  <2> QED BY <2>1, <2>2
<1>3. PlanTypeOK'
  BY <1>1, <1>2 DEF PlanTypeOK, planVars, resultVars
<1>4. WaitingPlanIsCurrent'
  BY <1>1, <1>2 DEF WaitingPlanIsCurrent, planVars
<1>5. ClientsKnowTheirPlan'
  BY <1>1 DEF ClientsKnowTheirPlan, Released, planVars
<1> QED BY <1>1, <1>3, <1>4, <1>5, StoreKept

\* A client asks for a review, or starts on a released plan.
LEMMA ClientStep ==
  ASSUME PlanInv,
         \/ \E c \in Opener, k \in PlanKind : AskReview(c, k)
         \/ \E c \in Executor, k \in DomainKind : BeginExecution(c, k)
  PROVE  PlanInv'
<1> USE DEF PlanInv
<1>1. UNCHANGED <<run, planVars, review, resultVars>>
  BY DEF AskReview, BeginExecution
<1>2. PICK c \in Opener \cup Executor, row \in Client :
        /\ client' = [client EXCEPT ![c] = row]
        /\ row.at = "opening" => row.kind \in PlanKind /\ head[row.kind] # 0
        /\ row.at = "executing" =>
             row.kind \in DomainKind /\ row.plan # 0 /\ Released(row.kind, row.plan)
  <2>1. ASSUME NEW c \in Opener, NEW k \in PlanKind, AskReview(c, k)
        PROVE  \E row \in Client :
                 /\ client' = [client EXCEPT ![c] = row]
                 /\ row.at = "opening" => row.kind \in PlanKind /\ head[row.kind] # 0
                 /\ row.at = "executing" =>
                      row.kind \in DomainKind /\ row.plan # 0 /\ Released(row.kind, row.plan)
    <3> DEFINE row == [at |-> "opening", kind |-> k, plan |-> 0]
    <3>1. client' = [client EXCEPT ![c] = row] /\ head[k] # 0
      BY <2>1 DEF AskReview, Become
    <3>2. row \in Client
      BY DEF Client
    <3> QED BY <3>1, <3>2
  <2>2. ASSUME NEW c \in Executor, NEW k \in DomainKind, BeginExecution(c, k)
        PROVE  \E row \in Client :
                 /\ client' = [client EXCEPT ![c] = row]
                 /\ row.at = "opening" => row.kind \in PlanKind /\ head[row.kind] # 0
                 /\ row.at = "executing" =>
                      row.kind \in DomainKind /\ row.plan # 0 /\ Released(row.kind, row.plan)
    <3> DEFINE row == [at |-> "executing", kind |-> k, plan |-> head[k]]
    <3>0. k \in PlanKind /\ head[k] \in Nat
      BY KindFacts DEF PlanTypeOK
    <3>1. client' = [client EXCEPT ![c] = row] /\ head[k] # 0 /\ Resumed(k, head[k])
      BY <2>2 DEF BeginExecution, Become
    <3>2. ResumedReviews(k, head[k]) # {}
      BY <3>1, FS_EmptySet DEF Resumed
    <3>3. Released(k, head[k])
      BY <3>0, <3>2 DEF ResumedReviews, Released
    <3>4. row \in Client
      BY <3>0 DEF Client
    <3> QED BY <3>1, <3>3, <3>4
  <2> QED BY <2>1, <2>2
<1>3. PlanTypeOK'
  BY <1>1, <1>2 DEF PlanTypeOK, planVars, resultVars
<1>4. WaitingPlanIsCurrent'
  BY <1>1 DEF WaitingPlanIsCurrent, planVars
<1>5. ClientsKnowTheirPlan'
  <2>1. \A d \in Opener \cup Executor : client'[d] = IF d = c THEN row ELSE client[d]
    BY <1>2 DEF PlanTypeOK
  <2>2. head' = head /\ review' = review
    BY <1>1 DEF planVars
  <2>3. \A k, v : Released(k, v)' <=> Released(k, v)
    BY <2>2 DEF Released
  <2> QED BY <1>2, <2>1, <2>2, <2>3 DEF ClientsKnowTheirPlan
<1> QED BY <1>1, <1>3, <1>4, <1>5, StoreKept

\* A client opens a review of what is the current plan by now, or gives up.
LEMMA OpenStep ==
  ASSUME PlanInv, NEW c \in Opener, OpenReview(c)
  PROVE  PlanInv'
<1> USE DEF PlanInv
<1> DEFINE k == client[c].kind
           v == head[k]
           row == [state |-> "PENDING_REVIEW", successor |-> 0, plan |-> v]
<1>0. /\ k \in PlanKind /\ v \in Nat /\ v # 0 /\ v \in Version(k)
      /\ client' = [client EXCEPT ![c] = Idle]
      /\ UNCHANGED <<planVars, resultVars>>
  <2>1. k \in PlanKind /\ head[k] # 0
    BY DEF OpenReview, ClientsKnowTheirPlan
  <2>2. head[k] \in Nat /\ head[k] <= MaxVersion[k]
    BY <2>1 DEF PlanTypeOK, HeadsInRange
  <2> QED BY <2>1, <2>2, VersionIsNat DEF OpenReview, Become
<1>1. Idle \in Client /\ Idle.at = "idle"
  BY DEF Idle, Client
<1>2. client' \in [Opener \cup Executor -> Client]
  BY <1>0, <1>1 DEF PlanTypeOK
<1>3. \A d \in Opener \cup Executor : client'[d] = IF d = c THEN Idle ELSE client[d]
  BY <1>0 DEF PlanTypeOK
<1>4. CASE UNCHANGED <<run, review>>
  <2>1. PlanTypeOK' /\ WaitingPlanIsCurrent'
    BY <1>0, <1>2, <1>4 DEF PlanTypeOK, WaitingPlanIsCurrent, planVars, resultVars
  <2>2. \A j, w : Released(j, w)' <=> Released(j, w)
    BY <1>0, <1>4 DEF Released, planVars
  <2>3. ClientsKnowTheirPlan'
    BY <1>0, <1>1, <1>3, <1>4, <2>2 DEF ClientsKnowTheirPlan, planVars
  <2> QED BY <1>0, <1>4, <2>1, <2>3, StoreKept
<1>5. CASE /\ run.status = "PLANNING" /\ review[k][v] = Unopened
           /\ review' = [review EXCEPT ![k][v] = row]
           /\ NextRun("WAITING_REVIEW", run.plan, <<k, v>>)
  <2>0. row \in Review /\ row.state = "PENDING_REVIEW" /\ row.successor = 0
    BY <1>0 DEF Review
  <2> HIDE DEF row, v, k
  <2>1. /\ DOMAIN review' = PlanKind
        /\ \A j \in PlanKind : review'[j] \in [Version(j) -> Review]
        /\ review'[k][v] = row
        /\ \A j \in PlanKind : \A w \in Version(j) : <<j, w>> # <<k, v>> =>
             review'[j][w] = review[j][w]
    <3>1. PlanTypeOK /\ k \in PlanKind /\ v \in Version(k)
      BY <1>0
    <3>2. OnlyReviewChanges(k, v, row)
      BY <1>5, <2>0, <3>1, ReviewUpdate
    <3> QED BY <3>2 DEF OnlyReviewChanges
  <2>2. /\ run' \in Run /\ run'.status = "WAITING_REVIEW" /\ run'.plan = run.plan
        /\ run'.pending = <<k, v>>
    BY <1>0, <1>5, NextRunType DEF PlanTypeOK, Run, RunStatus
  <2>3. PlanTypeOK'
    BY <1>0, <1>2, <2>1, <2>2 DEF PlanTypeOK, planVars, resultVars
  <2>4. head' = head
    BY <1>0 DEF planVars
  <2>5. WaitingPlanIsCurrent'
    BY <1>0, <2>0, <2>1, <2>2, <2>4 DEF WaitingPlanIsCurrent, v
  <2>6. SuccessorIsNext' /\ HeadsInRange'
    BY <1>0, <2>0, <2>1, <2>4 DEF SuccessorIsNext, HeadsInRange
  <2>7. \A j \in PlanKind : \A w \in Version(j) :
          review[j][w].state = "RESUMED" => review'[j][w] = review[j][w]
    BY <1>5, <2>1 DEF Unopened
  <2>8. \A j \in PlanKind : head'[j] \in Nat /\ head[j] <= head'[j]
    BY <2>4 DEF PlanTypeOK
  <2>9. /\ \A j \in PlanKind : \A w \in Nat : Released(j, w) => Released(j, w)'
        /\ ResultsReleased'
    BY <1>0, <2>7, <2>8, ReleasedStays DEF resultVars
  <2>10. ClientsKnowTheirPlan'
    <3> SUFFICES ASSUME NEW d \in Opener \cup Executor, d # c
                 PROVE  /\ client'[d].at = "opening" =>
                             client'[d].kind \in PlanKind /\ head'[client'[d].kind] # 0
                        /\ client'[d].at = "executing" =>
                             /\ client'[d].kind \in DomainKind /\ client'[d].plan # 0
                             /\ Released(client[d].kind, client[d].plan)'
      BY <1>1, <1>3 DEF ClientsKnowTheirPlan
    <3>1. client'[d] = client[d] /\ client[d].plan \in Nat
      BY <1>3 DEF PlanTypeOK, Client
    <3> QED BY <2>4, <2>9, <3>1, KindFacts DEF ClientsKnowTheirPlan
  <2>11. CurrentIsHead' /\ RevivedWasInvalidated'
    BY <1>0, <2>4 DEF CurrentIsHead, RevivedWasInvalidated, Rebuilt, resultVars
  <2> QED BY <2>3, <2>5, <2>6, <2>9, <2>10, <2>11
<1> QED BY <1>4, <1>5 DEF OpenReview

\* A result is committed for the plan the client began with, if it is still
\* the current one.
LEMMA ResultStep ==
  ASSUME PlanInv, NEW c \in Executor, CommitDomainResult(c)
  PROVE  PlanInv'
<1> USE DEF PlanInv
<1> DEFINE k == client[c].kind
           v == client[c].plan
<1>0. /\ k \in DomainKind /\ k \in PlanKind /\ v \in Nat /\ v # 0 /\ Released(k, v)
      /\ client' = [client EXCEPT ![c] = Idle]
      /\ UNCHANGED <<run, planVars, review>>
  <2>1. k \in DomainKind /\ v # 0 /\ Released(k, v)
    BY DEF CommitDomainResult, ClientsKnowTheirPlan
  <2>2. v \in Nat
    BY DEF PlanTypeOK, Client
  <2> QED BY <2>1, <2>2, KindFacts DEF CommitDomainResult, Become
<1>1. Idle \in Client /\ Idle.at = "idle"
  BY DEF Idle, Client
<1>2. client' \in [Opener \cup Executor -> Client]
  BY <1>0, <1>1 DEF PlanTypeOK
<1>3. \A d \in Opener \cup Executor : client'[d] = IF d = c THEN Idle ELSE client[d]
  BY <1>0 DEF PlanTypeOK
<1>4. head' = head /\ \A j, w : Released(j, w)' <=> Released(j, w)
  BY <1>0 DEF Released, planVars
<1>5. ClientsKnowTheirPlan'
  BY <1>1, <1>3, <1>4 DEF ClientsKnowTheirPlan
<1>6. CASE UNCHANGED resultVars
  <2>1. PlanTypeOK' /\ WaitingPlanIsCurrent'
    BY <1>0, <1>2, <1>6 DEF PlanTypeOK, WaitingPlanIsCurrent, planVars, resultVars
  <2> QED BY <1>0, <1>5, <1>6, <2>1, StoreKept
<1>7. CASE /\ v = head[k]
           /\ results' = [results EXCEPT ![k] = @ \cup {v}]
           /\ current' = [current EXCEPT ![k] = v]
  <2> HIDE DEF k, v
  <2>1. /\ results' \in [PlanKind -> SUBSET Nat] /\ current' \in [PlanKind -> Nat]
        /\ \A j \in PlanKind : results'[j] = IF j = k THEN results[k] \cup {v} ELSE results[j]
        /\ \A j \in PlanKind : current'[j] = IF j = k THEN v ELSE current[j]
    BY <1>0, <1>7 DEF PlanTypeOK
  <2>2. PlanTypeOK' /\ WaitingPlanIsCurrent' /\ HeadsInRange' /\ SuccessorIsNext'
    BY <1>0, <1>2, <2>1
    DEF PlanTypeOK, WaitingPlanIsCurrent, HeadsInRange, SuccessorIsNext, planVars
  <2>3. ResultsReleased'
    BY <1>0, <1>4, <2>1, KindFacts DEF ResultsReleased
  <2>4. CurrentIsHead'
    BY <1>0, <1>4, <1>7, <2>1, KindFacts DEF CurrentIsHead
  <2>5. RevivedWasInvalidated'
    <3>1. \A j \in DomainKind : j # k => Rebuilt'[j] = Rebuilt[j] /\ current'[j] = current[j]
      BY <1>4, <2>1, KindFacts DEF Rebuilt
    <3>2. Rebuilt'[k] = v /\ current'[k] = v
      BY <1>0, <1>4, <1>7, <2>1 DEF Rebuilt
    <3> QED BY <1>0, <1>4, <3>1, <3>2 DEF RevivedWasInvalidated
  <2> QED BY <1>5, <2>2, <2>3, <2>4, <2>5
<1> QED BY <1>6, <1>7 DEF CommitDomainResult

\* The rebuild gives every kind the result of its current plan.
LEMMA RebuildStep ==
  ASSUME PlanInv, RebuildCurrentHeads
  PROVE  PlanInv'
<1> USE DEF PlanInv
<1>1. current' = Rebuilt /\ UNCHANGED <<run, planVars, review, results, client>>
  BY DEF RebuildCurrentHeads
<1>2. \A k \in PlanKind : Rebuilt[k] = IF head[k] \in results[k] THEN head[k] ELSE 0
  BY DEF Rebuilt
<1>3. Rebuilt \in [PlanKind -> Nat] /\ Rebuilt' = Rebuilt
  BY <1>1 DEF Rebuilt, planVars, PlanTypeOK
<1>4. PlanTypeOK' /\ WaitingPlanIsCurrent' /\ HeadsInRange' /\ SuccessorIsNext'
  BY <1>1, <1>3
  DEF PlanTypeOK, WaitingPlanIsCurrent, HeadsInRange, SuccessorIsNext, planVars
<1>5. ClientsKnowTheirPlan' /\ ResultsReleased'
  BY <1>1 DEF ClientsKnowTheirPlan, ResultsReleased, Released, planVars
<1>6. CurrentIsHead'
  BY <1>1, <1>2, KindFacts DEF CurrentIsHead, planVars
<1>7. RevivedWasInvalidated'
  BY <1>1, <1>3 DEF RevivedWasInvalidated
<1> QED BY <1>4, <1>5, <1>6, <1>7

\* Every domain plan that replaces another takes its own result along.
LEMMA InvalidatesItself ==
  ASSUME NEW k \in DomainKind
  PROVE  k \in InvalidatedResultKinds(k)
BY PlanAssumption DEF InvalidatedResultKinds, Attached

\* The next plan of a domain kind is promoted: no result exists for it yet, and
\* what loses its current result lies downstream of a replaced plan.
LEMMA PromoteKeepsResults ==
  ASSUME PlanInv, NEW k \in DomainKind, head[k] + 1 <= MaxVersion[k], Promote(k, head[k] + 1),
         results' = results
  PROVE  /\ head' \in [PlanKind -> Nat] /\ current' \in [PlanKind -> Nat]
         /\ \A j \in PlanKind : head'[j] = IF j = k THEN head[k] + 1 ELSE head[j]
         /\ HeadsInRange' /\ CurrentIsHead' /\ RevivedWasInvalidated'
<1> USE DEF PlanInv
<1>1. k \in PlanKind /\ head[k] \in Nat /\ head[k] + 1 \in Nat
  BY KindFacts DEF PlanTypeOK
<1>2. /\ head' \in [PlanKind -> Nat] /\ current' \in [PlanKind -> Nat]
      /\ \A j \in PlanKind : head'[j] = IF j = k THEN head[k] + 1 ELSE head[j]
      /\ \A j \in PlanKind : current'[j] =
           IF head[k] # 0 /\ j \in InvalidatedResultKinds(k) THEN 0 ELSE current[j]
  BY <1>1, PromoteType DEF Promote, PlanTypeOK
<1>3. HeadsInRange'
  BY <1>2 DEF HeadsInRange
<1>4. current'[k] = 0
  <2>1. head[k] = 0 => current[k] = 0
    BY DEF CurrentIsHead
  <2> QED BY <1>1, <1>2, <2>1, InvalidatesItself
<1>5. CurrentIsHead'
  <2> SUFFICES ASSUME NEW j \in DomainKind, current'[j] # 0
               PROVE  current'[j] = head'[j] /\ head'[j] \in results[j]
    BY DEF CurrentIsHead
  <2>1. j # k /\ current'[j] = current[j] /\ head'[j] = head[j]
    BY <1>2, <1>4, KindFacts
  <2> QED BY <2>1 DEF CurrentIsHead
<1>6. head[k] + 1 \notin results[k]
  BY <1>1 DEF ResultsReleased, Released
<1>7. \A j \in DomainKind : head'[j] >= head[j] /\ head[j] \in Nat
  BY <1>1, <1>2, KindFacts DEF PlanTypeOK
<1>8. RevivedWasInvalidated'
  <2> SUFFICES ASSUME NEW j \in DomainKind
               PROVE  current'[j] = 0 /\ Rebuilt'[j] # 0 =>
                        \E u \in DomainKind \ {j} :
                          j \in InvalidatedResultKinds(u) /\ head'[u] > 1
    BY DEF RevivedWasInvalidated
  <2>0. j \in PlanKind
    BY KindFacts
  <2>1. Rebuilt'[j] = IF head'[j] \in results[j] THEN head'[j] ELSE 0
    BY <2>0 DEF Rebuilt
  <2>2. CASE j = k
    BY <1>1, <1>2, <1>4, <1>6, <2>1, <2>2
  <2>3. CASE j # k
    <3>1. Rebuilt'[j] = Rebuilt[j]
      BY <1>2, <2>0, <2>1, <2>3 DEF Rebuilt
    <3>2. CASE head[k] # 0 /\ j \in InvalidatedResultKinds(k)
      <4>1. current'[j] = 0 /\ head'[k] > 1
        BY <1>1, <1>2, <2>0, <3>2
      <4> QED BY <2>3, <3>2, <4>1
    <3>3. CASE ~(head[k] # 0 /\ j \in InvalidatedResultKinds(k))
      <4>1. current'[j] = current[j]
        BY <1>2, <2>0, <3>3
      <4>2. current[j] = 0 /\ Rebuilt[j] # 0 =>
              \E u \in DomainKind \ {j} : j \in InvalidatedResultKinds(u) /\ head'[u] > 1
        <5> SUFFICES ASSUME current[j] = 0, Rebuilt[j] # 0
                     PROVE  \E u \in DomainKind \ {j} :
                              j \in InvalidatedResultKinds(u) /\ head'[u] > 1
          OBVIOUS
        <5>1. PICK u \in DomainKind \ {j} : j \in InvalidatedResultKinds(u) /\ head[u] > 1
          BY DEF RevivedWasInvalidated
        <5>2. head'[u] > 1
          BY <1>1, <1>2, <5>1, KindFacts DEF PlanTypeOK
        <5> QED BY <5>1, <5>2
      <4> QED BY <3>1, <4>1, <4>2 DEF RevivedWasInvalidated
    <3> QED BY <3>2, <3>3
  <2> QED BY <2>2, <2>3
<1> QED BY <1>2, <1>3, <1>5, <1>8

\* The next global plan has no result to invalidate.
LEMMA GlobalKeepsResults ==
  ASSUME PlanInv, head[Global] + 1 <= MaxVersion[Global],
         head' = [head EXCEPT ![Global] = head[Global] + 1], UNCHANGED resultVars
  PROVE  /\ head' \in [PlanKind -> Nat]
         /\ \A j \in PlanKind : head'[j] = IF j = Global THEN head[Global] + 1 ELSE head[j]
         /\ HeadsInRange' /\ CurrentIsHead' /\ RevivedWasInvalidated'
<1> USE DEF PlanInv
<1>1. Global \in PlanKind /\ head[Global] \in Nat /\ head[Global] + 1 \in Nat
  BY KindFacts DEF PlanTypeOK
<1>2. /\ head' \in [PlanKind -> Nat]
      /\ \A j \in PlanKind : head'[j] = IF j = Global THEN head[Global] + 1 ELSE head[j]
  BY <1>1 DEF PlanTypeOK
<1>3. HeadsInRange'
  BY <1>2 DEF HeadsInRange
<1>4. \A j \in DomainKind : head'[j] = head[j] /\ Rebuilt'[j] = Rebuilt[j]
  BY <1>2, KindFacts DEF Rebuilt, resultVars
<1>5. CurrentIsHead' /\ RevivedWasInvalidated'
  BY <1>4 DEF CurrentIsHead, RevivedWasInvalidated, resultVars
<1> QED BY <1>2, <1>3, <1>5

\* commit_plan and commit_domain_plan: the next plan of a kind becomes current.
LEMMA CommitStep ==
  ASSUME PlanInv, CommitPlan \/ \E k \in DomainKind : CommitDomainPlan(k)
  PROVE  PlanInv'
<1> USE DEF PlanInv
<1>1. ASSUME \A k \in PlanKind : head'[k] \in Nat /\ head[k] <= head'[k],
             UNCHANGED <<review, results, client>>
      PROVE  ClientsKnowTheirPlan' /\ ResultsReleased' /\ SuccessorIsNext'
  <2>1. ClientsKnowTheirPlan' /\ ResultsReleased'
    BY <1>1, ReleasedStays
  <2> QED BY <1>1, <2>1 DEF SuccessorIsNext
<1>2. CASE CommitPlan
  <2>0. Global \in PlanKind /\ head[Global] \in Nat /\ head[Global] + 1 \in Nat
    BY KindFacts DEF PlanTypeOK
  <2>1. /\ head[Global] + 1 <= MaxVersion[Global]
        /\ head' = [head EXCEPT ![Global] = head[Global] + 1]
        /\ NextRun("PLANNING", head[Global] + 1, NoReview)
        /\ UNCHANGED <<material, review, resultVars, client>>
    BY <1>2, <2>0, VersionIsNat DEF CommitPlan, AfterPlan
  <2>2. /\ head' \in [PlanKind -> Nat]
        /\ \A j \in PlanKind : head'[j] = IF j = Global THEN head[Global] + 1 ELSE head[j]
        /\ HeadsInRange' /\ CurrentIsHead' /\ RevivedWasInvalidated'
    BY <2>1, GlobalKeepsResults
  <2>3. /\ run' \in Run /\ run'.status = "PLANNING" /\ run'.plan = head[Global] + 1
        /\ run'.pending = NoReview
    BY <2>0, <2>1, NextRunType DEF PlanTypeOK, RunStatus
  <2>4. PlanTypeOK' /\ WaitingPlanIsCurrent'
    BY <2>0, <2>1, <2>2, <2>3 DEF PlanTypeOK, WaitingPlanIsCurrent, resultVars
  <2>5. \A k \in PlanKind : head'[k] \in Nat /\ head[k] <= head'[k]
    BY <2>0, <2>2 DEF PlanTypeOK
  <2> QED BY <1>1, <2>1, <2>2, <2>4, <2>5 DEF resultVars
<1>3. ASSUME NEW k \in DomainKind, CommitDomainPlan(k) PROVE PlanInv'
  <2>0. k \in PlanKind /\ head[k] \in Nat /\ head[k] + 1 \in Nat /\ k # Global
    BY KindFacts DEF PlanTypeOK
  <2>1. /\ head[k] + 1 <= MaxVersion[k]
        /\ Promote(k, head[k] + 1)
        /\ NextRun("PLANNING", run.plan, NoReview)
        /\ material' = [material EXCEPT ![k] = @ \cup {head[k] + 1}]
        /\ UNCHANGED <<review, results, client>>
    BY <1>3, <2>0, VersionIsNat DEF CommitDomainPlan
  <2>2. /\ head' \in [PlanKind -> Nat] /\ current' \in [PlanKind -> Nat]
        /\ \A j \in PlanKind : head'[j] = IF j = k THEN head[k] + 1 ELSE head[j]
        /\ HeadsInRange' /\ CurrentIsHead' /\ RevivedWasInvalidated'
    BY <2>1, PromoteKeepsResults
  <2>3. /\ run' \in Run /\ run'.status = "PLANNING" /\ run'.plan = run.plan
        /\ run'.pending = NoReview
    BY <2>1, NextRunType DEF PlanTypeOK, Run, RunStatus
  <2>4. material' \in [PlanKind -> SUBSET Nat]
    BY <2>0, <2>1 DEF PlanTypeOK
  <2>5. PlanTypeOK' /\ WaitingPlanIsCurrent'
    BY <2>0, <2>1, <2>2, <2>3, <2>4, KindFacts DEF PlanTypeOK, WaitingPlanIsCurrent
  <2>6. \A j \in PlanKind : head'[j] \in Nat /\ head[j] <= head'[j]
    BY <2>0, <2>2 DEF PlanTypeOK
  <2> QED BY <1>1, <2>1, <2>2, <2>5, <2>6
<1> QED BY <1>2, <1>3

\* The run waits for one review only.
LEMMA WaitsForOne ==
  ASSUME PlanInv, NEW k \in PlanKind, NEW v \in Version(k), WaitingOn(k, v)
  PROVE  v \in Nat /\ head[k] = v
<1>1. PICK j \in PlanKind : \E w \in Version(j) : run.pending = <<j, w>> /\ head[j] = w
  BY DEF PlanInv, WaitingPlanIsCurrent, WaitingOn
<1>2. PICK w \in Version(j) : run.pending = <<j, w>> /\ head[j] = w
  BY <1>1
<1>3. j = k /\ w = v
  BY <1>2 DEF WaitingOn
<1> QED BY <1>2, <1>3, VersionIsNat

\* Row r answers the review of plan v: a successor, if any, is the next
\* version, and the run waits on or fails.
Answer(k, v, r) ==
  /\ r.successor = review[k][v].successor \/ (r.successor = v + 1 /\ v + 1 \in Version(k))
  /\ \/ run' = run /\ r.state \in {"APPROVED", "DEFERRED", "REVISION_REQUESTED"}
     \/ NextRun("FAILED", run.plan, NoReview) /\ r.state = "REJECTED"

\* The review the run waits for is answered; plans, results and clients stay.
LEMMA AnswerStep ==
  ASSUME PlanInv, NEW k \in PlanKind, NEW v \in Version(k), NEW r \in Review,
         review[k][v].state = "PENDING_REVIEW", WaitingOn(k, v),
         review' = [review EXCEPT ![k][v] = r],
         Answer(k, v, r),
         material' \in [PlanKind -> SUBSET Nat],
         UNCHANGED <<head, resultVars, client>>
  PROVE  PlanInv'
<1> USE DEF PlanInv
<1>0. v \in Nat /\ head[k] = v
  BY WaitsForOne
<1>1. /\ DOMAIN review' = PlanKind
      /\ \A j \in PlanKind : review'[j] \in [Version(j) -> Review]
      /\ review'[k][v] = r
      /\ \A j \in PlanKind : \A w \in Version(j) : <<j, w>> # <<k, v>> =>
           review'[j][w] = review[j][w]
  <2>1. PlanTypeOK
    OBVIOUS
  <2>2. OnlyReviewChanges(k, v, r)
    BY <2>1, ReviewUpdate
  <2> QED BY <2>2 DEF OnlyReviewChanges
<1>2. \/ run' = run /\ r.state \in {"APPROVED", "DEFERRED", "REVISION_REQUESTED"}
      \/ /\ run' \in Run /\ run'.status = "FAILED" /\ run'.plan = run.plan
         /\ run'.pending = NoReview
  BY NextRunType DEF Answer, PlanTypeOK, Run, RunStatus
<1>3. PlanTypeOK'
  BY <1>1, <1>2 DEF PlanTypeOK, resultVars
<1>4. SuccessorIsNext'
  <2> SUFFICES ASSUME NEW j \in PlanKind, NEW w \in Version(j), review'[j][w].successor # 0
               PROVE  review'[j][w].successor = w + 1 /\ w + 1 \in Version(j)
    BY DEF SuccessorIsNext
  <2>1. CASE <<j, w>> = <<k, v>>
    <3>1. j = k /\ w = v
      BY <2>1
    <3> QED BY <1>1, <3>1 DEF SuccessorIsNext, Answer
  <2>2. CASE <<j, w>> # <<k, v>>
    BY <1>1, <2>2 DEF SuccessorIsNext
  <2> QED BY <2>1, <2>2
<1>5. HeadsInRange' /\ CurrentIsHead' /\ RevivedWasInvalidated'
  BY DEF HeadsInRange, CurrentIsHead, RevivedWasInvalidated, Rebuilt, resultVars
<1>6. WaitingPlanIsCurrent'
  <2>1. CASE run' = run /\ r.state \in {"APPROVED", "DEFERRED", "REVISION_REQUESTED"}
    <3>1. review'[k][v].successor \in {0, v + 1}
      BY <1>1, <1>4 DEF SuccessorIsNext
    <3>2. run'.pending = <<k, v>> /\ run'.status = "WAITING_REVIEW"
      BY <2>1 DEF WaitingOn
    <3>3. run'.plan = head'[Global]
      BY <2>1 DEF WaitingPlanIsCurrent
    <3> QED BY <1>0, <1>1, <2>1, <3>1, <3>2, <3>3 DEF WaitingPlanIsCurrent
  <2>2. CASE run'.status = "FAILED" /\ run'.plan = run.plan /\ run'.pending = NoReview
    BY <2>2 DEF WaitingPlanIsCurrent
  <2> QED BY <1>2, <2>1, <2>2
<1>7. ClientsKnowTheirPlan' /\ ResultsReleased'
  <2>1. \A j \in PlanKind : head'[j] \in Nat /\ head[j] <= head'[j]
    BY DEF PlanTypeOK
  <2>2. \A j \in PlanKind : \A w \in Version(j) :
          review[j][w].state = "RESUMED" => review'[j][w] = review[j][w]
    BY <1>1
  <2> QED BY <2>1, <2>2, ReleasedStays DEF resultVars
<1> QED BY <1>3, <1>4, <1>5, <1>6, <1>7

\* The user decides on the plan under review, or edits it.
LEMMA UserDecidesStep ==
  ASSUME PlanInv, UserDecides
  PROVE  PlanInv'
<1> USE DEF PlanInv
<1>1. ASSUME NEW k \in PlanKind, NEW v \in Version(k), NEW decision \in DOMAIN Decided,
             Decide(k, v, decision)
      PROVE  PlanInv'
  <2> DEFINE old == review[k][v]
             r == [old EXCEPT !.state = Decided[decision]]
  <2>1. /\ old \in Review /\ DOMAIN review = PlanKind /\ DOMAIN review[k] = Version(k)
    BY DEF PlanTypeOK
  <2>2. /\ decision = "REJECT" => Decided[decision] = "REJECTED"
        /\ decision # "REJECT" =>
             Decided[decision] \in {"APPROVED", "DEFERRED", "REVISION_REQUESTED"}
    BY DEF Decided
  <2>3. r \in Review /\ r.state = Decided[decision] /\ r.successor = old.successor
    BY <2>1, <2>2 DEF Review
  <2>4. review' = [review EXCEPT ![k][v] = r]
    BY <1>1, <2>1 DEF Decide
  <2>5. /\ old.state = "PENDING_REVIEW" /\ WaitingOn(k, v)
        /\ UNCHANGED <<head, material, resultVars, client>>
        /\ IF decision = "REJECT" THEN NextRun("FAILED", run.plan, NoReview) ELSE run' = run
    BY <1>1 DEF Decide, planVars
  <2>6. material' \in [PlanKind -> SUBSET Nat]
    BY <2>5 DEF PlanTypeOK
  <2> HIDE DEF r
  <2>7. Answer(k, v, r)
    BY <2>2, <2>3, <2>5 DEF Answer
  <2> QED BY <2>3, <2>4, <2>5, <2>6, <2>7, AnswerStep
<1>2. ASSUME NEW k \in PlanKind, NEW v \in Version(k), EditPlan(k, v) PROVE PlanInv'
  <2> DEFINE r == [state |-> "REVISION_REQUESTED", successor |-> v + 1, plan |-> v + 1]
  <2>0. v \in Nat
    BY VersionIsNat
  <2>1. r \in Review /\ r.state = "REVISION_REQUESTED" /\ r.successor = v + 1
    BY <2>0 DEF Review
  <2>2. /\ review' = [review EXCEPT ![k][v] = r]
        /\ review[k][v].state = "PENDING_REVIEW" /\ WaitingOn(k, v) /\ v + 1 \in Version(k)
        /\ UNCHANGED <<run, head, resultVars, client>>
    BY <1>2 DEF EditPlan
  <2>3. material' \in [PlanKind -> SUBSET Nat]
    BY <1>2, <2>0 DEF EditPlan, PlanTypeOK
  <2> HIDE DEF r
  <2>4. Answer(k, v, r)
    BY <2>1, <2>2 DEF Answer
  <2> QED BY <2>1, <2>2, <2>3, <2>4, AnswerStep
<1> QED BY <1>1, <1>2 DEF UserDecides

\* The user resumes a review: an edited plan is promoted first.
LEMMA UserResumesStep ==
  ASSUME PlanInv, UserResumes
  PROVE  PlanInv'
<1> USE DEF PlanInv
<1> SUFFICES ASSUME NEW k \in PlanKind, NEW v \in Version(k), Resume(k, v) PROVE PlanInv'
  BY DEF UserResumes
<1> DEFINE old == review[k][v]
           r == [old EXCEPT !.state = "RESUMED", !.successor = 0]
           s == old.successor
<1>2. /\ old \in Review /\ DOMAIN review = PlanKind /\ DOMAIN review[k] = Version(k)
      /\ head[k] \in Nat
  BY DEF PlanTypeOK
<1>3. r \in Review /\ r.state = "RESUMED" /\ r.successor = 0
  BY <1>2 DEF Review
<1>4. /\ review' = [review EXCEPT ![k][v] = r]
      /\ Resumable(k, v) /\ WaitingOn(k, v)
      /\ s # 0 => s = head[k] + 1
      /\ s = 0 => UNCHANGED <<head, current>>
      /\ s # 0 /\ k = Global => head' = [head EXCEPT ![k] = s] /\ UNCHANGED current
      /\ s # 0 /\ k # Global => Promote(k, s)
      /\ NextRun("PLANNING", IF k = Global /\ s # 0 THEN s ELSE run.plan, NoReview)
      /\ UNCHANGED <<material, results, client>>
  BY DEF Resume
<1>5. old.state # "RESUMED"
  BY <1>4 DEF Resumable
<1>6. s # 0 => s = head[k] + 1 /\ s <= MaxVersion[k] /\ s \in Nat
  <2>1. s # 0 => s = v + 1 /\ v + 1 \in Version(k)
    BY DEF SuccessorIsNext
  <2> QED BY <1>4, <2>1, VersionIsNat
<1> HIDE DEF r, s
<1>7. /\ DOMAIN review' = PlanKind
      /\ \A j \in PlanKind : review'[j] \in [Version(j) -> Review]
      /\ review'[k][v] = r
      /\ \A j \in PlanKind : \A w \in Version(j) : <<j, w>> # <<k, v>> =>
           review'[j][w] = review[j][w]
  <2>1. PlanTypeOK /\ r \in Review
    BY <1>3
  <2>2. review' = [review EXCEPT ![k][v] = r]
    BY <1>4
  <2>3. OnlyReviewChanges(k, v, r)
    BY <2>1, <2>2, ReviewUpdate
  <2> QED BY <2>3 DEF OnlyReviewChanges
<1>8. /\ head' \in [PlanKind -> Nat] /\ current' \in [PlanKind -> Nat]
      /\ \A j \in PlanKind : head'[j] = IF j = k /\ s # 0 THEN s ELSE head[j]
      /\ HeadsInRange' /\ CurrentIsHead' /\ RevivedWasInvalidated'
  <2>1. CASE s = 0
    <3>1. UNCHANGED <<head, current, results>>
      BY <1>4, <2>1
    <3> QED BY <2>1, <3>1
            DEF PlanTypeOK, HeadsInRange, CurrentIsHead, RevivedWasInvalidated, Rebuilt
  <2>2. CASE s # 0 /\ k = Global
    BY <1>4, <1>6, <2>2, GlobalKeepsResults DEF resultVars, PlanTypeOK
  <2>3. CASE s # 0 /\ k # Global
    <3>1. k \in DomainKind
      BY <2>3 DEF PlanKind
    <3> QED BY <1>4, <1>6, <2>3, <3>1, PromoteKeepsResults
  <2> QED BY <2>1, <2>2, <2>3
<1>9. /\ run' \in Run /\ run'.status = "PLANNING" /\ run'.pending = NoReview
      /\ run'.plan = IF k = Global /\ s # 0 THEN s ELSE run.plan
  <2>1. (IF k = Global /\ s # 0 THEN s ELSE run.plan) \in Nat
    BY <1>6 DEF PlanTypeOK, Run
  <2> QED BY <1>4, <2>1, NextRunType DEF PlanTypeOK, RunStatus
<1>10. PlanTypeOK'
  BY <1>4, <1>7, <1>8, <1>9 DEF PlanTypeOK
<1>11. WaitingPlanIsCurrent'
  BY <1>8, <1>9, KindFacts DEF WaitingPlanIsCurrent
<1>12. SuccessorIsNext'
  BY <1>3, <1>7 DEF SuccessorIsNext
<1>13. ClientsKnowTheirPlan' /\ ResultsReleased'
  <2>1. \A j \in PlanKind : head'[j] \in Nat /\ head[j] <= head'[j]
    BY <1>6, <1>8 DEF PlanTypeOK
  <2>2. \A j \in PlanKind : \A w \in Version(j) :
          review[j][w].state = "RESUMED" => review'[j][w] = review[j][w]
    BY <1>5, <1>7
  <2> QED BY <1>4, <2>1, <2>2, ReleasedStays
<1> QED BY <1>8, <1>10, <1>11, <1>12, <1>13

\* A new run has no plan, no review and no result.
LEMMA PlanInit == Init => PlanInv
<1> SUFFICES ASSUME Init PROVE PlanInv
  OBVIOUS
<1>1. PlanTypeOK
  BY KindFacts
  DEF Init, PlanTypeOK, Run, RunStatus, Review, Unopened, Client, Idle, NoReview
<1>2. HeadsInRange
  BY PlanAssumption DEF Init, HeadsInRange
<1>3. SuccessorIsNext
  BY DEF Init, SuccessorIsNext, Unopened
<1>4. WaitingPlanIsCurrent
  BY KindFacts DEF Init, WaitingPlanIsCurrent
<1>5. ClientsKnowTheirPlan
  BY DEF Init, ClientsKnowTheirPlan, Idle
<1>6. ResultsReleased /\ CurrentIsHead /\ RevivedWasInvalidated
  BY KindFacts DEF Init, ResultsReleased, CurrentIsHead, RevivedWasInvalidated, Rebuilt
<1> QED BY <1>1, <1>2, <1>3, <1>4, <1>5, <1>6 DEF PlanInv

\* Every operation preserves the inductive invariant.
LEMMA PlanStep == PlanInv /\ [Next]_vars => PlanInv'
<1> SUFFICES ASSUME PlanInv, [Next]_vars PROVE PlanInv'
  OBVIOUS
<1>1. CASE UNCHANGED vars
  <2>1. UNCHANGED <<run, head, material, review, results, current, client>>
    BY <1>1 DEF vars, planVars, resultVars
  <2>2. Rebuilt' = Rebuilt
    BY <2>1 DEF Rebuilt
  <2> QED BY <2>1, <2>2
          DEF PlanInv, PlanTypeOK, HeadsInRange, SuccessorIsNext, WaitingPlanIsCurrent,
              ClientsKnowTheirPlan, ResultsReleased, Released, CurrentIsHead, RevivedWasInvalidated
<1> QED
  BY <1>1, QuietRunStep, ClientStep, OpenStep, ResultStep, RebuildStep, CommitStep,
     UserDecidesStep, UserResumesStep
  DEF Next

\* Whatever edits, plans and reviews come between a runtime's check and its
\* commit, the plan of every domain result was promoted and is the plan a
\* resumed review ended with.
THEOREM ExecutionSafety == Spec => []ExecutedPlanWasResumed
<1>1. PlanInv => ExecutedPlanWasResumed
  BY DEF PlanInv, ResultsReleased, Released, ExecutedPlanWasResumed
<1> QED BY <1>1, PlanInit, PlanStep, PTL DEF Spec

\* The user never decides on, and resume never releases, a superseded plan.
THEOREM ReviewSafety == Spec => []WaitingPlanIsCurrent
<1>1. PlanInv => WaitingPlanIsCurrent
  BY DEF PlanInv
<1> QED BY <1>1, PlanInit, PlanStep, PTL DEF Spec

\* Rebuilding the current results from the rows loses and replaces none.  It
\* does bring invalidated ones back (InvalidatedStaysStale does not hold), but
\* no others.
THEOREM RebuildSafety == Spec => [](CurrentResultsSurviveRebuild /\ RevivedWasInvalidated)
<1>1. PlanInv => CurrentResultsSurviveRebuild /\ RevivedWasInvalidated
  BY KindFacts DEF PlanInv, CurrentIsHead, CurrentResultsSurviveRebuild, Rebuilt
<1> QED BY <1>1, PlanInit, PlanStep, PTL DEF Spec

\* The three dead ends that Stuck names are all there are: in any other state
\* that waits for a review the run and the plan under review are what the
\* user's decision or resume checks them to be.
THEOREM AnswerSafety == Spec => []WaitingIsAnswerable
<1>1. PlanInv => WaitingIsAnswerable
  <2> SUFFICES ASSUME PlanInv, run.status = "WAITING_REVIEW", ~Stuck,
                      NEW k, NEW v, k = run.pending[1], v = run.pending[2]
               PROVE  /\ WaitingOn(k, v)
                      /\ review[k][v].state # "PENDING_REVIEW" =>
                           Resumable(k, v) /\ review[k][v].successor \in {0, head[k] + 1}
    BY DEF WaitingIsAnswerable
  <2>1. /\ k \in PlanKind /\ v \in Version(k) /\ run.pending = <<k, v>> /\ head[k] = v
        /\ review[k][v].state \in {"PENDING_REVIEW", "APPROVED", "REVISION_REQUESTED", "DEFERRED"}
        /\ review[k][v].successor \in {0, v + 1}
    BY DEF PlanInv, WaitingPlanIsCurrent
  <2> QED BY <2>1 DEF Stuck, WaitingOn, Resumable
<1> QED BY <1>1, PlanInit, PlanStep, PTL DEF Spec

=============================================================================
