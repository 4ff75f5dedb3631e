# Eval Factory: the control planes in TLA+

Eval Factory turns agent traces into evaluation datasets. Workers that know
nothing of each other take stages of a job's work graph, run them, and report
results. All coordination goes through one SQLite file. This project models
that coordination: who may run what and when, what happens when a worker is
late, dies or is cancelled, and how shared capacity, model rate limits and
budgets are kept while it happens. Around it stand two more control planes with
stores of their own, modelled too: the harness sessions, in which a user talks
to a requirement agent, and the agent system, which plans a dataset, has its
plans reviewed and executes them under supervision.

Paths below are relative to `src/src/eval_factory/` unless they start with `src/`.

## 1. Inventory

### Components that are modelled

| component | code | state | operations |
|---|---|---|---|
| work control store | `orchestration/job_store.py`, `control.py` | jobs, items, leases, lease heads and events, fences, controlled stage runs, retry decisions, readiness snapshots, cancellations | transition job and item, record readiness, acquire, heartbeat, complete stage or artifact group, expire, cancel job |
| readiness evaluation | `orchestration/fanout.py` | none | classify a unit from evidence about its dependencies |
| resource control | `orchestration/resources.py`, `contracts/resource_v2.py` | reservations and their events, admission decisions, pool heads, job heads | acquire, complete, expire, cancel, record termination |
| model control | `orchestration/model_control.py`, `contracts/model_control_v2.py` | reservations, admission decisions, token bucket per pool, event log, job heads | acquire, complete, complete with backpressure, complete with overrun, expire, cancel, record cancellation |
| combined control | `orchestration/model_control.py` (`*_combined`) | both of the above | the same over one lease and two reservations |
| harness session | `harness/session_store.py`, `session_service.py`, `requirement_agent.py`; `ai_gateway/invocation.py`, `receipts.py` | session row, event log, commands, gateway journal, turns, read model; route and invocation records; where each caller is | create, post message, reconcile, close, claim, append team and runtime events; a caller's steps between the stores |
| execution supervisor | `agent_system/supervisor.py`, `workspace.py`, `criteria_subgraph.py` | leases, events, heads, retries, results, idempotency rows; workspace directories and terminal receipts; what each runner does | acquire, heartbeat, complete, expire, request and acknowledge cancel, dispatch; open, commit, quarantine, recover |
| plans and reviews | `agent_system/store.py`, `plan_review.py`, `dataset_runtime.py`, `criteria_item_runtime.py` | run snapshots, plan heads and materials, reviews, domain results and their heads | commit plan, domain plan, assessment and result; begin item planning; open, decide, edit, resume; rebuild heads |

How they interact. Every public operation of the store is one
`BEGIN IMMEDIATE` transaction. A job without policies calls the store. A job
bound to a resource policy or to a model policy may change a lease only through
the service of that policy, which does the lease operation and its own writes in
the same transaction; the store refuses the call otherwise
(`job_store.py:6214`). A job bound to both must use the combined operations.
Readiness is computed by a driver outside any transaction and recorded
afterwards. Workers and model providers are outside: the store learns that
they stopped only from a termination or cancellation result.

What is hard: callers are concurrent and unsynchronised, so every order of
operations happens; readiness is stale when it is used; an expired worker goes
on working; its late result, its heartbeat and its expiry race; cancellation
races all of them; heads are materialised sums that the code compares with the
immutable rows on every read, so one drift blocks the lease, the job or the
whole pool; refill, refund and debt meet at the cap of the bucket.

The harness session has three stores (session, route and invocation records)
that share no transaction, with an awaited provider call between them; callers
repeat messages and are lost anywhere. The supervisor keeps rows in SQLite and
workspaces in the file system, and its runners touch the files without its
lock. A plan's release is checked before agents are awaited for a long time and
its result is committed after, while users edit, reject and defer.

What makes each component correct:

* work control: one attempt of a unit at a time, fences grow, no late result
  counts, retries are spaced and never stranded, closed attempts never change,
  cancellation is complete, dependencies are met at dispatch;
* resource control: reservations follow leases, heads equal the sum of the
  reservations, pool, concurrency and budget limits hold, and hold for the
  processes that really run;
* model control: the same, plus the rate: credits are neither created nor lost,
  backpressure is honoured, the wait a caller is told is exact;
* combined control: lease and both reservations live and die together;
* harness session: a message is answered once, by what the gateway recorded, with
  at most one provider call, and is answered in the end; the read model is what a
  rebuild gives; team and runtime events enter the log once and in order, its
  versions never go back;
* supervisor: the result that counts comes from the last attempt and a live
  lease; rows and files agree on every attempt that ended; accepted heartbeats
  are honoured; every lease ends;
* plans: nothing is executed that was not released; a waiting run waits for its
  current plan; every review ends; an invalidated result stays stale, and
  rebuilding the heads changes nothing else.

### Components that are not modelled

`PROJECT.json` lists all of them with a reason. With control state of their own,
and the first to add when the project grows: team runtime (ownership leases,
messages, rework, checkpoints), stage object store, stage runner and canary
driver, approval, dataset publication, memory, environment mock agent. Parts of
modelled components that are left out: item bindings, item stages, aggregates
and planning authority of `agent_system/store.py`; fan-out compilation of the
work store. They were
left for later because the parts above carry the state that most
actors share. Pure computation,
parsing or I/O, with nothing for a model checker to find: observability,
readiness reports, statistics, provenance, trace recovery, task authoring,
labeling, batch quality, packs and contracts beyond the ones above, console
API, CLI, node bridge.

## 2. Modules

```
WorkControl ──────────┬── ResourceControl ──┬── CombinedControl
                      └── ModelControl ─────┘

WorkControlProofs ────┬── ResourceControlProofs ──┬── CombinedControlProofs
SumTheorems ──────────┴── ModelControlProofs ─────┘
MCWork   MCResource, MCModel   MCCombined

TurnLedger ◄── implemented by ── HarnessSession ── HarnessSessionProofs, MCHarness
AgentSupervisor ── AgentSupervisorProofs, MCSupervisor
AttemptLease ◄── implemented by ── WorkControl and AgentSupervisor
PlanControl ── PlanControlProofs, MCPlans
```

**WorkControl.** A row of a table is an entry of a function: `lease[u][a]` is
the lease of attempt `a` of unit `u` with its head, `events[u][a]` its event
log, `stage[u][a]` the status of its stage run, `retry[u][a]` the retry decision
made when it was closed. One action is one operation of the store; its guard is
the conjunction of the code's checks, and a call the code rejects is not enabled
because its transaction rolls back. `ObservableEvidence(d)` is what the
immutable rows let a recorder claim about a dependency; work still waiting may
always be claimed, because the evaluator may have looked earlier. Hashes,
identities, audits, row versions beyond the lease version, idempotency rows and
the outbox are left out: they guard against malformed or repeated calls, which
change no state.

**ResourceControl** extends WorkControl. `AdmitWork`, `CompleteStage`,
`CompleteArtifactGroup`, `Expire` and `CancelJob` conjoin the store's action
with the service's writes. Vectors are functions on `Resource`; the model keeps
processes and storage apart because only they have rules of their own.
`executing` is external: the execution of an attempt uses its processes until it
ends by itself, completes, or its termination is confirmed.

**ModelControl** extends WorkControl. Credits are integers as in the code: one
unit costs `CreditsPerUnit` credits and `RefillRate` credits arrive per tick, so
fractions of a unit exist. `Replay` is one step of `_rebuild_pool_head`.
`invoking` is external in the same way as `executing`.

**CombinedControl** extends both. `acquire_combined` reads the clock for its
decision and again when it stores the model reservation, so it is two actions,
`DecideCombined` and `CommitCombined`, with the clock and the outside world able
to move in between and `RollBack` for a process that stops. All other
transactions wait meanwhile.

**HarnessSession.** A caller is a small program counter: each store call and the
provider call is a step, and `Crash` loses the caller between any two. Messages
are model values; what is kept of a request is its *audit*, the creation instant
its caller stamped on it, because identities leave the audit out while
`commit_route` and the journal compare whole objects: this is where a retry
differs from a repetition. `AppendRuntimeEvent` and `AppendTeamEvent` are the two
other writers of the log. **TurnLedger** is the abstract promise, four steps per
message: opened, provider called, answer recorded, settled with that answer or
as unknown. `Ledger` in HarnessSession is the refinement mapping.

**AgentSupervisor.** `lease`, `events`, `head`, `eligible`, `result` and `idem`
are tables; `dir`, `moved` and `terminal` the workspace of an attempt. Supervisor
operations hold the database lock, file operations do not, so an expiry or a
cancellation is several steps (`Expire` or `AcknowledgeCancel`, `MoveWorkspace`,
`SealQuarantine`, `DecideExpiry` or `DecideCancel`) with `txn` as the lock, and a
crash among them undoes the rows and leaves the files. The clock reading that
`acquire` and `complete` take before they wait for the lock is a parameter or
part of the runner's state. Attempt and fencing token come from the same rows
and are one number.

**PlanControl.** A plan is its kind and version, a review the plan it was opened
for. Operations that compare the whole run with what their caller read are
single actions; what is read before an await (`AskReview`, `BeginExecution`) and
used after it (`OpenReview`, `CommitDomainResult`) is kept in `client`. Of a run
snapshot's version only its distance from the pending review's is kept (`since`):
that is all `_validate_waiting_run` looks at. The dataset run and the item runs
use the same tables and operations, so one run stands for both.

**AttemptLease** is what the two lease stores of the code base promise, although
they share no code: an attempt stays with its worker until the time last promised
to it, unless it is withdrawn for good; no outcome counts after that time; a renewal
never shortens the promise; the next attempt follows a failed or an expired one after
a delay, counted from the time that one ended at. WorkControl maps its state column to
it (`LeaseMeaning`), the time promised being `expires`. The supervisor has no such
column: `LogMeaning` reads the state off the event log of an attempt, and the promise
is the effective expiry, the latest that any event gives. That time is read before
a wait for a lock and used after it is why `Assign`, `Report` and `Expire` take the
time they go by as a parameter. `Promises` in each module is the instance and
`KeepsAttemptLease` the property. `OneAttemptInFlight`, `RetrySpacing`, `NoLateResult` and
the supervisor's `PromisesKept` say of the rows what the refinement says of the promise;
they are proved (section 4), and the runs check the refinement in their place.

The comparison of a materialised head with its rebuilt value, made by the code
on every read, is an invariant here (`HeadMatchesEvents`,
`HeadsMatchReservations`, `PoolHeadMatchesEvents`) and not a guard: as a guard it
would hide exactly the drift it looks for.

## 3. Runs

| run | what it asks | bounds |
|---|---|---|
| `work_lifecycle` | the life of a lease: results, retries, cancellation, and that the table implements `AttemptLease`; are dependencies met at dispatch although readiness is stale | a stage, its successor in the item and a job-scoped group joining on any outcome; 2 holders (symmetric), 2 attempts, 4 ticks, lease of 1 extended by 2, delay 1, 1 heartbeat |
| `resource_lifecycle` | a stage with a process and a group without one: heads, limits, storage, reservations | 2 units, 3 resources, request budget for one, 1 heartbeat, 1 tick, every usage up to the allowance |
| `model_lifecycle` | units on one bucket, slots and budget: head and replay, rate, waiting hints, invocations, backpressure | a stage and a group that takes both slots, lease of 2, 3 ticks, 2/3 unit per tick, overrun 1, backpressure 1 or 2; or two stages in flight, answered in either order, and the group |
| `combined_lifecycle` | both services on one lease, and the processes that really run | 2 units, 1 tick, crash before commit |
| `combined_clock` | **violation**, finding 1 | as `combined_lifecycle` |
| `harness_lifecycle` | a message answered once, in the end, as the ledger says, and no answer thrown away; each runtime event in the log once and in its place | 1 message, 1 chunk; 2 callers with 2 audits each, 1 crash, 1 close, 1 claim; or 1 caller, a stream of 2 under 3 delivery keys and a team ahead of the session |
| `harness_restart` | **violation**, finding 2 | 2 callers, no close |
| `harness_authority` | **violation**, finding 4 | 1 message, 1 caller, 1 team event |
| `supervisor_lifecycle` | two runners of one task: rows against files, heartbeats, retries, the end of leases, no deadlock but the known ones, and that the logs implement `AttemptLease` | 2 attempts, 2 acquire keys, 4 ticks, lease of 1 extended by 2, delay 1, 1 heartbeat, 1 cancellation, 1 crash anywhere |
| `supervisor_commit` | **violation**, finding 3 | 1 runner, 1 attempt, no crash |
| `plan_reviews` | a review being asked for, an execution in flight and a user, on a run with a global, an upstream and a downstream plan; no dead end but the known ones, no current result lost in a rebuild | 2 versions of the global and the upstream plan, 1 of the downstream, 1 assessment while a review is pending |
| `plan_rebuild` | **violation**, finding 5 | as `plan_reviews` |

The bounds are the smallest at which every action and every property's case
happens. Two attempts make a predecessor and a retry; four ticks let a lease be
prolonged, expire, and its retry wait out its delay and expire too; a budget for
less than all makes units compete; two thirds of a unit per tick makes rounding
visible; a lease of two ticks lets refill and a refund meet at the cap.
`model_lifecycle` has one dimension, in which fraction, debt and rounding all
occur; that a wait is exact over several dimensions is what the theorem
`WaitHintSafety` adds. Two callers with two audits each make both a concurrent
repetition and a retry with another clock; one message is enough because rows of different messages meet only
in the log, where a stream and a team are the other writers. One crash is
enough for every half-done quarantine and two runners for a successor beside a
zombie. Two versions make an edit, a replacement and an abandoned edit, and the
downstream plan keeps one because only its result has to be invalidated.

Three runs have two scenarios each and explore the states of the one or the other
(`Scenario`, a state constraint). All together would be too many; what one scenario leaves
out is the subject of the other, or does not bear on its question.

* `work_lifecycle`: `LeaseAlone` is the first unit with both attempts and all times,
  `OneJoin` the same unit, its first delay included, with one of the two units that depend
  on it. These two are independent of each other: readiness and dispatch of a unit look
  at its own dependencies only. The item's status matters by being terminal or not.
* `model_lifecycle`: `OneStageAlone` is a stage and the group, whatever happens to them.
  `AnswersInAnyOrder` has two stages in flight whose answers ask to wait, the later for
  the longer or the shorter time, and the group that asks for its admission after the
  shorter and before the longer wait. Ends that are not answers (expiry,
  cancellation, an overrun) are left to the first.
* `harness_lifecycle`: `TurnsAlone` has two callers, a crash, a close and a claim,
  `WritersBesideOneCaller` one caller and the two other writers of the log. The liveness
  property is a question of the first: no fair step leads out of it. In the second the
  other caller's repetition, which is fair, is cut off, so there only safety is checked.

A constraint can hide a violation but not invent one. The invariants, action properties and
refinements of these runs are theorems too, which hold without it.

Named bounds that do not exist in the code: `MaxTime`, `MaxHeartbeats`,
`MaxSnapshots`, `MaxOverrun`, `MaxBackpressure`, `CrashLimit`, `CancelLimit`,
`StreamLimit`, `MaxVersion`, `MaxSince`.

`CHECK_DEADLOCK FALSE` everywhere: the clock stops at `MaxTime`, and a job whose
work is closed, a session that is closed, a task that ended and a run at its last
plan have nothing left to do.

Fairness, where a liveness property needs it:

* HarnessSession: the event loop goes on with every coroutine that is not lost
  (`WF` of `CallerStep`), and a client repeats its message until it has an answer
  (`SF` of `ResumeTurn`, since other callers' steps disable and enable it again).
  Close, claim, reconcile and crashes are not fair.
* AgentSupervisor: time passes and somebody keeps calling `expire` and
  `acknowledge_cancel`. Nothing under `src/` calls them, so this is a demand on
  the deployment; runners, heartbeats and retries get no fairness.
  `LeasesEndOrWedge` says that under this demand nothing but three named
  deadlocks keeps a lease open.
* PlanControl: the user decides what is pending and resumes what is resumable.

The work, resource and model specifications assume no fairness and claim no
liveness: drivers are free to stop and nothing calls `expire` on a schedule.

`LeasesEndOrWedge` and `WaitingEndsOrStuck` name their exceptions (`Wedged`,
`Stuck`) instead of excluding them by an assumption: each exception is a state the
code can reach and cannot leave by the operation that should. `UnwedgedIsSettleable`
and `WaitingIsAnswerable` say that the lists are complete: in every other open state the
next call of expiry, cancellation, decision or resume is accepted, whatever a crash or
another client left behind. These two are also theorems.

Every property of every passing run has a mutant: a variant of one definition,
as a plausible slip of the code would have it (no expiry check, a reused fence,
the reserved budget forgotten, a refund over the cap), which TLC must find to
violate it. The variants stand before the definitions they replace, marked
"Faulty variant".

### Finding 1: the second clock reading of a combined admission

`acquire_combined` passes `now=self.job_store._clock()` (`model_control.py:911`)
to the function that stores the model reservation, while the pool head it passes
was refilled at an earlier reading. The stored head has the credits of the first
reading and the time of the second. The replay of the events refills up to the
second. Unless the bucket was full, the two differ from then on, and every read
of the pool's head raises "model rate pool head differs from immutable events"
(`model_control.py:3915`), for every job on the pool. The tests use a frozen
clock and do not meet it. `RateConserved` still holds in this model (the lost
refill makes the pool poorer, never richer); `model_lifecycle` checks it for the
single services, which pass one reading to both places.

### Finding 2: a retried message after a crash behind the route

`commit_route` (`ai_gateway/receipts.py:112`) compares whole requests, audit
included. A caller lost after it and before `record_prepared_journal` leaves a
route that agrees with no later attempt, and no journal that `reconcile` could
use: the message is never answered, although the specification promises restarts
at every commit boundary. `PreparedTurnEnds`, which holds, says that this window
is the only one.

### Finding 3: a workspace committed for a result that came too late

A runner commits its workspace and then calls `complete`. If the lease expires in
between, `complete` is refused, and `expire` finds the `COMMITTED` receipt, raises
(`agent_system/workspace.py:210`) and rolls back. The head stays `ACTIVE` for ever:
no expiry, no retry, no new lease.

### Finding 4: the authority version of a session's log

A team event takes the largest of the session's version, the team's and the version of the
event before it (`harness/session_store.py:1524`). Every other event takes the
version of the session alone (`:409`, `:621`, `:784`, `:820`, `:857`, `:1327`) and does not
look at the event before. After a team that is ahead of the session the log goes back.
`validate_session_event_log` raises "session authority version cannot move
backward" for such a log (`harness/session_models.py:377`); only tests call it, and
`src/specs/003-evaluation-agent-harness/spec.md:76` wants authority versions to be
monotonic. What does hold is `TeamEventsNotBehind`, which is proved.

### Finding 5: a rebuild brings invalidated results back

When a plan replaces an older one, the heads of the results downstream of it are deleted
(`agent_system/store.py:3520`), and nothing else says that they are stale.
`rebuild_current_heads` inserts a head for every result whose own plan is current
(`:3074`), so a result computed from the replaced upstream plan is current again.
FR-044 (`src/specs/002-eval-dataset-factory/spec.md:358`) says that results become stale
when the objects they bind to change, ADR 0012 (`:54`) that an edit invalidates the affected
downstream work. What does hold: a rebuild loses and replaces no current result
(`CurrentResultsSurviveRebuild`), and brings back only what a plan upstream
invalidated (`RevivedWasInvalidated`). No run shows the neighbouring case, because
the model does not keep what a result was computed from: `commit_domain_result` compares
a result with the current plan of its own kind only (`:1530`), so a downstream result
computed before a plan upstream was replaced is accepted after it.

### Observations without a run

Met while modelling, and recorded here and, where a property touches them, under
`hazards`. The first contradicts what the repository says of closed sessions; of the others
no line was found that clearly says otherwise.

* A closed session is opened by its last turn: `complete_turn` compares the journal
  but not the session's status, and writes ACTIVE or BLOCKED
  (`harness/session_store.py:951`). A session closed while the provider was awaited is
  listed again, and repeating the accepted close, which should answer with the closed
  session (`src/tests/eval_factory/unit/test_harness_session_store.py:271`), raises "closed
  session replay is not closed" (`:383`). HR-049
  (`src/specs/003-evaluation-agent-harness/spec.md:355`) says that removal is idempotent and
  that closed sessions are not listed. The step is in the model and every
  property of `harness_lifecycle` is checked across it; no property asks for the status, and
  `PolicyFromReadyTurn` says nothing of a session while it is closed.
* A readiness snapshot's identity leaves its audit out, so a stale WAITING
  recorded after READY cannot be superseded by the same READY, and the unit stays
  undispatchable until its evidence changes (`orchestration/job_store.py:2205`);
  SKIPPED_ITEM can be recorded only when exactly one direct dependency belongs to
  the skipped item (`:5800`); `transition_job` may end a job with active leases,
  which `cancel_job_work` then refuses to close (`:3729`).
* BUDGET_EXHAUSTED is final for an attempt although reserved budget may come back
  (`orchestration/resources.py:1381`); a termination that fails quarantines its
  capacity for good (`:1052`); a clock that steps back makes model control refuse
  work until it has caught up (`orchestration/model_control.py:4415`). The model's
  clocks are monotonic.
* Two further deadlocks of the supervisor need a crash: the directory was moved and
  its receipt not written, and an expiry that crashed behind its receipt is
  overtaken by a cancellation. A crash inside `open` leaves a directory without
  its marker that `acquire` refuses for ever.
* The runner acquires under a fixed idempotency key, so after a scheduled retry it
  is handed the old lease (`agent_system/criteria_subgraph.py:252`), and `acquire`
  leaves dependencies to `dispatch_ready`.
* A planner assessment stored while a review is pending makes the review
  unanswerable; DEFER and a REQUEST_MORE without successor have no way on. Only
  `commit_plan`, which has no status guard, takes the run out, and the successor
  an edit stored can then never be committed again.
* Two reviews may end with the same plan, and `require_resumed_review`, which wants
  exactly one, then refuses it for ever.

## 4. Proofs

TLAPS checks every leaf. All theorems hold for every set of jobs, units, items,
holders and attempts, every work graph, policy, pool and rate, and for histories
of any length; the bounds of section 3 are constants like any other to them. Each
invariant, action property and refinement that a run checks and that holds is also a
theorem; what is left to TLC is liveness.

### Assumptions

The ASSUMEs of the modules are what the contract classes and the schema validate:
`PolicyAssumption`, `GraphAssumption`, `BoundAssumption`, `PoolAssumption`,
`DemandAssumption`, `RateAssumption`, `ModelPolicyAssumption` and their
counterparts in the other modules. Three of them deserve a word.

* Jobs, units, resources and dimensions are finite sets where sums are taken over
  them: a database has finitely many rows.
* `AuditAssumption` (HarnessSession): two callers never stamp the same audit. The
  code stamps `datetime.now(UTC)` per call (`console_api/agent_service.py:377`);
  two callers with the same microsecond and the same message would write the same
  journal, each would take the other's for its own, and both would call the
  provider. The proof of `OneCaller` shows that this assumption is what at-most-once
  rests on.
* The clock never steps back. It is not an assumption but the shape of `Tick`; what
  the code does under a clock that does is listed under the observations.

### The arguments

**WorkControl** (`WorkControlProofs`). None of the lease properties is inductive
alone: that a retry waits its delay needs the retry decision to carry the time of
the close, that needs closed attempts to be frozen and later attempts not to exist
yet, and growing fences need the fence row to be ahead of all of them. `LeaseInv`
states all of it about the row of one unit. Each action changes the rows of at most
one unit, except cancellation, which does to each row what closing does to one; so
the proof shows once that a step changes a unit's row in one of a few ways
(`UnitStep`), and that each way keeps the invariant. `FenceSafety`,
`RetrySpacingSafety`, `RetryDispatchSafety`, `LeaseStageSafety` and
`LateResultSafety` read off one property each. `CancellationSafety` follows because
a result that appears after the cancellation would need an active lease.
`DependencySafety` adds `ReadyIsMet`: a unit whose newest snapshot is READY has its
dependencies met *now*, not only when the evidence was collected. It is inductive
because the facts evidence rests on (a succeeded stage, a closed attempt, a terminal
item) never change back: this is the argument that stale readiness is harmless.
`LeaseLogSafety` says that the fold over a lease's log gives its head, one
append at a time. `WorkKeepsAttemptLease` is the refinement of `AttemptLease`: `LeaseInv`
supplies what its steps ask for, above all that the decision behind a retry carries the
time the predecessor ended at and that later attempts do not exist yet.

**ResourceControl** (`ResourceControlProofs`). `ResourceImplementsWork` is
`ResourceSpec => Spec`: every step of the service is a step of the store or leaves
the store's tables alone, so every theorem about the store carries over.
`ReservationFollowsLease` is inductive with the types of the rows; that no head
becomes negative (`ResourceTypeSafety`) is not, and is read off the accounts by
`HeadsNatural`. The accounts are `AccountInv`:
per resource, the four heads of a pool and of its jobs are sums over the rows
(`HeadsAt`), each row accounts for itself (`RowsAccounted`: what it released, was
charged and still runs, by its state), and pools, concurrency and budgets are
respected. One row changes per operation, so each sum moves by the difference of that
row's entry; cancellation and expiry change a set of rows, and the sum over the set is
split off and moved as one. `OvercommitSafety` compares two sums entry by entry: a
process that runs belongs to a row that still holds its capacity.

**ModelControl** (`ModelControlProofs`). `ModelImplementsWork` as above. `ModelInv`
joins `ModelFollowsLease` with `PoolInv`: the bucket's concurrency is the sum of the
slots of rows that are ACTIVE, pending acknowledgement or quarantined, and an open
invocation has such a row (`SlotsInv`, hence `InvocationsBounded`); `RateConserved`,
where refill, cap, refund and overrun move credits and charges together;
`ModelBudgetHeld`, by the sum of overruns; and `LogInv`, for which the strengthening
is that the bucket remembers the latest of the times that any event of the log asked
to wait for, hence `BackpressureHonoured`. All lemmas are about the operations on the
tables, with a head refilled at *some* time up to now, so that the combined
operations can use them too. `WaitHintSafety` is arithmetic: the ceiling of a quotient
is the first tick at which a dimension is covered, the maximum over the dimensions the
first at which all are, and the cap does not interfere because a demand above the
burst is refused for good before. `PoolHeadSafety` needs `HeadReplayed`, the same fact
stated with a recursive function over prefixes of the log (`Replayed`); every
operation of the service refills to the time it gives its event, which is exactly
what `acquire_combined` does not do (finding 1).

**CombinedControl** (`CombinedControlProofs`). `CombinedImplementsResource` is
`CombinedSpec => ResourceSpec`, with the identity on the shared variables:
`DecideCombined` and `RollBack` stutter and `CommitCombined` is `AdmitWork`. For this
the decision must still stand at the commit (`DecisionStands`): while the transaction
is open only the clock and the outside world move, and neither takes an admission
back. `CombinedReservationSafety` and `CombinedOvercommitSafety` follow. The model's
side needs `HeadFits`, that the head kept in the open transaction is the bucket refilled
at an earlier time and still fits; then every step is a `ModelStep`,
`CombinedModelSafety` gives `ModelInv`, and with it `CombinedLeaseSafety` and
`CombinedPoolSafety`. So finding 1 is confined to the comparison of head and replay:
concurrency, rate, budget and backpressure survive the second reading of the clock.
By the chain of refinements `AdmissionKeepsAttemptLease` carries the lease on an attempt
from the store to each of the three services.

**HarnessSession** (`HarnessSessionProofs`). `TurnInv`: a caller that prepares has no
journal of its own yet, the one that prepared is the only one to call, there is one
call at most and a record only of a call, and a caller completes with what was
recorded. A caller at `invoking` therefore finds no record: the branches of `Invoke`
that find one, which the gateway has for any client, are never taken by a turn. From it,
`SessionImplementsLedger`: every step is a step of `TurnLedger` under the mapping
`Ledger` or a stutter. `ReadModelSafety`, `TeamLogSafety` (what remains of the order of the log's
versions beside finding 4, with the versions bounded by the session's), `PolicySafety` and `MessageSafety` (`MessageInv`: a command
has its user message at one place of the log, a turn its answer and its chunks) have
invariants of their own on top. `StreamSafety` counts the places of a stream in
the log (`StreamPlaces`); only a delivery adds one, and it is the last, so the property
is nearly inductive: `StreamInv` adds that the log is empty before the session
and that streams hold runtime events. `AnswerLandingSafety` is about what is read before
the provider's await and compared after it: by `JournalInv` a journal that a caller holds is
the stored one unless its turn is over, and a message has a turn exactly when its
journal is final, so a completion is refused only if another one came first.

**AgentSupervisor** (`AgentSupervisorProofs`). `SupervisorInv` relates rows, files and
processes: the leases of a task are numbered by its attempts and a result is the last
event (`RowInv`); a receipt of a quarantine follows the move (`FilesFollowMove`); a
runner works on an attempt that was leased and reports only a committed workspace
(`RunnersHoldLeases`); an open transaction is about the current attempt, and what it read
still holds because it has the lock (`TxnIsCurrent`); a workspace is taken from an active
attempt only after its effective expiry, also by the clock of whoever still completes it
(`TakenIsLate`, which a crash behind the move makes necessary); and the ends in the rows
and on disk agree (`EndsAgree`).
`ResultSafety`, `WorkspaceSafety`, `ReadySafety` and `PromiseSafety` follow, with crashes at any
step. `SettlementSafety` (no deadlock but `Wedged`) needs one fact more, `ActiveIsNotCancelled`:
no attempt that is still active has the receipt of a cancellation, because a cancellation
that crashed behind its receipt was requested and stays so; so an expiry
finds a directory to move or its own receipt, unless the workspace was committed or moved
without a receipt, which `Wedged` names.
`SupervisorKeepsAttemptLease` reads the abstract state off the logs, so it needs what the
logs do not say by their type: that an event which ends an attempt promises nothing
(`EndingIsSilent`), so the effective expiry no longer moves, and that a scheduled retry counts its delay from the
time of the expiry event (`RetryFollowsExpiry`).

**PlanControl** (`PlanControlProofs`). `PlanInv`: an executor holds a plan that was
released when it began (`ClientsKnowTheirPlan`), releases are never taken back, stored
results are of released plans (`ResultsReleased`), and a review waits for the head of its
kind. `ExecutionSafety`, `ReviewSafety` and `RebuildSafety` follow (a result that is not
current although its plan is was invalidated from upstream), and `AnswerSafety`: a waiting
run outside `Stuck` has a pending review that is open and about the head of its kind, which a decision
accepts, or a decided one that `resume` accepts.

`SumTheorems` has the facts about sums over finite sets that the accounts rest on.
The library's induction theorems take a predicate as a parameter, which the provers
cannot instantiate; every induction here, over finite sets and over the length of a
log, is the choice of a minimal counterexample instead.

### What stays with TLC

* Liveness: `PreparedTurnEnds`, `LeasesEndOrWedge`, `WaitingEndsOrStuck`. Fairness and
  ENABLED are beyond the prover. The safety half is proved: outside the named exceptions
  the step that fairness drives is accepted (`AnswerLandingSafety`, `SettlementSafety`,
  `AnswerSafety`). What TLC adds is that taking it, again and again, comes to an end.
* The findings are counterexamples and need no proof.

## 5. What could be added

New models, in this order: team runtime, item bindings and stages, StageObjectStore
with crashes between files and rows, approval, publication.
