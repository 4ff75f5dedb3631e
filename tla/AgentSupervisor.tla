--------------------------- MODULE AgentSupervisor ---------------------------
(***************************************************************************)
(* The execution supervisor of the agent system, the workspaces of its     *)
(* attempts and the runners that drive both.                               *)
(*                                                                         *)
(* A task is executed in attempts.  The supervisor keeps one lease per     *)
(* attempt, its event log and the task's current head in SQLite; the       *)
(* workspace manager keeps the attempt's directory and its terminal        *)
(* receipt in the file system.  Every supervisor operation is one BEGIN    *)
(* IMMEDIATE transaction, but the file operations inside it are seen at    *)
(* once by runners, which touch workspaces without that lock, and are not  *)
(* undone by a rollback or a crash.                                        *)
(*                                                                         *)
(* Attempt number and fencing token are drawn from the same rows and are   *)
(* always equal, so an attempt stands for both.  All runners of a task use *)
(* the task's one worker id.  Envelope contents, audits and the outbox are *)
(* left out; a call the code rejects without an effect is a stutter.       *)
(***************************************************************************)
EXTENDS Integers, Sequences, FiniteSets

CONSTANTS
  Task,           \* materialized agent tasks
  Runner,         \* processes that execute attempts
  Key,            \* idempotency keys used with acquire
  MaxAttempts,    \* AgentTaskV2.max_attempts
  Duration,       \* lease_duration
  Extension,      \* heartbeat extension
  RetryDelay,     \* retry_delay
  MaxTime,        \* bound: the clock stops here
  MaxHeartbeats,  \* bound: heartbeats of one lease
  CancelLimit,    \* bound: cancellation requests
  CrashLimit      \* bound: crashes

Attempt == 1..MaxAttempts

ASSUME SupervisorAssumption ==
  /\ MaxAttempts \in Nat \ {0} /\ Duration \in Nat \ {0} /\ Extension \in Nat \ {0}
  /\ RetryDelay \in Nat /\ MaxTime \in Nat /\ MaxHeartbeats \in Nat
  /\ CancelLimit \in Nat /\ CrashLimit \in Nat

VARIABLES
  now,       \* the clock all processes read
  lease,     \* agent_work_leases: acquisition and first expiry, by attempt
  events,    \* agent_work_events of each lease, in version order
  head,      \* agent_work_current_heads
  eligible,  \* agent_retry_decisions: eligible_at of a scheduled retry
  result,    \* agent_results, by attempt
  idem,      \* acquire's idempotency rows: the lease each key got
  dir,       \* the workspace directory: absent, without its marker, complete
  moved,     \* the directory was moved to the quarantine
  terminal,  \* the namespace's write-once terminal receipt
  txn,       \* the transaction that is moving a workspace, if any
  runner,    \* what each runner is doing
  cancels, crashes

dbVars == <<lease, events, head, eligible, result, idem>>
fsVars == <<dir, moved, terminal>>
vars == <<now, dbVars, fsVars, txn, runner, cancels, crashes>>

Open == {"ACTIVE", "CANCEL_REQUESTED"}
Ended == {"COMPLETED", "RETRY_SCHEDULED", "EXHAUSTED", "CANCELLED"}
NoHead == [attempt |-> 0, version |-> 0, state |-> "NONE"]
NoLease == [acquired |-> -1, expires |-> -1]
NoTxn == [reason |-> "NONE", task |-> "NONE", attempt |-> 0, step |-> "NONE", at |-> 0]
Idle == [at |-> "idle", task |-> "NONE", attempt |-> 0, clock |-> 0]

\* expires is -1 where the event carries no effective_expires_at.
Event(kind, expires, at) == [kind |-> kind, expires |-> expires, at |-> at]

Init ==
  /\ now = 0
  /\ lease = [t \in Task |-> [a \in Attempt |-> NoLease]]
  /\ events = [t \in Task |-> [a \in Attempt |-> <<>>]]
  /\ head = [t \in Task |-> NoHead]
  /\ eligible = [t \in Task |-> -1]
  /\ result = [t \in Task |-> {}]
  /\ idem = [t \in Task |-> [k \in Key |-> 0]]
  /\ dir = [t \in Task |-> [a \in Attempt |-> "absent"]]
  /\ moved = [t \in Task |-> [a \in Attempt |-> FALSE]]
  /\ terminal = [t \in Task |-> [a \in Attempt |-> "NONE"]]
  /\ txn = NoTxn
  /\ runner = [w \in Runner |-> Idle]
  /\ cancels = 0 /\ crashes = 0

-----------------------------------------------------------------------------
(* Reading the store *)

\* _has_result
HasResult(t) == result[t] # {}

\* MAX(attempt) over the task's leases.
LastAttempt(t) == Cardinality({a \in Attempt : lease[t][a] # NoLease})

\* _effective_expiry: the last expiry the event log names.
EffectiveExpiry(t, a) ==
  LET naming == {i \in 1..Len(events[t][a]) : events[t][a][i].expires # -1}
  IN IF naming = {} THEN lease[t][a].expires
     ELSE events[t][a][CHOOSE i \in naming : \A j \in naming : j <= i].expires

\* _require_head
HeadIs(t, a, state) == head[t].attempt = a /\ head[t].state = state

\* _insert_event and _update_head, for each event in turn.
Record(t, a, new, state) ==
  /\ events' = [events EXCEPT ![t][a] = @ \o new]
  /\ head' = [head EXCEPT ![t] = [attempt |-> a, version |-> Len(events'[t][a]), state |-> state]]

\* The checks of acquire on the result, the head, the retry decision and the
\* attempt budget, at the clock reading c.
AcquireAllowed(t, c) ==
  /\ ~HasResult(t)
  /\ head[t].state \in {"NONE", "RETRY_SCHEDULED"}
  /\ head[t].state = "RETRY_SCHEDULED" => c >= eligible[t]
  /\ LastAttempt(t) < MaxAttempts

\* dispatch_ready lists the task, as far as its own rows decide.
DispatchReady(t) ==
  /\ ~HasResult(t)
  /\ head[t].state \notin {"ACTIVE", "CANCEL_REQUESTED", "CANCELLED", "EXHAUSTED"}
  /\ head[t].state = "RETRY_SCHEDULED" => now >= eligible[t]

-----------------------------------------------------------------------------
(* Runners *)

Step(w, at) == runner' = [runner EXCEPT ![w].at = at]
Fail(w) == runner' = [runner EXCEPT ![w] = Idle]
Lease(w, t, a) ==
  runner' = [runner EXCEPT ![w] = [at |-> "leased", task |-> t, attempt |-> a, clock |-> 0]]

\* acquire with a key it has seen: the lease is returned whatever became of it.
ReplayLease(w, t, k) ==
  /\ runner[w] = Idle /\ txn = NoTxn
  /\ idem[t][k] # 0
  /\ Lease(w, t, idem[t][k])
  /\ UNCHANGED <<now, dbVars, fsVars, txn, cancels, crashes>>

\* acquire opens a new attempt.  Its clock reading c was taken before it waited
\* for the lock.  Bound: the clock outlasts every lease.
MayAcquire(w, t, k, c) ==
  /\ runner[w] = Idle /\ txn = NoTxn
  /\ idem[t][k] = 0
  /\ AcquireAllowed(t, c)
  /\ c + Duration + MaxHeartbeats * (Extension - 1) <= MaxTime

\* acquire: the workspace of the next attempt is opened, then the lease, its
\* first event and the head are committed.  A directory left by an acquire
\* that crashed is taken over if its marker is complete; otherwise acquire
\* raises.
Acquire(w, t, k, c) ==
  LET a == LastAttempt(t) + 1
  IN /\ MayAcquire(w, t, k, c)
     /\ dir[t][a] # "bare" /\ terminal[t][a] = "NONE"
     /\ dir' = [dir EXCEPT ![t][a] = "complete"]
     /\ lease' = [lease EXCEPT ![t][a] = [acquired |-> c, expires |-> c + Duration]]
     /\ Record(t, a, <<Event("ACQUIRED", c + Duration, c)>>, "ACTIVE")
     /\ idem' = [idem EXCEPT ![t][k] = a]
     /\ Lease(w, t, a)
     /\ UNCHANGED <<now, eligible, result, moved, terminal, txn, cancels, crashes>>

\* The process dies inside acquire: nothing is committed, the directory stays
\* as far as open got.
AcquireCrash(w, t, k, c) ==
  LET a == LastAttempt(t) + 1
  IN /\ MayAcquire(w, t, k, c)
     /\ dir[t][a] = "absent"
     /\ crashes < CrashLimit
     /\ crashes' = crashes + 1
     /\ \E left \in {"bare", "complete"} : dir' = [dir EXCEPT ![t][a] = left]
     /\ UNCHANGED <<now, dbVars, moved, terminal, txn, runner, cancels>>

\* open where the directory is gone although its receipt exists: it is made
\* anew, but the marker is refused if the caller's audit differs from the
\* receipt's.
Reopen(t, a) == \E left \in {"bare", "complete"} : dir' = [dir EXCEPT ![t][a] = left]

\* recover: a committed workspace must still be in its place, an open one is
\* opened again.
Recover(w) ==
  LET t == runner[w].task
      a == runner[w].attempt
  IN /\ runner[w].at = "leased"
     /\ IF terminal[t][a] = "NONE" /\ dir[t][a] = "absent" THEN Reopen(t, a) ELSE UNCHANGED dir
     /\ IF terminal[t][a] \in {"NONE", "COMMITTED"} /\ dir'[t][a] = "complete"
        THEN Step(w, "working") ELSE Fail(w)
     /\ UNCHANGED <<now, dbVars, moved, terminal, txn, cancels, crashes>>

\* heartbeat
Heartbeat(w) ==
  LET t == runner[w].task
      a == runner[w].attempt
      expiry == EffectiveExpiry(t, a)
      longer == IF now + Extension > expiry THEN now + Extension ELSE expiry
  IN /\ runner[w].at = "working" /\ txn = NoTxn
     /\ HeadIs(t, a, "ACTIVE")
     /\ now < expiry
     /\ head[t].version <= MaxHeartbeats
     /\ Record(t, a, <<Event("HEARTBEAT", longer, now)>>, "ACTIVE")
     /\ UNCHANGED <<now, lease, eligible, result, idem, fsVars, txn, runner, cancels, crashes>>

\* commit of the workspace, up to the inventory of its files.
CheckCommit(w) ==
  LET t == runner[w].task
      a == runner[w].attempt
  IN /\ runner[w].at = "working"
     /\ CASE terminal[t][a] = "COMMITTED" -> Step(w, "committed")
          [] terminal[t][a] = "NONE" /\ dir[t][a] = "complete" -> Step(w, "sealing")
          [] OTHER -> Fail(w)
     /\ UNCHANGED <<now, dbVars, fsVars, txn, cancels, crashes>>

\* Faulty variant of WriteTerminal: an existing receipt is overwritten.
OverwriteTerminal(t, a, receipt) == terminal' = [terminal EXCEPT ![t][a] = receipt]

\* _persist_terminal: only the first receipt of a namespace is written.
WriteTerminal(t, a, receipt) ==
  terminal' = [terminal EXCEPT ![t][a] = IF @ = "NONE" THEN receipt ELSE @]

\* commit, the write-once receipt.  What another runner wrote, in full or before
\* it crashed, is taken for its own only if their audits agree.
SealCommit(w) ==
  LET t == runner[w].task
      a == runner[w].attempt
  IN /\ runner[w].at = "sealing"
     /\ \/ /\ WriteTerminal(t, a, "COMMITTED")
           /\ IF terminal'[t][a] = "COMMITTED" THEN Step(w, "committed") ELSE Fail(w)
        \/ /\ \/ terminal[t][a] # "NONE" \/ crashes > 0
              \/ \E v \in Runner \ {w} : runner[v] = runner[w]
           /\ Fail(w) /\ UNCHANGED terminal
     /\ UNCHANGED <<now, dbVars, dir, moved, txn, cancels, crashes>>

\* complete reads the clock before it waits for the lock.
AskComplete(w) ==
  /\ runner[w].at = "committed"
  /\ runner' = [runner EXCEPT ![w] = [@ EXCEPT !.at = "completing", !.clock = now]]
  /\ UNCHANGED <<now, dbVars, fsVars, txn, cancels, crashes>>

\* Faulty variant of LeaseHolds: only the head is compared.
LeaseHoldsByHead(t, a, c) == HeadIs(t, a, "ACTIVE")

\* The head is the lease's, and the clock reading is before its expiry.
LeaseHolds(t, a, c) == HeadIs(t, a, "ACTIVE") /\ c < EffectiveExpiry(t, a)

\* complete
Complete(w) ==
  LET t == runner[w].task
      a == runner[w].attempt
      c == runner[w].clock
  IN /\ runner[w].at = "completing" /\ txn = NoTxn
     /\ a \notin result[t] /\ LeaseHolds(t, a, c)
     /\ result' = [result EXCEPT ![t] = @ \cup {a}]
     /\ Record(t, a, <<Event("COMPLETED", -1, c)>>, "COMPLETED")
     /\ Fail(w)
     /\ UNCHANGED <<now, lease, eligible, idem, fsVars, txn, cancels, crashes>>

\* complete of an attempt that has its result, or that is refused.
CompleteReplayedOrRefused(w) ==
  LET r == runner[w]
  IN /\ r.at = "completing" /\ txn = NoTxn
     /\ r.attempt \in result[r.task] \/ ~LeaseHolds(r.task, r.attempt, r.clock)
     /\ Fail(w)
     /\ UNCHANGED <<now, dbVars, fsVars, txn, cancels, crashes>>

\* A runner dies between two of its calls.
Crash(w) ==
  /\ runner[w] # Idle
  /\ crashes < CrashLimit
  /\ crashes' = crashes + 1
  /\ Fail(w)
  /\ UNCHANGED <<now, dbVars, fsVars, txn, cancels>>

-----------------------------------------------------------------------------
(* Expiry and cancellation *)

\* The first checks of quarantine_lease: the terminal receipt, the marker and
\* the destination.
CanMove(t, a) == terminal[t][a] = "NONE" /\ dir[t][a] = "complete" /\ ~moved[t][a]

\* Faulty variant of Reusable: any receipt is a conflict.
NeverReusable(t, a, reason) == FALSE

\* The receipt of an earlier try at the same quarantine.
Reusable(t, a, reason) == terminal[t][a] = reason

\* quarantine_lease begins: an earlier attempt's receipt is reused, a directory
\* in place is moved, and one that is gone is made anew, after which the
\* operation rolls back: the marker is refused or the destination is taken.
BeginQuarantine(t, a, reason) ==
  LET next(step) == txn' = [reason |-> reason, task |-> t, attempt |-> a, step |-> step, at |-> now]
  IN /\ txn = NoTxn
     /\ \/ Reusable(t, a, reason) /\ next("decide") /\ UNCHANGED dir
        \/ CanMove(t, a) /\ next("move") /\ UNCHANGED dir
        \/ /\ terminal[t][a] = "NONE" /\ dir[t][a] = "absent" /\ moved[t][a]
           /\ Reopen(t, a) /\ UNCHANGED txn
     /\ UNCHANGED <<now, dbVars, moved, terminal, runner, cancels, crashes>>

\* expire, up to the file system.
Expire(t) ==
  LET a == head[t].attempt
  IN /\ head[t].state = "ACTIVE"
     /\ now >= EffectiveExpiry(t, a)
     /\ BeginQuarantine(t, a, "LEASE_EXPIRED")

\* acknowledge_cancel, up to the file system.
AcknowledgeCancel(t) ==
  /\ head[t].state = "CANCEL_REQUESTED"
  /\ BeginQuarantine(t, head[t].attempt, "CANCELLED")

\* quarantine: os.replace.
MoveWorkspace ==
  /\ txn.step = "move"
  /\ dir' = [dir EXCEPT ![txn.task][txn.attempt] = "absent"]
  /\ moved' = [moved EXCEPT ![txn.task][txn.attempt] = TRUE]
  /\ txn' = [txn EXCEPT !.step = "seal"]
  /\ UNCHANGED <<now, dbVars, terminal, runner, cancels, crashes>>

\* quarantine: the write-once receipt; a conflict rolls the transaction back.
SealQuarantine ==
  /\ txn.step = "seal"
  /\ WriteTerminal(txn.task, txn.attempt, txn.reason)
  /\ txn' = IF terminal'[txn.task][txn.attempt] = txn.reason
            THEN [txn EXCEPT !.step = "decide"] ELSE NoTxn
  /\ UNCHANGED <<now, dbVars, dir, moved, runner, cancels, crashes>>

\* Faulty variant of Retryable: the last attempt is retried too.
RetryableOnceMore(a) == a <= MaxAttempts

\* lease.attempt < task.max_attempts
Retryable(a) == a < MaxAttempts

\* expire, its events, the retry decision and the commit.
DecideExpiry ==
  LET t == txn.task
      a == txn.attempt
      state == IF Retryable(a) THEN "RETRY_SCHEDULED" ELSE "EXHAUSTED"
  IN /\ txn.step = "decide" /\ txn.reason = "LEASE_EXPIRED"
     /\ Record(t, a, <<Event("EXPIRED", -1, txn.at), Event("RETRY_DECIDED", -1, txn.at)>>, state)
     /\ eligible' = [eligible EXCEPT ![t] = IF Retryable(a) THEN txn.at + RetryDelay ELSE @]
     /\ txn' = NoTxn
     /\ UNCHANGED <<now, lease, result, idem, fsVars, runner, cancels, crashes>>

\* acknowledge_cancel, its event and the commit.
DecideCancel ==
  /\ txn.step = "decide" /\ txn.reason = "CANCELLED"
  /\ Record(txn.task, txn.attempt, <<Event("CANCELLED", -1, now)>>, "CANCELLED")
  /\ txn' = NoTxn
  /\ UNCHANGED <<now, lease, eligible, result, idem, fsVars, runner, cancels, crashes>>

\* The process of the transaction dies: the rows roll back, the files stay.
CrashInQuarantine ==
  /\ txn # NoTxn
  /\ crashes < CrashLimit
  /\ crashes' = crashes + 1
  /\ txn' = NoTxn
  /\ UNCHANGED <<now, dbVars, fsVars, runner, cancels>>

\* request_cancel
RequestCancel(t) ==
  /\ txn = NoTxn
  /\ head[t].state = "ACTIVE"
  /\ cancels < CancelLimit
  /\ cancels' = cancels + 1
  /\ Record(t, head[t].attempt, <<Event("CANCEL_REQUESTED", -1, now)>>, "CANCEL_REQUESTED")
  /\ UNCHANGED <<now, lease, eligible, result, idem, fsVars, txn, runner, crashes>>

Tick ==
  /\ now < MaxTime
  /\ now' = now + 1
  /\ UNCHANGED <<dbVars, fsVars, txn, runner, cancels, crashes>>

-----------------------------------------------------------------------------

RunnerStep(w) ==
  \/ Recover(w) \/ CheckCommit(w)
  \/ SealCommit(w) \/ AskComplete(w) \/ Complete(w) \/ CompleteReplayedOrRefused(w)

Settlement ==
  \/ \E t \in Task : Expire(t) \/ AcknowledgeCancel(t)
  \/ MoveWorkspace \/ SealQuarantine \/ DecideExpiry \/ DecideCancel

Next ==
  \/ Tick \/ Settlement \/ CrashInQuarantine
  \/ \E t \in Task : RequestCancel(t)
  \/ \E w \in Runner : \/ \E t \in Task, k \in Key :
                            \/ ReplayLease(w, t, k)
                            \/ \E c \in 0..now : Acquire(w, t, k, c) \/ AcquireCrash(w, t, k, c)
                       \/ RunnerStep(w) \/ Heartbeat(w) \/ Crash(w)

Spec == Init /\ [][Next]_vars

\* Time passes and somebody keeps calling expire and acknowledge_cancel.  The
\* runners may stop anywhere.
FairSpec == Spec /\ WF_vars(Tick) /\ WF_vars(Settlement)

-----------------------------------------------------------------------------
(* Properties *)

\* A result belongs to the task's last attempt, which was never expired or
\* cancelled, and was accepted on a clock reading before the lease's effective
\* expiry, however late the transaction itself came: no attempt was dispatched
\* beside or after the one that counts.
ResultFromLiveLease ==
  \A t \in Task : \A a \in result[t] :
    /\ a = LastAttempt(t)
    /\ HeadIs(t, a, "COMPLETED")
    /\ events[t][a][Len(events[t][a])].kind = "COMPLETED"
    /\ events[t][a][Len(events[t][a])].at < EffectiveExpiry(t, a)

\* Rows and files agree on every attempt that ended, although no transaction
\* spans both: a result's workspace is committed and in its place, where the
\* recovery of a completed attempt needs it, and the workspace of an attempt
\* that was retried, exhausted or cancelled is quarantined for that reason and
\* can never be committed again.
WorkspaceAgrees ==
  \A t \in Task : \A a \in 1..LastAttempt(t) :
    LET last == events[t][a][Len(events[t][a])].kind
    IN /\ a \in result[t] => terminal[t][a] = "COMMITTED" /\ dir[t][a] = "complete" /\ ~moved[t][a]
       /\ last = "RETRY_DECIDED" => terminal[t][a] = "LEASE_EXPIRED" /\ moved[t][a]
       /\ last = "CANCELLED" => terminal[t][a] = "CANCELLED" /\ moved[t][a]

\* What dispatch_ready offers, the rows acquire reads allow: no task is listed
\* again and again without an attempt left for it.
ReadyIsAcquirable == \A t \in Task : DispatchReady(t) => AcquireAllowed(t, now)

\* No attempt is taken from a runner whose heartbeat was accepted: an attempt
\* is expired only at or after the last expiry promised to it, and the next one
\* waits for the retry delay after that.
PromisesKept ==
  \A t \in Task : \A a \in 1..LastAttempt(t) :
    /\ \A i, j \in 1..Len(events[t][a]) :
         events[t][a][i].kind = "EXPIRED" => events[t][a][j].expires <= events[t][a][i].at
    /\ a > 1 => \A i \in 1..Len(events[t][a - 1]) :
         events[t][a - 1][i].expires + RetryDelay <= lease[t][a].acquired

\* A lease nobody can end: its workspace was committed but the result came too
\* late or after a cancellation, the directory was moved without a receipt, or
\* an expiry that crashed was overtaken by a cancellation.
Wedged(t) ==
  LET a == head[t].attempt
  IN /\ head[t].state \in Open
     /\ \/ terminal[t][a] = "COMMITTED"
        \/ terminal[t][a] = "NONE" /\ moved[t][a]
        \/ terminal[t][a] = "LEASE_EXPIRED" /\ head[t].state = "CANCEL_REQUESTED"

\* There are no other deadlocks: whatever a crash, a commit or an earlier try
\* left in the file system, the lease that is to be expired or whose cancellation
\* is to be acknowledged finds its workspace movable or its own receipt.
UnwedgedIsSettleable ==
  \A t \in Task : head[t].state \in Open /\ ~Wedged(t) =>
    LET a == head[t].attempt
        reason == IF head[t].state = "ACTIVE" THEN "LEASE_EXPIRED" ELSE "CANCELLED"
    IN Reusable(t, a, reason) \/ CanMove(t, a)

\* Every lease ends, unless it meets one of the known deadlocks between rows
\* and files: whoever crashes where, nothing else keeps a task from being
\* completed, retried, exhausted or cancelled.
LeasesEndOrWedge ==
  \A t \in Task : head[t].state \in Open ~> head[t].state \in Ended \/ Wedged(t)

\* Every lease ends: its result is accepted, or it is expired and then retried
\* or exhausted, whatever its runner was doing.
LeasesEnd == \A t \in Task : head[t].state \in Open ~> head[t].state \in Ended

\* The event that ends attempt a for its runner, the request to cancel
\* included; an attempt has one at most.
EndingKinds == {"COMPLETED", "EXPIRED", "CANCEL_REQUESTED"}

Endings(t, a) == {i \in 1..Len(events[t][a]) : events[t][a][i].kind \in EndingKinds}

Ending(t, a) == events[t][a][CHOOSE i \in Endings(t, a) : TRUE]

\* What the log of an attempt means to its runner and to the next attempt.
LogMeaning(t, a) ==
  IF events[t][a] = <<>> THEN "none"
  ELSE IF Endings(t, a) = {} THEN "held"
  ELSE IF Ending(t, a).kind = "COMPLETED" THEN "finished"
  ELSE IF Ending(t, a).kind = "EXPIRED" THEN "expired"
  ELSE "withdrawn"

Promises == INSTANCE AttemptLease WITH
  Subject <- Task,
  RetryDelay <- [a \in 1..(MaxAttempts - 1) |-> RetryDelay],
  RetryExpired <- TRUE,
  state <- [t \in Task |-> [a \in Attempt |-> LogMeaning(t, a)]],
  promise <- [t \in Task |-> [a \in Attempt |->
                IF events[t][a] = <<>> THEN 0 ELSE EffectiveExpiry(t, a)]],
  ended <- [t \in Task |-> [a \in Attempt |->
              IF Endings(t, a) = {} THEN 0 ELSE Ending(t, a).at]]

\* The supervisor's leases are leases on attempts, although what ends one is
\* spread over a transaction, a directory and runners that read the clock and
\* the rows long before they act: an attempt stays with its runner until the
\* expiry last promised, or until it is cancelled for good, no result counts
\* after it, and the next attempt waits for its turn.
KeepsAttemptLease == Promises!Spec
=============================================================================
