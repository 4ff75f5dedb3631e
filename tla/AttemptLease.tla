---------------------------- MODULE AttemptLease ----------------------------
(***************************************************************************)
(* What a lease on an attempt promises.  Work of one subject is tried in   *)
(* attempts, one after another.  Whoever works on an attempt was promised  *)
(* it until some time, and the promise only moves later.  Until then       *)
(* nobody else takes the attempt away, except by withdrawing it for good;  *)
(* from then on no outcome of it counts any more.  The next attempt        *)
(* follows a failed or an expired one, after a delay.                      *)
(*                                                                         *)
(* Two stores of the code base keep this promise independently of each     *)
(* other: WorkControl with a state column, AgentSupervisor with an event   *)
(* log and files.  Both are shown to implement it.                         *)
(***************************************************************************)
EXTENDS Integers

CONSTANTS
  Subject,       \* what is tried
  MaxAttempts,   \* how often
  Duration,      \* the first promise
  Extension,     \* what a renewal promises from now on
  RetryDelay,    \* after each attempt but the last
  RetryExpired   \* an attempt that ran out is tried again

Attempt == 1..MaxAttempts

VARIABLES
  now,      \* the clock
  state,    \* of each attempt
  promise,  \* until when each attempt is promised
  ended     \* the time each attempt ended at

vars == <<now, state, promise, ended>>

Init ==
  /\ now = 0
  /\ state = [s \in Subject |-> [a \in Attempt |-> "none"]]
  /\ promise = [s \in Subject |-> [a \in Attempt |-> 0]]
  /\ ended = [s \in Subject |-> [a \in Attempt |-> 0]]

Held(s, a) == state[s][a] = "held"

Tick ==
  /\ now' = now + 1
  /\ UNCHANGED <<state, promise, ended>>

\* Attempt a may be the next one of its subject at time t.
MayFollow(s, a, t) ==
  a > 1 =>
    /\ state[s][a - 1] = "failed" \/ (state[s][a - 1] = "expired" /\ RetryExpired)
    /\ ended[s][a - 1] + RetryDelay[a - 1] <= t

\* The attempt is given to a worker that asked at time t.
Assign(s, a, t) ==
  /\ t <= now
  /\ \A b \in Attempt : b >= a => state[s][b] = "none"
  /\ MayFollow(s, a, t)
  /\ state' = [state EXCEPT ![s][a] = "held"]
  /\ promise' = [promise EXCEPT ![s][a] = t + Duration]
  /\ UNCHANGED <<now, ended>>

\* The worker shows it is alive and is promised more time.
Renew(s, a) ==
  /\ Held(s, a)
  /\ now < promise[s][a]
  /\ promise' = [promise EXCEPT ![s][a] = IF now + Extension > @ THEN now + Extension ELSE @]
  /\ UNCHANGED <<now, state, ended>>

End(s, a, outcome, t) ==
  /\ Held(s, a)
  /\ t <= now
  /\ state' = [state EXCEPT ![s][a] = outcome]
  /\ ended' = [ended EXCEPT ![s][a] = t]
  /\ UNCHANGED <<now, promise>>

\* The worker reports an outcome at time t, while the promise still holds.
Report(s, a, outcome, t) == t < promise[s][a] /\ End(s, a, outcome, t)

\* The attempt is taken from its worker, found overdue at time t.
Expire(s, a, t) == promise[s][a] <= t /\ End(s, a, "expired", t)

\* Attempts held are withdrawn together.
Withdraw(held) ==
  /\ \A p \in held : Held(p[1], p[2])
  /\ state' = [s \in Subject |-> [a \in Attempt |->
                 IF <<s, a>> \in held THEN "withdrawn" ELSE state[s][a]]]
  /\ ended' = [s \in Subject |-> [a \in Attempt |->
                 IF <<s, a>> \in held THEN now ELSE ended[s][a]]]
  /\ UNCHANGED <<now, promise>>

Next ==
  \/ Tick
  \/ \E held \in SUBSET (Subject \X Attempt) : Withdraw(held)
  \/ \E s \in Subject, a \in Attempt :
       \/ Renew(s, a)
       \/ \E t \in 0..now :
            \/ Assign(s, a, t)
            \/ \E outcome \in {"finished", "failed"} : Report(s, a, outcome, t)
            \/ Expire(s, a, t)

Spec == Init /\ [][Next]_vars
=============================================================================
