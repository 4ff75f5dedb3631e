------------------------ MODULE AgentSupervisorProofs ------------------------
(***************************************************************************)
(* Safety of the execution supervisor for any number of tasks, runners,    *)
(* attempts, heartbeats, cancellations and crashes.                        *)
(***************************************************************************)
EXTENDS AgentSupervisor, TLAPS, FiniteSetTheorems

EventRow ==
  [kind : {"ACQUIRED", "HEARTBEAT", "CANCEL_REQUESTED", "COMPLETED", "EXPIRED",
           "RETRY_DECIDED", "CANCELLED"},
   expires : Nat \cup {-1}, at : Nat]

LeaseRow == [acquired : Nat, expires : Nat]

HeadRow == [attempt : 0..MaxAttempts, version : Nat, state : {"NONE"} \cup Open \cup Ended]

Txn == [reason : {"LEASE_EXPIRED", "CANCELLED"}, task : Task, attempt : Attempt,
        step : {"move", "seal", "decide"}, at : Nat]

Busy == [at : {"leased", "working", "sealing", "committed", "completing"}, task : Task,
         attempt : Attempt, clock : Nat]

\* The rows of the database.
RowTypeOK ==
  /\ lease \in [Task -> [Attempt -> LeaseRow \cup {NoLease}]]
  /\ events \in [Task -> [Attempt -> Seq(EventRow)]]
  /\ head \in [Task -> HeadRow]
  /\ eligible \in [Task -> Nat \cup {-1}]
  /\ result \in [Task -> SUBSET Attempt]
  /\ idem \in [Task -> [Key -> 0..MaxAttempts]]

\* The files, the transaction under way and the runners.
FileTypeOK ==
  /\ dir \in [Task -> [Attempt -> {"absent", "bare", "complete"}]]
  /\ moved \in [Task -> [Attempt -> BOOLEAN]]
  /\ terminal \in [Task -> [Attempt -> {"NONE", "COMMITTED", "LEASE_EXPIRED", "CANCELLED"}]]

ProcessTypeOK ==
  /\ now \in Nat /\ cancels \in Nat /\ crashes \in Nat
  /\ txn \in Txn \cup {NoTxn}
  /\ runner \in [Runner -> Busy \cup {Idle}]

-----------------------------------------------------------------------------
(* Event logs.                                                             *)

\* EffectiveExpiry of a lease first promised until first, with log s.
ExpiryOf(first, s) ==
  LET naming == {i \in 1..Len(s) : s[i].expires # -1}
  IN IF naming = {} THEN first
     ELSE s[CHOOSE i \in naming : \A j \in naming : j <= i].expires

\* Log s promises the attempt to its runner until x: a run of events that name
\* an expiry, none later than x and the last one x, and then events that name
\* none; an expiry among these does not come before x.
PromisedUpTo(s, x) ==
  \E n \in 1..Len(s) :
    /\ s[n].expires = x
    /\ \A i \in 1..Len(s) :
         /\ s[i].expires # -1 <=> i <= n
         /\ s[i].expires <= x
         /\ s[i].kind = "EXPIRED" => s[i].expires = -1 /\ s[i].at >= x

\* The effective expiry is the last promise.
LEMMA ExpiryIsPromise ==
  ASSUME NEW s \in Seq(EventRow), NEW x, PromisedUpTo(s, x), NEW first
  PROVE  ExpiryOf(first, s) = x
<1> DEFINE naming == {i \in 1..Len(s) : s[i].expires # -1}
           last == CHOOSE i \in naming : \A j \in naming : j <= i
<1>1. PICK n \in 1..Len(s) :
        s[n].expires = x /\ \A i \in 1..Len(s) : s[i].expires # -1 <=> i <= n
  BY DEF PromisedUpTo
<1>2. naming = 1..n /\ n \in naming
  BY <1>1
<1> HIDE DEF naming
<1>3. last \in naming /\ \A j \in naming : j <= last
  <2>1. \E i \in naming : \A j \in naming : j <= i
    BY <1>2
  <2> QED BY <2>1
<1>4. last = n
  <2> HIDE DEF last
  <2> QED BY <1>2, <1>3
<1> QED BY <1>1, <1>2, <1>4 DEF ExpiryOf, naming

\* What is appended last is last.
LEMMA LastOfLog ==
  ASSUME NEW s \in Seq(EventRow), NEW new \in Seq(EventRow), new # <<>>
  PROVE  (s \o new)[Len(s \o new)] = new[Len(new)]
OBVIOUS

\* Events that name no expiry change no promise.
LEMMA SilentEvents ==
  ASSUME NEW s \in Seq(EventRow), NEW x \in Nat, PromisedUpTo(s, x), NEW new \in Seq(EventRow),
         \A i \in 1..Len(new) :
           new[i].expires = -1 /\ (new[i].kind = "EXPIRED" => new[i].at >= x)
  PROVE  PromisedUpTo(s \o new, x)
<1>1. PICK n \in 1..Len(s) :
        /\ s[n].expires = x
        /\ \A i \in 1..Len(s) :
             /\ s[i].expires # -1 <=> i <= n
             /\ s[i].expires <= x
             /\ s[i].kind = "EXPIRED" => s[i].expires = -1 /\ s[i].at >= x
  BY DEF PromisedUpTo
<1> DEFINE r == s \o new
<1>2. /\ Len(r) = Len(s) + Len(new) /\ Len(s) \in Nat /\ Len(new) \in Nat
      /\ \A i \in 1..Len(r) : r[i] = IF i <= Len(s) THEN s[i] ELSE new[i - Len(s)]
  OBVIOUS
<1> HIDE DEF r
<1>3. n \in 1..Len(r) /\ r[n].expires = x
  BY <1>1, <1>2
<1>4. ASSUME NEW i \in 1..Len(r)
      PROVE  /\ r[i].expires # -1 <=> i <= n
             /\ r[i].expires <= x
             /\ r[i].kind = "EXPIRED" => r[i].expires = -1 /\ r[i].at >= x
  <2>1. CASE i <= Len(s)
    BY <1>1, <1>2, <2>1
  <2>2. CASE i > Len(s)
    <3>1. r[i] = new[i - Len(s)] /\ i - Len(s) \in 1..Len(new) /\ ~(i <= n)
      BY <1>2, <2>2
    <3> QED BY <3>1
  <2> QED BY <1>2, <2>1, <2>2
<1> QED BY <1>3, <1>4 DEF PromisedUpTo, r

\* A heartbeat of an active attempt prolongs the promise.
LEMMA ProlongingEvent ==
  ASSUME NEW s \in Seq(EventRow), NEW x \in Nat, PromisedUpTo(s, x),
         \A i \in 1..Len(s) : s[i].expires # -1,
         NEW e \in EventRow, e.expires >= x, e.expires # -1, e.kind # "EXPIRED"
  PROVE  /\ PromisedUpTo(s \o <<e>>, e.expires)
         /\ \A i \in 1..Len(s \o <<e>>) : (s \o <<e>>)[i].expires # -1
<1>1. \A i \in 1..Len(s) : s[i].expires <= x /\ s[i].kind # "EXPIRED"
  BY DEF PromisedUpTo
<1> DEFINE r == s \o <<e>>
<1>2. /\ Len(r) = Len(s) + 1 /\ Len(s) \in Nat
      /\ \A i \in 1..Len(s) : r[i] = s[i]
      /\ r[Len(r)] = e
  OBVIOUS
<1>3. \A i \in 1..Len(s) : s[i] \in EventRow
  OBVIOUS
<1> HIDE DEF r
<1>4. e.expires \in Int /\ \A i \in 1..Len(s) : s[i].expires \in Int
  BY <1>3 DEF EventRow
<1>5. ASSUME NEW i \in 1..Len(r)
      PROVE  /\ r[i].expires # -1
             /\ r[i].expires <= e.expires
             /\ r[i].kind # "EXPIRED"
  <2>1. CASE i <= Len(s)
    <3>1. r[i] = s[i] /\ i \in 1..Len(s)
      BY <1>2, <2>1
    <3> QED BY <1>1, <1>4, <3>1
  <2>2. CASE i = Len(r)
    BY <1>2, <1>4, <2>2
  <2> QED BY <1>2, <2>1, <2>2
<1> QED BY <1>2, <1>5 DEF PromisedUpTo, r

-----------------------------------------------------------------------------
(* The inductive invariant, first what the rows say on their own.          *)

\* The attempts leased so far are 1 up to the head's.
LeasesNumbered ==
  \A t \in Task :
    /\ head[t].attempt = 0 <=> head[t].state = "NONE"
    /\ \A a \in Attempt :
         /\ lease[t][a] # NoLease <=> a <= head[t].attempt
         /\ a > head[t].attempt => events[t][a] = <<>>
    /\ \A k \in Key : idem[t][k] <= head[t].attempt

\* Only the last attempt can have a result, and has it exactly when the task
\* is completed; the event that completed it came in time.
ResultIsLast ==
  \A t \in Task :
    /\ result[t] = IF head[t].state = "COMPLETED" THEN {head[t].attempt} ELSE {}
    /\ head[t].state = "COMPLETED" =>
         LET log == events[t][head[t].attempt]
         IN /\ log[Len(log)].kind = "COMPLETED"
            /\ log[Len(log)].at < EffectiveExpiry(t, head[t].attempt)

\* The effective expiry is the last promise made; an active attempt's log
\* holds nothing else.
ExpiryIsLatest ==
  \A t \in Task : \A a \in 1..head[t].attempt :
    /\ EffectiveExpiry(t, a) \in Nat
    /\ PromisedUpTo(events[t][a], EffectiveExpiry(t, a))
    /\ HeadIs(t, a, "ACTIVE") =>
         \A i \in 1..Len(events[t][a]) : events[t][a][i].expires # -1

\* A retry waits for the delay after the last promise, and there is an attempt
\* left for it.
RetryIsDue ==
  \A t \in Task :
    /\ head[t].state = "RETRY_SCHEDULED" =>
         /\ head[t].attempt < MaxAttempts
         /\ EffectiveExpiry(t, head[t].attempt) + RetryDelay <= eligible[t]
    /\ \A a \in 1..head[t].attempt : a > 1 =>
         EffectiveExpiry(t, a - 1) + RetryDelay <= lease[t][a].acquired

RowInv == RowTypeOK /\ LeasesNumbered /\ ResultIsLast /\ ExpiryIsLatest /\ RetryIsDue

-----------------------------------------------------------------------------
(* Then what relates them to files, runners and the transaction.           *)

\* Attempts that were never leased have no history; a leased directory is
\* complete unless it was moved, and a quarantine receipt follows the move.
FilesFollowMove ==
  \A t \in Task : \A a \in Attempt :
    /\ a > head[t].attempt => terminal[t][a] = "NONE" /\ ~moved[t][a]
    /\ a <= head[t].attempt => dir[t][a] = "complete" \/ moved[t][a]
    /\ terminal[t][a] \in {"LEASE_EXPIRED", "CANCELLED"} => moved[t][a]

\* A runner works on an attempt that was leased, and reports completion only
\* of a committed workspace.
RunnersHoldLeases ==
  \A w \in Runner : runner[w] # Idle =>
    /\ runner[w].attempt <= head[runner[w].task].attempt
    /\ runner[w].at \in {"committed", "completing"} =>
         terminal[runner[w].task][runner[w].attempt] = "COMMITTED"
    /\ runner[w].clock <= now

\* The transaction is about the open attempt of its task, and an expiry began
\* at or after the effective expiry.
TxnIsCurrent ==
  txn # NoTxn =>
    /\ head[txn.task].attempt = txn.attempt
    /\ txn.at <= now
    /\ txn.reason = "LEASE_EXPIRED" =>
         /\ head[txn.task].state = "ACTIVE"
         /\ EffectiveExpiry(txn.task, txn.attempt) <= txn.at
    /\ txn.reason = "CANCELLED" => head[txn.task].state = "CANCEL_REQUESTED"
    /\ txn.step \in {"seal", "decide"} => moved[txn.task][txn.attempt]
    /\ txn.step = "decide" => terminal[txn.task][txn.attempt] = txn.reason

\* The workspace of an attempt was taken from its runner, or is being taken.
Taken(t, a) == moved[t][a] \/ (txn # NoTxn /\ txn.task = t /\ txn.attempt = a)

\* While its attempt is active a workspace is taken only after the effective
\* expiry, and whoever still completes it read the clock after that too.
TakenIsLate ==
  \A t \in Task : \A a \in Attempt : HeadIs(t, a, "ACTIVE") /\ Taken(t, a) =>
    /\ EffectiveExpiry(t, a) <= now
    /\ \A w \in Runner :
         runner[w].at = "completing" /\ runner[w].task = t /\ runner[w].attempt = a =>
           EffectiveExpiry(t, a) <= runner[w].clock

\* WorkspaceAgrees for one attempt.
EndAgrees(t, a) ==
  LET last == events[t][a][Len(events[t][a])].kind
  IN /\ a \in result[t] => terminal[t][a] = "COMMITTED" /\ dir[t][a] = "complete" /\ ~moved[t][a]
     /\ last = "RETRY_DECIDED" => terminal[t][a] = "LEASE_EXPIRED" /\ moved[t][a]
     /\ last = "CANCELLED" => terminal[t][a] = "CANCELLED" /\ moved[t][a]

EndsAgree == \A t \in Task : \A a \in 1..head[t].attempt : EndAgrees(t, a)

SupervisorInv ==
  /\ RowInv
  /\ FileTypeOK
  /\ ProcessTypeOK
  /\ FilesFollowMove
  /\ RunnersHoldLeases
  /\ TxnIsCurrent
  /\ TakenIsLate
  /\ EndsAgree

-----------------------------------------------------------------------------
(* Reading the rows.                                                       *)

\* The effective expiry depends on nothing but the attempt's own rows.
LEMMA ExpiryOfRows ==
  /\ \A t, a : EffectiveExpiry(t, a) = ExpiryOf(lease[t][a].expires, events[t][a])
  /\ \A t, a : EffectiveExpiry(t, a)' = ExpiryOf(lease'[t][a].expires, events'[t][a])
BY DEF EffectiveExpiry, ExpiryOf

\* The last attempt is the head's.
LEMMA LastIsHead ==
  ASSUME RowInv, NEW t \in Task
  PROVE  LastAttempt(t) = head[t].attempt /\ head[t].attempt \in 0..MaxAttempts
<1>1. head[t].attempt \in 0..MaxAttempts
  BY DEF RowInv, RowTypeOK, HeadRow
<1>2. {a \in Attempt : lease[t][a] # NoLease} = 1..head[t].attempt
  BY <1>1, SupervisorAssumption DEF RowInv, LeasesNumbered, Attempt
<1>3. Cardinality(1..head[t].attempt) = head[t].attempt
  BY <1>1, FS_Interval, SupervisorAssumption
<1> QED BY <1>1, <1>2, <1>3 DEF LastAttempt

\* An open or ended task has an attempt.
LEMMA HeadAttempt ==
  ASSUME RowInv, NEW t \in Task, head[t].state # "NONE"
  PROVE  head[t].attempt \in Attempt /\ head[t].attempt \in 1..head[t].attempt
<1>1. head[t].attempt \in 0..MaxAttempts /\ head[t].attempt # 0
  BY DEF RowInv, RowTypeOK, HeadRow, LeasesNumbered
<1> QED BY <1>1, SupervisorAssumption DEF Attempt

\* Recording events touches the log of one attempt and the head of its task.
LEMMA RecordRows ==
  ASSUME RowTypeOK, NEW t \in Task, NEW a \in Attempt, NEW new \in Seq(EventRow),
         NEW state \in Open \cup Ended, Record(t, a, new, state)
  PROVE  /\ events' \in [Task -> [Attempt -> Seq(EventRow)]]
         /\ events'[t][a] = events[t][a] \o new
         /\ \A v \in Task : \A b \in Attempt : v # t \/ b # a => events'[v][b] = events[v][b]
         /\ head' \in [Task -> HeadRow]
         /\ head'[t].attempt = a /\ head'[t].state = state
         /\ \A v \in Task : v # t => head'[v] = head[v]
<1>1. events[t][a] \o new \in Seq(EventRow)
  BY DEF RowTypeOK
<1>2. /\ events' = [events EXCEPT ![t][a] = events[t][a] \o new]
      /\ head' = [head EXCEPT ![t] =
                    [attempt |-> a, version |-> Len(events'[t][a]), state |-> state]]
  BY DEF Record
<1>3. /\ events' \in [Task -> [Attempt -> Seq(EventRow)]]
      /\ events'[t][a] = events[t][a] \o new
      /\ \A v \in Task : \A b \in Attempt : v # t \/ b # a => events'[v][b] = events[v][b]
  BY <1>1, <1>2 DEF RowTypeOK
<1>4. Len(events'[t][a]) \in Nat
  BY <1>1, <1>3
<1>5. [attempt |-> a, version |-> Len(events'[t][a]), state |-> state] \in HeadRow
  BY <1>4, SupervisorAssumption DEF HeadRow, Attempt
<1> QED BY <1>2, <1>3, <1>5 DEF RowTypeOK

\* What may be recorded about the open attempt a of task t, whose promises then
\* end at x.
RecordOK(t, a, new, state, x) ==
  /\ new # <<>>
  /\ PromisedUpTo(events[t][a] \o new, x)
  /\ state = "ACTIVE" => \A i \in 1..Len(events[t][a] \o new) :
                           (events[t][a] \o new)[i].expires # -1
  /\ state = "COMPLETED" => new[Len(new)].kind = "COMPLETED" /\ new[Len(new)].at < x
  /\ state = "RETRY_SCHEDULED" => a < MaxAttempts /\ x + RetryDelay <= eligible'[t]

\* What recording it changes.
Recorded(t, a, new, state, x) ==
  /\ EffectiveExpiry(t, a)' = x
  /\ events'[t][a] = events[t][a] \o new
  /\ head'[t].attempt = a /\ head'[t].state = state
  /\ \A v \in Task : v # t => head'[v] = head[v]
  /\ \A v \in Task : \A b \in Attempt : v # t \/ b # a =>
       /\ events'[v][b] = events[v][b]
       /\ EffectiveExpiry(v, b)' = EffectiveExpiry(v, b)

\* Recording it keeps the rows together.
LEMMA RecordStep ==
  ASSUME RowInv, NEW t \in Task, head[t].state \in Open, NEW a, a = head[t].attempt,
         NEW new \in Seq(EventRow), NEW state \in Open \cup Ended, NEW x \in Nat,
         Record(t, a, new, state), RecordOK(t, a, new, state, x),
         UNCHANGED <<lease, idem>>,
         result' = IF state = "COMPLETED" THEN [result EXCEPT ![t] = {a}] ELSE result,
         eligible' \in [Task -> Nat \cup {-1}],
         \A v \in Task : v # t => eligible'[v] = eligible[v]
  PROVE  /\ RowInv'
         /\ Recorded(t, a, new, state, x)
<1> USE DEF RowInv
<1>0. /\ a \in Attempt /\ a \in 1..head[t].attempt
      /\ \A v \in Task : head[v].attempt \in 0..MaxAttempts
  BY HeadAttempt DEF Open, RowTypeOK, HeadRow
<1>1. /\ events' \in [Task -> [Attempt -> Seq(EventRow)]]
      /\ events'[t][a] = events[t][a] \o new
      /\ \A v \in Task : \A b \in Attempt : v # t \/ b # a => events'[v][b] = events[v][b]
      /\ head' \in [Task -> HeadRow]
      /\ head'[t].attempt = a /\ head'[t].state = state
      /\ \A v \in Task : v # t => head'[v] = head[v]
  BY <1>0, RecordRows
<1>2. EffectiveExpiry(t, a)' = x
  <2>1. events'[t][a] \in Seq(EventRow) /\ PromisedUpTo(events'[t][a], x)
    BY <1>0, <1>1 DEF RecordOK
  <2> QED BY <2>1, ExpiryIsPromise, ExpiryOfRows
<1>3. ASSUME NEW v \in Task, NEW b \in Attempt, v # t \/ b # a
      PROVE  EffectiveExpiry(v, b)' = EffectiveExpiry(v, b)
  BY <1>1, <1>3, ExpiryOfRows
<1>4. \A v \in Task : head'[v].attempt = head[v].attempt
  BY <1>1
<1>5. \A v \in Task : \A b \in 1..head[v].attempt : b \in Attempt /\ (b > 1 => b - 1 \in Attempt)
  BY <1>0, SupervisorAssumption DEF Attempt
<1>6. RowTypeOK'
  BY <1>0, <1>1 DEF RowTypeOK
<1>7. LeasesNumbered'
  <2>1. state # "NONE" /\ head[t].state # "NONE"
    BY DEF Open, Ended
  <2>2. \A v \in Task : head'[v].state = "NONE" <=> head[v].state = "NONE"
    BY <1>1, <2>1
  <2>3. \A b \in Attempt : b > head[t].attempt => b # a
    BY <1>0 DEF Attempt
  <2>4. \A v \in Task : \A b \in Attempt : b > head[v].attempt => events'[v][b] = events[v][b]
    BY <1>1, <2>3
  <2> QED BY <1>4, <2>2, <2>4 DEF LeasesNumbered
<1>8. ResultIsLast'
  <2> SUFFICES ASSUME NEW v \in Task, NEW b, b = head[v].attempt
               PROVE  /\ result'[v] = IF head'[v].state = "COMPLETED" THEN {b} ELSE {}
                      /\ head'[v].state = "COMPLETED" =>
                           /\ events'[v][b][Len(events'[v][b])].kind = "COMPLETED"
                           /\ events'[v][b][Len(events'[v][b])].at < EffectiveExpiry(v, b)'
    BY <1>4 DEF ResultIsLast
  <2>1. CASE v = t
    <3>1. result[t] = {}
      BY DEF ResultIsLast, Open
    <3>2. result'[t] = IF state = "COMPLETED" THEN {a} ELSE {}
      BY <3>1 DEF RowTypeOK
    <3>3. ASSUME state = "COMPLETED"
          PROVE  /\ events'[t][a][Len(events'[t][a])].kind = "COMPLETED"
                 /\ events'[t][a][Len(events'[t][a])].at < x
      <4>1. events[t][a] \in Seq(EventRow) /\ new # <<>>
        BY <1>0 DEF RowTypeOK, RecordOK
      <4>2. events'[t][a][Len(events'[t][a])] = new[Len(new)]
        BY <1>1, <4>1, LastOfLog
      <4> QED BY <3>3, <4>2 DEF RecordOK
    <3> QED BY <1>1, <1>2, <2>1, <3>2, <3>3
  <2>2. CASE v # t
    <3>1. result'[v] = result[v] /\ head'[v] = head[v]
      BY <1>1, <2>2 DEF RowTypeOK
    <3>2. ASSUME head[v].state = "COMPLETED"
          PROVE  /\ events'[v][b] = events[v][b]
                 /\ EffectiveExpiry(v, b)' = EffectiveExpiry(v, b)
      <4>1. b \in Attempt
        BY <3>2, HeadAttempt
      <4> QED BY <1>1, <1>3, <2>2, <4>1
    <3> QED BY <3>1, <3>2 DEF ResultIsLast
  <2> QED BY <2>1, <2>2
<1>9. ExpiryIsLatest'
  <2> SUFFICES ASSUME NEW v \in Task, NEW b \in 1..head[v].attempt
               PROVE  /\ EffectiveExpiry(v, b)' \in Nat
                      /\ PromisedUpTo(events'[v][b], EffectiveExpiry(v, b)')
                      /\ HeadIs(v, b, "ACTIVE")' =>
                           \A i \in 1..Len(events'[v][b]) : events'[v][b][i].expires # -1
    BY <1>4, SMTT(20) DEF ExpiryIsLatest, PromisedUpTo
  <2>1. CASE v = t /\ b = a
    BY <1>1, <1>2, <2>1 DEF RecordOK, HeadIs
  <2>2. CASE v # t \/ b # a
    <3>1. b \in Attempt
      BY <1>5
    <3>2. events'[v][b] = events[v][b] /\ EffectiveExpiry(v, b)' = EffectiveExpiry(v, b)
      BY <1>1, <1>3, <2>2, <3>1
    <3>3. HeadIs(v, b, "ACTIVE")' => HeadIs(v, b, "ACTIVE")
      BY <1>1, <2>2 DEF HeadIs
    <3> QED BY <3>2, <3>3 DEF ExpiryIsLatest
  <2> QED BY <2>1, <2>2
<1>10. RetryIsDue'
  <2>1. ASSUME NEW v \in Task, head'[v].state = "RETRY_SCHEDULED"
        PROVE  /\ head'[v].attempt < MaxAttempts
               /\ EffectiveExpiry(v, head[v].attempt)' + RetryDelay <= eligible'[v]
    <3>1. CASE v = t
      BY <1>1, <1>2, <2>1, <3>1 DEF RecordOK
    <3>2. CASE v # t
      <4>1. head'[v] = head[v] /\ head[v].attempt \in Attempt
        BY <1>1, <2>1, <3>2, HeadAttempt
      <4> QED BY <1>3, <2>1, <3>2, <4>1 DEF RetryIsDue
    <3> QED BY <3>1, <3>2, SMTT(20)
  <2>2. ASSUME NEW v \in Task, NEW b \in 1..head[v].attempt, b > 1
        PROVE  EffectiveExpiry(v, b - 1)' + RetryDelay <= lease'[v][b].acquired
    <3>1. b - 1 \in Attempt /\ (v = t => b - 1 # a)
      BY <1>0, <1>5, <2>2
    <3>2. EffectiveExpiry(v, b - 1)' = EffectiveExpiry(v, b - 1)
      BY <1>3, <3>1, SMTT(20)
    <3> QED BY <2>2, <3>2 DEF RetryIsDue
  <2> QED BY <1>4, <2>1, <2>2 DEF RetryIsDue
<1> QED BY <1>1, <1>2, <1>3, <1>6, <1>7, <1>8, <1>9, <1>10 DEF Recorded

\* The files that what is recorded about attempt a calls for.
FilesOK(t, a, kind, state) ==
  /\ state = "ACTIVE" => ~moved[t][a]
  /\ state = "COMPLETED" =>
       terminal[t][a] = "COMMITTED" /\ dir[t][a] = "complete" /\ ~moved[t][a]
  /\ kind = "RETRY_DECIDED" => terminal[t][a] = "LEASE_EXPIRED" /\ moved[t][a]
  /\ kind = "CANCELLED" => terminal[t][a] = "CANCELLED" /\ moved[t][a]

\* Where they are in place, recording keeps rows, files and runners together.
LEMMA RecordInv ==
  ASSUME SupervisorInv, NEW t \in Task, head[t].state \in Open, NEW a, a = head[t].attempt,
         NEW new \in Seq(EventRow), NEW state \in Open \cup Ended, NEW x \in Nat,
         Record(t, a, new, state), RecordOK(t, a, new, state, x),
         FilesOK(t, a, new[Len(new)].kind, state),
         UNCHANGED <<lease, idem, fsVars, now>>,
         result' = IF state = "COMPLETED" THEN [result EXCEPT ![t] = {a}] ELSE result,
         eligible' \in [Task -> Nat \cup {-1}],
         \A v \in Task : v # t => eligible'[v] = eligible[v],
         txn' = NoTxn, ProcessTypeOK',
         \A w \in Runner : runner'[w] = runner[w] \/ runner'[w] = Idle
  PROVE  SupervisorInv'
<1> USE DEF SupervisorInv
<1>0. /\ a \in Attempt /\ a \in 1..head[t].attempt /\ RowTypeOK
      /\ \A v \in Task : head[v].attempt \in 0..MaxAttempts
  BY HeadAttempt DEF Open, RowInv, RowTypeOK, HeadRow
<1>1. /\ RowInv'
      /\ EffectiveExpiry(t, a)' = x
      /\ \A v \in Task : \A b \in Attempt : v # t \/ b # a =>
           EffectiveExpiry(v, b)' = EffectiveExpiry(v, b)
      /\ events'[t][a] = events[t][a] \o new
      /\ \A v \in Task : \A b \in Attempt : v # t \/ b # a => events'[v][b] = events[v][b]
      /\ head'[t].attempt = a /\ head'[t].state = state
      /\ \A v \in Task : v # t => head'[v] = head[v]
  <2>1. RowInv' /\ Recorded(t, a, new, state, x)
    BY RecordStep
  <2> QED BY <2>1 DEF Recorded
<1>3. \A v \in Task : head'[v].attempt = head[v].attempt
  BY <1>1
<1>4. dir' = dir /\ moved' = moved /\ terminal' = terminal /\ now' = now
  BY DEF fsVars
<1>5. FileTypeOK' /\ FilesFollowMove'
  BY <1>3, <1>4 DEF FileTypeOK, FilesFollowMove
<1>6. RunnersHoldLeases'
  <2> SUFFICES ASSUME NEW w \in Runner, runner'[w] # Idle
               PROVE  /\ runner'[w].attempt <= head'[runner'[w].task].attempt
                      /\ runner'[w].at \in {"committed", "completing"} =>
                           terminal'[runner'[w].task][runner'[w].attempt] = "COMMITTED"
                      /\ runner'[w].clock <= now'
    BY DEF RunnersHoldLeases
  <2>1. runner'[w] = runner[w] /\ runner[w] # Idle
    OBVIOUS
  <2>2. runner[w].task \in Task
    BY <2>1 DEF ProcessTypeOK, Busy
  <2> QED BY <1>3, <1>4, <2>1, <2>2 DEF RunnersHoldLeases
<1>7. TxnIsCurrent'
  BY DEF TxnIsCurrent
<1>8. TakenIsLate'
  <2> SUFFICES ASSUME NEW v \in Task, NEW b \in Attempt, HeadIs(v, b, "ACTIVE")', Taken(v, b)'
               PROVE  /\ EffectiveExpiry(v, b)' <= now
                      /\ \A w \in Runner :
                           /\ runner'[w].at = "completing" /\ runner'[w].task = v
                           /\ runner'[w].attempt = b
                           => EffectiveExpiry(v, b)' <= runner'[w].clock
    BY <1>4 DEF TakenIsLate
  <2>1. moved[v][b]
    BY <1>4 DEF Taken
  <2>2. v # t
    <3>1. v = t => b = a /\ state = "ACTIVE"
      BY <1>1 DEF HeadIs
    <3> QED BY <2>1, <3>1 DEF FilesOK
  <2>3. HeadIs(v, b, "ACTIVE") /\ EffectiveExpiry(v, b)' = EffectiveExpiry(v, b)
    BY <1>1, <2>2 DEF HeadIs
  <2>4. /\ EffectiveExpiry(v, b) <= now
        /\ \A w \in Runner :
             runner[w].at = "completing" /\ runner[w].task = v /\ runner[w].attempt = b =>
               EffectiveExpiry(v, b) <= runner[w].clock
    BY <2>1, <2>3 DEF TakenIsLate, Taken
  <2>5. \A w \in Runner : runner'[w].at = "completing" => runner'[w] = runner[w]
    BY DEF Idle
  <2> QED BY <2>3, <2>4, <2>5
<1>9. EndsAgree'
  <2> SUFFICES ASSUME NEW v \in Task, NEW b \in 1..head[v].attempt PROVE EndAgrees(v, b)'
    BY <1>3 DEF EndsAgree
  <2>0. b \in Attempt
    BY <1>0, SupervisorAssumption DEF Attempt
  <2>1. CASE v = t /\ b = a
    <3>1. events'[v][b][Len(events'[v][b])] = new[Len(new)]
      <4>1. events[t][a] \in Seq(EventRow) /\ new # <<>>
        BY <1>0, SMTT(20) DEF RowTypeOK, RecordOK
      <4>2. events'[v][b] = events[t][a] \o new
        BY <1>1, <2>1
      <4>3. (events[t][a] \o new)[Len(events[t][a] \o new)] = new[Len(new)]
        BY <4>1, LastOfLog
      <4> QED BY <4>2, <4>3
    <3>2. b \in result'[v] => state = "COMPLETED"
      BY <2>1 DEF RowInv, ResultIsLast, Open
    <3> QED BY <1>4, <2>1, <3>1, <3>2, SMTT(20) DEF FilesOK, EndAgrees
  <2>2. CASE v # t \/ b # a
    <3>1. events'[v][b] = events[v][b]
      BY <1>1, <2>0, <2>2
    <3>2. b \in result'[v] => b \in result[v]
      BY <1>0, <2>2 DEF RowTypeOK
    <3>3. EndAgrees(v, b)
      BY DEF EndsAgree
    <3> QED BY <1>4, <3>1, <3>2, <3>3 DEF EndAgrees
  <2> QED BY <2>1, <2>2
<1> QED BY <1>1, <1>5, <1>6, <1>7, <1>8, <1>9

-----------------------------------------------------------------------------
(* The operations that record an event.                                    *)

\* The open attempt of a task, its log and its promise.
LEMMA OpenAttempt ==
  ASSUME SupervisorInv, NEW t \in Task, head[t].state \in Open, NEW a, a = head[t].attempt
  PROVE  /\ a \in Attempt
         /\ events[t][a] \in Seq(EventRow)
         /\ EffectiveExpiry(t, a) \in Nat
         /\ PromisedUpTo(events[t][a], EffectiveExpiry(t, a))
         /\ head[t].state = "ACTIVE" =>
              \A i \in 1..Len(events[t][a]) : events[t][a][i].expires # -1
<1>1. a \in Attempt /\ a \in 1..head[t].attempt
  BY HeadAttempt DEF SupervisorInv, Open
<1> QED BY <1>1 DEF SupervisorInv, RowInv, RowTypeOK, ExpiryIsLatest, HeadIs

\* heartbeat prolongs the lease of an attempt nobody has taken.
LEMMA HeartbeatStep ==
  ASSUME SupervisorInv, NEW w \in Runner, Heartbeat(w)
  PROVE  SupervisorInv'
<1> USE DEF SupervisorInv
<1> DEFINE t == runner[w].task
           a == runner[w].attempt
           x == IF now + Extension > EffectiveExpiry(t, a) THEN now + Extension
                ELSE EffectiveExpiry(t, a)
           e == Event("HEARTBEAT", x, now)
<1>1. /\ runner[w].at = "working" /\ txn = NoTxn
      /\ HeadIs(t, a, "ACTIVE") /\ now < EffectiveExpiry(t, a)
      /\ Record(t, a, <<e>>, "ACTIVE")
      /\ UNCHANGED <<now, lease, eligible, result, idem, fsVars, txn, runner, cancels, crashes>>
  BY DEF Heartbeat
<1>2. t \in Task /\ now \in Nat
  BY <1>1 DEF ProcessTypeOK, Busy, Idle
<1>3. head[t].state = "ACTIVE" /\ head[t].state \in Open /\ a = head[t].attempt
  BY <1>1 DEF HeadIs, Open
<1> HIDE DEF t, a
<1>4. /\ a \in Attempt /\ events[t][a] \in Seq(EventRow)
      /\ EffectiveExpiry(t, a) \in Nat
      /\ PromisedUpTo(events[t][a], EffectiveExpiry(t, a))
      /\ \A i \in 1..Len(events[t][a]) : events[t][a][i].expires # -1
  BY <1>2, <1>3, OpenAttempt
<1>5. x \in Nat /\ x >= EffectiveExpiry(t, a) /\ x # -1
  BY <1>2, <1>4, SupervisorAssumption
<1> HIDE DEF x
<1>6. e \in EventRow /\ e.expires = x /\ e.kind = "HEARTBEAT"
  BY <1>2, <1>5 DEF Event, EventRow
<1> HIDE DEF e
<1>7. /\ PromisedUpTo(events[t][a] \o <<e>>, x)
      /\ \A i \in 1..Len(events[t][a] \o <<e>>) : (events[t][a] \o <<e>>)[i].expires # -1
  BY <1>4, <1>5, <1>6, ProlongingEvent
<1>8. <<e>> \in Seq(EventRow) /\ <<e>> # <<>> /\ <<e>>[Len(<<e>>)] = e
  BY <1>6
<1>9. RecordOK(t, a, <<e>>, "ACTIVE", x)
  BY <1>7, <1>8 DEF RecordOK
<1>10. FilesOK(t, a, <<e>>[Len(<<e>>)].kind, "ACTIVE")
  <2>1. ~moved[t][a]
    BY <1>1, <1>2, <1>4 DEF TakenIsLate, Taken
  <2> QED BY <1>6, <1>8, <2>1 DEF FilesOK
<1>11. ProcessTypeOK' /\ eligible' \in [Task -> Nat \cup {-1}]
  BY <1>1 DEF ProcessTypeOK, RowInv, RowTypeOK
<1>12. "ACTIVE" \in Open \cup Ended
  BY DEF Open
<1> QED BY <1>1, <1>2, <1>3, <1>5, <1>8, <1>9, <1>10, <1>11, <1>12, RecordInv

\* complete accepts the result of a workspace nobody has taken.
LEMMA CompleteStep ==
  ASSUME SupervisorInv, NEW w \in Runner, Complete(w)
  PROVE  SupervisorInv'
<1> USE DEF SupervisorInv
<1> DEFINE t == runner[w].task
           a == runner[w].attempt
           c == runner[w].clock
           x == EffectiveExpiry(t, a)
           e == Event("COMPLETED", -1, c)
<1>1. /\ runner[w].at = "completing" /\ txn = NoTxn
      /\ HeadIs(t, a, "ACTIVE") /\ c < x
      /\ result' = [result EXCEPT ![t] = @ \cup {a}]
      /\ Record(t, a, <<e>>, "COMPLETED")
      /\ runner' = [runner EXCEPT ![w] = Idle]
      /\ UNCHANGED <<now, lease, eligible, idem, fsVars, txn, cancels, crashes>>
  BY DEF Complete, LeaseHolds, Fail
<1>2. t \in Task /\ c \in Nat /\ runner[w] # Idle
  BY <1>1 DEF ProcessTypeOK, Busy, Idle
<1>3. head[t].state = "ACTIVE" /\ head[t].state \in Open /\ a = head[t].attempt
  BY <1>1 DEF HeadIs, Open
<1>4. terminal[t][a] = "COMMITTED"
  BY <1>1, <1>2 DEF RunnersHoldLeases
<1>5. a \in Attempt /\ events[t][a] \in Seq(EventRow) /\ x \in Nat /\ PromisedUpTo(events[t][a], x)
  BY <1>2, <1>3, OpenAttempt
<1>6. ~moved[t][a] /\ dir[t][a] = "complete"
  <2>1. ~moved[t][a]
    <3> SUFFICES ASSUME moved[t][a] PROVE x <= c
      BY <1>1, <1>2, <1>5
    <3> QED BY <1>1, <1>2, <1>5 DEF TakenIsLate, Taken
  <2>2. a <= head[t].attempt
    BY <1>3, <1>5, SupervisorAssumption DEF Attempt
  <2> QED BY <1>2, <1>5, <2>1, <2>2 DEF FilesFollowMove
<1> HIDE DEF t, a, x
<1>7. e \in EventRow /\ e.expires = -1 /\ e.kind = "COMPLETED" /\ e.at = c
  BY <1>2 DEF Event, EventRow
<1> HIDE DEF e, c
<1>8. /\ <<e>> \in Seq(EventRow) /\ <<e>> # <<>> /\ Len(<<e>>) = 1 /\ <<e>>[1] = e
      /\ \A i \in 1..Len(<<e>>) : <<e>>[i] = e
  BY <1>7
<1>9. PromisedUpTo(events[t][a] \o <<e>>, x)
  <2>1. \A i \in 1..Len(<<e>>) :
          <<e>>[i].expires = -1 /\ (<<e>>[i].kind = "EXPIRED" => <<e>>[i].at >= x)
    BY <1>7, <1>8
  <2> QED BY <1>5, <1>8, <2>1, SilentEvents
<1>10. RecordOK(t, a, <<e>>, "COMPLETED", x)
  BY <1>1, <1>7, <1>8, <1>9 DEF RecordOK
<1>11. FilesOK(t, a, <<e>>[Len(<<e>>)].kind, "COMPLETED")
  BY <1>4, <1>6, <1>7, <1>8 DEF FilesOK
<1>12. result' = [result EXCEPT ![t] = {a}]
  <2>1. result[t] = {}
    BY <1>2, <1>3 DEF RowInv, ResultIsLast
  <2> QED BY <1>1, <2>1
<1>13. ProcessTypeOK' /\ eligible' \in [Task -> Nat \cup {-1}]
  BY <1>1 DEF ProcessTypeOK, RowInv, RowTypeOK
<1>14. \A v \in Runner : runner'[v] = runner[v] \/ runner'[v] = Idle
  BY <1>1 DEF ProcessTypeOK
<1>15. "COMPLETED" \in Open \cup Ended
  BY DEF Ended
<1> QED BY <1>1, <1>2, <1>3, <1>5, <1>8, <1>10, <1>11, <1>12, <1>13, <1>14, <1>15, RecordInv

\* An event that names no expiry, recorded about an open attempt.
LEMMA SilentRecord ==
  ASSUME SupervisorInv, NEW t \in Task, head[t].state \in Open, NEW a, a = head[t].attempt,
         NEW new \in Seq(EventRow), new # <<>>, NEW state \in {"CANCEL_REQUESTED"} \cup Ended,
         \A i \in 1..Len(new) : new[i].expires = -1 /\
           (new[i].kind = "EXPIRED" => new[i].at >= EffectiveExpiry(t, a)),
         state # "COMPLETED",
         state = "RETRY_SCHEDULED" =>
           a < MaxAttempts /\ EffectiveExpiry(t, a) + RetryDelay <= eligible'[t]
  PROVE  EffectiveExpiry(t, a) \in Nat /\ RecordOK(t, a, new, state, EffectiveExpiry(t, a))
<1>1. /\ events[t][a] \in Seq(EventRow) /\ EffectiveExpiry(t, a) \in Nat
      /\ PromisedUpTo(events[t][a], EffectiveExpiry(t, a))
  BY OpenAttempt
<1>2. PromisedUpTo(events[t][a] \o new, EffectiveExpiry(t, a))
  BY <1>1, SilentEvents
<1>3. state # "ACTIVE"
  BY DEF Ended
<1> QED BY <1>1, <1>2, <1>3 DEF RecordOK

\* A log of one event.
LEMMA OneEvent ==
  ASSUME NEW e \in EventRow
  PROVE  /\ <<e>> \in Seq(EventRow) /\ <<e>> # <<>> /\ <<e>>[Len(<<e>>)] = e
         /\ \A i \in 1..Len(<<e>>) : <<e>>[i] = e
OBVIOUS

\* A log of two events.
LEMMA TwoEvents ==
  ASSUME NEW e \in EventRow, NEW f \in EventRow
  PROVE  /\ <<e, f>> \in Seq(EventRow) /\ <<e, f>> # <<>> /\ <<e, f>>[Len(<<e, f>>)] = f
         /\ \A i \in 1..Len(<<e, f>>) : <<e, f>>[i] \in {e, f}
OBVIOUS

\* request_cancel
LEMMA RequestCancelStep ==
  ASSUME SupervisorInv, NEW t \in Task, RequestCancel(t)
  PROVE  SupervisorInv'
<1> USE DEF SupervisorInv
<1> DEFINE e == Event("CANCEL_REQUESTED", -1, now)
<1>0. PICK a : a = head[t].attempt
  OBVIOUS
<1>1. /\ head[t].state = "ACTIVE" /\ txn = NoTxn
      /\ Record(t, a, <<e>>, "CANCEL_REQUESTED") /\ cancels' = cancels + 1
      /\ UNCHANGED <<now, lease, eligible, result, idem, fsVars, txn, runner, crashes>>
  BY <1>0 DEF RequestCancel
<1>2. e \in EventRow /\ e.expires = -1 /\ e.kind = "CANCEL_REQUESTED"
  BY DEF Event, EventRow, ProcessTypeOK
<1> HIDE DEF e
<1>3. /\ <<e>> \in Seq(EventRow) /\ <<e>> # <<>> /\ <<e>>[Len(<<e>>)] = e
      /\ \A i \in 1..Len(<<e>>) : <<e>>[i] = e
  BY <1>2, OneEvent
<1>4. head[t].state \in Open /\ "CANCEL_REQUESTED" \in Open \cup Ended
  BY <1>1 DEF Open
<1>5. /\ EffectiveExpiry(t, a) \in Nat
      /\ RecordOK(t, a, <<e>>, "CANCEL_REQUESTED", EffectiveExpiry(t, a))
  <2>1. \A i \in 1..Len(<<e>>) : <<e>>[i].expires = -1 /\
          (<<e>>[i].kind = "EXPIRED" => <<e>>[i].at >= EffectiveExpiry(t, a))
    BY <1>2, <1>3
  <2> QED BY <1>0, <1>3, <1>4, <2>1, SilentRecord
<1>6. FilesOK(t, a, <<e>>[Len(<<e>>)].kind, "CANCEL_REQUESTED")
  BY <1>2, <1>3 DEF FilesOK
<1>7. ProcessTypeOK' /\ eligible' \in [Task -> Nat \cup {-1}]
  BY <1>1 DEF ProcessTypeOK, RowInv, RowTypeOK
<1> QED BY <1>0, <1>1, <1>3, <1>4, <1>5, <1>6, <1>7, RecordInv

\* The transaction about to decide, and what it knows.
LEMMA DecidingTxn ==
  ASSUME SupervisorInv, txn.step = "decide"
  PROVE  /\ txn \in Txn /\ txn.task \in Task /\ txn.at \in Nat
         /\ head[txn.task].state \in Open /\ txn.attempt = head[txn.task].attempt
         /\ moved[txn.task][txn.attempt] /\ terminal[txn.task][txn.attempt] = txn.reason
<1>1. txn # NoTxn /\ txn \in Txn
  BY DEF SupervisorInv, ProcessTypeOK, NoTxn
<1>2. txn.reason \in {"LEASE_EXPIRED", "CANCELLED"} /\ txn.task \in Task /\ txn.at \in Nat
  BY <1>1 DEF Txn
<1> QED BY <1>1, <1>2 DEF SupervisorInv, TxnIsCurrent, Open

\* expire ends the attempt and schedules the next one, or gives up.
LEMMA DecideExpiryStep ==
  ASSUME SupervisorInv, DecideExpiry
  PROVE  SupervisorInv'
<1> USE DEF SupervisorInv
<1>0. PICK t, a : t = txn.task /\ a = txn.attempt
  OBVIOUS
<1> DEFINE e == Event("EXPIRED", -1, txn.at)
           f == Event("RETRY_DECIDED", -1, txn.at)
           state == IF Retryable(a) THEN "RETRY_SCHEDULED" ELSE "EXHAUSTED"
           x == EffectiveExpiry(t, a)
<1>1. /\ txn.step = "decide" /\ txn.reason = "LEASE_EXPIRED"
      /\ Record(t, a, <<e, f>>, state)
      /\ eligible' = [eligible EXCEPT ![t] = IF Retryable(a) THEN txn.at + RetryDelay ELSE @]
      /\ txn' = NoTxn
      /\ UNCHANGED <<now, lease, result, idem, fsVars, runner, cancels, crashes>>
  BY <1>0 DEF DecideExpiry
<1>2. /\ txn \in Txn /\ t \in Task /\ txn.at \in Nat
      /\ head[t].state \in Open /\ a = head[t].attempt
      /\ moved[t][a] /\ terminal[t][a] = "LEASE_EXPIRED"
  BY <1>0, <1>1, DecidingTxn
<1>3. x <= txn.at
  BY <1>0, <1>1 DEF TxnIsCurrent, NoTxn
<1>4. /\ e \in EventRow /\ e.expires = -1 /\ e.kind = "EXPIRED" /\ e.at = txn.at
      /\ f \in EventRow /\ f.expires = -1 /\ f.kind = "RETRY_DECIDED"
  BY <1>2 DEF Event, EventRow
<1> HIDE DEF e, f, x
<1>5. /\ <<e, f>> \in Seq(EventRow) /\ <<e, f>> # <<>> /\ <<e, f>>[Len(<<e, f>>)] = f
      /\ \A i \in 1..Len(<<e, f>>) : <<e, f>>[i] \in {e, f}
  BY <1>4, TwoEvents
<1>6. /\ state \in Ended /\ state # "COMPLETED"
      /\ state = "RETRY_SCHEDULED" => a < MaxAttempts /\ Retryable(a)
  BY DEF Ended, Retryable
<1>7. x \in Nat
  BY <1>2, OpenAttempt DEF x
<1>8. /\ eligible' \in [Task -> Nat \cup {-1}]
      /\ \A v \in Task : v # t => eligible'[v] = eligible[v]
      /\ Retryable(a) => x + RetryDelay <= eligible'[t]
  <2>1. txn.at + RetryDelay \in Nat /\ x + RetryDelay <= txn.at + RetryDelay
    BY <1>2, <1>3, <1>7, SupervisorAssumption
  <2> QED BY <1>1, <1>2, <2>1 DEF RowInv, RowTypeOK
<1> HIDE DEF state
<1>9. RecordOK(t, a, <<e, f>>, state, x)
  <2>1. \A i \in 1..Len(<<e, f>>) : <<e, f>>[i].expires = -1 /\
          (<<e, f>>[i].kind = "EXPIRED" => <<e, f>>[i].at >= x)
    <3>1. txn.at >= x
      BY <1>2, <1>3, <1>7
    <3> QED BY <1>4, <1>5, <3>1
  <2> QED BY <1>2, <1>5, <1>6, <1>8, <2>1, SilentRecord DEF x
<1>10. FilesOK(t, a, <<e, f>>[Len(<<e, f>>)].kind, state)
  BY <1>2, <1>4, <1>5, <1>6 DEF FilesOK, Ended
<1>11. ProcessTypeOK'
  BY <1>1 DEF ProcessTypeOK
<1> QED BY <1>1, <1>2, <1>5, <1>6, <1>7, <1>8, <1>9, <1>10, <1>11, RecordInv

\* acknowledge_cancel ends the attempt for good.
LEMMA DecideCancelStep ==
  ASSUME SupervisorInv, DecideCancel
  PROVE  SupervisorInv'
<1> USE DEF SupervisorInv
<1>0. PICK t, a : t = txn.task /\ a = txn.attempt
  OBVIOUS
<1> DEFINE e == Event("CANCELLED", -1, now)
<1>1. /\ txn.step = "decide" /\ txn.reason = "CANCELLED"
      /\ Record(t, a, <<e>>, "CANCELLED")
      /\ txn' = NoTxn
      /\ UNCHANGED <<now, lease, eligible, result, idem, fsVars, runner, cancels, crashes>>
  BY <1>0 DEF DecideCancel
<1>2. /\ t \in Task /\ head[t].state \in Open /\ a = head[t].attempt
      /\ moved[t][a] /\ terminal[t][a] = "CANCELLED"
  BY <1>0, <1>1, DecidingTxn
<1>3. e \in EventRow /\ e.expires = -1 /\ e.kind = "CANCELLED"
  BY DEF Event, EventRow, ProcessTypeOK
<1> HIDE DEF e
<1>4. /\ <<e>> \in Seq(EventRow) /\ <<e>> # <<>> /\ <<e>>[Len(<<e>>)] = e
      /\ \A i \in 1..Len(<<e>>) : <<e>>[i] = e
  BY <1>3, OneEvent
<1>5. /\ EffectiveExpiry(t, a) \in Nat
      /\ RecordOK(t, a, <<e>>, "CANCELLED", EffectiveExpiry(t, a))
  <2>1. \A i \in 1..Len(<<e>>) : <<e>>[i].expires = -1 /\
          (<<e>>[i].kind = "EXPIRED" => <<e>>[i].at >= EffectiveExpiry(t, a))
    BY <1>3, <1>4
  <2> QED BY <1>2, <1>4, <2>1, SilentRecord DEF Ended
<1>6. FilesOK(t, a, <<e>>[Len(<<e>>)].kind, "CANCELLED")
  BY <1>2, <1>3, <1>4 DEF FilesOK
<1>7. ProcessTypeOK' /\ eligible' \in [Task -> Nat \cup {-1}] /\ "CANCELLED" \in Open \cup Ended
  BY <1>1 DEF ProcessTypeOK, RowInv, RowTypeOK, Ended
<1> QED BY <1>1, <1>2, <1>4, <1>5, <1>6, <1>7, RecordInv

\* acquire leases the attempt after the last one, when a retry is due.
LEMMA AcquireStep ==
  ASSUME SupervisorInv, NEW w \in Runner, NEW t \in Task, NEW k \in Key, NEW c \in 0..now,
         Acquire(w, t, k, c)
  PROVE  SupervisorInv'
<1> USE DEF SupervisorInv
<1>0. PICK a : a = LastAttempt(t) + 1
  OBVIOUS
<1> DEFINE e == Event("ACQUIRED", c + Duration, c)
           l == [acquired |-> c, expires |-> c + Duration]
           r == [at |-> "leased", task |-> t, attempt |-> a, clock |-> 0]
<1>1. /\ txn = NoTxn /\ AcquireAllowed(t, c)
      /\ terminal[t][a] = "NONE"
      /\ dir' = [dir EXCEPT ![t][a] = "complete"]
      /\ lease' = [lease EXCEPT ![t][a] = l]
      /\ Record(t, a, <<e>>, "ACTIVE")
      /\ idem' = [idem EXCEPT ![t][k] = a]
      /\ runner' = [runner EXCEPT ![w] = r]
      /\ UNCHANGED <<now, eligible, result, moved, terminal, txn, cancels, crashes>>
  BY <1>0 DEF Acquire, MayAcquire, Lease
<1>2. /\ RowTypeOK /\ c \in Nat /\ now \in Nat
      /\ \A v \in Task : head[v].attempt \in 0..MaxAttempts
  BY DEF RowInv, RowTypeOK, HeadRow, ProcessTypeOK
<1>3. /\ a = head[t].attempt + 1 /\ a \in Attempt /\ a \in Nat \ {0}
      /\ result[t] = {}
      /\ head[t].state \in {"NONE", "RETRY_SCHEDULED"}
      /\ head[t].state = "RETRY_SCHEDULED" => c >= eligible[t]
  BY <1>0, <1>1, <1>2, LastIsHead, SupervisorAssumption DEF AcquireAllowed, HasResult, Attempt
<1>4. /\ l \in LeaseRow /\ l # NoLease /\ l.acquired = c /\ r \in Busy
      /\ e \in EventRow /\ e.expires = c + Duration /\ e.kind = "ACQUIRED"
      /\ c + Duration \in Nat
  BY <1>2, <1>3, SupervisorAssumption DEF LeaseRow, NoLease, Busy, Event, EventRow
<1>5. r # Idle /\ r.at = "leased" /\ r.task = t /\ r.attempt = a /\ r.clock = 0
  BY DEF Idle
<1> HIDE DEF e, l, r
<1>6. /\ lease' \in [Task -> [Attempt -> LeaseRow \cup {NoLease}]]
      /\ lease'[t][a] = l
      /\ \A v \in Task : \A b \in Attempt : v # t \/ b # a => lease'[v][b] = lease[v][b]
  BY <1>1, <1>2, <1>3, <1>4 DEF RowTypeOK
<1>7. <<e>> \in Seq(EventRow) /\ \A i \in 1..Len(<<e>>) : <<e>>[i] = e
  BY <1>4, OneEvent
<1>8. /\ events' \in [Task -> [Attempt -> Seq(EventRow)]]
      /\ events'[t][a] = events[t][a] \o <<e>>
      /\ \A v \in Task : \A b \in Attempt : v # t \/ b # a => events'[v][b] = events[v][b]
      /\ head' \in [Task -> HeadRow]
      /\ head'[t].attempt = a /\ head'[t].state = "ACTIVE"
      /\ \A v \in Task : v # t => head'[v] = head[v]
  <2>1. "ACTIVE" \in Open \cup Ended
    BY DEF Open
  <2>2. RowTypeOK /\ a \in Attempt /\ <<e>> \in Seq(EventRow) /\ Record(t, a, <<e>>, "ACTIVE")
    BY <1>1, <1>2, <1>3, <1>7
  <2> QED BY <2>1, <2>2, RecordRows
<1>9. events'[t][a] = <<e>>
  <2>1. events[t][a] = <<>>
    BY <1>2, <1>3 DEF RowInv, LeasesNumbered
  <2> QED BY <1>7, <1>8, <2>1
<1>10. /\ idem' \in [Task -> [Key -> 0..MaxAttempts]]
       /\ \A v \in Task : \A j \in Key : idem'[v][j] = IF v = t /\ j = k THEN a ELSE idem[v][j]
  <2>1. a \in 0..MaxAttempts
    BY <1>3, SupervisorAssumption DEF Attempt
  <2> QED BY <1>1, <1>2, <2>1 DEF RowTypeOK
<1>11. PromisedUpTo(<<e>>, c + Duration)
  <2>1. Len(<<e>>) = 1 /\ <<e>>[1] = e
    OBVIOUS
  <2> QED BY <1>4, <2>1 DEF PromisedUpTo
<1>12. EffectiveExpiry(t, a)' = c + Duration
  BY <1>7, <1>9, <1>11, ExpiryIsPromise, ExpiryOfRows
<1>13. ASSUME NEW v \in Task, NEW b \in Attempt, v # t \/ b # a
       PROVE  EffectiveExpiry(v, b)' = EffectiveExpiry(v, b)
  BY <1>6, <1>8, <1>13, ExpiryOfRows
<1>14. \A v \in Task : \A b \in 1..head'[v].attempt :
         /\ b \in Attempt /\ (b > 1 => b - 1 \in Attempt)
         /\ (v # t \/ b # a) => b \in 1..head[v].attempt
  <2> SUFFICES ASSUME NEW v \in Task, NEW b \in 1..head'[v].attempt
               PROVE  /\ b \in Attempt /\ (b > 1 => b - 1 \in Attempt)
                      /\ (v # t \/ b # a) => b \in 1..head[v].attempt
    OBVIOUS
  <2>1. MaxAttempts \in Nat /\ head[v].attempt \in 0..MaxAttempts /\ head[t].attempt \in 0..MaxAttempts
    BY <1>2, SupervisorAssumption
  <2>2. CASE v = t
    <3>1. b \in 1..a /\ a \in 1..MaxAttempts /\ a = head[t].attempt + 1
      BY <1>3, <1>8, <2>2 DEF Attempt
    <3> QED BY <2>1, <2>2, <3>1 DEF Attempt
  <2>3. CASE v # t
    <3>1. b \in 1..head[v].attempt
      BY <1>8, <2>3
    <3> QED BY <2>1, <2>3, <3>1 DEF Attempt
  <2> QED BY <2>2, <2>3
<1>15. RowTypeOK'
  BY <1>1, <1>2, <1>6, <1>8, <1>10 DEF RowTypeOK
<1>16. LeasesNumbered'
  <2> SUFFICES ASSUME NEW v \in Task
               PROVE  /\ head'[v].attempt = 0 <=> head'[v].state = "NONE"
                      /\ \A b \in Attempt :
                           /\ lease'[v][b] # NoLease <=> b <= head'[v].attempt
                           /\ b > head'[v].attempt => events'[v][b] = <<>>
                      /\ \A j \in Key : idem'[v][j] <= head'[v].attempt
    BY DEF LeasesNumbered
  <2>1. CASE v # t
    <3>1. head'[v] = head[v] /\ \A j \in Key : idem'[v][j] = idem[v][j]
      BY <1>8, <1>10, <2>1
    <3>2. \A b \in Attempt : lease'[v][b] = lease[v][b] /\ events'[v][b] = events[v][b]
      BY <1>6, <1>8, <2>1
    <3> QED BY <3>1, <3>2 DEF RowInv, LeasesNumbered
  <2>2. CASE v = t
    <3>1. /\ \A b \in Attempt : b # a =>
               /\ lease[t][b] # NoLease <=> b <= a - 1
               /\ b > a - 1 => events[t][b] = <<>>
          /\ \A j \in Key : idem[t][j] <= a - 1
      <4>1. head[t].attempt = a - 1
        BY <1>2, <1>3
      <4> QED BY <4>1 DEF RowInv, LeasesNumbered
    <3>2. ASSUME NEW b \in Attempt
          PROVE  /\ lease'[t][b] # NoLease <=> b <= a
                 /\ b > a => events'[t][b] = <<>>
      <4>1. CASE b = a
        BY <1>3, <1>4, <1>6, <4>1
      <4>2. CASE b # a
        <5>1. b \in Int /\ (b <= a - 1 <=> b <= a) /\ (b > a => b > a - 1)
          BY <1>3, <4>2 DEF Attempt
        <5> QED BY <1>6, <1>8, <3>1, <4>2, <5>1
      <4> QED BY <4>1, <4>2
    <3>3. \A j \in Key : idem'[t][j] <= a
      <4> SUFFICES ASSUME NEW j \in Key PROVE idem'[t][j] <= a
        OBVIOUS
      <4>1. idem[t][j] \in Int /\ a \in Int /\ idem[t][j] <= a - 1
        BY <1>2, <1>3, <3>1 DEF RowTypeOK
      <4>2. idem'[t][j] = a \/ idem'[t][j] = idem[t][j]
        BY <1>10
      <4> QED BY <4>1, <4>2
    <3> QED BY <1>3, <1>8, <2>2, <3>2, <3>3
  <2> QED BY <2>1, <2>2
<1>17. ResultIsLast'
  <2> SUFFICES ASSUME NEW v \in Task, NEW b, b = head'[v].attempt
               PROVE  /\ result'[v] = IF head'[v].state = "COMPLETED" THEN {b} ELSE {}
                      /\ head'[v].state = "COMPLETED" =>
                           /\ events'[v][b][Len(events'[v][b])].kind = "COMPLETED"
                           /\ events'[v][b][Len(events'[v][b])].at < EffectiveExpiry(v, b)'
    BY DEF ResultIsLast
  <2>1. CASE v = t
    BY <1>1, <1>3, <1>8, <2>1
  <2>2. CASE v # t
    <3>1. head'[v] = head[v] /\ result'[v] = result[v] /\ b = head[v].attempt
      BY <1>1, <1>8, <2>2
    <3>2. ASSUME head[v].state = "COMPLETED"
          PROVE  events'[v][b] = events[v][b] /\ EffectiveExpiry(v, b)' = EffectiveExpiry(v, b)
      <4>1. b \in Attempt
        BY <3>1, <3>2, HeadAttempt
      <4> QED BY <1>8, <1>13, <2>2, <4>1
    <3> QED BY <3>1, <3>2 DEF RowInv, ResultIsLast
  <2> QED BY <2>1, <2>2
<1>18. ExpiryIsLatest'
  <2> SUFFICES ASSUME NEW v \in Task, NEW b \in 1..head'[v].attempt
               PROVE  /\ EffectiveExpiry(v, b)' \in Nat
                      /\ PromisedUpTo(events'[v][b], EffectiveExpiry(v, b)')
                      /\ HeadIs(v, b, "ACTIVE")' =>
                           \A i \in 1..Len(events'[v][b]) : events'[v][b][i].expires # -1
    BY DEF ExpiryIsLatest, PromisedUpTo
  <2>1. CASE v = t /\ b = a
    BY <1>4, <1>7, <1>9, <1>11, <1>12, <2>1
  <2>2. CASE v # t \/ b # a
    <3>1. /\ b \in Attempt /\ b \in 1..head[v].attempt
          /\ events'[v][b] = events[v][b] /\ EffectiveExpiry(v, b)' = EffectiveExpiry(v, b)
      BY <1>8, <1>13, <1>14, <2>2
    <3>2. HeadIs(v, b, "ACTIVE")' => HeadIs(v, b, "ACTIVE")
      BY <1>8, <2>2 DEF HeadIs
    <3> QED BY <3>1, <3>2 DEF RowInv, ExpiryIsLatest
  <2> QED BY <2>1, <2>2
<1>19. RetryIsDue'
  <2>1. ASSUME NEW v \in Task, NEW b, b = head'[v].attempt, head'[v].state = "RETRY_SCHEDULED"
        PROVE  b < MaxAttempts /\ EffectiveExpiry(v, b)' + RetryDelay <= eligible'[v]
    <3>1. v # t /\ head'[v] = head[v] /\ b = head[v].attempt
      BY <1>8, <2>1
    <3>2. b \in Attempt
      BY <2>1, <3>1, HeadAttempt
    <3> QED BY <1>1, <1>13, <2>1, <3>1, <3>2 DEF RowInv, RetryIsDue
  <2>2. ASSUME NEW v \in Task, NEW b \in 1..head'[v].attempt, b > 1
        PROVE  EffectiveExpiry(v, b - 1)' + RetryDelay <= lease'[v][b].acquired
    <3>1. /\ b \in Attempt /\ b - 1 \in Attempt /\ (v = t => b - 1 # a)
          /\ EffectiveExpiry(v, b - 1)' = EffectiveExpiry(v, b - 1)
      <4>1. b \in Attempt /\ b - 1 \in Attempt
        BY <1>14, <2>2
      <4>2. v = t => b - 1 # a
        BY <1>3, <1>8, <2>2
      <4> QED BY <1>13, <4>1, <4>2
    <3>2. CASE v = t /\ b = a
      <4>1. head[t].attempt # 0 /\ b - 1 = head[t].attempt
        <5>1. head[t].attempt \in Int /\ a = head[t].attempt + 1 /\ a > 1
          BY <1>2, <1>3, <2>2, <3>2
        <5> QED BY <3>2, <5>1
      <4>2. head[t].state = "RETRY_SCHEDULED"
        BY <1>3, <4>1 DEF RowInv, LeasesNumbered
      <4>3. EffectiveExpiry(t, b - 1) + RetryDelay <= eligible[t] /\ eligible[t] <= c
        BY <1>2, <1>3, <4>1, <4>2 DEF RowInv, RetryIsDue, RowTypeOK
      <4>4. EffectiveExpiry(t, b - 1) \in Nat /\ eligible[t] \in Int
        BY <1>2, <4>1, <4>2, HeadAttempt DEF RowInv, ExpiryIsLatest, RowTypeOK
      <4> QED BY <1>2, <1>4, <1>6, <3>1, <3>2, <4>3, <4>4, SupervisorAssumption
    <3>3. CASE v # t \/ b # a
      <4>1. b \in 1..head[v].attempt /\ lease'[v][b] = lease[v][b]
        BY <1>6, <1>14, <3>1, <3>3
      <4> QED BY <2>2, <3>1, <4>1 DEF RowInv, RetryIsDue
    <3> QED BY <3>2, <3>3
  <2> QED BY <2>1, <2>2 DEF RetryIsDue
<1>20. RowInv'
  BY <1>15, <1>16, <1>17, <1>18, <1>19 DEF RowInv
<1>21. ~moved[t][a]
  BY <1>2, <1>3 DEF FilesFollowMove
<1>22. /\ FileTypeOK' /\ ProcessTypeOK'
       /\ dir'[t][a] = "complete"
       /\ \A v \in Task : \A b \in Attempt : v # t \/ b # a => dir'[v][b] = dir[v][b]
       /\ moved' = moved /\ terminal' = terminal
       /\ \A v \in Runner : runner'[v] = IF v = w THEN r ELSE runner[v]
  BY <1>1, <1>3, <1>4 DEF FileTypeOK, ProcessTypeOK
<1>23. \A v \in Task : head[v].attempt <= head'[v].attempt /\ head'[v].attempt \in Nat
  <2> SUFFICES ASSUME NEW v \in Task
               PROVE  head[v].attempt <= head'[v].attempt /\ head'[v].attempt \in Nat
    OBVIOUS
  <2>1. head[v].attempt \in Nat /\ head[t].attempt \in Nat
    BY <1>2
  <2>2. CASE v = t
    BY <1>3, <1>8, <2>1, <2>2
  <2>3. CASE v # t
    BY <1>8, <2>1, <2>3
  <2> QED BY <2>2, <2>3
<1>24. FilesFollowMove'
  <2> SUFFICES ASSUME NEW v \in Task, NEW b \in Attempt
               PROVE  /\ b > head'[v].attempt => terminal[v][b] = "NONE" /\ ~moved[v][b]
                      /\ b <= head'[v].attempt => dir'[v][b] = "complete" \/ moved[v][b]
                      /\ terminal[v][b] \in {"LEASE_EXPIRED", "CANCELLED"} => moved[v][b]
    BY <1>22 DEF FilesFollowMove
  <2>1. CASE v = t /\ b = a
    BY <1>1, <1>3, <1>8, <1>22, <2>1
  <2>2. CASE v # t \/ b # a
    <3>1. /\ b > head'[v].attempt => b > head[v].attempt
          /\ b <= head'[v].attempt => b <= head[v].attempt
          /\ dir'[v][b] = dir[v][b]
      BY <1>2, <1>3, <1>8, <1>22, <2>2 DEF Attempt
    <3> QED BY <3>1 DEF FilesFollowMove
  <2> QED BY <2>1, <2>2
<1>25. RunnersHoldLeases'
  <2> SUFFICES ASSUME NEW v \in Runner, runner'[v] # Idle
               PROVE  /\ runner'[v].attempt <= head'[runner'[v].task].attempt
                      /\ runner'[v].at \in {"committed", "completing"} =>
                           terminal'[runner'[v].task][runner'[v].attempt] = "COMMITTED"
                      /\ runner'[v].clock <= now'
    BY DEF RunnersHoldLeases
  <2>1. CASE v = w
    BY <1>1, <1>2, <1>3, <1>5, <1>8, <1>22, <2>1
  <2>2. CASE v # w
    <3>1. runner'[v] = runner[v] /\ runner[v] # Idle
      BY <1>22, <2>2
    <3>2. runner[v].task \in Task /\ runner[v].attempt \in Attempt
      BY <3>1 DEF ProcessTypeOK, Busy
    <3>3. runner[v].attempt <= head'[runner[v].task].attempt
      <4>1. runner[v].attempt <= head[runner[v].task].attempt
        BY <3>1 DEF RunnersHoldLeases
      <4>2. runner[v].attempt \in Int /\ head[runner[v].task].attempt \in Int
        BY <1>2, <3>2 DEF Attempt
      <4> QED BY <1>23, <3>2, <4>1, <4>2
    <3> QED BY <1>1, <3>1, <3>3 DEF RunnersHoldLeases
  <2> QED BY <2>1, <2>2
<1>26. TxnIsCurrent'
  BY <1>1 DEF TxnIsCurrent
<1>27. TakenIsLate'
  <2> SUFFICES ASSUME NEW v \in Task, NEW b \in Attempt, HeadIs(v, b, "ACTIVE")', Taken(v, b)'
               PROVE  /\ EffectiveExpiry(v, b)' <= now
                      /\ \A x \in Runner :
                           /\ runner'[x].at = "completing" /\ runner'[x].task = v
                           /\ runner'[x].attempt = b
                           => EffectiveExpiry(v, b)' <= runner'[x].clock
    BY <1>1 DEF TakenIsLate
  <2>1. moved[v][b]
    BY <1>1 DEF Taken
  <2>2. v # t
    BY <1>8, <1>21, <2>1 DEF HeadIs
  <2>3. HeadIs(v, b, "ACTIVE") /\ EffectiveExpiry(v, b)' = EffectiveExpiry(v, b)
    BY <1>8, <1>13, <2>2 DEF HeadIs
  <2>4. \A x \in Runner : runner'[x].at = "completing" => runner'[x] = runner[x]
    BY <1>5, <1>22
  <2> QED BY <2>1, <2>3, <2>4 DEF TakenIsLate, Taken
<1>28. EndsAgree'
  <2> SUFFICES ASSUME NEW v \in Task, NEW b \in 1..head'[v].attempt PROVE EndAgrees(v, b)'
    BY DEF EndsAgree
  <2>1. CASE v = t /\ b = a
    <3>1. events'[v][b][Len(events'[v][b])].kind = "ACQUIRED" /\ b \notin result'[v]
      <4>1. <<e>>[Len(<<e>>)] = e
        BY <1>4, OneEvent
      <4> QED BY <1>1, <1>3, <1>4, <1>9, <2>1, <4>1
    <3> QED BY <3>1 DEF EndAgrees
  <2>2. CASE v # t \/ b # a
    <3>1. b \in Attempt /\ EndAgrees(v, b)
      BY <1>14, <2>2 DEF EndsAgree
    <3> QED BY <1>1, <1>8, <1>22, <2>2, <3>1 DEF EndAgrees
  <2> QED BY <2>1, <2>2
<1> QED BY <1>20, <1>22, <1>24, <1>25, <1>26, <1>27, <1>28

-----------------------------------------------------------------------------
(* The operations that leave the rows alone.                               *)

\* A file changes only as the rows allow: a directory goes or comes where the
\* attempt was moved or not yet leased, never with its result; the first
\* receipt stays.
FilesKept ==
  \A t \in Task : \A a \in Attempt :
    /\ dir'[t][a] # dir[t][a] => a \notin result[t] /\ (moved'[t][a] \/ a > head[t].attempt)
    /\ moved[t][a] => moved'[t][a]
    /\ moved'[t][a] /\ ~moved[t][a] => a <= head[t].attempt /\ a \notin result[t]
    /\ terminal'[t][a] # terminal[t][a] =>
         /\ terminal[t][a] = "NONE" /\ a <= head[t].attempt
         /\ terminal'[t][a] = "COMMITTED" \/ moved'[t][a]

\* A runner may come to be as r says.
RunnerMay(r) ==
  /\ r.attempt <= head[r.task].attempt
  /\ r.at \in {"committed", "completing"} => terminal'[r.task][r.attempt] = "COMMITTED"
  /\ r.clock <= now
  /\ r.at = "completing" => r.clock = now

RunnersKept == \A w \in Runner : runner'[w] = runner[w] \/ runner'[w] = Idle \/ RunnerMay(runner'[w])

\* A workspace is newly taken only when it is due and not committed.
TakenKept ==
  \A t \in Task : \A a \in Attempt : HeadIs(t, a, "ACTIVE") /\ Taken(t, a)' =>
    EffectiveExpiry(t, a) <= now /\ (Taken(t, a) \/ terminal[t][a] # "COMMITTED")

\* Such a step keeps the invariant.
LEMMA FileStep ==
  ASSUME SupervisorInv, UNCHANGED dbVars, FileTypeOK', ProcessTypeOK', now <= now',
         FilesKept, RunnersKept, TakenKept, TxnIsCurrent'
  PROVE  SupervisorInv'
<1> USE DEF SupervisorInv
<1>1. /\ lease' = lease /\ events' = events /\ head' = head /\ eligible' = eligible
      /\ result' = result /\ idem' = idem
  BY DEF dbVars
<1>2. \A t, a : EffectiveExpiry(t, a)' = EffectiveExpiry(t, a)
  BY <1>1, ExpiryOfRows
<1>3. RowInv'
  <2>1. RowTypeOK' /\ LeasesNumbered'
    BY <1>1 DEF RowInv, RowTypeOK, LeasesNumbered
  <2>2. ResultIsLast'
    BY <1>1, <1>2 DEF RowInv, ResultIsLast
  <2>3. ExpiryIsLatest'
    <3> SUFFICES ASSUME NEW v \in Task, NEW b \in 1..head[v].attempt
                 PROVE  /\ EffectiveExpiry(v, b)' \in Nat
                        /\ PromisedUpTo(events'[v][b], EffectiveExpiry(v, b)')
                        /\ HeadIs(v, b, "ACTIVE")' =>
                             \A i \in 1..Len(events'[v][b]) : events'[v][b][i].expires # -1
      BY <1>1 DEF ExpiryIsLatest, PromisedUpTo
    <3> QED BY <1>1, <1>2 DEF RowInv, ExpiryIsLatest, HeadIs
  <2>4. RetryIsDue'
    BY <1>1, <1>2 DEF RowInv, RetryIsDue
  <2> QED BY <2>1, <2>2, <2>3, <2>4 DEF RowInv
<1>4. \A v \in Task : head[v].attempt \in 0..MaxAttempts
  BY DEF RowInv, RowTypeOK, HeadRow
<1>5. now \in Nat /\ now' \in Nat
  BY DEF ProcessTypeOK
<1>6. FilesFollowMove'
  <2> SUFFICES ASSUME NEW t \in Task, NEW a \in Attempt
               PROVE  /\ a > head[t].attempt => terminal'[t][a] = "NONE" /\ ~moved'[t][a]
                      /\ a <= head[t].attempt => dir'[t][a] = "complete" \/ moved'[t][a]
                      /\ terminal'[t][a] \in {"LEASE_EXPIRED", "CANCELLED"} => moved'[t][a]
    BY <1>1 DEF FilesFollowMove
  <2>1. a \in Int /\ head[t].attempt \in Int
    BY <1>4 DEF Attempt
  <2>2. a > head[t].attempt <=> ~(a <= head[t].attempt)
    BY <2>1
  <2> QED BY <2>2 DEF FilesFollowMove, FilesKept
<1>7. RunnersHoldLeases'
  <2> SUFFICES ASSUME NEW w \in Runner, runner'[w] # Idle
               PROVE  /\ runner'[w].attempt <= head[runner'[w].task].attempt
                      /\ runner'[w].at \in {"committed", "completing"} =>
                           terminal'[runner'[w].task][runner'[w].attempt] = "COMMITTED"
                      /\ runner'[w].clock <= now'
    BY <1>1 DEF RunnersHoldLeases
  <2>1. runner'[w] \in Busy
    BY DEF ProcessTypeOK
  <2>2. runner'[w].clock \in Nat /\ runner'[w].task \in Task /\ runner'[w].attempt \in Attempt
    BY <2>1 DEF Busy
  <2>3. CASE runner'[w] = runner[w]
    BY <1>5, <2>2, <2>3 DEF RunnersHoldLeases, FilesKept
  <2>4. CASE RunnerMay(runner'[w])
    BY <1>5, <2>2, <2>4 DEF RunnerMay
  <2> QED BY <2>3, <2>4 DEF RunnersKept
<1>8. TakenIsLate'
  <2> SUFFICES ASSUME NEW t \in Task, NEW a \in Attempt, HeadIs(t, a, "ACTIVE"), Taken(t, a)'
               PROVE  /\ EffectiveExpiry(t, a) <= now'
                      /\ \A w \in Runner :
                           runner'[w].at = "completing" /\ runner'[w].task = t /\ runner'[w].attempt = a =>
                             EffectiveExpiry(t, a) <= runner'[w].clock
    BY <1>1, <1>2 DEF TakenIsLate, HeadIs
  <2>1. EffectiveExpiry(t, a) <= now /\ (Taken(t, a) \/ terminal[t][a] # "COMMITTED")
    BY DEF TakenKept
  <2>2. EffectiveExpiry(t, a) \in Nat
    <3>1. a = head[t].attempt /\ head[t].state # "NONE"
      BY DEF HeadIs
    <3> QED BY <3>1, HeadAttempt DEF RowInv, ExpiryIsLatest
  <2>3. ASSUME NEW w \in Runner, runner'[w].at = "completing", runner'[w].task = t,
               runner'[w].attempt = a
        PROVE  EffectiveExpiry(t, a) <= runner'[w].clock
    <3>1. runner'[w] # Idle
      BY <2>3 DEF Idle
    <3>2. CASE runner'[w] = runner[w]
      <4>1. terminal[t][a] = "COMMITTED"
        BY <2>3, <3>1, <3>2 DEF RunnersHoldLeases
      <4> QED BY <2>1, <2>3, <3>2, <4>1 DEF TakenIsLate
    <3>3. CASE RunnerMay(runner'[w])
      BY <2>1, <2>3, <3>3 DEF RunnerMay
    <3> QED BY <3>1, <3>2, <3>3 DEF RunnersKept
  <2> QED BY <1>5, <2>1, <2>2, <2>3
<1>9. EndsAgree'
  <2> SUFFICES ASSUME NEW t \in Task, NEW a \in 1..head[t].attempt PROVE EndAgrees(t, a)'
    BY <1>1 DEF EndsAgree
  <2>1. a \in Attempt
    BY <1>4, SupervisorAssumption DEF Attempt
  <2>2. EndAgrees(t, a)
    BY DEF EndsAgree
  <2> QED BY <1>1, <2>1, <2>2 DEF EndAgrees, FilesKept
<1> QED BY <1>3, <1>6, <1>7, <1>8, <1>9

\* The transaction goes on or is gone; no receipt it relies on is replaced.
LEMMA TxnKept ==
  ASSUME SupervisorInv, UNCHANGED dbVars, now <= now', FileTypeOK', ProcessTypeOK', FilesKept,
         txn' = txn \/ txn' = NoTxn
  PROVE  TxnIsCurrent'
<1> USE DEF SupervisorInv
<1>1. CASE txn' = NoTxn
  BY <1>1 DEF TxnIsCurrent
<1>2. CASE txn' = txn /\ txn # NoTxn
  <2>1. txn \in Txn
    BY <1>2 DEF ProcessTypeOK
  <2>2. /\ txn.task \in Task /\ txn.attempt \in Attempt /\ txn.at \in Nat
        /\ txn.reason \in {"LEASE_EXPIRED", "CANCELLED"}
    BY <2>1 DEF Txn
  <2>3. head' = head /\ \A t, a : EffectiveExpiry(t, a)' = EffectiveExpiry(t, a)
    BY ExpiryOfRows DEF dbVars
  <2>4. txn.at <= now'
    BY <1>2, <2>2 DEF TxnIsCurrent, ProcessTypeOK
  <2>5. /\ txn.step \in {"seal", "decide"} => moved'[txn.task][txn.attempt]
        /\ txn.step = "decide" => terminal'[txn.task][txn.attempt] = txn.reason
    BY <1>2, <2>2 DEF TxnIsCurrent, FilesKept
  <2> QED BY <1>2, <2>3, <2>4, <2>5 DEF TxnIsCurrent
<1> QED BY <1>1, <1>2

\* Nothing is newly taken.
LEMMA NothingTaken ==
  ASSUME SupervisorInv, moved' = moved, txn' = txn \/ txn' = NoTxn
  PROVE  TakenKept
<1> SUFFICES ASSUME NEW t \in Task, NEW a \in Attempt, HeadIs(t, a, "ACTIVE"), Taken(t, a)'
             PROVE  EffectiveExpiry(t, a) <= now /\ Taken(t, a)
  BY DEF TakenKept
<1>1. Taken(t, a)
  BY DEF Taken
<1> QED BY <1>1 DEF SupervisorInv, TakenIsLate

\* A step that changes neither files nor runners.
LEMMA StandStill ==
  ASSUME SupervisorInv, UNCHANGED <<dbVars, fsVars>>, now <= now', ProcessTypeOK',
         txn' = txn \/ txn' = NoTxn, RunnersKept
  PROVE  SupervisorInv'
<1>1. UNCHANGED dbVars /\ dir' = dir /\ moved' = moved /\ terminal' = terminal
  BY DEF fsVars
<1>2. FileTypeOK' /\ FilesKept
  BY <1>1 DEF SupervisorInv, FileTypeOK, FilesKept
<1>3. TxnIsCurrent'
  BY <1>1, <1>2, TxnKept
<1>4. TakenKept
  BY <1>1, NothingTaken
<1> QED BY <1>1, <1>2, <1>3, <1>4, FileStep

\* A runner gives up, whatever becomes of the transaction.
LEMMA GivesUp ==
  ASSUME SupervisorInv, NEW w \in Runner, Fail(w)
  PROVE  runner' \in [Runner -> Busy \cup {Idle}] /\ RunnersKept
BY DEF SupervisorInv, ProcessTypeOK, Fail, RunnersKept

\* The clock.
LEMMA TickStep ==
  ASSUME SupervisorInv, Tick
  PROVE  SupervisorInv'
<1>1. now' = now + 1 /\ UNCHANGED <<dbVars, fsVars, txn, runner, cancels, crashes>>
  BY DEF Tick
<1>2. ProcessTypeOK' /\ now <= now' /\ RunnersKept
  BY <1>1 DEF SupervisorInv, ProcessTypeOK, RunnersKept
<1> QED BY <1>1, <1>2, StandStill

\* complete where nothing is recorded.
LEMMA CompleteReplayedOrRefusedStep ==
  ASSUME SupervisorInv, NEW w \in Runner, CompleteReplayedOrRefused(w)
  PROVE  SupervisorInv'
<1>1. Fail(w) /\ UNCHANGED <<now, dbVars, fsVars, txn, cancels, crashes>>
  BY DEF CompleteReplayedOrRefused
<1>2. ProcessTypeOK' /\ now <= now' /\ RunnersKept
  BY <1>1, GivesUp DEF SupervisorInv, ProcessTypeOK
<1> QED BY <1>1, <1>2, StandStill

\* A runner dies.
LEMMA CrashStep ==
  ASSUME SupervisorInv, NEW w \in Runner, Crash(w)
  PROVE  SupervisorInv'
<1>1. Fail(w) /\ crashes' = crashes + 1 /\ UNCHANGED <<now, dbVars, fsVars, txn, cancels>>
  BY DEF Crash
<1>2. ProcessTypeOK' /\ now <= now' /\ RunnersKept
  BY <1>1, GivesUp DEF SupervisorInv, ProcessTypeOK
<1> QED BY <1>1, <1>2, StandStill

\* The process of the transaction dies.
LEMMA CrashInQuarantineStep ==
  ASSUME SupervisorInv, CrashInQuarantine
  PROVE  SupervisorInv'
<1>1. crashes' = crashes + 1 /\ txn' = NoTxn /\ UNCHANGED <<now, dbVars, fsVars, runner, cancels>>
  BY DEF CrashInQuarantine
<1>2. ProcessTypeOK' /\ now <= now' /\ RunnersKept
  BY <1>1 DEF SupervisorInv, ProcessTypeOK, RunnersKept
<1> QED BY <1>1, <1>2, StandStill

\* acquire with a key it has seen.
LEMMA ReplayLeaseStep ==
  ASSUME SupervisorInv, NEW w \in Runner, NEW t \in Task, NEW k \in Key, ReplayLease(w, t, k)
  PROVE  SupervisorInv'
<1> USE DEF SupervisorInv
<1>0. PICK a : a = idem[t][k]
  OBVIOUS
<1> DEFINE r == [at |-> "leased", task |-> t, attempt |-> a, clock |-> 0]
<1>1. /\ a # 0 /\ runner' = [runner EXCEPT ![w] = r]
      /\ UNCHANGED <<now, dbVars, fsVars, txn, cancels, crashes>>
  BY <1>0 DEF ReplayLease, Lease
<1>2. a \in Attempt /\ a <= head[t].attempt
  <2>1. a \in 0..MaxAttempts /\ a <= head[t].attempt
    BY <1>0 DEF RowInv, RowTypeOK, LeasesNumbered
  <2> QED BY <1>1, <2>1, SupervisorAssumption DEF Attempt
<1>3. /\ r \in Busy /\ r.at = "leased" /\ r.task = t /\ r.attempt = a /\ r.clock = 0
  BY <1>2 DEF Busy
<1> HIDE DEF r
<1>4. RunnerMay(r)
  BY <1>2, <1>3 DEF RunnerMay, ProcessTypeOK
<1>5. ProcessTypeOK' /\ now <= now' /\ RunnersKept
  BY <1>1, <1>3, <1>4 DEF ProcessTypeOK, RunnersKept
<1> QED BY <1>1, <1>5, StandStill

\* A runner goes on to the next stage of its attempt.
LEMMA RunnerGoesOn ==
  ASSUME SupervisorInv, NEW w \in Runner, runner[w] # Idle,
         NEW at \in {"working", "sealing", "committed"}, Step(w, at),
         at = "committed" => terminal'[runner[w].task][runner[w].attempt] = "COMMITTED"
  PROVE  runner' \in [Runner -> Busy \cup {Idle}] /\ RunnersKept
<1> USE DEF SupervisorInv
<1>1. runner[w] \in Busy
  BY DEF ProcessTypeOK
<1> DEFINE r == [runner[w] EXCEPT !.at = at]
<1>2. /\ r \in Busy /\ r.at = at /\ r.task = runner[w].task /\ r.attempt = runner[w].attempt
      /\ r.clock = runner[w].clock
  BY <1>1 DEF Busy
<1>3. runner' = [runner EXCEPT ![w] = r]
  BY DEF Step
<1> HIDE DEF r
<1>4. RunnerMay(r)
  BY <1>2 DEF RunnerMay, RunnersHoldLeases
<1> QED BY <1>2, <1>3, <1>4 DEF ProcessTypeOK, RunnersKept

\* commit, up to the inventory.
LEMMA CheckCommitStep ==
  ASSUME SupervisorInv, NEW w \in Runner, CheckCommit(w)
  PROVE  SupervisorInv'
<1>0. PICK t, a : t = runner[w].task /\ a = runner[w].attempt
  OBVIOUS
<1>1. /\ runner[w].at = "working"
      /\ \/ terminal[t][a] = "COMMITTED" /\ Step(w, "committed")
         \/ Step(w, "sealing")
         \/ Fail(w)
      /\ UNCHANGED <<now, dbVars, fsVars, txn, cancels, crashes>>
  BY <1>0 DEF CheckCommit
<1>2. runner[w] # Idle /\ terminal' = terminal
  BY <1>1 DEF Idle, fsVars
<1>3. runner' \in [Runner -> Busy \cup {Idle}] /\ RunnersKept
  <2>1. CASE terminal[t][a] = "COMMITTED" /\ Step(w, "committed")
    BY <1>0, <1>2, <2>1, RunnerGoesOn
  <2>2. CASE Step(w, "sealing")
    BY <1>2, <2>2, RunnerGoesOn
  <2>3. CASE Fail(w)
    BY <2>3, GivesUp
  <2> QED BY <1>1, <2>1, <2>2, <2>3
<1>4. ProcessTypeOK' /\ now <= now'
  BY <1>1, <1>3 DEF SupervisorInv, ProcessTypeOK
<1> QED BY <1>1, <1>3, <1>4, StandStill

\* complete reads the clock.
LEMMA AskCompleteStep ==
  ASSUME SupervisorInv, NEW w \in Runner, AskComplete(w)
  PROVE  SupervisorInv'
<1> USE DEF SupervisorInv
<1> DEFINE r == [runner[w] EXCEPT !.at = "completing", !.clock = now]
<1>1. /\ runner[w].at = "committed"
      /\ runner' = [runner EXCEPT ![w] = r]
      /\ UNCHANGED <<now, dbVars, fsVars, txn, cancels, crashes>>
  BY DEF AskComplete
<1>2. runner[w] \in Busy /\ runner[w] # Idle /\ now \in Nat
  BY <1>1 DEF ProcessTypeOK, Idle
<1>3. /\ r \in Busy /\ r.at = "completing" /\ r.task = runner[w].task
      /\ r.attempt = runner[w].attempt /\ r.clock = now
  BY <1>2 DEF Busy
<1> HIDE DEF r
<1>4. RunnerMay(r)
  BY <1>1, <1>2, <1>3 DEF RunnerMay, RunnersHoldLeases, fsVars
<1>5. ProcessTypeOK' /\ now <= now' /\ RunnersKept
  BY <1>1, <1>3, <1>4 DEF ProcessTypeOK, RunnersKept
<1> QED BY <1>1, <1>5, StandStill

\* A step that changes one directory, where no result relies on it.
LEMMA OneDirectory ==
  ASSUME SupervisorInv, NEW t \in Task, NEW a \in Attempt,
         NEW left \in {"absent", "bare", "complete"}, dir' = [dir EXCEPT ![t][a] = left],
         terminal[t][a] = "NONE" \/ a > head[t].attempt, moved[t][a] \/ a > head[t].attempt,
         UNCHANGED <<dbVars, moved, terminal>>, now <= now', ProcessTypeOK',
         txn' = txn \/ txn' = NoTxn, RunnersKept
  PROVE  SupervisorInv'
<1> USE DEF SupervisorInv
<1>1. a \notin result[t]
  <2>1. head[t].attempt \in 0..MaxAttempts /\ a \in Int
    BY DEF RowInv, RowTypeOK, HeadRow, Attempt
  <2>2. a \in result[t] => a = head[t].attempt /\ head[t].state = "COMPLETED"
    BY DEF RowInv, ResultIsLast
  <2>3. ASSUME a \in result[t] PROVE FALSE
    <3>1. a \in 1..head[t].attempt
      BY <2>2, <2>3, HeadAttempt
    <3>2. terminal[t][a] = "COMMITTED"
      BY <2>3, <3>1 DEF EndsAgree, EndAgrees
    <3> QED BY <2>1, <2>2, <2>3, <3>2
  <2> QED BY <2>3
<1>2. FileTypeOK' /\ FilesKept
  BY <1>1 DEF FileTypeOK, FilesKept
<1>3. TxnIsCurrent'
  BY <1>2, TxnKept
<1>4. TakenKept
  BY NothingTaken
<1> QED BY <1>2, <1>3, <1>4, FileStep

\* The process dies inside acquire.
LEMMA AcquireCrashStep ==
  ASSUME SupervisorInv, NEW w \in Runner, NEW t \in Task, NEW k \in Key, NEW c \in 0..now,
         AcquireCrash(w, t, k, c)
  PROVE  SupervisorInv'
<1>0. PICK a : a = LastAttempt(t) + 1
  OBVIOUS
<1>1. /\ LastAttempt(t) < MaxAttempts
      /\ crashes' = crashes + 1
      /\ \E left \in {"bare", "complete"} : dir' = [dir EXCEPT ![t][a] = left]
      /\ UNCHANGED <<now, dbVars, moved, terminal, txn, runner, cancels>>
  BY <1>0 DEF AcquireCrash, MayAcquire, AcquireAllowed
<1>2. a \in Attempt /\ a > head[t].attempt
  BY <1>0, <1>1, LastIsHead, SupervisorAssumption DEF SupervisorInv, Attempt
<1>3. PICK left \in {"bare", "complete"} : dir' = [dir EXCEPT ![t][a] = left]
  BY <1>1
<1>4. ProcessTypeOK' /\ now <= now' /\ RunnersKept
  BY <1>1 DEF SupervisorInv, ProcessTypeOK, RunnersKept
<1> QED BY <1>1, <1>2, <1>3, <1>4, OneDirectory

\* recover
LEMMA RecoverStep ==
  ASSUME SupervisorInv, NEW w \in Runner, Recover(w)
  PROVE  SupervisorInv'
<1> USE DEF SupervisorInv
<1>0. PICK t, a : t = runner[w].task /\ a = runner[w].attempt
  OBVIOUS
<1>1. /\ runner[w].at = "leased"
      /\ IF terminal[t][a] = "NONE" /\ dir[t][a] = "absent" THEN Reopen(t, a) ELSE UNCHANGED dir
      /\ Step(w, "working") \/ Fail(w)
      /\ UNCHANGED <<now, dbVars, moved, terminal, txn, cancels, crashes>>
  BY <1>0 DEF Recover
<1>2. runner[w] # Idle /\ runner[w] \in Busy
  BY <1>1 DEF ProcessTypeOK, Idle
<1>3. t \in Task /\ a \in Attempt /\ a <= head[t].attempt
  BY <1>0, <1>2 DEF Busy, RunnersHoldLeases
<1>4. runner' \in [Runner -> Busy \cup {Idle}] /\ RunnersKept
  <2>1. CASE Step(w, "working")
    BY <1>2, <2>1, RunnerGoesOn
  <2>2. CASE Fail(w)
    BY <2>2, GivesUp
  <2> QED BY <1>1, <2>1, <2>2
<1>5. ProcessTypeOK' /\ now <= now'
  BY <1>1, <1>4 DEF ProcessTypeOK
<1>6. CASE terminal[t][a] = "NONE" /\ dir[t][a] = "absent"
  <2>1. PICK left \in {"bare", "complete"} : dir' = [dir EXCEPT ![t][a] = left]
    BY <1>1, <1>6 DEF Reopen
  <2>2. moved[t][a]
    BY <1>3, <1>6 DEF FilesFollowMove
  <2> QED BY <1>1, <1>3, <1>4, <1>5, <1>6, <2>1, <2>2, OneDirectory
<1>7. CASE UNCHANGED dir
  BY <1>1, <1>4, <1>5, <1>7, StandStill DEF fsVars
<1> QED BY <1>1, <1>6, <1>7

\* A receipt is written where there is none.
LEMMA TerminalWritten ==
  ASSUME FileTypeOK, NEW t \in Task, NEW a \in Attempt,
         NEW receipt \in {"COMMITTED", "LEASE_EXPIRED", "CANCELLED"}, WriteTerminal(t, a, receipt)
  PROVE  /\ terminal' \in [Task -> [Attempt -> {"NONE", "COMMITTED", "LEASE_EXPIRED", "CANCELLED"}]]
         /\ terminal'[t][a] = IF terminal[t][a] = "NONE" THEN receipt ELSE terminal[t][a]
         /\ \A v \in Task : \A b \in Attempt : v # t \/ b # a => terminal'[v][b] = terminal[v][b]
BY DEF FileTypeOK, WriteTerminal

\* commit, the receipt.
LEMMA SealCommitStep ==
  ASSUME SupervisorInv, NEW w \in Runner, SealCommit(w)
  PROVE  SupervisorInv'
<1> USE DEF SupervisorInv
<1>0. PICK t, a : t = runner[w].task /\ a = runner[w].attempt
  OBVIOUS
<1>1. /\ runner[w].at = "sealing"
      /\ \/ /\ WriteTerminal(t, a, "COMMITTED")
            /\ IF terminal'[t][a] = "COMMITTED" THEN Step(w, "committed") ELSE Fail(w)
         \/ Fail(w) /\ UNCHANGED terminal
      /\ UNCHANGED <<now, dbVars, dir, moved, txn, cancels, crashes>>
  BY <1>0 DEF SealCommit
<1>2. runner[w] # Idle /\ runner[w] \in Busy
  BY <1>1 DEF ProcessTypeOK, Idle
<1>3. t \in Task /\ a \in Attempt /\ a <= head[t].attempt
  BY <1>0, <1>2 DEF Busy, RunnersHoldLeases
<1>4. CASE Fail(w) /\ UNCHANGED terminal
  <2>1. ProcessTypeOK' /\ now <= now' /\ RunnersKept
    BY <1>1, <1>4, GivesUp DEF ProcessTypeOK
  <2> QED BY <1>1, <1>4, <2>1, StandStill DEF fsVars
<1>5. CASE /\ WriteTerminal(t, a, "COMMITTED")
           /\ IF terminal'[t][a] = "COMMITTED" THEN Step(w, "committed") ELSE Fail(w)
  <2>1. runner' \in [Runner -> Busy \cup {Idle}] /\ RunnersKept
    <3>1. CASE terminal'[t][a] = "COMMITTED"
      BY <1>0, <1>2, <1>5, <3>1, RunnerGoesOn
    <3>2. CASE terminal'[t][a] # "COMMITTED"
      BY <1>5, <3>2, GivesUp
    <3> QED BY <3>1, <3>2
  <2>2. ProcessTypeOK' /\ now <= now'
    BY <1>1, <2>1 DEF ProcessTypeOK
  <2>3. /\ terminal' \in [Task -> [Attempt -> {"NONE", "COMMITTED", "LEASE_EXPIRED", "CANCELLED"}]]
        /\ terminal'[t][a] = IF terminal[t][a] = "NONE" THEN "COMMITTED" ELSE terminal[t][a]
        /\ \A v \in Task : \A b \in Attempt : v # t \/ b # a => terminal'[v][b] = terminal[v][b]
    BY <1>3, <1>5, TerminalWritten
  <2>4. FileTypeOK' /\ FilesKept
    BY <1>1, <1>3, <2>3 DEF FileTypeOK, FilesKept
  <2>5. TxnIsCurrent'
    BY <1>1, <2>2, <2>4, TxnKept
  <2>6. TakenKept
    BY <1>1, NothingTaken
  <2> QED BY <1>1, <2>1, <2>2, <2>4, <2>5, <2>6, FileStep
<1> QED BY <1>1, <1>4, <1>5

\* quarantine_lease begins on the open attempt, for a reason its rows give.
LEMMA BeginQuarantineStep ==
  ASSUME SupervisorInv, NEW t \in Task, head[t].state \in Open, NEW a, a = head[t].attempt,
         NEW reason \in {"LEASE_EXPIRED", "CANCELLED"},
         reason = "LEASE_EXPIRED" => head[t].state = "ACTIVE" /\ now >= EffectiveExpiry(t, a),
         reason = "CANCELLED" => head[t].state = "CANCEL_REQUESTED",
         BeginQuarantine(t, a, reason)
  PROVE  SupervisorInv'
<1> USE DEF SupervisorInv
<1>1. a \in Attempt /\ EffectiveExpiry(t, a) \in Nat /\ now \in Nat
  BY OpenAttempt DEF ProcessTypeOK
<1> DEFINE x(step) == [reason |-> reason, task |-> t, attempt |-> a, step |-> step, at |-> now]
<1>2. /\ txn = NoTxn
      /\ \/ terminal[t][a] = reason /\ txn' = x("decide") /\ UNCHANGED dir
         \/ terminal[t][a] = "NONE" /\ txn' = x("move") /\ UNCHANGED dir
         \/ terminal[t][a] = "NONE" /\ moved[t][a] /\ Reopen(t, a) /\ UNCHANGED txn
      /\ UNCHANGED <<now, dbVars, moved, terminal, runner, cancels, crashes>>
  BY DEF BeginQuarantine, Reusable, CanMove
<1>3. now <= now' /\ RunnersKept
  BY <1>1, <1>2 DEF RunnersKept
<1>4. CASE terminal[t][a] = "NONE" /\ moved[t][a] /\ Reopen(t, a) /\ UNCHANGED txn
  <2>1. PICK left \in {"bare", "complete"} : dir' = [dir EXCEPT ![t][a] = left]
    BY <1>4 DEF Reopen
  <2>2. ProcessTypeOK'
    BY <1>2, <1>4 DEF ProcessTypeOK
  <2> QED BY <1>1, <1>2, <1>3, <1>4, <2>1, <2>2, OneDirectory
<1>5. ASSUME NEW step \in {"move", "decide"}, txn' = x(step), UNCHANGED dir,
             step = "decide" => terminal[t][a] = reason, terminal[t][a] # "COMMITTED"
      PROVE  SupervisorInv'
  <2>1. /\ txn' \in Txn /\ txn'.reason = reason /\ txn'.task = t /\ txn'.attempt = a
        /\ txn'.step = step /\ txn'.at = now
    BY <1>1, <1>5 DEF Txn
  <2> HIDE DEF x
  <2>2. ProcessTypeOK' /\ FileTypeOK' /\ FilesKept
    BY <1>2, <1>5, <2>1 DEF ProcessTypeOK, FileTypeOK, FilesKept
  <2>3. head' = head /\ \A v, b : EffectiveExpiry(v, b)' = EffectiveExpiry(v, b)
    BY <1>2, ExpiryOfRows DEF dbVars
  <2>4. step = "decide" => moved[t][a]
    BY <1>1, <1>5 DEF FilesFollowMove
  <2>5. TxnIsCurrent'
    <3>1. /\ head'[t].attempt = a /\ now <= now'
          /\ reason = "LEASE_EXPIRED" =>
               head'[t].state = "ACTIVE" /\ EffectiveExpiry(t, a)' <= now
          /\ reason = "CANCELLED" => head'[t].state = "CANCEL_REQUESTED"
          /\ step \in {"seal", "decide"} => moved'[t][a]
          /\ step = "decide" => terminal'[t][a] = reason
      BY <1>1, <1>2, <1>3, <1>5, <2>3, <2>4
    <3> QED BY <1>2, <2>1, <2>3, <3>1 DEF TxnIsCurrent
  <2>6. TakenKept
    <3> SUFFICES ASSUME NEW v \in Task, NEW b \in Attempt, HeadIs(v, b, "ACTIVE"), Taken(v, b)'
                 PROVE  /\ EffectiveExpiry(v, b) <= now
                        /\ Taken(v, b) \/ terminal[v][b] # "COMMITTED"
      BY DEF TakenKept
    <3>1. CASE v = t /\ b = a
      BY <1>1, <1>5, <3>1 DEF HeadIs
    <3>2. CASE v # t \/ b # a
      <4>1. Taken(v, b)
        BY <1>2, <2>1, <3>2 DEF Taken
      <4> QED BY <4>1 DEF TakenIsLate
    <3> QED BY <3>1, <3>2
  <2> QED BY <1>2, <1>3, <2>2, <2>5, <2>6, FileStep
<1>6. CASE terminal[t][a] = reason /\ txn' = x("decide") /\ UNCHANGED dir
  BY <1>5, <1>6
<1>7. CASE terminal[t][a] = "NONE" /\ txn' = x("move") /\ UNCHANGED dir
  BY <1>5, <1>7
<1> QED BY <1>2, <1>4, <1>6, <1>7

\* The transaction that is moving a workspace.
LEMMA MovingTxn ==
  ASSUME SupervisorInv, txn.step \in {"move", "seal"}
  PROVE  /\ txn \in Txn /\ txn # NoTxn /\ txn.task \in Task /\ txn.attempt \in Attempt
         /\ txn.attempt = head[txn.task].attempt
         /\ txn.attempt \notin result[txn.task]
         /\ txn.reason \in {"LEASE_EXPIRED", "CANCELLED"}
<1> USE DEF SupervisorInv
<1>1. txn \in Txn /\ txn # NoTxn
  BY DEF ProcessTypeOK, NoTxn
<1>2. /\ txn.task \in Task /\ txn.attempt \in Attempt
      /\ txn.reason \in {"LEASE_EXPIRED", "CANCELLED"}
  BY <1>1 DEF Txn
<1>3. txn.attempt = head[txn.task].attempt /\ head[txn.task].state # "COMPLETED"
  BY <1>1, <1>2 DEF TxnIsCurrent
<1> QED BY <1>1, <1>2, <1>3 DEF RowInv, ResultIsLast

\* quarantine: os.replace.
LEMMA MoveWorkspaceStep ==
  ASSUME SupervisorInv, MoveWorkspace
  PROVE  SupervisorInv'
<1> USE DEF SupervisorInv
<1>0. PICK t, a : t = txn.task /\ a = txn.attempt
  OBVIOUS
<1>1. /\ txn.step = "move"
      /\ dir' = [dir EXCEPT ![t][a] = "absent"]
      /\ moved' = [moved EXCEPT ![t][a] = TRUE]
      /\ txn' = [txn EXCEPT !.step = "seal"]
      /\ UNCHANGED <<now, dbVars, terminal, runner, cancels, crashes>>
  BY <1>0 DEF MoveWorkspace
<1>2. /\ txn \in Txn /\ txn # NoTxn /\ t \in Task /\ a \in Attempt
      /\ a = head[t].attempt /\ a \notin result[t] /\ txn.reason \in {"LEASE_EXPIRED", "CANCELLED"}
  BY <1>0, <1>1, MovingTxn
<1>3. /\ txn' \in Txn /\ txn'.reason = txn.reason /\ txn'.task = t /\ txn'.attempt = a
      /\ txn'.step = "seal" /\ txn'.at = txn.at
  BY <1>0, <1>1, <1>2 DEF Txn
<1>4. /\ FileTypeOK' /\ moved'[t][a]
      /\ \A v \in Task : \A b \in Attempt : v # t \/ b # a =>
           dir'[v][b] = dir[v][b] /\ moved'[v][b] = moved[v][b]
  BY <1>1, <1>2 DEF FileTypeOK
<1>5. ProcessTypeOK' /\ now <= now' /\ RunnersKept
  BY <1>1, <1>3 DEF ProcessTypeOK, RunnersKept
<1>6. FilesKept
  <2>1. a <= head[t].attempt
    BY <1>2 DEF Attempt
  <2> SUFFICES ASSUME NEW v \in Task, NEW b \in Attempt
               PROVE  /\ dir'[v][b] # dir[v][b] =>
                           b \notin result[v] /\ (moved'[v][b] \/ b > head[v].attempt)
                      /\ moved[v][b] => moved'[v][b]
                      /\ moved'[v][b] /\ ~moved[v][b] => b <= head[v].attempt /\ b \notin result[v]
    BY <1>1 DEF FilesKept
  <2>2. CASE v = t /\ b = a
    BY <1>2, <1>4, <2>1, <2>2
  <2>3. CASE v # t \/ b # a
    BY <1>4, <2>3
  <2> QED BY <2>2, <2>3
<1>7. TxnIsCurrent'
  <2>1. head' = head /\ \A v, b : EffectiveExpiry(v, b)' = EffectiveExpiry(v, b)
    BY <1>1, ExpiryOfRows DEF dbVars
  <2> QED BY <1>0, <1>1, <1>2, <1>3, <1>4, <2>1 DEF TxnIsCurrent
<1>8. TakenKept
  <2> SUFFICES ASSUME NEW v \in Task, NEW b \in Attempt, HeadIs(v, b, "ACTIVE"), Taken(v, b)'
               PROVE  EffectiveExpiry(v, b) <= now /\ Taken(v, b)
    BY DEF TakenKept
  <2>1. Taken(v, b)
    BY <1>0, <1>2, <1>3, <1>4 DEF Taken
  <2> QED BY <2>1 DEF TakenIsLate
<1> QED BY <1>1, <1>4, <1>5, <1>6, <1>7, <1>8, FileStep

\* quarantine: the receipt, or the rollback.
LEMMA SealQuarantineStep ==
  ASSUME SupervisorInv, SealQuarantine
  PROVE  SupervisorInv'
<1> USE DEF SupervisorInv
<1>0. PICK t, a : t = txn.task /\ a = txn.attempt
  OBVIOUS
<1>1. /\ txn.step = "seal"
      /\ WriteTerminal(t, a, txn.reason)
      /\ txn' = IF terminal'[t][a] = txn.reason THEN [txn EXCEPT !.step = "decide"] ELSE NoTxn
      /\ UNCHANGED <<now, dbVars, dir, moved, runner, cancels, crashes>>
  BY <1>0 DEF SealQuarantine
<1>2. /\ txn \in Txn /\ txn # NoTxn /\ t \in Task /\ a \in Attempt
      /\ a = head[t].attempt /\ txn.reason \in {"LEASE_EXPIRED", "CANCELLED"}
  BY <1>0, <1>1, MovingTxn
<1>3. moved[t][a] /\ moved' = moved /\ a <= head[t].attempt
  BY <1>0, <1>1, <1>2 DEF TxnIsCurrent, Attempt
<1>4. /\ terminal' \in [Task -> [Attempt -> {"NONE", "COMMITTED", "LEASE_EXPIRED", "CANCELLED"}]]
      /\ terminal'[t][a] = IF terminal[t][a] = "NONE" THEN txn.reason ELSE terminal[t][a]
      /\ \A v \in Task : \A b \in Attempt : v # t \/ b # a => terminal'[v][b] = terminal[v][b]
  BY <1>1, <1>2, TerminalWritten
<1>5. FileTypeOK' /\ FilesKept
  BY <1>1, <1>3, <1>4 DEF FileTypeOK, FilesKept
<1>6. CASE terminal'[t][a] = txn.reason
  <2>1. /\ txn' \in Txn /\ txn'.reason = txn.reason /\ txn'.task = t /\ txn'.attempt = a
        /\ txn'.step = "decide" /\ txn'.at = txn.at
    BY <1>0, <1>1, <1>2, <1>6 DEF Txn
  <2>2. ProcessTypeOK' /\ now <= now' /\ RunnersKept
    BY <1>1, <2>1 DEF ProcessTypeOK, RunnersKept
  <2>3. head' = head /\ \A v, b : EffectiveExpiry(v, b)' = EffectiveExpiry(v, b)
    BY <1>1, ExpiryOfRows DEF dbVars
  <2>4. TxnIsCurrent'
    BY <1>0, <1>1, <1>2, <1>3, <1>6, <2>1, <2>3 DEF TxnIsCurrent
  <2>5. TakenKept
    <3> SUFFICES ASSUME NEW v \in Task, NEW b \in Attempt, HeadIs(v, b, "ACTIVE"), Taken(v, b)'
                 PROVE  EffectiveExpiry(v, b) <= now /\ Taken(v, b)
      BY DEF TakenKept
    <3>1. Taken(v, b)
      BY <1>0, <1>2, <1>3, <2>1 DEF Taken
    <3> QED BY <3>1 DEF TakenIsLate
  <2> QED BY <1>1, <1>5, <2>2, <2>4, <2>5, FileStep
<1>7. CASE terminal'[t][a] # txn.reason
  <2>1. txn' = NoTxn
    BY <1>1, <1>7
  <2>2. ProcessTypeOK' /\ now <= now' /\ RunnersKept
    BY <1>1, <2>1 DEF ProcessTypeOK, RunnersKept
  <2>3. TxnIsCurrent'
    BY <1>1, <1>5, <2>1, <2>2, TxnKept
  <2>4. TakenKept
    BY <1>3, <2>1, NothingTaken
  <2> QED BY <1>1, <1>5, <2>2, <2>3, <2>4, FileStep
<1> QED BY <1>6, <1>7

-----------------------------------------------------------------------------
(* The invariant and what it says.                                         *)

\* At first no task has an attempt.
LEMMA InitInv == Init => SupervisorInv
<1> SUFFICES ASSUME Init PROVE SupervisorInv
  OBVIOUS
<1>1. /\ now = 0 /\ cancels = 0 /\ crashes = 0 /\ txn = NoTxn
      /\ head \in [Task -> HeadRow] /\ \A t \in Task : head[t].attempt = 0 /\ head[t].state = "NONE"
  BY SupervisorAssumption DEF Init, NoHead, HeadRow
<1>2. /\ RowTypeOK
      /\ \A t \in Task : /\ result[t] = {}
                         /\ \A a \in Attempt : lease[t][a] = NoLease /\ events[t][a] = <<>>
                         /\ \A k \in Key : idem[t][k] = 0
  BY <1>1, SupervisorAssumption DEF Init, RowTypeOK
<1>3. /\ FileTypeOK
      /\ \A t \in Task : \A a \in Attempt : terminal[t][a] = "NONE" /\ moved[t][a] = FALSE
  BY DEF Init, FileTypeOK
<1>4. ProcessTypeOK /\ \A w \in Runner : runner[w] = Idle
  BY <1>1 DEF Init, ProcessTypeOK
<1>5. \A a \in Attempt : ~(a <= 0) /\ a > 0
  BY DEF Attempt
<1>6. RowInv
  <2>1. LeasesNumbered
    BY <1>1, <1>2, <1>5 DEF LeasesNumbered
  <2>2. ResultIsLast
    BY <1>1, <1>2 DEF ResultIsLast
  <2>3. \A t \in Task : 1..head[t].attempt = {}
    BY <1>1
  <2>4. ExpiryIsLatest
    BY <2>3 DEF ExpiryIsLatest
  <2>5. RetryIsDue
    BY <1>1, <2>3 DEF RetryIsDue
  <2> QED BY <1>2, <2>1, <2>2, <2>4, <2>5 DEF RowInv
<1>7. FilesFollowMove
  BY <1>1, <1>3, <1>5 DEF FilesFollowMove
<1>8. RunnersHoldLeases /\ TxnIsCurrent
  BY <1>1, <1>4 DEF RunnersHoldLeases, TxnIsCurrent
<1>9. TakenIsLate /\ EndsAgree
  BY <1>1 DEF TakenIsLate, HeadIs, EndsAgree
<1> QED BY <1>3, <1>4, <1>6, <1>7, <1>8, <1>9 DEF SupervisorInv

\* Every step keeps the invariant.
LEMMA StepInv == SupervisorInv /\ [Next]_vars => SupervisorInv'
<1> SUFFICES ASSUME SupervisorInv, [Next]_vars PROVE SupervisorInv'
  OBVIOUS
<1>1. CASE UNCHANGED vars
  <2>1. UNCHANGED <<now, dbVars, fsVars, txn, runner, cancels, crashes>>
    BY <1>1 DEF vars
  <2>2. ProcessTypeOK' /\ now <= now' /\ RunnersKept
    BY <2>1 DEF SupervisorInv, ProcessTypeOK, RunnersKept
  <2> QED BY <2>1, <2>2, StandStill
<1>2. CASE Tick
  BY <1>2, TickStep
<1>3. ASSUME NEW t \in Task, Expire(t)
      PROVE  SupervisorInv'
  <2>1. PICK a : a = head[t].attempt
    OBVIOUS
  <2>2. /\ head[t].state = "ACTIVE" /\ now >= EffectiveExpiry(t, a)
        /\ BeginQuarantine(t, a, "LEASE_EXPIRED")
    BY <1>3, <2>1 DEF Expire
  <2> QED BY <2>1, <2>2, BeginQuarantineStep DEF Open
<1>4. ASSUME NEW t \in Task, AcknowledgeCancel(t)
      PROVE  SupervisorInv'
  <2>1. PICK a : a = head[t].attempt
    OBVIOUS
  <2>2. head[t].state = "CANCEL_REQUESTED" /\ BeginQuarantine(t, a, "CANCELLED")
    BY <1>4, <2>1 DEF AcknowledgeCancel
  <2> QED BY <2>1, <2>2, BeginQuarantineStep DEF Open
<1>5. CASE MoveWorkspace
  BY <1>5, MoveWorkspaceStep
<1>6. CASE SealQuarantine
  BY <1>6, SealQuarantineStep
<1>7. CASE DecideExpiry
  BY <1>7, DecideExpiryStep
<1>8. CASE DecideCancel
  BY <1>8, DecideCancelStep
<1>9. CASE CrashInQuarantine
  BY <1>9, CrashInQuarantineStep
<1>10. ASSUME NEW t \in Task, RequestCancel(t)
       PROVE  SupervisorInv'
  BY <1>10, RequestCancelStep
<1>11. ASSUME NEW w \in Runner, NEW t \in Task, NEW k \in Key,
              \/ ReplayLease(w, t, k)
              \/ \E c \in 0..now : Acquire(w, t, k, c) \/ AcquireCrash(w, t, k, c)
       PROVE  SupervisorInv'
  BY <1>11, ReplayLeaseStep, AcquireStep, AcquireCrashStep
<1>12. ASSUME NEW w \in Runner, RunnerStep(w) \/ Heartbeat(w) \/ Crash(w)
       PROVE  SupervisorInv'
  BY <1>12, RecoverStep, CheckCommitStep, SealCommitStep, AskCompleteStep, CompleteStep,
     CompleteReplayedOrRefusedStep, HeartbeatStep, CrashStep DEF RunnerStep
<1> QED BY <1>1, <1>2, <1>3, <1>4, <1>5, <1>6, <1>7, <1>8, <1>9, <1>10, <1>11, <1>12
        DEF Next, Settlement

\* The inductive invariant holds throughout.
THEOREM SupervisorSafety == Spec => []SupervisorInv
BY InitInv, StepInv, PTL DEF Spec

\* A result belongs to the last attempt, which was never expired or cancelled,
\* and complete accepted it on a clock reading before the effective expiry.
THEOREM ResultSafety == Spec => []ResultFromLiveLease
<1>1. SupervisorInv => ResultFromLiveLease
  <2> SUFFICES ASSUME SupervisorInv, NEW t \in Task, NEW a \in result[t]
               PROVE  /\ a = LastAttempt(t)
                      /\ HeadIs(t, a, "COMPLETED")
                      /\ events[t][a][Len(events[t][a])].kind = "COMPLETED"
                      /\ events[t][a][Len(events[t][a])].at < EffectiveExpiry(t, a)
    BY DEF ResultFromLiveLease
  <2>1. RowInv
    BY DEF SupervisorInv
  <2>2. a = head[t].attempt /\ head[t].state = "COMPLETED"
    BY <2>1 DEF RowInv, ResultIsLast
  <2> QED BY <2>1, <2>2, LastIsHead DEF RowInv, ResultIsLast, HeadIs
<1> QED BY <1>1, SupervisorSafety, PTL

\* Rows and files agree on every attempt that ended, although expire,
\* acknowledge_cancel and complete span both without a common transaction.
THEOREM WorkspaceSafety == Spec => []WorkspaceAgrees
<1>1. SupervisorInv => WorkspaceAgrees
  <2> SUFFICES ASSUME SupervisorInv, NEW t \in Task, NEW a \in 1..LastAttempt(t)
               PROVE  EndAgrees(t, a)
    BY DEF WorkspaceAgrees, EndAgrees
  <2>1. LastAttempt(t) = head[t].attempt
    BY LastIsHead DEF SupervisorInv
  <2> QED BY <2>1 DEF SupervisorInv, EndsAgree
<1> QED BY <1>1, SupervisorSafety, PTL

\* What dispatch_ready offers, acquire's checks allow.
THEOREM ReadySafety == Spec => []ReadyIsAcquirable
<1>1. SupervisorInv => ReadyIsAcquirable
  <2> SUFFICES ASSUME SupervisorInv, NEW t \in Task, DispatchReady(t)
               PROVE  AcquireAllowed(t, now)
    BY DEF ReadyIsAcquirable
  <2>1. RowInv
    BY DEF SupervisorInv
  <2>2. head[t].state \in {"NONE", "RETRY_SCHEDULED"}
    <3>1. head[t].state \in {"NONE"} \cup Open \cup Ended
      BY <2>1 DEF RowInv, RowTypeOK, HeadRow
    <3>2. head[t].state # "COMPLETED"
      BY <2>1 DEF DispatchReady, HasResult, RowInv, ResultIsLast
    <3> QED BY <3>1, <3>2 DEF DispatchReady, Open, Ended
  <2>3. LastAttempt(t) < MaxAttempts
    <3>1. LastAttempt(t) = head[t].attempt
      BY <2>1, LastIsHead
    <3>2. CASE head[t].state = "NONE"
      BY <2>1, <3>1, <3>2, SupervisorAssumption DEF RowInv, LeasesNumbered
    <3>3. CASE head[t].state = "RETRY_SCHEDULED"
      BY <2>1, <3>1, <3>3 DEF RowInv, RetryIsDue
    <3> QED BY <2>2, <3>2, <3>3
  <2> QED BY <2>2, <2>3 DEF DispatchReady, AcquireAllowed
<1> QED BY <1>1, SupervisorSafety, PTL

\* An attempt is expired only at or after the last expiry a heartbeat or
\* acquire promised it, and its successor waits for the retry delay after that.
THEOREM PromiseSafety == Spec => []PromisesKept
<1>1. SupervisorInv => PromisesKept
  <2> SUFFICES ASSUME SupervisorInv, NEW t \in Task, NEW a \in 1..LastAttempt(t)
               PROVE  /\ \A i, j \in 1..Len(events[t][a]) :
                           events[t][a][i].kind = "EXPIRED" =>
                             events[t][a][j].expires <= events[t][a][i].at
                      /\ a > 1 => \A i \in 1..Len(events[t][a - 1]) :
                           events[t][a - 1][i].expires + RetryDelay <= lease[t][a].acquired
    BY DEF PromisesKept
  <2>1. RowInv /\ LastAttempt(t) = head[t].attempt /\ head[t].attempt \in 0..MaxAttempts
    BY LastIsHead DEF SupervisorInv
  <2>2. \A b \in 1..head[t].attempt :
          /\ b \in Attempt /\ EffectiveExpiry(t, b) \in Nat
          /\ PromisedUpTo(events[t][b], EffectiveExpiry(t, b))
    BY <2>1, SupervisorAssumption DEF RowInv, ExpiryIsLatest, Attempt
  <2>3. \A b \in Attempt : \A i \in 1..Len(events[t][b]) :
          events[t][b][i].expires \in Int /\ events[t][b][i].at \in Int
    <3> SUFFICES ASSUME NEW b \in Attempt, NEW i \in 1..Len(events[t][b])
                 PROVE  events[t][b][i].expires \in Int /\ events[t][b][i].at \in Int
      OBVIOUS
    <3>1. events[t][b] \in Seq(EventRow)
      BY <2>1 DEF RowInv, RowTypeOK
    <3>2. events[t][b][i] \in EventRow
      BY <3>1
    <3> QED BY <3>2 DEF EventRow
  <2>4. ASSUME NEW i \in 1..Len(events[t][a]), NEW j \in 1..Len(events[t][a]),
               events[t][a][i].kind = "EXPIRED"
        PROVE  events[t][a][j].expires <= events[t][a][i].at
    <3>1. a \in 1..head[t].attempt /\ a \in Attempt
      BY <2>1, <2>2
    <3>2. events[t][a][j].expires <= EffectiveExpiry(t, a) /\ events[t][a][i].at >= EffectiveExpiry(t, a)
      BY <2>2, <2>4, <3>1 DEF PromisedUpTo
    <3>3. EffectiveExpiry(t, a) \in Int /\ events[t][a][j].expires \in Int /\ events[t][a][i].at \in Int
      BY <2>2, <2>3, <3>1
    <3> QED BY <3>2, <3>3
  <2>5. ASSUME a > 1, NEW i \in 1..Len(events[t][a - 1])
        PROVE  events[t][a - 1][i].expires + RetryDelay <= lease[t][a].acquired
    <3>1. a \in 1..head[t].attempt /\ a - 1 \in 1..head[t].attempt
      BY <2>1, <2>5
    <3>2. events[t][a - 1][i].expires <= EffectiveExpiry(t, a - 1)
      BY <2>2, <3>1 DEF PromisedUpTo
    <3>3. EffectiveExpiry(t, a - 1) + RetryDelay <= lease[t][a].acquired
      BY <2>1, <2>5, <3>1 DEF RowInv, RetryIsDue
    <3>4. lease[t][a].acquired \in Int
      <4>1. lease[t][a] \in LeaseRow
        BY <2>1, <2>2, <3>1 DEF RowInv, RowTypeOK, LeasesNumbered
      <4> QED BY <4>1 DEF LeaseRow
    <3>5. EffectiveExpiry(t, a - 1) \in Int /\ events[t][a - 1][i].expires \in Int /\ RetryDelay \in Int
      BY <2>2, <2>3, <3>1, SupervisorAssumption
    <3> QED BY <3>2, <3>3, <3>4, <3>5, SMTT(20)
  <2> QED BY <2>4, <2>5
<1> QED BY <1>1, SupervisorSafety, PTL

-----------------------------------------------------------------------------
(* No deadlock but the known ones.                                         *)

\* An active attempt has no receipt of a cancellation.
ActiveIsNotCancelled ==
  \A t \in Task : \A a \in Attempt : HeadIs(t, a, "ACTIVE") => terminal[t][a] # "CANCELLED"

SettleInv == SupervisorInv /\ ActiveIsNotCancelled

\* Steps that write no receipt.
LEMMA ReceiptsStay ==
  ASSUME SettleInv, terminal' = terminal,
         \A t \in Task : \/ head'[t] = head[t] \/ head'[t].state # "ACTIVE"
                         \/ terminal[t][head'[t].attempt] # "CANCELLED"
  PROVE  ActiveIsNotCancelled'
BY DEF SettleInv, ActiveIsNotCancelled, HeadIs

\* Recording events makes an attempt active only where it was, or is new.
LEMMA RecordKeepsReceipts ==
  ASSUME SettleInv, NEW t \in Task, NEW a \in Attempt, NEW new, NEW state, Record(t, a, new, state),
         terminal' = terminal, state = "ACTIVE" => terminal[t][a] # "CANCELLED"
  PROVE  ActiveIsNotCancelled'
<1>1. /\ head'[t].attempt = a /\ head'[t].state = state
      /\ \A v \in Task : v # t => head'[v] = head[v]
  BY DEF Record, SettleInv, SupervisorInv, RowInv, RowTypeOK
<1> QED BY <1>1, ReceiptsStay

\* Only a commit and a quarantine write receipts, the latter for its own reason.
LEMMA ReceiptWritten ==
  ASSUME SettleInv, NEW t \in Task, NEW a \in Attempt, head' = head,
         NEW receipt \in {"COMMITTED", "LEASE_EXPIRED", "CANCELLED"}, WriteTerminal(t, a, receipt),
         receipt = "CANCELLED" => ~HeadIs(t, a, "ACTIVE")
  PROVE  ActiveIsNotCancelled'
<1>1. /\ terminal'[t][a] = IF terminal[t][a] = "NONE" THEN receipt ELSE terminal[t][a]
      /\ \A v \in Task : \A b \in Attempt : v # t \/ b # a => terminal'[v][b] = terminal[v][b]
  BY TerminalWritten DEF SettleInv, SupervisorInv
<1>2. ASSUME NEW v \in Task, NEW b \in Attempt, head[v].attempt = b, head[v].state = "ACTIVE"
      PROVE  terminal'[v][b] # "CANCELLED"
  <2>1. HeadIs(v, b, "ACTIVE") /\ terminal[v][b] # "CANCELLED"
    BY <1>2 DEF HeadIs, SettleInv, ActiveIsNotCancelled
  <2>2. CASE v = t /\ b = a
    BY <1>1, <2>1, <2>2
  <2>3. CASE v # t \/ b # a
    BY <1>1, <2>1, <2>3
  <2> QED BY <2>2, <2>3
<1> QED BY <1>2 DEF ActiveIsNotCancelled, HeadIs

LEMMA SettleStep == SettleInv /\ [Next]_vars => ActiveIsNotCancelled'
<1> SUFFICES ASSUME SettleInv, [Next]_vars PROVE ActiveIsNotCancelled'
  OBVIOUS
<1>0. SupervisorInv
  BY DEF SettleInv
<1>1. ASSUME head' = head, terminal' = terminal PROVE ActiveIsNotCancelled'
  BY <1>1, ReceiptsStay
<1>2. CASE UNCHANGED vars
  BY <1>1, <1>2 DEF vars, dbVars, fsVars
<1>3. CASE Tick \/ MoveWorkspace \/ CrashInQuarantine
  BY <1>1, <1>3 DEF Tick, MoveWorkspace, CrashInQuarantine, dbVars, fsVars
<1>4. ASSUME NEW t \in Task, Expire(t) \/ AcknowledgeCancel(t) PROVE ActiveIsNotCancelled'
  BY <1>1, <1>4 DEF Expire, AcknowledgeCancel, BeginQuarantine, dbVars
<1>5. CASE SealQuarantine
  <2>1. /\ WriteTerminal(txn.task, txn.attempt, txn.reason) /\ head' = head
        /\ txn.step = "seal"
    BY <1>5 DEF SealQuarantine, dbVars
  <2>2. /\ txn # NoTxn /\ txn.task \in Task /\ txn.attempt \in Attempt
        /\ txn.reason \in {"LEASE_EXPIRED", "CANCELLED"}
    BY <1>0, <2>1, MovingTxn
  <2>3. txn.reason = "CANCELLED" => ~HeadIs(txn.task, txn.attempt, "ACTIVE")
    BY <1>0, <2>2 DEF SupervisorInv, TxnIsCurrent, HeadIs
  <2>4. PICK t, a, receipt : t = txn.task /\ a = txn.attempt /\ receipt = txn.reason
    OBVIOUS
  <2> QED BY <2>1, <2>2, <2>3, <2>4, ReceiptWritten
<1>6. CASE DecideExpiry \/ DecideCancel
  <2>1. PICK t, a : t = txn.task /\ a = txn.attempt
    OBVIOUS
  <2>2. t \in Task /\ a = head[t].attempt /\ head[t].state \in Open
    BY <1>0, <1>6, <2>1, DecidingTxn DEF DecideExpiry, DecideCancel
  <2>3. a \in Attempt
    BY <1>0, <2>2, HeadAttempt DEF SupervisorInv, Open
  <2>4. \E new, state : Record(t, a, new, state) /\ state # "ACTIVE" /\ terminal' = terminal
    <3>1. CASE DecideExpiry
      BY <2>1, <3>1 DEF DecideExpiry, fsVars
    <3>2. CASE DecideCancel
      BY <2>1, <3>2 DEF DecideCancel, fsVars
    <3> QED BY <1>6, <3>1, <3>2
  <2> QED BY <2>2, <2>3, <2>4, RecordKeepsReceipts
<1>7. ASSUME NEW t \in Task, RequestCancel(t) PROVE ActiveIsNotCancelled'
  <2>1. PICK a : a = head[t].attempt
    OBVIOUS
  <2>2. a \in Attempt
    BY <1>0, <1>7, <2>1, HeadAttempt DEF SupervisorInv, RequestCancel
  <2>3. \E new : Record(t, a, new, "CANCEL_REQUESTED") /\ terminal' = terminal
    BY <1>7, <2>1 DEF RequestCancel, fsVars
  <2> QED BY <2>2, <2>3, RecordKeepsReceipts
<1>8. ASSUME NEW w \in Runner, NEW t \in Task, NEW k \in Key,
             \/ ReplayLease(w, t, k)
             \/ \E c \in 0..now : Acquire(w, t, k, c) \/ AcquireCrash(w, t, k, c)
      PROVE  ActiveIsNotCancelled'
  <2>1. CASE ReplayLease(w, t, k)
    BY <1>1, <2>1 DEF ReplayLease, dbVars, fsVars
  <2>2. ASSUME NEW c \in 0..now, Acquire(w, t, k, c) PROVE ActiveIsNotCancelled'
    <3>1. PICK a : a = LastAttempt(t) + 1
      OBVIOUS
    <3>2. a \in Attempt
      <4>1. LastAttempt(t) \in 0..MaxAttempts /\ LastAttempt(t) < MaxAttempts
        BY <1>0, <2>2, LastIsHead DEF SupervisorInv, Acquire, MayAcquire, AcquireAllowed
      <4> QED BY <3>1, <4>1, SupervisorAssumption DEF Attempt
    <3>3. \E new : Record(t, a, new, "ACTIVE") /\ terminal' = terminal /\ terminal[t][a] = "NONE"
      BY <2>2, <3>1 DEF Acquire
    <3> QED BY <3>2, <3>3, RecordKeepsReceipts
  <2>3. ASSUME NEW c \in 0..now, AcquireCrash(w, t, k, c) PROVE ActiveIsNotCancelled'
    BY <1>1, <2>3 DEF AcquireCrash, dbVars
  <2> QED BY <1>8, <2>1, <2>2, <2>3
<1>9. ASSUME NEW w \in Runner, RunnerStep(w) \/ Heartbeat(w) \/ Crash(w)
      PROVE  ActiveIsNotCancelled'
  <2>1. CASE Recover(w) \/ CheckCommit(w) \/ AskComplete(w)
    BY <1>1, <2>1 DEF Recover, CheckCommit, AskComplete, dbVars, fsVars
  <2>2. CASE CompleteReplayedOrRefused(w) \/ Crash(w)
    BY <1>1, <2>2 DEF CompleteReplayedOrRefused, Crash, dbVars, fsVars
  <2>3. CASE Heartbeat(w) \/ Complete(w)
    <3>1. PICK t, a : t = runner[w].task /\ a = runner[w].attempt
      OBVIOUS
    <3>2. t \in Task /\ a \in Attempt
      BY <1>0, <2>3, <3>1
         DEF Heartbeat, Complete, SupervisorInv, ProcessTypeOK, Busy, Idle
    <3>3. \E new, state : Record(t, a, new, state) /\ HeadIs(t, a, "ACTIVE") /\ terminal' = terminal
      <4>1. CASE Heartbeat(w)
        BY <3>1, <4>1 DEF Heartbeat, fsVars
      <4>2. CASE Complete(w)
        BY <3>1, <4>2 DEF Complete, LeaseHolds, fsVars
      <4> QED BY <2>3, <4>1, <4>2
    <3> QED BY <3>2, <3>3, RecordKeepsReceipts DEF SettleInv, ActiveIsNotCancelled
  <2>4. CASE SealCommit(w)
    <3>1. PICK t, a : t = runner[w].task /\ a = runner[w].attempt
      OBVIOUS
    <3>2. t \in Task /\ a \in Attempt
      BY <1>0, <2>4, <3>1 DEF SealCommit, SupervisorInv, ProcessTypeOK, Busy, Idle
    <3>3. head' = head /\ (WriteTerminal(t, a, "COMMITTED") \/ terminal' = terminal)
      BY <2>4, <3>1 DEF SealCommit, dbVars
    <3> QED BY <1>1, <3>2, <3>3, ReceiptWritten
  <2> QED BY <1>9, <2>1, <2>2, <2>3, <2>4 DEF RunnerStep
<1> QED BY <1>2, <1>3, <1>4, <1>5, <1>6, <1>7, <1>8, <1>9 DEF Next, Settlement

\* The three deadlocks that Wedged names are all there are between the rows and
\* the files: wherever a runner or a quarantine stopped, any other open lease
\* can be settled with what it left in the file system.
THEOREM SettlementSafety == Spec => []UnwedgedIsSettleable
<1>1. Init => SettleInv
  BY InitInv DEF SettleInv, Init, NoHead, ActiveIsNotCancelled, HeadIs
<1>2. SettleInv /\ [Next]_vars => SettleInv'
  <2>1. SettleInv /\ [Next]_vars => SupervisorInv'
    BY StepInv DEF SettleInv
  <2> QED BY <2>1, SettleStep DEF SettleInv
<1>3. SettleInv => UnwedgedIsSettleable
  <2> SUFFICES ASSUME SettleInv, NEW t \in Task, head[t].state \in Open, ~Wedged(t)
               PROVE  LET a == head[t].attempt
                          reason == IF head[t].state = "ACTIVE" THEN "LEASE_EXPIRED" ELSE "CANCELLED"
                      IN Reusable(t, a, reason) \/ CanMove(t, a)
    BY DEF UnwedgedIsSettleable
  <2>1. PICK a : a = head[t].attempt
    OBVIOUS
  <2>2. a \in Attempt /\ a <= a /\ head[t].state \in {"ACTIVE", "CANCEL_REQUESTED"}
    BY <2>1, HeadAttempt DEF SettleInv, SupervisorInv, Open, Attempt
  <2>3. /\ terminal[t][a] \in {"NONE", "LEASE_EXPIRED", "CANCELLED"}
        /\ terminal[t][a] = "NONE" => ~moved[t][a]
        /\ terminal[t][a] = "LEASE_EXPIRED" => head[t].state = "ACTIVE"
        /\ terminal[t][a] = "CANCELLED" => head[t].state = "CANCEL_REQUESTED"
    BY <2>1, <2>2
       DEF Wedged, SettleInv, SupervisorInv, FileTypeOK, ActiveIsNotCancelled, HeadIs
  <2>4. dir[t][a] = "complete" \/ moved[t][a]
    BY <2>1, <2>2 DEF SettleInv, SupervisorInv, FilesFollowMove
  <2> QED BY <2>1, <2>2, <2>3, <2>4 DEF Reusable, CanMove
<1> QED BY <1>1, <1>2, <1>3, PTL DEF Spec

-----------------------------------------------------------------------------
(* The supervisor's leases keep what a lease on an attempt promises.       *)

\* What log s means, as LogMeaning and Ending read it.
EndingsOf(s) == {i \in 1..Len(s) : s[i].kind \in EndingKinds}

MeaningOf(s) ==
  IF s = <<>> THEN "none"
  ELSE IF EndingsOf(s) = {} THEN "held"
  ELSE IF s[CHOOSE i \in EndingsOf(s) : TRUE].kind = "COMPLETED" THEN "finished"
  ELSE IF s[CHOOSE i \in EndingsOf(s) : TRUE].kind = "EXPIRED" THEN "expired"
  ELSE "withdrawn"

EndOf(s) == IF EndingsOf(s) = {} THEN 0 ELSE s[CHOOSE i \in EndingsOf(s) : TRUE].at

\* The leases as AttemptLease sees them.
Meant == [t \in Task |-> [a \in Attempt |-> LogMeaning(t, a)]]
Promised == [t \in Task |-> [a \in Attempt |->
               IF events[t][a] = <<>> THEN 0 ELSE EffectiveExpiry(t, a)]]
EndedAt == [t \in Task |-> [a \in Attempt |->
              IF Endings(t, a) = {} THEN 0 ELSE Ending(t, a).at]]

LEMMA MeaningOfLog ==
  /\ \A t, a : LogMeaning(t, a) = MeaningOf(events[t][a])
  /\ \A t, a : LogMeaning(t, a)' = MeaningOf(events'[t][a])
  /\ \A t, a : (IF Endings(t, a) = {} THEN 0 ELSE Ending(t, a).at) = EndOf(events[t][a])
  /\ \A t, a : (IF Endings(t, a) = {} THEN 0 ELSE Ending(t, a).at)' = EndOf(events'[t][a])
BY DEF LogMeaning, Ending, Endings, MeaningOf, EndOf, EndingsOf

\* The tables, row by row.
LEMMA PromiseTables ==
  /\ Meant = [t \in Task |-> [a \in Attempt |-> MeaningOf(events[t][a])]]
  /\ Meant' = [t \in Task |-> [a \in Attempt |-> MeaningOf(events'[t][a])]]
  /\ EndedAt = [t \in Task |-> [a \in Attempt |-> EndOf(events[t][a])]]
  /\ EndedAt' = [t \in Task |-> [a \in Attempt |-> EndOf(events'[t][a])]]
  /\ Promised' = [t \in Task |-> [a \in Attempt |->
                    IF events'[t][a] = <<>> THEN 0 ELSE EffectiveExpiry(t, a)']]
<1>1. Meant = [t \in Task |-> [a \in Attempt |-> MeaningOf(events[t][a])]]
  BY MeaningOfLog DEF Meant
<1>2. Meant' = [t \in Task |-> [a \in Attempt |-> LogMeaning(t, a)']]
  BY DEF Meant
<1>3. EndedAt = [t \in Task |-> [a \in Attempt |-> EndOf(events[t][a])]]
  BY MeaningOfLog DEF EndedAt
<1>4. EndedAt' = [t \in Task |-> [a \in Attempt |->
                    (IF Endings(t, a) = {} THEN 0 ELSE Ending(t, a).at)']]
  BY DEF EndedAt
<1>5. Promised' = [t \in Task |-> [a \in Attempt |->
                     IF events'[t][a] = <<>> THEN 0 ELSE EffectiveExpiry(t, a)']]
  BY DEF Promised
<1> QED BY <1>1, <1>2, <1>3, <1>4, <1>5, MeaningOfLog

\* Without events there is no attempt.
LEMMA EmptyLog == MeaningOf(<<>>) = "none" /\ EndOf(<<>>) = 0
BY DEF MeaningOf, EndOf, EndingsOf

\* Where no event ends it the attempt is held.
LEMMA HeldLog ==
  ASSUME NEW s \in Seq(EventRow), s # <<>>, \A i \in 1..Len(s) : s[i].kind \notin EndingKinds
  PROVE  MeaningOf(s) = "held" /\ EndOf(s) = 0 /\ EndingsOf(s) = {}
BY DEF MeaningOf, EndOf, EndingsOf

\* The first event that ends an attempt decides what its log means.
LEMMA EndingAppended ==
  ASSUME NEW s \in Seq(EventRow), EndingsOf(s) = {}, NEW new \in Seq(EventRow), new # <<>>,
         new[1].kind \in EndingKinds, \A i \in 2..Len(new) : new[i].kind \notin EndingKinds
  PROVE  /\ MeaningOf(s \o new) = IF new[1].kind = "COMPLETED" THEN "finished"
                                  ELSE IF new[1].kind = "EXPIRED" THEN "expired" ELSE "withdrawn"
         /\ EndOf(s \o new) = new[1].at
<1> DEFINE r == s \o new
<1>1. /\ Len(r) = Len(s) + Len(new) /\ Len(s) \in Nat /\ Len(new) \in Nat \ {0}
      /\ \A i \in 1..Len(r) : r[i] = IF i <= Len(s) THEN s[i] ELSE new[i - Len(s)]
  OBVIOUS
<1> HIDE DEF r
<1>2. ASSUME NEW i \in 1..Len(r) PROVE r[i].kind \in EndingKinds <=> i = Len(s) + 1
  <2>1. CASE i <= Len(s)
    <3>1. r[i] = s[i] /\ i \in 1..Len(s)
      BY <1>1, <2>1
    <3> QED BY <1>1, <2>1, <3>1 DEF EndingsOf
  <2>2. CASE i = Len(s) + 1
    <3>1. r[i] = new[1]
      BY <1>1, <2>2
    <3> QED BY <2>2, <3>1
  <2>3. CASE i > Len(s) + 1
    <3>1. r[i] = new[i - Len(s)] /\ i - Len(s) \in 2..Len(new)
      BY <1>1, <2>3
    <3> QED BY <2>3, <3>1
  <2> QED BY <1>1, <2>1, <2>2, <2>3
<1>3. EndingsOf(r) = {Len(s) + 1}
  BY <1>1, <1>2 DEF EndingsOf
<1>4. (CHOOSE i \in EndingsOf(r) : TRUE) = Len(s) + 1
  BY <1>3
<1>5. r[Len(s) + 1] = new[1] /\ r # <<>>
  BY <1>1
<1>6. EndingsOf(r) # {}
  BY <1>3
<1> QED BY <1>4, <1>5, <1>6, Zenon DEF MeaningOf, EndOf, r

\* Other events change nothing about it.
LEMMA OthersAppended ==
  ASSUME NEW s \in Seq(EventRow), s # <<>>, NEW new \in Seq(EventRow),
         \A i \in 1..Len(new) : new[i].kind \notin EndingKinds
  PROVE  MeaningOf(s \o new) = MeaningOf(s) /\ EndOf(s \o new) = EndOf(s)
<1> DEFINE r == s \o new
<1>1. /\ Len(r) = Len(s) + Len(new) /\ Len(s) \in Nat \ {0} /\ Len(new) \in Nat
      /\ \A i \in 1..Len(r) : r[i] = IF i <= Len(s) THEN s[i] ELSE new[i - Len(s)]
  OBVIOUS
<1> HIDE DEF r
<1>2. ASSUME NEW i \in 1..Len(r)
      PROVE  r[i].kind \in EndingKinds <=> i \in 1..Len(s) /\ s[i].kind \in EndingKinds
  <2>1. CASE i <= Len(s)
    BY <1>1, <2>1
  <2>2. CASE i > Len(s)
    <3>1. r[i] = new[i - Len(s)] /\ i - Len(s) \in 1..Len(new) /\ i \notin 1..Len(s)
      BY <1>1, <2>2
    <3> QED BY <3>1
  <2> QED BY <1>1, <2>1, <2>2
<1>3. EndingsOf(r) = EndingsOf(s)
  <2>1. \A i \in 1..Len(s) : i \in 1..Len(r)
    BY <1>1
  <2> QED BY <1>2, <2>1 DEF EndingsOf
<1>4. \A i \in EndingsOf(s) : r[i] = s[i]
  BY <1>1 DEF EndingsOf
<1>5. r # <<>>
  BY <1>1
<1>6. CASE EndingsOf(s) = {}
  BY <1>3, <1>5, <1>6 DEF MeaningOf, EndOf, r
<1>7. CASE EndingsOf(s) # {}
  <2>1. r[CHOOSE i \in EndingsOf(s) : TRUE] = s[CHOOSE i \in EndingsOf(s) : TRUE]
    BY <1>4, <1>7
  <2>2. r[CHOOSE i \in EndingsOf(r) : TRUE] = s[CHOOSE i \in EndingsOf(s) : TRUE]
    BY <1>3, <2>1
  <2>3. MeaningOf(r) = MeaningOf(s) /\ EndOf(r) = EndOf(s)
    BY <1>3, <1>5, <1>7, <2>2 DEF MeaningOf, EndOf
  <2> QED BY <2>3 DEF r
<1> QED BY <1>6, <1>7

\* A table of which one row changes.
LEMMA OneRowChanges ==
  ASSUME NEW f, NEW g,
         f = [v \in Task |-> [b \in Attempt |-> f[v][b]]],
         g = [v \in Task |-> [b \in Attempt |-> g[v][b]]],
         NEW u \in Task, NEW a \in Attempt,
         \A v \in Task : \A b \in Attempt : v # u \/ b # a => g[v][b] = f[v][b]
  PROVE  g = [f EXCEPT ![u][a] = g[u][a]]
<1> DEFINE h == [f EXCEPT ![u][a] = g[u][a]]
<1>1. h = [v \in Task |-> [b \in Attempt |-> IF v = u /\ b = a THEN g[u][a] ELSE f[v][b]]]
  OBVIOUS
<1>2. \A v \in Task : \A b \in Attempt :
        g[v][b] = IF v = u /\ b = a THEN g[u][a] ELSE f[v][b]
  OBVIOUS
<1>3. g = [v \in Task |-> [b \in Attempt |-> IF v = u /\ b = a THEN g[u][a] ELSE f[v][b]]]
  BY <1>2
<1> QED BY <1>1, <1>3

\* The rows of such a table.
LEMMA RowsOfChanged ==
  ASSUME NEW f, NEW g, NEW x, f = [v \in Task |-> [b \in Attempt |-> f[v][b]]],
         NEW u \in Task, NEW a \in Attempt, g = [f EXCEPT ![u][a] = x],
         NEW v \in Task, NEW b \in Attempt
  PROVE  g[v][b] = IF v = u /\ b = a THEN x ELSE f[v][b]
<1>1. g = [w \in Task |-> [c \in Attempt |-> IF w = u /\ c = a THEN x ELSE f[w][c]]]
  OBVIOUS
<1> QED BY <1>1

\* What a step on one attempt does to the three tables.
LEMMA OneLogChanges ==
  ASSUME NEW t \in Task, NEW a \in Attempt,
         \A v \in Task : \A b \in Attempt : v # t \/ b # a =>
           events'[v][b] = events[v][b] /\ lease'[v][b] = lease[v][b],
         events'[t][a] # <<>>
  PROVE  /\ Meant' = [Meant EXCEPT ![t][a] = MeaningOf(events'[t][a])]
         /\ MeaningOf(events'[t][a]) = MeaningOf(events[t][a]) => Meant' = Meant
         /\ Promised' = [Promised EXCEPT ![t][a] = EffectiveExpiry(t, a)']
         /\ EffectiveExpiry(t, a)' = EffectiveExpiry(t, a) /\ events[t][a] # <<>> =>
              Promised' = Promised
         /\ EndedAt' = [EndedAt EXCEPT ![t][a] = EndOf(events'[t][a])]
         /\ EndOf(events'[t][a]) = EndOf(events[t][a]) => EndedAt' = EndedAt
<1>1. /\ \A v \in Task : \A b \in Attempt :
           /\ Meant[v][b] = MeaningOf(events[v][b]) /\ Meant'[v][b] = MeaningOf(events'[v][b])
           /\ EndedAt[v][b] = EndOf(events[v][b]) /\ EndedAt'[v][b] = EndOf(events'[v][b])
           /\ Promised[v][b] = IF events[v][b] = <<>> THEN 0 ELSE EffectiveExpiry(v, b)
           /\ Promised'[v][b] = IF events'[v][b] = <<>> THEN 0 ELSE EffectiveExpiry(v, b)'
      /\ Meant = [v \in Task |-> [b \in Attempt |-> Meant[v][b]]]
      /\ Meant' = [v \in Task |-> [b \in Attempt |-> Meant'[v][b]]]
      /\ Promised = [v \in Task |-> [b \in Attempt |-> Promised[v][b]]]
      /\ Promised' = [v \in Task |-> [b \in Attempt |-> Promised'[v][b]]]
      /\ EndedAt = [v \in Task |-> [b \in Attempt |-> EndedAt[v][b]]]
      /\ EndedAt' = [v \in Task |-> [b \in Attempt |-> EndedAt'[v][b]]]
  BY PromiseTables, Zenon DEF Promised
<1>2. ASSUME NEW v \in Task, NEW b \in Attempt, v # t \/ b # a
      PROVE  Meant'[v][b] = Meant[v][b] /\ Promised'[v][b] = Promised[v][b] /\ EndedAt'[v][b] = EndedAt[v][b]
  <2>1. events'[v][b] = events[v][b] /\ EffectiveExpiry(v, b)' = EffectiveExpiry(v, b)
    BY <1>2, ExpiryOfRows
  <2>2. /\ Meant[v][b] = MeaningOf(events[v][b]) /\ Meant'[v][b] = MeaningOf(events'[v][b])
        /\ EndedAt[v][b] = EndOf(events[v][b]) /\ EndedAt'[v][b] = EndOf(events'[v][b])
        /\ Promised[v][b] = IF events[v][b] = <<>> THEN 0 ELSE EffectiveExpiry(v, b)
        /\ Promised'[v][b] = IF events'[v][b] = <<>> THEN 0 ELSE EffectiveExpiry(v, b)'
    BY <1>1
  <2> QED BY <2>1, <2>2
<1>3. /\ Meant' = [Meant EXCEPT ![t][a] = Meant'[t][a]]
      /\ Promised' = [Promised EXCEPT ![t][a] = Promised'[t][a]]
      /\ EndedAt' = [EndedAt EXCEPT ![t][a] = EndedAt'[t][a]]
  BY <1>1, <1>2, OneRowChanges
<1>4. ASSUME MeaningOf(events'[t][a]) = MeaningOf(events[t][a]) PROVE Meant' = Meant
  <2>1. \A v \in Task : \A b \in Attempt : Meant'[v][b] = Meant[v][b]
    BY <1>1, <1>2, <1>4
  <2> QED BY <1>1, <2>1
<1>5. ASSUME EffectiveExpiry(t, a)' = EffectiveExpiry(t, a), events[t][a] # <<>>
      PROVE  Promised' = Promised
  <2>1. \A v \in Task : \A b \in Attempt : Promised'[v][b] = Promised[v][b]
    BY <1>1, <1>2, <1>5
  <2> QED BY <1>1, <2>1
<1>6. ASSUME EndOf(events'[t][a]) = EndOf(events[t][a]) PROVE EndedAt' = EndedAt
  <2>1. \A v \in Task : \A b \in Attempt : EndedAt'[v][b] = EndedAt[v][b]
    BY <1>1, <1>2, <1>6
  <2> QED BY <1>1, <2>1
<1> QED BY <1>1, <1>3, <1>4, <1>5, <1>6

\* Steps that leave the logs alone.
LEMMA PromisesStay ==
  ASSUME events' = events, lease' = lease
  PROVE  Meant' = Meant /\ Promised' = Promised /\ EndedAt' = EndedAt
<1>1. \A t, a : EffectiveExpiry(t, a)' = EffectiveExpiry(t, a)
  BY ExpiryOfRows
<1> QED BY <1>1, PromiseTables DEF Promised

\* What ends an attempt promises it no longer, and a retry is scheduled from
\* the time its expiry was found.
EndingIsSilent ==
  \A t \in Task : \A a \in Attempt : \A i \in 1..Len(events[t][a]) :
    events[t][a][i].kind \in EndingKinds => events[t][a][i].expires = -1

RetryFollowsExpiry ==
  \A t \in Task : head[t].state = "RETRY_SCHEDULED" =>
    LET log == events[t][head[t].attempt]
    IN MeaningOf(log) = "expired" /\ eligible[t] = EndOf(log) + RetryDelay

LogInv == SupervisorInv /\ EndingIsSilent /\ RetryFollowsExpiry

\* An active attempt is held.
LEMMA ActiveIsHeld ==
  ASSUME LogInv, NEW t \in Task, NEW a, HeadIs(t, a, "ACTIVE")
  PROVE  /\ a \in Attempt /\ events[t][a] \in Seq(EventRow) /\ events[t][a] # <<>>
         /\ MeaningOf(events[t][a]) = "held" /\ EndOf(events[t][a]) = 0
         /\ EndingsOf(events[t][a]) = {}
         /\ Meant[t][a] = "held" /\ Promised[t][a] = EffectiveExpiry(t, a)
<1>1. /\ a \in Attempt /\ events[t][a] \in Seq(EventRow)
      /\ PromisedUpTo(events[t][a], EffectiveExpiry(t, a))
      /\ \A i \in 1..Len(events[t][a]) : events[t][a][i].expires # -1
  BY OpenAttempt DEF LogInv, HeadIs, Open
<1>2. events[t][a] # <<>>
  <2>1. \E n \in 1..Len(events[t][a]) : TRUE
    BY <1>1 DEF PromisedUpTo
  <2> QED BY <2>1
<1>3. \A i \in 1..Len(events[t][a]) : events[t][a][i].kind \notin EndingKinds
  BY <1>1 DEF LogInv, EndingIsSilent
<1>4. /\ MeaningOf(events[t][a]) = "held" /\ EndOf(events[t][a]) = 0
      /\ EndingsOf(events[t][a]) = {}
  BY <1>1, <1>2, <1>3, HeldLog
<1> QED BY <1>1, <1>2, <1>4, PromiseTables DEF Promised

\* Recording events keeps the logs in order.
LEMMA RecordKeepsLogs ==
  ASSUME LogInv, NEW t \in Task, NEW a \in Attempt, NEW new \in Seq(EventRow),
         NEW state \in Open \cup Ended, Record(t, a, new, state),
         \A i \in 1..Len(new) : new[i].kind \in EndingKinds => new[i].expires = -1,
         \A v \in Task : v # t => eligible'[v] = eligible[v],
         state = "RETRY_SCHEDULED" =>
           /\ MeaningOf(events[t][a] \o new) = "expired"
           /\ eligible'[t] = EndOf(events[t][a] \o new) + RetryDelay
  PROVE  /\ EndingIsSilent' /\ RetryFollowsExpiry'
         /\ events'[t][a] = events[t][a] \o new /\ events'[t][a] \in Seq(EventRow)
         /\ \A v \in Task : \A b \in Attempt : v # t \/ b # a => events'[v][b] = events[v][b]
<1>0. RowTypeOK /\ RowInv
  BY DEF LogInv, SupervisorInv, RowInv
<1>1. /\ events' \in [Task -> [Attempt -> Seq(EventRow)]]
      /\ events'[t][a] = events[t][a] \o new
      /\ \A v \in Task : \A b \in Attempt : v # t \/ b # a => events'[v][b] = events[v][b]
      /\ head'[t].attempt = a /\ head'[t].state = state
      /\ \A v \in Task : v # t => head'[v] = head[v]
  BY <1>0, RecordRows
<1>2. EndingIsSilent'
  <2> SUFFICES ASSUME NEW v \in Task, NEW b \in Attempt, NEW i \in 1..Len(events'[v][b]),
                      events'[v][b][i].kind \in EndingKinds
               PROVE  events'[v][b][i].expires = -1
    BY DEF EndingIsSilent, EndingKinds
  <2>1. CASE v = t /\ b = a
    <3> DEFINE s == events[t][a]
    <3>1. s \in Seq(EventRow) /\ events'[v][b] = s \o new
      BY <1>0, <1>1, <2>1 DEF RowTypeOK
    <3>2. /\ Len(s \o new) = Len(s) + Len(new) /\ Len(s) \in Nat /\ Len(new) \in Nat
          /\ \A n \in 1..Len(s \o new) : (s \o new)[n] = IF n <= Len(s) THEN s[n] ELSE new[n - Len(s)]
      BY <3>1
    <3>3. \A n \in 1..Len(s) : s[n].kind \in EndingKinds => s[n].expires = -1
      BY DEF LogInv, EndingIsSilent
    <3> HIDE DEF s
    <3>4. CASE i <= Len(s)
      <4>1. i \in 1..Len(s) /\ events'[v][b][i] = s[i]
        BY <3>1, <3>2, <3>4
      <4> QED BY <3>3, <4>1
    <3>5. CASE i > Len(s)
      <4>1. i - Len(s) \in 1..Len(new) /\ events'[v][b][i] = new[i - Len(s)]
        BY <3>1, <3>2, <3>5
      <4> QED BY <4>1
    <3> QED BY <3>2, <3>4, <3>5
  <2>2. CASE v # t \/ b # a
    <3>1. events'[v][b] = events[v][b]
      BY <1>1, <2>2
    <3> QED BY <3>1 DEF LogInv, EndingIsSilent
  <2> QED BY <2>1, <2>2
<1>3. RetryFollowsExpiry'
  <2> SUFFICES ASSUME NEW v \in Task, head'[v].state = "RETRY_SCHEDULED"
               PROVE  /\ MeaningOf(events'[v][head'[v].attempt]) = "expired"
                      /\ eligible'[v] = EndOf(events'[v][head'[v].attempt]) + RetryDelay
    BY DEF RetryFollowsExpiry
  <2>0. PICK b : b = head'[v].attempt
    OBVIOUS
  <2>1. CASE v = t
    BY <1>1, <2>1
  <2>2. CASE v # t
    <3>1. head'[v] = head[v] /\ head[v].state = "RETRY_SCHEDULED" /\ eligible'[v] = eligible[v]
      BY <1>1, <2>2
    <3>2. b \in Attempt
      BY <1>0, <2>0, <3>1, HeadAttempt
    <3>3. events'[v][b] = events[v][b] /\ b = head[v].attempt
      BY <1>1, <2>0, <2>2, <3>1, <3>2
    <3> QED BY <2>0, <3>1, <3>3 DEF LogInv, RetryFollowsExpiry
  <2> QED BY <2>1, <2>2
<1> QED BY <1>1, <1>2, <1>3

\* heartbeat promises a held attempt more time.
LEMMA HeartbeatKeepsPromise ==
  ASSUME LogInv, NEW w \in Runner, Heartbeat(w)
  PROVE  EndingIsSilent' /\ RetryFollowsExpiry' /\ Promises!Next
<1>0. PICK t, a : t = runner[w].task /\ a = runner[w].attempt
  OBVIOUS
<1> DEFINE x == IF now + Extension > EffectiveExpiry(t, a) THEN now + Extension
                ELSE EffectiveExpiry(t, a)
           e == Event("HEARTBEAT", x, now)
<1>1. /\ runner[w].at = "working" /\ HeadIs(t, a, "ACTIVE") /\ now < EffectiveExpiry(t, a)
      /\ Record(t, a, <<e>>, "ACTIVE")
      /\ lease' = lease /\ eligible' = eligible /\ now' = now
  BY <1>0 DEF Heartbeat
<1>2. t \in Task /\ now \in Nat
  BY <1>0, <1>1 DEF LogInv, SupervisorInv, ProcessTypeOK, Busy, Idle
<1>3. /\ a \in Attempt /\ events[t][a] \in Seq(EventRow) /\ events[t][a] # <<>>
      /\ MeaningOf(events[t][a]) = "held" /\ EndOf(events[t][a]) = 0
      /\ Meant[t][a] = "held" /\ Promised[t][a] = EffectiveExpiry(t, a)
  BY <1>1, <1>2, ActiveIsHeld
<1>4. /\ EffectiveExpiry(t, a) \in Nat
      /\ PromisedUpTo(events[t][a], EffectiveExpiry(t, a))
      /\ \A i \in 1..Len(events[t][a]) : events[t][a][i].expires # -1
  BY <1>1, <1>2, OpenAttempt DEF LogInv, HeadIs, Open
<1>5. x \in Nat /\ x >= EffectiveExpiry(t, a) /\ x # -1
  BY <1>2, <1>4, SupervisorAssumption
<1>6. e \in EventRow /\ e.expires = x /\ e.kind = "HEARTBEAT"
  BY <1>2, <1>5 DEF Event, EventRow
<1> HIDE DEF x, e
<1>7. /\ <<e>> \in Seq(EventRow) /\ \A i \in 1..Len(<<e>>) : <<e>>[i] = e
  BY <1>6, OneEvent
<1>8. \A i \in 1..Len(<<e>>) : <<e>>[i].kind \notin EndingKinds
  BY <1>6, <1>7 DEF EndingKinds
<1>9. "ACTIVE" \in Open \cup Ended
  BY DEF Open
<1>10. /\ EndingIsSilent' /\ RetryFollowsExpiry'
       /\ events'[t][a] = events[t][a] \o <<e>> /\ events'[t][a] \in Seq(EventRow)
       /\ \A v \in Task : \A b \in Attempt : v # t \/ b # a => events'[v][b] = events[v][b]
  BY <1>1, <1>2, <1>3, <1>7, <1>8, <1>9, RecordKeepsLogs
<1>11. MeaningOf(events'[t][a]) = "held" /\ EndOf(events'[t][a]) = 0
  BY <1>3, <1>7, <1>8, <1>10, OthersAppended
<1>12. EffectiveExpiry(t, a)' = x
  <2>1. PromisedUpTo(events'[t][a], x)
    BY <1>3, <1>4, <1>5, <1>6, <1>10, ProlongingEvent
  <2> QED BY <1>10, <2>1, ExpiryIsPromise, ExpiryOfRows
<1>13. events'[t][a] # <<>>
  BY <1>3, <1>7, <1>10
<1>14. /\ Meant' = Meant /\ EndedAt' = EndedAt
       /\ Promised' = [Promised EXCEPT ![t][a] = x]
  <2>1. /\ MeaningOf(events'[t][a]) = MeaningOf(events[t][a]) => Meant' = Meant
        /\ Promised' = [Promised EXCEPT ![t][a] = EffectiveExpiry(t, a)']
        /\ EndOf(events'[t][a]) = EndOf(events[t][a]) => EndedAt' = EndedAt
    <3>1. \A v \in Task : \A b \in Attempt : v # t \/ b # a =>
            events'[v][b] = events[v][b] /\ lease'[v][b] = lease[v][b]
      BY <1>1, <1>10
    <3> QED BY <1>2, <1>3, <1>13, <3>1, OneLogChanges, Zenon
  <2> QED BY <1>3, <1>11, <1>12, <2>1
<1>15. Promised' = [Promised EXCEPT ![t][a] = IF now + Extension > @ THEN now + Extension ELSE @]
  BY <1>3, <1>14 DEF x
<1>16. Promises!Renew(t, a)
  BY <1>1, <1>3, <1>14, <1>15 DEF Promises!Renew, Promises!Held, Meant, Promised, EndedAt
<1>17. a \in Promises!Attempt
  BY <1>3 DEF Attempt, Promises!Attempt
<1> QED BY <1>2, <1>10, <1>16, <1>17 DEF Promises!Next

\* Recording the end of a held attempt ends the promise, and moves nothing else.
LEMMA EndingRecorded ==
  ASSUME LogInv, NEW t \in Task, NEW a, HeadIs(t, a, "ACTIVE"), NEW new \in Seq(EventRow),
         NEW state \in Open \cup Ended, Record(t, a, new, state), lease' = lease,
         new # <<>>, new[1].kind \in EndingKinds,
         \A i \in 2..Len(new) : new[i].kind \notin EndingKinds,
         \A i \in 1..Len(new) : new[i].expires = -1 /\
           (new[i].kind = "EXPIRED" => new[i].at >= EffectiveExpiry(t, a)),
         \A v \in Task : v # t => eligible'[v] = eligible[v],
         state = "RETRY_SCHEDULED" =>
           new[1].kind = "EXPIRED" /\ eligible'[t] = new[1].at + RetryDelay,
         NEW outcome,
         outcome = IF new[1].kind = "COMPLETED" THEN "finished"
                   ELSE IF new[1].kind = "EXPIRED" THEN "expired" ELSE "withdrawn"
  PROVE  /\ EndingIsSilent' /\ RetryFollowsExpiry'
         /\ a \in Attempt /\ Meant[t][a] = "held" /\ Promised[t][a] = EffectiveExpiry(t, a)
         /\ Meant' = [Meant EXCEPT ![t][a] = outcome]
         /\ EndedAt' = [EndedAt EXCEPT ![t][a] = new[1].at]
         /\ Promised' = Promised
<1>1. /\ a \in Attempt /\ events[t][a] \in Seq(EventRow) /\ events[t][a] # <<>>
      /\ EndingsOf(events[t][a]) = {}
      /\ Meant[t][a] = "held" /\ Promised[t][a] = EffectiveExpiry(t, a)
  BY ActiveIsHeld
<1>2. PICK x \in Nat : x = EffectiveExpiry(t, a) /\ PromisedUpTo(events[t][a], x)
  BY OpenAttempt DEF LogInv, HeadIs, Open
<1>3. MeaningOf(events[t][a] \o new) = outcome /\ EndOf(events[t][a] \o new) = new[1].at
  BY <1>1, EndingAppended
<1>4. /\ EndingIsSilent' /\ RetryFollowsExpiry'
      /\ events'[t][a] = events[t][a] \o new /\ events'[t][a] \in Seq(EventRow)
      /\ \A v \in Task : \A b \in Attempt : v # t \/ b # a => events'[v][b] = events[v][b]
  <2>1. state = "RETRY_SCHEDULED" =>
          /\ MeaningOf(events[t][a] \o new) = "expired"
          /\ eligible'[t] = EndOf(events[t][a] \o new) + RetryDelay
    BY <1>3
  <2> QED BY <1>1, <2>1, RecordKeepsLogs
<1>5. EffectiveExpiry(t, a)' = EffectiveExpiry(t, a)
  <2>1. PromisedUpTo(events'[t][a], x)
    BY <1>1, <1>2, <1>4, SilentEvents
  <2>2. EffectiveExpiry(t, a)' = x
    BY <1>4, <2>1, ExpiryIsPromise, ExpiryOfRows
  <2> QED BY <1>2, <2>2
<1>6. events'[t][a] # <<>>
  BY <1>1, <1>4
<1>7. \A v \in Task : \A b \in Attempt : v # t \/ b # a =>
        events'[v][b] = events[v][b] /\ lease'[v][b] = lease[v][b]
  BY <1>4
<1>8. /\ Meant' = [Meant EXCEPT ![t][a] = MeaningOf(events'[t][a])]
      /\ EffectiveExpiry(t, a)' = EffectiveExpiry(t, a) /\ events[t][a] # <<>> => Promised' = Promised
      /\ EndedAt' = [EndedAt EXCEPT ![t][a] = EndOf(events'[t][a])]
  BY <1>1, <1>6, <1>7, OneLogChanges, Zenon
<1> QED BY <1>1, <1>3, <1>4, <1>5, <1>8

\* complete reports the result read in time.
LEMMA CompleteKeepsPromise ==
  ASSUME LogInv, NEW w \in Runner, Complete(w)
  PROVE  EndingIsSilent' /\ RetryFollowsExpiry' /\ Promises!Next
<1>0. PICK t, a, c : t = runner[w].task /\ a = runner[w].attempt /\ c = runner[w].clock
  OBVIOUS
<1> DEFINE e == Event("COMPLETED", -1, c)
<1>1. /\ runner[w].at = "completing" /\ HeadIs(t, a, "ACTIVE") /\ c < EffectiveExpiry(t, a)
      /\ Record(t, a, <<e>>, "COMPLETED")
      /\ lease' = lease /\ eligible' = eligible /\ now' = now
  BY <1>0 DEF Complete, LeaseHolds
<1>2. t \in Task /\ c \in 0..now
  BY <1>0, <1>1 DEF LogInv, SupervisorInv, ProcessTypeOK, RunnersHoldLeases, Busy, Idle
<1>3. e \in EventRow /\ e.expires = -1 /\ e.kind = "COMPLETED" /\ e.at = c
  BY <1>2 DEF Event, EventRow
<1> HIDE DEF e
<1>4. /\ <<e>> \in Seq(EventRow) /\ <<e>> # <<>> /\ <<e>>[1] = e /\ Len(<<e>>) = 1
      /\ \A i \in 1..Len(<<e>>) : <<e>>[i] = e
  BY <1>3
<1>5. "COMPLETED" \in Open \cup Ended /\ "COMPLETED" \in EndingKinds
  BY DEF Ended, EndingKinds
<1>6. /\ EndingIsSilent' /\ RetryFollowsExpiry'
      /\ a \in Attempt /\ Meant[t][a] = "held" /\ Promised[t][a] = EffectiveExpiry(t, a)
      /\ Meant' = [Meant EXCEPT ![t][a] = "finished"]
      /\ EndedAt' = [EndedAt EXCEPT ![t][a] = c]
      /\ Promised' = Promised
  <2>0. PICK new \in Seq(EventRow) : new = <<e>>
    BY <1>4
  <2>1. Record(t, a, new, "COMPLETED")
    BY <1>1, <2>0
  <2>2. new # <<>> /\ new[1].kind \in EndingKinds
    BY <1>3, <1>4, <1>5, <2>0
  <2>3. \A i \in 2..Len(new) : new[i].kind \notin EndingKinds
    BY <1>4, <2>0
  <2>4. \A i \in 1..Len(new) : new[i].expires = -1 /\
          (new[i].kind = "EXPIRED" => new[i].at >= EffectiveExpiry(t, a))
    BY <1>3, <1>4, <2>0
  <2>5. "finished" = IF new[1].kind = "COMPLETED" THEN "finished"
                     ELSE IF new[1].kind = "EXPIRED" THEN "expired" ELSE "withdrawn"
    BY <1>3, <1>4, <2>0
  <2>6. new[1].at = c
    BY <1>3, <1>4, <2>0
  <2>7. \A v \in Task : v # t => eligible'[v] = eligible[v]
    BY <1>1
  <2>8. "COMPLETED" = "RETRY_SCHEDULED" =>
          new[1].kind = "EXPIRED" /\ eligible'[t] = new[1].at + RetryDelay
    OBVIOUS
  <2>9. /\ EndingIsSilent' /\ RetryFollowsExpiry'
        /\ a \in Attempt /\ Meant[t][a] = "held" /\ Promised[t][a] = EffectiveExpiry(t, a)
        /\ Meant' = [Meant EXCEPT ![t][a] = "finished"]
        /\ EndedAt' = [EndedAt EXCEPT ![t][a] = new[1].at]
        /\ Promised' = Promised
    BY <1>1, <1>2, <1>5, <2>1, <2>2, <2>3, <2>4, <2>5, <2>7, <2>8, EndingRecorded, Zenon
  <2> QED BY <2>6, <2>9
<1>7. Promises!End(t, a, "finished", c)
  BY <1>1, <1>2, <1>6 DEF Promises!End, Promises!Held, Meant, Promised, EndedAt
<1>8. Promises!Report(t, a, "finished", c)
  BY <1>1, <1>6, <1>7 DEF Promises!Report, Promised
<1>9. a \in Promises!Attempt
  BY <1>6 DEF Attempt, Promises!Attempt
<1> QED BY <1>2, <1>6, <1>8, <1>9 DEF Promises!Next

\* expire takes an attempt that was overdue when its transaction began.
LEMMA ExpiryKeepsPromise ==
  ASSUME LogInv, DecideExpiry
  PROVE  EndingIsSilent' /\ RetryFollowsExpiry' /\ Promises!Next
<1>0. PICK t, a, c : t = txn.task /\ a = txn.attempt /\ c = txn.at
  OBVIOUS
<1> DEFINE e == Event("EXPIRED", -1, c)
           f == Event("RETRY_DECIDED", -1, c)
           state == IF Retryable(a) THEN "RETRY_SCHEDULED" ELSE "EXHAUSTED"
<1>1. /\ txn.step = "decide" /\ txn.reason = "LEASE_EXPIRED"
      /\ Record(t, a, <<e, f>>, state)
      /\ eligible' = [eligible EXCEPT ![t] = IF Retryable(a) THEN c + RetryDelay ELSE @]
      /\ lease' = lease /\ now' = now
  BY <1>0 DEF DecideExpiry
<1>2. /\ t \in Task /\ c \in Nat /\ now \in Nat /\ c <= now /\ HeadIs(t, a, "ACTIVE")
      /\ EffectiveExpiry(t, a) <= c
  <2>1. txn # NoTxn /\ TxnIsCurrent /\ now \in Nat
    BY <1>1 DEF LogInv, SupervisorInv, NoTxn, ProcessTypeOK
  <2>2. t \in Task /\ c \in Nat
    BY <1>0, <1>1, DecidingTxn DEF LogInv
  <2> QED BY <1>0, <1>1, <2>1, <2>2 DEF TxnIsCurrent, HeadIs
<1>3. /\ e \in EventRow /\ e.expires = -1 /\ e.kind = "EXPIRED" /\ e.at = c
      /\ f \in EventRow /\ f.expires = -1 /\ f.kind = "RETRY_DECIDED"
  BY <1>2 DEF Event, EventRow
<1>4. eligible \in [Task -> Nat \cup {-1}]
  BY DEF LogInv, SupervisorInv, RowInv, RowTypeOK
<1>5. /\ state \in Open \cup Ended
      /\ state = "RETRY_SCHEDULED" => eligible'[t] = c + RetryDelay
      /\ \A v \in Task : v # t => eligible'[v] = eligible[v]
  BY <1>1, <1>2, <1>4 DEF Ended
<1> HIDE DEF e, f, state
<1>6. /\ <<e, f>> \in Seq(EventRow) /\ <<e, f>> # <<>> /\ <<e, f>>[1] = e /\ Len(<<e, f>>) = 2
      /\ \A i \in 2..Len(<<e, f>>) : <<e, f>>[i] = f
      /\ \A i \in 1..Len(<<e, f>>) : <<e, f>>[i] \in {e, f}
  BY <1>3
<1>7. e.kind \in EndingKinds /\ f.kind \notin EndingKinds
  BY <1>3 DEF EndingKinds
<1>8. EffectiveExpiry(t, a) \in Nat
  BY <1>2, OpenAttempt DEF LogInv, HeadIs, Open
<1>9. \A i \in 1..Len(<<e, f>>) : <<e, f>>[i].expires = -1 /\
        (<<e, f>>[i].kind = "EXPIRED" => <<e, f>>[i].at >= EffectiveExpiry(t, a))
  BY <1>2, <1>3, <1>6, <1>8
<1>10. /\ EndingIsSilent' /\ RetryFollowsExpiry'
       /\ a \in Attempt /\ Meant[t][a] = "held" /\ Promised[t][a] = EffectiveExpiry(t, a)
       /\ Meant' = [Meant EXCEPT ![t][a] = "expired"]
       /\ EndedAt' = [EndedAt EXCEPT ![t][a] = c]
       /\ Promised' = Promised
  <2>0. PICK new \in Seq(EventRow) : new = <<e, f>>
    BY <1>6
  <2>1. Record(t, a, new, state)
    BY <1>1, <2>0
  <2>2. new # <<>> /\ new[1].kind \in EndingKinds
    BY <1>6, <1>7, <2>0
  <2>3. \A i \in 2..Len(new) : new[i].kind \notin EndingKinds
    BY <1>6, <1>7, <2>0
  <2>4. \A i \in 1..Len(new) : new[i].expires = -1 /\
          (new[i].kind = "EXPIRED" => new[i].at >= EffectiveExpiry(t, a))
    BY <1>9, <2>0
  <2>5. "expired" = IF new[1].kind = "COMPLETED" THEN "finished"
                    ELSE IF new[1].kind = "EXPIRED" THEN "expired" ELSE "withdrawn"
    BY <1>3, <1>6, <2>0
  <2>6. new[1].at = c /\ new[1].kind = "EXPIRED"
    BY <1>3, <1>6, <2>0
  <2>7. \A v \in Task : v # t => eligible'[v] = eligible[v]
    BY <1>5
  <2>8. state = "RETRY_SCHEDULED" =>
          new[1].kind = "EXPIRED" /\ eligible'[t] = new[1].at + RetryDelay
    BY <1>5, <2>6
  <2>9. /\ EndingIsSilent' /\ RetryFollowsExpiry'
        /\ a \in Attempt /\ Meant[t][a] = "held" /\ Promised[t][a] = EffectiveExpiry(t, a)
        /\ Meant' = [Meant EXCEPT ![t][a] = "expired"]
        /\ EndedAt' = [EndedAt EXCEPT ![t][a] = new[1].at]
        /\ Promised' = Promised
    BY <1>1, <1>2, <1>5, <2>1, <2>2, <2>3, <2>4, <2>5, <2>7, <2>8, EndingRecorded, Zenon
  <2> QED BY <2>6, <2>9
<1>11. Promises!End(t, a, "expired", c)
  BY <1>1, <1>2, <1>10 DEF Promises!End, Promises!Held, Meant, Promised, EndedAt
<1>12. Promises!Expire(t, a, c)
  BY <1>2, <1>10, <1>11 DEF Promises!Expire, Promised
<1>13. a \in Promises!Attempt /\ c \in 0..now
  BY <1>2, <1>10 DEF Attempt, Promises!Attempt
<1> QED BY <1>2, <1>10, <1>12, <1>13 DEF Promises!Next
\* request_cancel withdraws the attempt from its runner.
LEMMA CancelKeepsPromise ==
  ASSUME LogInv, NEW t \in Task, RequestCancel(t)
  PROVE  EndingIsSilent' /\ RetryFollowsExpiry' /\ Promises!Next
<1>0. PICK a, c : a = head[t].attempt /\ c = now
  OBVIOUS
<1> DEFINE e == Event("CANCEL_REQUESTED", -1, c)
           held == {<<t, a>>}
<1>1. /\ HeadIs(t, a, "ACTIVE") /\ Record(t, a, <<e>>, "CANCEL_REQUESTED")
      /\ lease' = lease /\ eligible' = eligible /\ now' = now
  BY <1>0 DEF RequestCancel, HeadIs
<1>2. c \in Nat /\ now = c
  BY <1>0 DEF LogInv, SupervisorInv, ProcessTypeOK
<1>3. e \in EventRow /\ e.expires = -1 /\ e.kind = "CANCEL_REQUESTED" /\ e.at = c
  BY <1>2 DEF Event, EventRow
<1> HIDE DEF e
<1>4. PICK new \in Seq(EventRow) :
        new = <<e>> /\ new # <<>> /\ new[1] = e /\ Len(new) = 1 /\ \A i \in 1..Len(new) : new[i] = e
  <2>1. /\ <<e>> \in Seq(EventRow) /\ <<e>> # <<>> /\ <<e>>[1] = e /\ Len(<<e>>) = 1
        /\ \A i \in 1..Len(<<e>>) : <<e>>[i] = e
    BY <1>3
  <2> QED BY <2>1
<1>5. /\ EndingIsSilent' /\ RetryFollowsExpiry'
      /\ a \in Attempt /\ Meant[t][a] = "held" /\ Promised[t][a] = EffectiveExpiry(t, a)
      /\ Meant' = [Meant EXCEPT ![t][a] = "withdrawn"]
      /\ EndedAt' = [EndedAt EXCEPT ![t][a] = new[1].at]
      /\ Promised' = Promised
  <2>1. Record(t, a, new, "CANCEL_REQUESTED") /\ "CANCEL_REQUESTED" \in Open \cup Ended
    BY <1>1, <1>4 DEF Open
  <2>2. new[1].kind \in EndingKinds
    BY <1>3, <1>4 DEF EndingKinds
  <2>3. \A i \in 2..Len(new) : new[i].kind \notin EndingKinds
    BY <1>4
  <2>4. \A i \in 1..Len(new) : new[i].expires = -1 /\
          (new[i].kind = "EXPIRED" => new[i].at >= EffectiveExpiry(t, a))
    BY <1>3, <1>4
  <2>5. "withdrawn" = IF new[1].kind = "COMPLETED" THEN "finished"
                      ELSE IF new[1].kind = "EXPIRED" THEN "expired" ELSE "withdrawn"
    BY <1>3, <1>4
  <2>6. \A v \in Task : v # t => eligible'[v] = eligible[v]
    BY <1>1
  <2>7. "CANCEL_REQUESTED" = "RETRY_SCHEDULED" =>
          new[1].kind = "EXPIRED" /\ eligible'[t] = new[1].at + RetryDelay
    OBVIOUS
  <2> QED BY <1>1, <1>4, <2>1, <2>2, <2>3, <2>4, <2>5, <2>6, <2>7, EndingRecorded, Zenon
<1>6. new[1].at = now
  BY <1>2, <1>3, <1>4
<1>7. /\ Meant = [v \in Task |-> [b \in Attempt |-> Meant[v][b]]]
      /\ EndedAt = [v \in Task |-> [b \in Attempt |-> EndedAt[v][b]]]
  BY DEF Meant, EndedAt
<1>8. \A v \in Task : \A b \in Attempt : <<v, b>> \in held <=> v = t /\ b = a
  OBVIOUS
<1> HIDE DEF held
<1>9. \A v \in Task : \A b \in Attempt :
        /\ Meant'[v][b] = IF <<v, b>> \in held THEN "withdrawn" ELSE Meant[v][b]
        /\ EndedAt'[v][b] = IF <<v, b>> \in held THEN now ELSE EndedAt[v][b]
  <2> TAKE v \in Task
  <2> TAKE b \in Attempt
  <2>0. PICK f, g, m, n : f = Meant /\ g = Meant' /\ m = EndedAt /\ n = EndedAt'
    OBVIOUS
  <2>1. g[v][b] = IF v = t /\ b = a THEN "withdrawn" ELSE f[v][b]
    <3>1. f = [u \in Task |-> [d \in Attempt |-> f[u][d]]] /\ g = [f EXCEPT ![t][a] = "withdrawn"]
      BY <1>5, <1>7, <2>0
    <3> QED BY <1>5, <3>1, RowsOfChanged
  <2>2. n[v][b] = IF v = t /\ b = a THEN new[1].at ELSE m[v][b]
    <3>1. m = [u \in Task |-> [d \in Attempt |-> m[u][d]]] /\ n = [m EXCEPT ![t][a] = new[1].at]
      BY <1>5, <1>7, <2>0
    <3> QED BY <1>5, <3>1, RowsOfChanged
  <2> QED BY <1>6, <1>8, <2>0, <2>1, <2>2
<1>10. /\ Meant' = [v \in Task |-> [b \in Attempt |-> Meant'[v][b]]]
       /\ EndedAt' = [v \in Task |-> [b \in Attempt |-> EndedAt'[v][b]]]
  BY PromiseTables
<1>11. /\ Meant' = [v \in Task |-> [b \in Attempt |->
                      IF <<v, b>> \in held THEN "withdrawn" ELSE Meant[v][b]]]
       /\ EndedAt' = [v \in Task |-> [b \in Attempt |->
                        IF <<v, b>> \in held THEN now ELSE EndedAt[v][b]]]
  BY <1>9, <1>10
<1>12. Promises!Attempt = Attempt
  BY DEF Attempt, Promises!Attempt
<1>13. held \in SUBSET (Task \X Attempt) /\ \A p \in held : Meant[p[1]][p[2]] = "held"
  BY <1>5 DEF held
<1>14. Promises!Withdraw(held)
  BY <1>1, <1>5, <1>11, <1>12, <1>13 DEF Promises!Withdraw, Promises!Held, Meant, Promised, EndedAt
<1> QED BY <1>5, <1>12, <1>13, <1>14 DEF Promises!Next

\* acknowledge_cancel adds to a log what no runner and no retry reads.
LEMMA AcknowledgementIsSilent ==
  ASSUME LogInv, DecideCancel
  PROVE  EndingIsSilent' /\ RetryFollowsExpiry' /\ UNCHANGED Promises!vars
<1>0. PICK t, a : t = txn.task /\ a = txn.attempt
  OBVIOUS
<1> DEFINE e == Event("CANCELLED", -1, now)
<1>1. /\ Record(t, a, <<e>>, "CANCELLED")
      /\ lease' = lease /\ eligible' = eligible /\ now' = now
  BY <1>0 DEF DecideCancel
<1>2. /\ t \in Task /\ head[t].state \in Open /\ a = head[t].attempt
  BY <1>0, DecidingTxn DEF DecideCancel, LogInv
<1>3. e \in EventRow /\ e.expires = -1 /\ e.kind = "CANCELLED"
  BY DEF Event, EventRow, LogInv, SupervisorInv, ProcessTypeOK
<1> HIDE DEF e
<1>4. PICK new \in Seq(EventRow) : new = <<e>> /\ \A i \in 1..Len(new) : new[i] = e
  BY <1>3, OneEvent
<1>5. /\ a \in Attempt /\ events[t][a] \in Seq(EventRow)
      /\ PromisedUpTo(events[t][a], EffectiveExpiry(t, a)) /\ EffectiveExpiry(t, a) \in Nat
  BY <1>2, OpenAttempt DEF LogInv
<1>6. events[t][a] # <<>>
  <2>1. \E n \in 1..Len(events[t][a]) : TRUE
    BY <1>5 DEF PromisedUpTo
  <2> QED BY <2>1
<1>7. \A i \in 1..Len(new) : new[i].expires = -1 /\ new[i].kind \notin EndingKinds
                             /\ new[i].kind # "EXPIRED"
  BY <1>3, <1>4 DEF EndingKinds
<1>8. /\ EndingIsSilent' /\ RetryFollowsExpiry'
      /\ events'[t][a] = events[t][a] \o new /\ events'[t][a] \in Seq(EventRow)
      /\ \A v \in Task : \A b \in Attempt : v # t \/ b # a => events'[v][b] = events[v][b]
  <2>1. Record(t, a, new, "CANCELLED") /\ "CANCELLED" \in Open \cup Ended
    BY <1>1, <1>4 DEF Ended
  <2>2. \A v \in Task : v # t => eligible'[v] = eligible[v]
    BY <1>1
  <2>3. \A i \in 1..Len(new) : new[i].kind \in EndingKinds => new[i].expires = -1
    BY <1>7
  <2>4. "CANCELLED" = "RETRY_SCHEDULED" =>
          /\ MeaningOf(events[t][a] \o new) = "expired"
          /\ eligible'[t] = EndOf(events[t][a] \o new) + RetryDelay
    OBVIOUS
  <2> QED BY <1>2, <1>5, <2>1, <2>2, <2>3, <2>4, RecordKeepsLogs, Zenon
<1>9. /\ MeaningOf(events'[t][a]) = MeaningOf(events[t][a])
      /\ EndOf(events'[t][a]) = EndOf(events[t][a])
  BY <1>5, <1>6, <1>7, <1>8, OthersAppended
<1>10. EffectiveExpiry(t, a)' = EffectiveExpiry(t, a)
  <2>1. PromisedUpTo(events'[t][a], EffectiveExpiry(t, a))
    BY <1>5, <1>7, <1>8, SilentEvents
  <2> QED BY <1>8, <2>1, ExpiryIsPromise, ExpiryOfRows
<1>11. events'[t][a] # <<>>
  BY <1>5, <1>6, <1>8
<1>12. Meant' = Meant /\ Promised' = Promised /\ EndedAt' = EndedAt
  <2>1. \A v \in Task : \A b \in Attempt : v # t \/ b # a =>
          events'[v][b] = events[v][b] /\ lease'[v][b] = lease[v][b]
    BY <1>1, <1>8
  <2>2. /\ MeaningOf(events'[t][a]) = MeaningOf(events[t][a]) => Meant' = Meant
        /\ EffectiveExpiry(t, a)' = EffectiveExpiry(t, a) /\ events[t][a] # <<>> =>
             Promised' = Promised
        /\ EndOf(events'[t][a]) = EndOf(events[t][a]) => EndedAt' = EndedAt
    BY <1>2, <1>5, <1>11, <2>1, OneLogChanges, Zenon
  <2> QED BY <1>6, <1>9, <1>10, <2>2
<1> QED BY <1>1, <1>8, <1>12 DEF Promises!vars, Meant, Promised, EndedAt

\* Steps that leave the logs, the heads and the retry decisions alone.
LEMMA LogsStay ==
  ASSUME LogInv, events' = events, head' = head, eligible' = eligible, lease' = lease
  PROVE  /\ EndingIsSilent' /\ RetryFollowsExpiry'
         /\ now' = now => UNCHANGED Promises!vars
         /\ now' = now + 1 => Promises!Next
<1>1. EndingIsSilent' /\ RetryFollowsExpiry'
  BY DEF LogInv, EndingIsSilent, RetryFollowsExpiry
<1>2. Meant' = Meant /\ Promised' = Promised /\ EndedAt' = EndedAt
  BY PromisesStay
<1>3. now' = now => UNCHANGED Promises!vars
  BY <1>2 DEF Promises!vars, Meant, Promised, EndedAt
<1>4. now' = now + 1 => Promises!Tick
  BY <1>2 DEF Promises!Tick, Meant, Promised, EndedAt
<1> QED BY <1>1, <1>3, <1>4 DEF Promises!Next
\* acquire grants the next attempt, after the delay that follows an expiry.
LEMMA AcquireKeepsPromise ==
  ASSUME LogInv, NEW w \in Runner, NEW t \in Task, NEW k \in Key, NEW c \in 0..now,
         Acquire(w, t, k, c)
  PROVE  EndingIsSilent' /\ RetryFollowsExpiry' /\ Promises!Next
<1>0. PICK a : a = LastAttempt(t) + 1
  OBVIOUS
<1> DEFINE e == Event("ACQUIRED", c + Duration, c)
           l == [acquired |-> c, expires |-> c + Duration]
<1>1. /\ AcquireAllowed(t, c)
      /\ lease' = [lease EXCEPT ![t][a] = l]
      /\ Record(t, a, <<e>>, "ACTIVE")
      /\ eligible' = eligible /\ now' = now
  BY <1>0 DEF Acquire, MayAcquire
<1>2. /\ RowInv /\ RowTypeOK /\ c \in Nat /\ now \in Nat /\ c <= now
  BY DEF LogInv, SupervisorInv, RowInv, ProcessTypeOK
<1>3. /\ a = head[t].attempt + 1 /\ a \in Attempt /\ a \in Nat \ {0}
      /\ a \in 1..MaxAttempts /\ MaxAttempts \in Nat
      /\ head[t].state \in {"NONE", "RETRY_SCHEDULED"}
      /\ head[t].state = "RETRY_SCHEDULED" => c >= eligible[t]
  BY <1>0, <1>1, <1>2, LastIsHead, SupervisorAssumption DEF AcquireAllowed, Attempt
<1>4. e \in EventRow /\ e.expires = c + Duration /\ e.kind = "ACQUIRED" /\ c + Duration \in Nat
  BY <1>2, SupervisorAssumption DEF Event, EventRow
<1> HIDE DEF e, l
<1>5. \A b \in Attempt : b >= a => events[t][b] = <<>>
  <2>1. \A b \in Attempt : b >= a => b > head[t].attempt
    <3>1. head[t].attempt \in Nat
      BY <1>2, LastIsHead
    <3> QED BY <1>3, <3>1 DEF Attempt
  <2> QED BY <1>2, <2>1 DEF RowInv, LeasesNumbered
<1>6. PICK new \in Seq(EventRow) :
        /\ new = <<e>> /\ new # <<>> /\ \A i \in 1..Len(new) : new[i] = e
        /\ Len(new) = 1 /\ new[1] = e
  <2>1. /\ <<e>> \in Seq(EventRow) /\ <<e>> # <<>> /\ <<e>>[1] = e /\ Len(<<e>>) = 1
        /\ \A i \in 1..Len(<<e>>) : <<e>>[i] = e
    BY <1>4
  <2> QED BY <2>1
<1>7. \A i \in 1..Len(new) : new[i].kind \notin EndingKinds
  BY <1>4, <1>6 DEF EndingKinds
<1>8. /\ EndingIsSilent' /\ RetryFollowsExpiry'
      /\ events'[t][a] = events[t][a] \o new
      /\ \A v \in Task : \A b \in Attempt : v # t \/ b # a => events'[v][b] = events[v][b]
  <2>1. Record(t, a, new, "ACTIVE") /\ "ACTIVE" \in Open \cup Ended
    BY <1>1, <1>6 DEF Open
  <2>2. \A v \in Task : v # t => eligible'[v] = eligible[v]
    BY <1>1
  <2>3. \A i \in 1..Len(new) : new[i].kind \in EndingKinds => new[i].expires = -1
    BY <1>7
  <2>4. "ACTIVE" = "RETRY_SCHEDULED" =>
          /\ MeaningOf(events[t][a] \o new) = "expired"
          /\ eligible'[t] = EndOf(events[t][a] \o new) + RetryDelay
    OBVIOUS
  <2> QED BY <1>3, <2>1, <2>2, <2>3, <2>4, RecordKeepsLogs, Zenon
<1>9. events'[t][a] = new
  <2>1. events[t][a] = <<>>
    BY <1>3, <1>5
  <2> QED BY <1>8, <2>1
<1>10. MeaningOf(events'[t][a]) = "held" /\ EndOf(events'[t][a]) = 0
  BY <1>6, <1>7, <1>9, HeldLog
<1>11. MeaningOf(events[t][a]) = "none" /\ EndOf(events[t][a]) = 0
  BY <1>3, <1>5, EmptyLog
<1>12. EffectiveExpiry(t, a)' = c + Duration
  <2>1. PromisedUpTo(new, c + Duration)
    BY <1>4, <1>6 DEF PromisedUpTo
  <2> QED BY <1>9, <2>1, ExpiryIsPromise, ExpiryOfRows
<1>13. /\ Meant' = [Meant EXCEPT ![t][a] = "held"]
       /\ Promised' = [Promised EXCEPT ![t][a] = c + Duration]
       /\ EndedAt' = EndedAt
  <2>1. \A v \in Task : \A b \in Attempt : v # t \/ b # a =>
          events'[v][b] = events[v][b] /\ lease'[v][b] = lease[v][b]
    BY <1>1, <1>2, <1>3, <1>8 DEF RowTypeOK
  <2>2. events'[t][a] # <<>>
    BY <1>6, <1>9
  <2>3. /\ Meant' = [Meant EXCEPT ![t][a] = MeaningOf(events'[t][a])]
        /\ Promised' = [Promised EXCEPT ![t][a] = EffectiveExpiry(t, a)']
        /\ EndOf(events'[t][a]) = EndOf(events[t][a]) => EndedAt' = EndedAt
    BY <1>3, <2>1, <2>2, OneLogChanges, Zenon
  <2> QED BY <1>10, <1>11, <1>12, <2>3
<1>14. \A b \in Attempt : b >= a => Meant[t][b] = "none"
  BY <1>5, PromiseTables DEF MeaningOf
<1>15. ASSUME a > 1
       PROVE  /\ Meant[t][a - 1] = "expired"
              /\ EndedAt[t][a - 1] + RetryDelay <= c
              /\ a - 1 \in 1..(MaxAttempts - 1)
  <2>1. a - 1 = head[t].attempt /\ a - 1 # 0 /\ a - 1 \in Attempt /\ a - 1 \in 1..(MaxAttempts - 1)
    <3>1. head[t].attempt \in Nat
      BY <1>2, LastIsHead
    <3> QED BY <1>3, <1>15, <3>1 DEF Attempt
  <2>2. head[t].state = "RETRY_SCHEDULED"
    BY <1>2, <1>3, <2>1 DEF RowInv, LeasesNumbered
  <2>3. MeaningOf(events[t][a - 1]) = "expired" /\ eligible[t] = EndOf(events[t][a - 1]) + RetryDelay
    BY <2>1, <2>2 DEF LogInv, RetryFollowsExpiry
  <2>4. Meant[t][a - 1] = MeaningOf(events[t][a - 1]) /\ EndedAt[t][a - 1] = EndOf(events[t][a - 1])
    BY <2>1, PromiseTables
  <2> QED BY <1>3, <2>1, <2>2, <2>3, <2>4
<1>16. Promises!MayFollow(t, a, c)
  BY <1>15 DEF Promises!MayFollow, Meant, EndedAt
<1>17. a \in Promises!Attempt /\ Promises!Attempt = Attempt
  BY <1>3 DEF Attempt, Promises!Attempt
<1>18. Promises!Assign(t, a, c)
  BY <1>1, <1>2, <1>13, <1>14, <1>16, <1>17 DEF Promises!Assign, Meant, Promised, EndedAt
<1> QED BY <1>8, <1>17, <1>18 DEF Promises!Next

\* At first nothing is promised.
LEMMA NothingPromised == Init => EndingIsSilent /\ RetryFollowsExpiry /\ Promises!Init
<1> SUFFICES ASSUME Init PROVE EndingIsSilent /\ RetryFollowsExpiry /\ Promises!Init
  OBVIOUS
<1>1. \A t \in Task : \A a \in Attempt : events[t][a] = <<>>
  BY DEF Init
<1>2. EndingIsSilent /\ RetryFollowsExpiry
  BY <1>1 DEF Init, NoHead, EndingIsSilent, RetryFollowsExpiry
<1>3. /\ Meant = [t \in Task |-> [a \in Attempt |-> "none"]]
      /\ Promised = [t \in Task |-> [a \in Attempt |-> 0]]
      /\ EndedAt = [t \in Task |-> [a \in Attempt |-> 0]]
  BY <1>1, EmptyLog, PromiseTables DEF Promised
<1> QED BY <1>2, <1>3 DEF Init, Promises!Init, Promises!Attempt, Attempt, Meant, Promised, EndedAt

\* Every step of the supervisor is a step of AttemptLease or a stutter.
LEMMA PromiseStep ==
  LogInv /\ [Next]_vars =>
    EndingIsSilent' /\ RetryFollowsExpiry' /\ [Promises!Next]_(Promises!vars)
<1> DEFINE Kept == EndingIsSilent' /\ RetryFollowsExpiry' /\ (Promises!Next \/ UNCHANGED Promises!vars)
<1> SUFFICES ASSUME LogInv, [Next]_vars PROVE Kept
  OBVIOUS
<1>1. ASSUME UNCHANGED dbVars, now' = now PROVE Kept
  BY <1>1, LogsStay DEF dbVars
<1>2. CASE UNCHANGED vars
  BY <1>1, <1>2 DEF vars
<1>3. CASE Tick
  BY <1>3, LogsStay DEF Tick, dbVars
<1>4. ASSUME NEW t \in Task, Expire(t) \/ AcknowledgeCancel(t) PROVE Kept
  BY <1>1, <1>4 DEF Expire, AcknowledgeCancel, BeginQuarantine
<1>5. CASE MoveWorkspace \/ SealQuarantine \/ CrashInQuarantine
  BY <1>1, <1>5 DEF MoveWorkspace, SealQuarantine, CrashInQuarantine
<1>6. CASE DecideExpiry
  BY <1>6, ExpiryKeepsPromise
<1>7. CASE DecideCancel
  BY <1>7, AcknowledgementIsSilent
<1>8. ASSUME NEW t \in Task, RequestCancel(t) PROVE Kept
  BY <1>8, CancelKeepsPromise
<1>9. ASSUME NEW w \in Runner, NEW t \in Task, NEW k \in Key,
             \/ ReplayLease(w, t, k)
             \/ \E c \in 0..now : Acquire(w, t, k, c) \/ AcquireCrash(w, t, k, c)
      PROVE  Kept
  <2>1. CASE ReplayLease(w, t, k)
    BY <1>1, <2>1 DEF ReplayLease
  <2>2. ASSUME NEW c \in 0..now, Acquire(w, t, k, c) PROVE Kept
    BY <2>2, AcquireKeepsPromise
  <2>3. ASSUME NEW c \in 0..now, AcquireCrash(w, t, k, c) PROVE Kept
    BY <1>1, <2>3 DEF AcquireCrash
  <2> QED BY <1>9, <2>1, <2>2, <2>3
<1>10. ASSUME NEW w \in Runner, RunnerStep(w) \/ Heartbeat(w) \/ Crash(w) PROVE Kept
  <2>1. CASE Heartbeat(w)
    BY <2>1, HeartbeatKeepsPromise
  <2>2. CASE Complete(w)
    BY <2>2, CompleteKeepsPromise
  <2>3. CASE Recover(w) \/ CheckCommit(w) \/ SealCommit(w)
    BY <1>1, <2>3 DEF Recover, CheckCommit, SealCommit
  <2>4. CASE AskComplete(w) \/ CompleteReplayedOrRefused(w) \/ Crash(w)
    BY <1>1, <2>4 DEF AskComplete, CompleteReplayedOrRefused, Crash
  <2> QED BY <1>10, <2>1, <2>2, <2>3, <2>4 DEF RunnerStep
<1> QED BY <1>2, <1>3, <1>4, <1>5, <1>6, <1>7, <1>8, <1>9, <1>10 DEF Next, Settlement

\* For every set of tasks, runners and durations the supervisor's leases
\* implement the lease on an attempt: a runner loses an attempt before the
\* expiry last promised to it only by a request to cancel, its result is
\* refused from then on, and the next attempt follows an expiry after the
\* delay, whatever crashes between the rows and the files.
THEOREM SupervisorKeepsAttemptLease == Spec => KeepsAttemptLease
<1>1. Init => LogInv
  BY InitInv, NothingPromised DEF LogInv
<1>2. LogInv /\ [Next]_vars => LogInv'
  <2>1. LogInv /\ [Next]_vars => SupervisorInv'
    BY StepInv DEF LogInv
  <2> QED BY <2>1, PromiseStep DEF LogInv
<1>3. LogInv /\ [Next]_vars => [Promises!Next]_(Promises!vars)
  BY PromiseStep
<1>4. Init => Promises!Init
  BY NothingPromised
<1>5. Spec => []LogInv
  BY <1>1, <1>2, PTL DEF Spec
<1> QED BY <1>3, <1>4, <1>5, PTL DEF Spec, KeepsAttemptLease, Promises!Spec
=============================================================================
