--------------------------- MODULE HarnessSession ---------------------------
(***************************************************************************)
(* One persistent harness session: HarnessSessionStore, the requirement    *)
(* agent loop that drives it through the embedded AI gateway, and the      *)
(* gateway's own record store.  The three stores share no transaction, so  *)
(* every store call and the provider call are steps of their own; a caller *)
(* may stop between any two of them.                                       *)
(*                                                                         *)
(* An audit stands for the creation instant a caller stamps on everything  *)
(* it builds.  Object identities leave it out, whole-object comparisons    *)
(* do not.                                                                 *)
(***************************************************************************)
EXTENDS Naturals, Sequences, FiniteSets

CONSTANTS
    Keys,          \* idempotency keys of message commands
    Callers,       \* concurrent callers of post_message and reconcile
    AuditsOf,      \* the audits each caller stamps on a new message
    RetryAudits,   \* the audits it stamps when it comes back to one
    CloseKeys,     \* idempotency keys of close_session
    ClaimKeys,     \* idempotency keys of claim_shell_reconcile
    TeamEvents,    \* team outbox entries, each with the team's version
    TeamVersion,
    Streams,       \* runtime event streams (runtime, run, work)
    StreamLimit,   \* bound: runtime events per stream
    DeliveryKeys,  \* idempotency keys of runtime event deliveries
    Chunks,        \* assistant chunk events of a turn
    CrashLimit     \* bound: callers lost

ASSUME HarnessAssumption ==
    /\ IsFiniteSet(Keys) /\ IsFiniteSet(Callers)
    /\ TeamVersion \in [TeamEvents -> Nat]
    /\ StreamLimit \in Nat /\ Chunks \in Nat /\ CrashLimit \in Nat
    /\ "none" \notin Keys

\* Every call stamps its own datetime.now(UTC), in microseconds: the stamps of
\* different callers differ.
StampedBy(c) == AuditsOf[c] \cup RetryAudits[c]

ASSUME AuditAssumption ==
    /\ \A c \in Callers : "none" \notin StampedBy(c)
    /\ \A c, d \in Callers : c # d => StampedBy(c) \cap StampedBy(d) = {}

VARIABLES
    session,     \* harness_sessions: the current state row
    events,      \* harness_events in sequence order
    commands,    \* harness_commands in rowid order
    journal,     \* gateway journal head of each command
    turn,        \* harness_turns: outcome of each command
    projection,  \* harness_session_projections
    closes,      \* idempotency rows of close_session
    claims,      \* idempotency rows of claim_shell_reconcile
    teamDone,    \* idempotency rows of append_team_event
    runtime,     \* harness_runtime_events per stream
    deliveries,  \* idempotency rows of append_runtime_event
    route,       \* model_route_records: the audit the route was made under
    record,      \* gateway_invocation_records
    calls,       \* provider calls made for each command
    caller,      \* where each caller is
    crashes

storeVars == <<session, events, commands, journal, turn, projection>>
idemVars == <<closes, claims, teamDone>>
streamVars == <<runtime, deliveries>>
gatewayVars == <<route, record, calls>>
vars == <<storeVars, idemVars, streamVars, gatewayVars, caller, crashes>>

\* What the gateway records: the outcome of a valid proposal, or a failure.
Replies == {"READY", "CLARIFICATION_REQUIRED", "ABSTAINED", "FAILED"}
\* The turn outcome a recorded reply is completed with.
OutcomeOf(reply) ==
    CASE reply = "FAILED" -> "BLOCKED_CAPABILITY"
      [] reply = "ABSTAINED" -> "BLOCKED_POLICY"
      [] OTHER -> reply
Results == {OutcomeOf(r) : r \in Replies}
Outcomes == Results \cup {"UNKNOWN_OUTCOME"}
NoJournal == [state |-> "none", audit |-> "none"]
NoRecord == [audit |-> "none", result |-> "none"]
Idle == [at |-> "idle", key |-> "none", audit |-> "none", journal |-> NoJournal, result |-> "none"]
Absent == [status |-> "ABSENT", version |-> 0, sequence |-> 0, interpretation |-> "none", policy |-> "none"]
RuntimeKinds == {"RUN_STARTED", "USAGE_REPORTED", "RUN_COMPLETED", "RUN_FAILED"}
TerminalKinds == {"RUN_COMPLETED", "RUN_FAILED"}

CommandKeys == {commands[i].key : i \in 1..Len(commands)}

\* The journal head of the newest command that has one.
LatestJournal(cmds, heads) ==
    LET having == {i \in 1..Len(cmds) : heads[cmds[i].key] # NoJournal}
    IN  IF having = {} THEN NoJournal
        ELSE heads[cmds[CHOOSE i \in having : \A j \in having : j <= i].key]

\* _build_projection: the read model of the given rows.
BuildProjection(s, evs, cmds, heads) ==
    [session |-> s, events |-> Len(evs), latest |-> LatestJournal(cmds, heads)]

Event(kind, version, authority, key) ==
    [kind |-> kind, version |-> version, authority |-> authority, key |-> key]

Init ==
    /\ session = Absent
    /\ events = <<>> /\ commands = <<>>
    /\ journal = [k \in Keys |-> NoJournal]
    /\ turn = [k \in Keys |-> "none"]
    /\ projection = BuildProjection(Absent, <<>>, <<>>, journal)
    /\ closes = {} /\ claims = {} /\ teamDone = {}
    /\ runtime = [s \in Streams |-> <<>>]
    /\ deliveries = {}
    /\ route = [k \in Keys |-> "none"]
    /\ record = [k \in Keys |-> NoRecord]
    /\ calls = [k \in Keys |-> 0]
    /\ caller = [c \in Callers |-> Idle]
    /\ crashes = 0

RefreshedLazily(s, evs, cmds, heads) == projection
\* Every operation that writes rows rebuilds the read model in its transaction.
Refreshed(s, evs, cmds, heads) == BuildProjection(s, evs, cmds, heads)

Exists == session.status # "ABSENT"

\* The state row _update_state writes with one more event.
Advanced(status) ==
    [session EXCEPT !.status = status, !.version = session.version + 1, !.sequence = session.sequence + 1]

(***************************************************************************)
(* Session lifecycle                                                       *)
(***************************************************************************)
CreateSession ==
    /\ ~Exists
    /\ session' = [status |-> "ACTIVE", version |-> 1, sequence |-> 1, interpretation |-> "none", policy |-> "none"]
    /\ events' = <<Event("SESSION_OPENED", 1, 1, "none")>>
    /\ projection' = Refreshed(session', events', commands, journal)
    /\ UNCHANGED <<commands, journal, turn, idemVars, streamVars, gatewayVars, caller, crashes>>

\* A replayed key changes nothing; a new one needs an open session.  The
\* caller's expected version is the current one.
CloseSession(key) ==
    /\ Exists /\ key \notin closes
    /\ session.status # "CLOSED"
    /\ session' = Advanced("CLOSED")
    /\ events' = Append(events, Event("SESSION_CLOSED", session'.version, session'.version, "none"))
    /\ projection' = Refreshed(session', events', commands, journal)
    /\ closes' = closes \cup {key}
    /\ UNCHANGED <<commands, journal, turn, claims, teamDone, streamVars, gatewayVars, caller, crashes>>

\* The intent is bound to the session version it was claimed at.
ClaimShellReconcile(key) ==
    /\ Exists /\ key \notin {x.key : x \in claims}
    /\ claims' = claims \cup {[key |-> key, version |-> session.version]}
    /\ UNCHANGED <<storeVars, closes, teamDone, streamVars, gatewayVars, caller, crashes>>

(***************************************************************************)
(* The session store's half of a turn                                      *)
(***************************************************************************)
Move(c, at) == [caller EXCEPT ![c].at = at]
Leave(c) == [caller EXCEPT ![c] = Idle]
Enter(c, at, k, a) ==
    [caller EXCEPT ![c] = [at |-> at, key |-> k, audit |-> a, journal |-> NoJournal, result |-> "none"]]

\* No command has the idempotency key yet.
IsNew(k) == k \notin CommandKeys

\* start_turn of a new key.
StartTurn(c, k, a) ==
    /\ caller[c] = Idle
    /\ IsNew(k)
    /\ session.status = "ACTIVE"
    /\ commands' = Append(commands, [key |-> k, expected |-> session.version])
    /\ session' = Advanced(session.status)
    /\ events' = Append(events, Event("USER_MESSAGE", session'.version, session'.version, k))
    /\ projection' = Refreshed(session', events', commands', journal)
    /\ caller' = Enter(c, "started", k, a)
    /\ UNCHANGED <<journal, turn, idemVars, streamVars, gatewayVars, crashes>>

\* start_turn of a known key, whatever the session's status: a finished turn
\* is the answer, an unfinished one is taken up again.
ResumeTurn(c, k, a) ==
    /\ caller[c] = Idle
    /\ ~IsNew(k)
    /\ turn[k] = "none"
    /\ caller' = Enter(c, "started", k, a)
    /\ UNCHANGED <<storeVars, idemVars, streamVars, gatewayVars, crashes>>

\* run: a command that has a journal is reconciled, one that has none prepared.
ReadJournal(c) ==
    LET k == caller[c].key IN
    /\ caller[c].at = "started"
    /\ caller' = Move(c, IF journal[k] = NoJournal THEN "routing" ELSE "reconciling")
    /\ UNCHANGED <<storeVars, idemVars, streamVars, gatewayVars, crashes>>

\* The stored route request equals the caller's, audit included.
RouteAgrees(k, a) == route[k] \in {"none", a}

\* GatewayRecordStore.commit_route: a stored request made under another
\* audit is another request, and the call fails.
CommitRoute(c) ==
    LET k == caller[c].key
        a == caller[c].audit
    IN
    /\ caller[c].at = "routing"
    /\ \/ /\ RouteAgrees(k, a)
          /\ route' = [route EXCEPT ![k] = a]
          /\ caller' = Move(c, "preparing")
       \/ /\ ~RouteAgrees(k, a)
          /\ caller' = Leave(c)
          /\ UNCHANGED route
    /\ UNCHANGED <<storeVars, idemVars, streamVars, record, calls, crashes>>

\* The journal _prepare builds for a routed command.
Prepared(a) == [state |-> "PREPARED", audit |-> a]

\* record_prepared_journal: the session's status is not looked at.
RecordPrepared(c) ==
    LET k == caller[c].key
        prepared == Prepared(caller[c].audit)
    IN
    /\ caller[c].at = "preparing"
    /\ \/ /\ journal[k] = NoJournal
          /\ journal' = [journal EXCEPT ![k] = prepared]
          /\ session' = [session EXCEPT !.version = @ + 1]
          /\ projection' = Refreshed(session', events, commands, journal')
          /\ caller' = [caller EXCEPT ![c] = [@ EXCEPT !.at = "invoking", !.journal = prepared]]
       \/ /\ journal[k] = prepared
          /\ caller' = [caller EXCEPT ![c] = [@ EXCEPT !.at = "invoking", !.journal = prepared]]
          /\ UNCHANGED <<journal, session, projection>>
       \/ /\ journal[k] \notin {NoJournal, prepared}
          /\ caller' = Leave(c)
          /\ UNCHANGED <<journal, session, projection>>
    /\ UNCHANGED <<events, commands, turn, idemVars, streamVars, gatewayVars, crashes>>

(***************************************************************************)
(* The gateway                                                             *)
(***************************************************************************)
\* EmbeddedAIGateway.invoke up to its await: replay the record, or call the
\* provider.  Nothing is written before the provider answers.
Invoke(c) ==
    LET k == caller[c].key IN
    /\ caller[c].at = "invoking"
    /\ \/ /\ record[k] = NoRecord
          /\ calls' = [calls EXCEPT ![k] = @ + 1]
          /\ caller' = Move(c, "awaiting")
       \/ /\ record[k] # NoRecord /\ record[k].audit = caller[c].audit
          /\ caller' = [caller EXCEPT ![c] = [@ EXCEPT !.at = "closing", !.result = record[k].result]]
          /\ UNCHANGED calls
       \/ /\ record[k] # NoRecord /\ record[k].audit # caller[c].audit
          /\ caller' = Leave(c)
          /\ UNCHANGED calls
    /\ UNCHANGED <<storeVars, idemVars, streamVars, route, record, crashes>>

\* The provider answers, or raises and is recorded as failed; the receipt
\* carries its own instant, so a second commit differs from the first.
CommitInvocation(c, r) ==
    LET k == caller[c].key IN
    /\ caller[c].at = "awaiting"
    /\ \/ /\ record[k] = NoRecord
          /\ record' = [record EXCEPT ![k] = [audit |-> caller[c].audit, result |-> r]]
          /\ caller' = [caller EXCEPT ![c] = [@ EXCEPT !.at = "closing", !.result = r]]
       \/ /\ record[k] # NoRecord
          /\ caller' = Leave(c)
          /\ UNCHANGED record
    /\ UNCHANGED <<storeVars, idemVars, streamVars, route, calls, crashes>>

\* run, after the await: only a result the record store proves is used.
LookupClosure(c) ==
    LET k == caller[c].key
        r == caller[c].result
    IN
    /\ caller[c].at = "closing"
    /\ caller' = [caller EXCEPT ![c] = [@ EXCEPT !.at = "completing",
                    !.result = IF record[k].result = r THEN OutcomeOf(r) ELSE "UNKNOWN_OUTCOME"]]
    /\ UNCHANGED <<storeVars, idemVars, streamVars, gatewayVars, crashes>>

(***************************************************************************)
(* Reconciling a command that has a journal                                *)
(***************************************************************************)
\* reconcile through the session service, for a command without a caller.
Reconcile(c, k, a) ==
    /\ caller[c] = Idle
    /\ k \in CommandKeys
    /\ caller' = Enter(c, "reconciling", k, a)
    /\ UNCHANGED <<storeVars, idemVars, streamVars, gatewayVars, crashes>>

\* get_turn_for_command.
ReadTurn(c) ==
    LET k == caller[c].key IN
    /\ caller[c].at = "reconciling"
    /\ caller' = IF turn[k] # "none" THEN Leave(c) ELSE Move(c, "rereading")
    /\ UNCHANGED <<storeVars, idemVars, streamVars, gatewayVars, crashes>>

\* get_journal_for_command: none, or an unknown outcome, is refused.  A
\* committed head belongs to a turn committed since ReadTurn; completing it
\* from its prepared predecessor is then a replay, which leaves as well.
RereadJournal(c) ==
    LET k == caller[c].key IN
    /\ caller[c].at = "rereading"
    /\ caller' = IF journal[k].state = "PREPARED"
                 THEN [caller EXCEPT ![c] = [@ EXCEPT !.at = "looking", !.journal = journal[k]]]
                 ELSE Leave(c)
    /\ UNCHANGED <<storeVars, idemVars, streamVars, gatewayVars, crashes>>

LookedUpRetrying(c, k) ==
    IF record[k] = NoRecord THEN Move(c, "invoking")
    ELSE [caller EXCEPT ![c] = [@ EXCEPT !.at = "completing", !.result = OutcomeOf(record[k].result)]]
LookedUpPrepared(c, k) ==
    [caller EXCEPT ![c] = [@ EXCEPT !.at = "completing", !.journal = Prepared(caller[c].audit),
        !.result = IF record[k] = NoRecord THEN "UNKNOWN_OUTCOME" ELSE OutcomeOf(record[k].result)]]
LookedUpWaiting(c, k) ==
    IF record[k] = NoRecord THEN Leave(c)
    ELSE [caller EXCEPT ![c] = [@ EXCEPT !.at = "completing", !.result = OutcomeOf(record[k].result)]]
\* The gateway record decides; its absence is an unknown outcome.
LookedUp(c, k) ==
    [caller EXCEPT ![c] = [@ EXCEPT !.at = "completing",
        !.result = IF record[k] = NoRecord THEN "UNKNOWN_OUTCOME" ELSE OutcomeOf(record[k].result)]]

LookupRecord(c) ==
    LET k == caller[c].key IN
    /\ caller[c].at = "looking"
    /\ caller' = LookedUp(c, k)
    /\ UNCHANGED <<storeVars, idemVars, streamVars, gatewayVars, crashes>>

GatewayEvent(o) ==
    CASE o = "UNKNOWN_OUTCOME" -> "GATEWAY_UNKNOWN"
      [] o = "BLOCKED_CAPABILITY" -> "GATEWAY_FAILED"
      [] OTHER -> "GATEWAY_COMPLETED"

RequirementEvent(o) ==
    CASE o = "READY" -> "REQUIREMENT_READY"
      [] o = "CLARIFICATION_REQUIRED" -> "CLARIFICATION_REQUIRED"
      [] OTHER -> "REQUIREMENT_BLOCKED"

TurnEvents(k, o, version) ==
    LET at(kind) == Event(kind, version, version, k) IN
    [i \in 1..Chunks |-> at("ASSISTANT_CHUNK")]
      \o <<at("ASSISTANT_MESSAGE"), at(GatewayEvent(o)), at(RequirementEvent(o))>>

\* The status a completed turn leaves the session in.
StatusAfter(o) == IF o \in {"READY", "CLARIFICATION_REQUIRED"} THEN "ACTIVE" ELSE "BLOCKED"

CompletesAlways(c, k) == TRUE
\* No turn yet, and the head is the journal the caller prepared or read.
Completes(c, k) == turn[k] = "none" /\ journal[k] = caller[c].journal

PolicyAfterClarification(k, o) == IF o \in {"READY", "CLARIFICATION_REQUIRED"} THEN k ELSE session.policy
\* A READY turn compiles a policy; any other keeps the one in force.
PolicyAfter(k, o) == IF o = "READY" THEN k ELSE session.policy

\* complete_turn: the turn's events, journal, interpretation, policy, state
\* and projection in one transaction; the session's status is overwritten
\* whatever it was.
CompleteTurn(c) ==
    LET k == caller[c].key
        o == caller[c].result
        next == session.version + 1
    IN
    /\ caller[c].at = "completing"
    /\ \/ /\ ~Completes(c, k)
          /\ UNCHANGED storeVars
       \/ /\ Completes(c, k)
          /\ turn' = [turn EXCEPT ![k] = o]
          /\ journal' = [journal EXCEPT ![k] = [state |-> IF o = "UNKNOWN_OUTCOME" THEN o ELSE "COMMITTED",
                                                audit |-> caller[c].audit]]
          /\ events' = events \o TurnEvents(k, o, next)
          /\ session' = [session EXCEPT !.version = next,
                                        !.sequence = Len(events'),
                                        !.status = StatusAfter(o),
                                        !.interpretation = k,
                                        !.policy = PolicyAfter(k, o)]
          /\ projection' = Refreshed(session', events', commands, journal')
          /\ UNCHANGED commands
    /\ caller' = Leave(c)
    /\ UNCHANGED <<idemVars, streamVars, gatewayVars, crashes>>

\* The caller's process or request is lost; what it committed stays.
Crash(c) ==
    /\ caller[c] # Idle
    /\ crashes < CrashLimit
    /\ crashes' = crashes + 1
    /\ caller' = Leave(c)
    /\ UNCHANGED <<storeVars, idemVars, streamVars, gatewayVars>>

(***************************************************************************)
(* Events from the runtimes and the team                                   *)
(***************************************************************************)
LastKind(s) == runtime[s][Len(runtime[s])]

RuntimeEventAllowedAgain(s, n, kind) == n <= Len(runtime[s]) + 1 /\ ((n = 1) = (kind = "RUN_STARTED"))
\* A stream is contiguous, starts once, ends once, and reports usage before
\* it ends.
RuntimeEventAllowed(s, n, kind) ==
    /\ n = Len(runtime[s]) + 1
    /\ (n = 1) = (kind = "RUN_STARTED")
    /\ n > 1 => LastKind(s) \notin TerminalKinds
    /\ kind \in TerminalKinds => \E i \in 1..Len(runtime[s]) : runtime[s][i] = "USAGE_REPORTED"

\* The event is stored already, whatever key delivered it.
KnownRuntimeEvent(s, n, kind) == n \in 1..Len(runtime[s]) /\ runtime[s][n] = kind

\* append_runtime_event: a known key is a replay of the same request, a known
\* event under a new key binds the key to the stored event.
AppendRuntimeEvent(key, s, n, kind) ==
    /\ Exists
    /\ key \notin {d.key : d \in deliveries}
    /\ n <= StreamLimit
    /\ \/ /\ KnownRuntimeEvent(s, n, kind)
          /\ UNCHANGED <<session, events, projection, runtime>>
       \/ /\ RuntimeEventAllowed(s, n, kind)
          /\ runtime' = [runtime EXCEPT ![s] = Append(@, kind)]
          /\ session' = Advanced(session.status)
          /\ events' = Append(events, Event(kind, session'.version, session'.version, s))
          /\ projection' = Refreshed(session', events', commands, journal)
    /\ deliveries' = deliveries \cup {[key |-> key, stream |-> s, n |-> n]}
    /\ UNCHANGED <<commands, journal, turn, idemVars, gatewayVars, caller, crashes>>

Max3(x, y, z) == CHOOSE m \in {x, y, z} : m >= x /\ m >= y /\ m >= z

\* The largest of the session's next version, the team's and the last event's.
TeamAuthority(e) == Max3(session.version + 1, TeamVersion[e], events[session.sequence].authority)

\* append_team_event, once per outbox entry.
AppendTeamEvent(e) ==
    /\ Exists
    /\ e \notin teamDone
    /\ session' = Advanced(session.status)
    /\ events' = Append(events,
            Event("TEAM", session'.version, TeamAuthority(e), "none"))
    /\ projection' = Refreshed(session', events', commands, journal)
    /\ teamDone' = teamDone \cup {e}
    /\ UNCHANGED <<commands, journal, turn, closes, claims, streamVars, gatewayVars, caller, crashes>>

CallerStep(c) ==
    \/ ReadJournal(c) \/ CommitRoute(c) \/ RecordPrepared(c)
    \/ Invoke(c) \/ (\E r \in Replies : CommitInvocation(c, r)) \/ LookupClosure(c)
    \/ ReadTurn(c) \/ RereadJournal(c) \/ LookupRecord(c) \/ CompleteTurn(c)

Next ==
    \/ CreateSession
    \/ \E key \in CloseKeys : CloseSession(key)
    \/ \E key \in ClaimKeys : ClaimShellReconcile(key)
    \/ \E c \in Callers : CallerStep(c) \/ Crash(c)
    \/ \E c \in Callers, k \in Keys :
           \/ \E a \in AuditsOf[c] : StartTurn(c, k, a)
           \/ \E a \in RetryAudits[c] : ResumeTurn(c, k, a) \/ Reconcile(c, k, a)
    \/ \E key \in DeliveryKeys, s \in Streams, n \in 1..StreamLimit, kind \in RuntimeKinds :
           AppendRuntimeEvent(key, s, n, kind)
    \/ \E e \in TeamEvents : AppendTeamEvent(e)

Spec == Init /\ [][Next]_vars

\* The event loop runs every caller's coroutine, and a client repeats its
\* message until it has an answer.
Fairness ==
    /\ WF_vars(CreateSession)
    /\ \A c \in Callers : WF_vars(CallerStep(c))
    /\ \A c \in Callers, k \in Keys : SF_vars(\E a \in RetryAudits[c] : ResumeTurn(c, k, a))

FairSpec == Spec /\ Fairness

(***************************************************************************)
(* Properties                                                              *)
(***************************************************************************)
\* Every variable stays in its type.
HarnessTypeOK ==
    /\ session.status \in {"ABSENT", "ACTIVE", "BLOCKED", "CLOSED"}
    /\ session.version \in Nat /\ session.sequence \in Nat
    /\ \A k \in Keys :
         /\ journal[k].state \in {"none", "PREPARED", "COMMITTED", "UNKNOWN_OUTCOME"}
         /\ turn[k] \in Outcomes \cup {"none"}
         /\ record[k].result \in Replies \cup {"none"}
         /\ calls[k] \in Nat
    /\ CommandKeys \subseteq Keys /\ Len(commands) = Cardinality(CommandKeys)
    /\ closes \subseteq CloseKeys /\ teamDone \subseteq TeamEvents

\* The stored projection is always the one a rebuild from the rows gives, so
\* get_projection and rebuild_projection agree after every operation, and the
\* sequence in the session row is the length of the event log.
ProjectionIsRebuildable ==
    /\ projection = BuildProjection(session, events, commands, journal)
    /\ session.sequence = Len(events)

\* The authority version of the log never moves backward: what
\* validate_session_event_log asserts of a session's events.  Only
\* append_team_event looks at the event before its own, so an event of the
\* session after a team that is ahead goes back.
AuthorityMonotonic ==
    \A i \in 2..Len(events) : events[i - 1].authority <= events[i].authority

\* Where the log still moves forward: a team event is never behind the event
\* before it nor behind the session, and the session versions never go back.
TeamEventsNotBehind ==
    \A i \in 2..Len(events) :
        /\ events[i - 1].version <= events[i].version /\ events[i].version <= session.version
        /\ events[i].kind = "TEAM" =>
              events[i].authority >= events[i].version /\ events[i].authority >= events[i - 1].authority

\* However often a message is repeated and whoever completes it, its command
\* has one user message, and one final answer exactly when it has a turn.
MessagesOnce ==
    \A k \in Keys :
        LET count(kind) == Cardinality({i \in 1..Len(events) : events[i].key = k /\ events[i].kind = kind})
        IN  /\ count("USER_MESSAGE") = IF k \in CommandKeys THEN 1 ELSE 0
            /\ count("ASSISTANT_MESSAGE") = IF turn[k] = "none" THEN 0 ELSE 1
            /\ count("ASSISTANT_CHUNK") = IF turn[k] = "none" THEN 0 ELSE Chunks

\* The requirement policy in force was compiled from a READY turn, and the
\* session answers messages only after a turn that left it usable.
PolicyFromReadyTurn ==
    /\ session.policy # "none" => turn[session.policy] = "READY"
    /\ session.interpretation # "none" /\ session.status \in {"ACTIVE", "BLOCKED"}
         => (session.status = "ACTIVE") =
              (turn[session.interpretation] \in {"READY", "CLARIFICATION_REQUIRED"})

\* A message has a turn exactly when its journal is final, and no answer is
\* thrown away: what a caller compares when it completes a turn is the journal it
\* held before the provider answered, and that journal still stands unless
\* another caller completed the turn meanwhile.
AnswersLand ==
    /\ \A k \in Keys : (turn[k] = "none") = (journal[k].state \in {"none", "PREPARED"})
    /\ \A c \in Callers :
         caller[c].at = "completing" /\ turn[caller[c].key] = "none" => Completes(c, caller[c].key)

\* Where a log has the events of a runtime stream, up to place m.
StreamPlaces(log, s, m) == {i \in 1..m : log[i].key = s /\ log[i].kind \in RuntimeKinds}

\* A redelivered runtime event is projected once: the session has one event
\* for each event of a stream, the n-th of them being the stream's n-th, and
\* the deliveries accepted so far are of exactly these events.
RuntimeProjectedOnce ==
    \A s \in Streams :
        /\ Cardinality(StreamPlaces(events, s, Len(events))) = Len(runtime[s])
        /\ \A i \in StreamPlaces(events, s, Len(events)) :
             events[i].kind = runtime[s][Cardinality(StreamPlaces(events, s, i))]
        /\ {d.n : d \in {x \in deliveries : x.stream = s}} = 1..Len(runtime[s])

\* The ledger of answered commands is implemented.
Ledger == INSTANCE TurnLedger WITH
    opened <- [k \in Keys |-> k \in CommandKeys],
    answer <- [k \in Keys |-> IF record[k] = NoRecord THEN "none" ELSE OutcomeOf(record[k].result)],
    settled <- turn

\* One provider call and one answer per command, the answer being the
\* recorded result or UNKNOWN_OUTCOME: the session runtime with its crashes,
\* retries and reconciliations implements the turn ledger.
ImplementsTurnLedger == Ledger!Spec

\* Once its journal is PREPARED a message is answered, with the recorded
\* result or as unknown, whichever callers are lost on the way.
PreparedTurnEnds ==
    \A k \in Keys : (journal[k].state = "PREPARED") ~> (turn[k] # "none")

\* A message that was accepted is answered: the runtime can restart at every
\* command, gateway and session commit boundary and reconciles or blocks.
EveryTurnEnds ==
    \A k \in Keys : (k \in CommandKeys) ~> (turn[k] # "none")

=============================================================================
