------------------------ MODULE HarnessSessionProofs ------------------------
(***************************************************************************)
(* Safety of a harness session for any number of messages, callers, team   *)
(* events and runtime streams, and the ledger it implements.               *)
(***************************************************************************)
EXTENDS HarnessSession, TLAPS, FiniteSetTheorems

Stamps == UNION {StampedBy(c) : c \in Callers}

SessionRow ==
    [status : {"ABSENT", "ACTIVE", "BLOCKED", "CLOSED"}, version : Nat, sequence : Nat,
     interpretation : Keys \cup {"none"}, policy : Keys \cup {"none"}]

EventRow ==
    [kind : {"SESSION_OPENED", "SESSION_CLOSED", "USER_MESSAGE", "ASSISTANT_CHUNK", "ASSISTANT_MESSAGE",
             "GATEWAY_UNKNOWN", "GATEWAY_FAILED", "GATEWAY_COMPLETED", "REQUIREMENT_READY",
             "CLARIFICATION_REQUIRED", "REQUIREMENT_BLOCKED", "TEAM"} \cup RuntimeKinds,
     version : Nat, authority : Nat, key : Keys \cup Streams \cup {"none"}]

CommandRow == [key : Keys, expected : Nat]

JournalRow == [state : {"PREPARED", "COMMITTED", "UNKNOWN_OUTCOME"}, audit : Stamps]

RecordRow == [audit : Stamps, result : Replies]

CallerRow ==
    [at : {"started", "routing", "preparing", "invoking", "awaiting", "closing", "completing",
           "reconciling", "rereading", "looking"},
     key : Keys, audit : Stamps, journal : JournalRow \cup {NoJournal},
     result : Replies \cup Outcomes \cup {"none"}]

\* The session store.
StoreTypeOK ==
    /\ session \in SessionRow
    /\ events \in Seq(EventRow)
    /\ commands \in Seq(CommandRow)
    /\ journal \in [Keys -> JournalRow \cup {NoJournal}]
    /\ turn \in [Keys -> Outcomes \cup {"none"}]

\* The session row knows the length of its log, which is not empty.
SequenceIsLength ==
    session.sequence = Len(events) /\ (Exists => session.sequence > 0)

\* The gateway's records and the callers.
GatewayTypeOK ==
    /\ record \in [Keys -> RecordRow \cup {NoRecord}]
    /\ calls \in [Keys -> Nat]
    /\ caller \in [Callers -> CallerRow \cup {Idle}]

SessionTypeOK == StoreTypeOK /\ SequenceIsLength /\ GatewayTypeOK

-----------------------------------------------------------------------------
(* Who may call the provider.                                              *)

\* A caller works on an accepted command under a stamp of its own.
CallersKnown ==
    \A c \in Callers : caller[c] # Idle =>
        caller[c].key \in CommandKeys /\ caller[c].audit \in StampedBy(c)

\* While a caller is about to prepare a command, no journal of that command
\* carries a stamp of the caller.
NotYetPrepared ==
    \A c \in Callers : caller[c].at \in {"routing", "preparing"} =>
        \/ journal[caller[c].key] = NoJournal
        \/ journal[caller[c].key].audit \notin StampedBy(c)

\* The one who prepared a command is the only one to call for it.
OneCaller ==
    /\ \A c \in Callers : caller[c].at = "invoking" =>
         calls[caller[c].key] = 0 /\ journal[caller[c].key] # NoJournal
    /\ \A c, d \in Callers :
         caller[c].at = "invoking" /\ caller[d].at = "invoking" /\ caller[c].key = caller[d].key => c = d
    /\ \A c \in Callers : caller[c].at = "awaiting" => calls[caller[c].key] = 1

\* One call at most, none without a journal, and a record only of a call.
OneCall ==
    \A k \in Keys :
        /\ calls[k] \in {0, 1}
        /\ journal[k] = NoJournal => calls[k] = 0
        /\ record[k] # NoRecord => calls[k] = 1

\* A caller completes with what the gateway recorded, or as unknown.
ResultsRecorded ==
    \A c \in Callers :
        /\ caller[c].at = "closing" => caller[c].result \in Replies
        /\ caller[c].at = "completing" =>
             \/ caller[c].result = "UNKNOWN_OUTCOME"
             \/ /\ record[caller[c].key] # NoRecord
                /\ caller[c].result = OutcomeOf(record[caller[c].key].result)

TurnInv ==
    /\ SessionTypeOK
    /\ CallersKnown
    /\ NotYetPrepared
    /\ OneCaller
    /\ OneCall
    /\ ResultsRecorded

-----------------------------------------------------------------------------
(* Types.                                                                  *)

\* One caller changes.
LEMMA CallerChanges ==
  ASSUME GatewayTypeOK, NEW c \in Callers, NEW r \in CallerRow \cup {Idle},
         caller' = [caller EXCEPT ![c] = r]
  PROVE  /\ caller' \in [Callers -> CallerRow \cup {Idle}]
         /\ caller'[c] = r
         /\ \A d \in Callers : d # c => caller'[d] = caller[d]
BY DEF GatewayTypeOK

\* A caller that is not idle has a row.
LEMMA CallerHasRow ==
  ASSUME GatewayTypeOK, NEW c \in Callers, caller[c].at # "idle"
  PROVE  /\ caller[c] \in CallerRow /\ caller[c] # Idle
         /\ caller[c].key \in Keys /\ caller[c].audit \in Stamps
         /\ caller[c].journal \in JournalRow \cup {NoJournal}
         /\ caller[c].result \in Replies \cup Outcomes \cup {"none"}
<1>1. caller[c] \in CallerRow /\ caller[c] # Idle
  BY DEF GatewayTypeOK, Idle
<1> QED BY <1>1 DEF CallerRow

\* The stamps of a caller are stamps.
LEMMA StampIsOne ==
  ASSUME NEW c \in Callers, NEW a \in StampedBy(c)
  PROVE  a \in Stamps /\ a # "none"
BY AuditAssumption DEF Stamps

\* Where a caller enters.
LEMMA EnteringRow ==
  ASSUME NEW at \in {"started", "reconciling"}, NEW k \in Keys, NEW a \in Stamps
  PROVE  [at |-> at, key |-> k, audit |-> a, journal |-> NoJournal, result |-> "none"] \in CallerRow
BY DEF CallerRow

\* Replies and outcomes.
LEMMA OutcomeIsOne ==
  /\ \A r \in Replies : OutcomeOf(r) \in Results /\ OutcomeOf(r) \in Outcomes /\ OutcomeOf(r) # "none"
  /\ "UNKNOWN_OUTCOME" \in Outcomes
  /\ Outcomes = Results \cup {"UNKNOWN_OUTCOME"}
  /\ "none" \notin Outcomes /\ "none" \notin Replies
BY DEF Outcomes, Results, Replies, OutcomeOf

\* A log that grows.
LEMMA LogGrows ==
  ASSUME NEW s \in Seq(EventRow), NEW new \in Seq(EventRow)
  PROVE  /\ s \o new \in Seq(EventRow)
         /\ Len(s \o new) = Len(s) + Len(new) /\ Len(s) \in Nat /\ Len(new) \in Nat
         /\ \A i \in 1..Len(s) : (s \o new)[i] = s[i]
         /\ \A i \in 1..Len(new) : (s \o new)[Len(s) + i] = new[i]
<1>1. s \o new \in Seq(EventRow) /\ Len(s) \in Nat /\ Len(new) \in Nat
  OBVIOUS
<1>2. Len(s \o new) = Len(s) + Len(new)
  OBVIOUS
<1>3. \A i \in 1..Len(s) : (s \o new)[i] = s[i]
  OBVIOUS
<1>4. \A i \in 1..Len(new) : (s \o new)[Len(s) + i] = new[i]
  OBVIOUS
<1> QED BY <1>1, <1>2, <1>3, <1>4

\* The events of a turn.
LEMMA TurnEventsTyped ==
  ASSUME NEW k \in Keys, NEW o \in Outcomes, NEW v \in Nat
  PROVE  /\ TurnEvents(k, o, v) \in Seq(EventRow)
         /\ Len(TurnEvents(k, o, v)) = Chunks + 3
         /\ \A i \in 1..Chunks + 3 :
              /\ TurnEvents(k, o, v)[i].version = v
              /\ TurnEvents(k, o, v)[i].key = k
              /\ TurnEvents(k, o, v)[i].kind =
                   IF i <= Chunks THEN "ASSISTANT_CHUNK"
                   ELSE IF i = Chunks + 1 THEN "ASSISTANT_MESSAGE"
                   ELSE IF i = Chunks + 2 THEN GatewayEvent(o) ELSE RequirementEvent(o)
<1> DEFINE at(kind) == Event(kind, v, v, k)
           chunks == [i \in 1..Chunks |-> at("ASSISTANT_CHUNK")]
           rest == <<at("ASSISTANT_MESSAGE"), at(GatewayEvent(o)), at(RequirementEvent(o))>>
<1>1. /\ GatewayEvent(o) \in {"GATEWAY_UNKNOWN", "GATEWAY_FAILED", "GATEWAY_COMPLETED"}
      /\ RequirementEvent(o) \in {"REQUIREMENT_READY", "CLARIFICATION_REQUIRED", "REQUIREMENT_BLOCKED"}
  BY DEF GatewayEvent, RequirementEvent
<1>2. /\ at("ASSISTANT_CHUNK") \in EventRow /\ at("ASSISTANT_MESSAGE") \in EventRow
      /\ at(GatewayEvent(o)) \in EventRow /\ at(RequirementEvent(o)) \in EventRow
      /\ at("ASSISTANT_CHUNK").kind = "ASSISTANT_CHUNK"
      /\ at("ASSISTANT_MESSAGE").kind = "ASSISTANT_MESSAGE"
      /\ at(GatewayEvent(o)).kind = GatewayEvent(o)
      /\ at(RequirementEvent(o)).kind = RequirementEvent(o)
      /\ \A kind : at(kind).version = v /\ at(kind).key = k
  BY <1>1 DEF Event, EventRow
<1> HIDE DEF at
<1>3. Chunks \in Nat
  BY HarnessAssumption
<1>4. chunks \in Seq(EventRow) /\ Len(chunks) = Chunks /\ rest \in Seq(EventRow) /\ Len(rest) = 3
  BY <1>2, <1>3
<1>5. /\ rest[1] = at("ASSISTANT_MESSAGE") /\ rest[2] = at(GatewayEvent(o))
      /\ rest[3] = at(RequirementEvent(o))
      /\ \A i \in 1..Chunks : chunks[i] = at("ASSISTANT_CHUNK")
  OBVIOUS
<1> HIDE DEF chunks, rest
<1>6. /\ chunks \o rest \in Seq(EventRow) /\ Len(chunks \o rest) = Chunks + 3
      /\ \A i \in 1..Chunks : (chunks \o rest)[i] = chunks[i]
      /\ \A i \in 1..3 : (chunks \o rest)[Chunks + i] = rest[i]
  <2>1. /\ chunks \o rest \in Seq(EventRow) /\ Len(chunks \o rest) = Len(chunks) + Len(rest)
        /\ \A i \in 1..Len(chunks) : (chunks \o rest)[i] = chunks[i]
        /\ \A i \in 1..Len(rest) : (chunks \o rest)[Len(chunks) + i] = rest[i]
    BY <1>4, LogGrows
  <2> QED BY <1>4, <2>1
<1>7. TurnEvents(k, o, v) = chunks \o rest
  BY DEF TurnEvents, chunks, rest, at
<1>8. ASSUME NEW i \in 1..Chunks + 3
      PROVE  /\ (chunks \o rest)[i].version = v /\ (chunks \o rest)[i].key = k
             /\ (chunks \o rest)[i].kind =
                   IF i <= Chunks THEN "ASSISTANT_CHUNK"
                   ELSE IF i = Chunks + 1 THEN "ASSISTANT_MESSAGE"
                   ELSE IF i = Chunks + 2 THEN GatewayEvent(o) ELSE RequirementEvent(o)
  <2>1. CASE i <= Chunks
    <3>1. (chunks \o rest)[i] = at("ASSISTANT_CHUNK")
      BY <1>3, <1>5, <1>6, <2>1
    <3> QED BY <1>2, <2>1, <3>1
  <2>2. CASE i = Chunks + 1
    <3>1. (chunks \o rest)[i] = at("ASSISTANT_MESSAGE") /\ ~(i <= Chunks)
      BY <1>3, <1>5, <1>6, <2>2
    <3> QED BY <1>2, <2>2, <3>1
  <2>3. CASE i = Chunks + 2
    <3>1. (chunks \o rest)[i] = at(GatewayEvent(o)) /\ ~(i <= Chunks) /\ i # Chunks + 1
      BY <1>3, <1>5, <1>6, <2>3
    <3> QED BY <1>2, <2>3, <3>1
  <2>4. CASE i = Chunks + 3
    <3>1. /\ (chunks \o rest)[i] = at(RequirementEvent(o))
          /\ ~(i <= Chunks) /\ i # Chunks + 1 /\ i # Chunks + 2
      BY <1>3, <1>5, <1>6, <2>4
    <3> QED BY <1>2, <2>4, <3>1
  <2>5. i <= Chunks \/ i = Chunks + 1 \/ i = Chunks + 2 \/ i = Chunks + 3
    BY <1>3
  <2> QED BY <2>1, <2>2, <2>3, <2>4, <2>5
<1> QED BY <1>6, <1>7, <1>8

\* The operations that write the session's rows.
LEMMA StoreActions ==
  ASSUME [Next]_vars
  PROVE  \/ UNCHANGED storeVars
         \/ CreateSession
         \/ \E key \in CloseKeys : CloseSession(key)
         \/ \E c \in Callers : RecordPrepared(c) \/ CompleteTurn(c)
         \/ \E c \in Callers, k \in Keys : \E a \in AuditsOf[c] : StartTurn(c, k, a)
         \/ \E key \in DeliveryKeys, s \in Streams, n \in 1..StreamLimit, kind \in RuntimeKinds :
              AppendRuntimeEvent(key, s, n, kind)
         \/ \E e \in TeamEvents : AppendTeamEvent(e)
<1>1. CASE UNCHANGED vars
  BY <1>1 DEF vars
<1>2. ASSUME NEW key \in ClaimKeys, ClaimShellReconcile(key)
      PROVE  UNCHANGED storeVars
  BY <1>2 DEF ClaimShellReconcile
<1>3. ASSUME NEW c \in Callers, CallerStep(c) \/ Crash(c), ~RecordPrepared(c), ~CompleteTurn(c)
      PROVE  UNCHANGED storeVars
  BY <1>3 DEF CallerStep, Crash, ReadJournal, CommitRoute, Invoke, CommitInvocation, LookupClosure,
              ReadTurn, RereadJournal, LookupRecord
<1>4. ASSUME NEW c \in Callers, NEW k \in Keys, NEW a, ResumeTurn(c, k, a) \/ Reconcile(c, k, a)
      PROVE  UNCHANGED storeVars
  BY <1>4 DEF ResumeTurn, Reconcile
<1> QED BY <1>1, <1>2, <1>3, <1>4 DEF Next

\* One event more.
LEMMA OneEventMore ==
  ASSUME StoreTypeOK, SequenceIsLength, NEW e \in EventRow, events' = Append(events, e),
         NEW status \in {"ACTIVE", "BLOCKED", "CLOSED"},
         session' = Advanced(status)
  PROVE  /\ session' \in SessionRow /\ events' \in Seq(EventRow) /\ SequenceIsLength'
         /\ session'.version = session.version + 1 /\ session'.status = status
         /\ session'.interpretation = session.interpretation /\ session'.policy = session.policy
         /\ Len(events') = Len(events) + 1 /\ Len(events) \in Nat
         /\ events'[Len(events')] = e
         /\ \A i \in 1..Len(events) : events'[i] = events[i]
<1>1. /\ session' \in SessionRow /\ session'.sequence = session.sequence + 1
      /\ session'.version = session.version + 1 /\ session'.status = status
      /\ session'.interpretation = session.interpretation /\ session'.policy = session.policy
      /\ session.sequence \in Nat
  <2>1. session \in SessionRow
    BY DEF StoreTypeOK
  <2>2. session.version \in Nat /\ session.sequence \in Nat
    BY <2>1 DEF SessionRow
  <2>3. PICK v \in Nat, q \in Nat : v = session.version + 1 /\ q = session.sequence + 1
    BY <2>2
  <2>4. session' = [session EXCEPT !.status = status, !.version = v, !.sequence = q]
    BY <2>3 DEF Advanced
  <2>5. session' \in SessionRow
    BY <2>1, <2>4 DEF SessionRow
  <2>6. /\ session'.status = status /\ session'.version = v /\ session'.sequence = q
        /\ session'.interpretation = session.interpretation /\ session'.policy = session.policy
    BY <2>1, <2>4 DEF SessionRow
  <2> QED BY <2>2, <2>3, <2>5, <2>6
<1>2. /\ events' \in Seq(EventRow)
      /\ Len(events') = Len(events) + 1 /\ Len(events) \in Nat
      /\ events'[Len(events')] = e
      /\ \A i \in 1..Len(events) : events'[i] = events[i]
  BY DEF StoreTypeOK
<1>3. SequenceIsLength'
  BY <1>1, <1>2 DEF SequenceIsLength
<1> QED BY <1>1, <1>2, <1>3

\* complete_turn, where it completes: a whole turn more.
TurnEnds(c, k, o) ==
    /\ caller[c].at = "completing" /\ k = caller[c].key /\ o = caller[c].result
    /\ Completes(c, k)
    /\ turn' = [turn EXCEPT ![k] = o]
    /\ journal' = [journal EXCEPT ![k] = [state |-> IF o = "UNKNOWN_OUTCOME" THEN o ELSE "COMMITTED",
                                          audit |-> caller[c].audit]]
    /\ events' = events \o TurnEvents(k, o, session.version + 1)
    /\ session' = [session EXCEPT !.version = session.version + 1,
                                  !.sequence = Len(events'),
                                  !.status = StatusAfter(o),
                                  !.interpretation = k,
                                  !.policy = PolicyAfter(k, o)]
    /\ projection' = Refreshed(session', events', commands, journal')
    /\ commands' = commands
    /\ caller' = Leave(c)
    /\ UNCHANGED <<idemVars, streamVars, gatewayVars, crashes>>

\* complete_turn completes the turn or does nothing to the store.
LEMMA CompleteTurnCases ==
  ASSUME NEW c \in Callers, CompleteTurn(c)
  PROVE  \/ /\ UNCHANGED storeVars /\ caller[c].at = "completing" /\ caller' = Leave(c)
            /\ UNCHANGED <<idemVars, streamVars, gatewayVars, crashes>>
         \/ TurnEnds(c, caller[c].key, caller[c].result)
BY DEF CompleteTurn, TurnEnds

\* What it does to the session row and the log.
LEMMA TurnEndsRows ==
  ASSUME SessionTypeOK, NEW c \in Callers, NEW k, NEW o, TurnEnds(c, k, o), o \in Outcomes
  PROVE  /\ k \in Keys /\ session' \in SessionRow /\ SequenceIsLength'
         /\ session'.version = session.version + 1 /\ session'.status = StatusAfter(o)
         /\ session'.interpretation = k /\ session'.policy = PolicyAfter(k, o)
         /\ events' \in Seq(EventRow) /\ Len(events') = Len(events) + Chunks + 3
         /\ Len(events) \in Nat
         /\ \A i \in 1..Len(events) : events'[i] = events[i]
         /\ \A i \in 1..Chunks + 3 : events'[Len(events) + i] = TurnEvents(k, o, session.version + 1)[i]
         /\ turn' \in [Keys -> Outcomes \cup {"none"}]
         /\ journal' \in [Keys -> JournalRow \cup {NoJournal}]
<1> USE DEF SessionTypeOK
<1>1. k \in Keys /\ caller[c].audit \in Stamps
  BY CallerHasRow DEF TurnEnds
<1>2. session \in SessionRow /\ events \in Seq(EventRow)
  BY DEF StoreTypeOK
<1>3. session.version \in Nat
  BY <1>2 DEF SessionRow
<1>4. PICK v \in Nat : v = session.version + 1
  BY <1>3
<1>5. /\ TurnEvents(k, o, v) \in Seq(EventRow) /\ Len(TurnEvents(k, o, v)) = Chunks + 3
      /\ Chunks \in Nat
  BY <1>1, TurnEventsTyped, HarnessAssumption
<1>6. events' = events \o TurnEvents(k, o, v)
  BY <1>4 DEF TurnEnds
<1>7. /\ events' \in Seq(EventRow) /\ Len(events') = Len(events) + Chunks + 3
      /\ Len(events) \in Nat
      /\ \A i \in 1..Len(events) : events'[i] = events[i]
      /\ \A i \in 1..Chunks + 3 : events'[Len(events) + i] = TurnEvents(k, o, v)[i]
  <2> DEFINE new == TurnEvents(k, o, v)
  <2> HIDE DEF new
  <2>1. new \in Seq(EventRow) /\ Len(new) = Chunks + 3 /\ events' = events \o new
    BY <1>5, <1>6 DEF new
  <2>2. /\ events' \in Seq(EventRow) /\ Len(events') = Len(events) + Len(new)
        /\ Len(events) \in Nat
        /\ \A i \in 1..Len(events) : events'[i] = events[i]
        /\ \A i \in 1..Len(new) : events'[Len(events) + i] = new[i]
    BY <1>2, <2>1, LogGrows
  <2> QED BY <1>5, <2>1, <2>2 DEF new
<1>8. PICK q \in Nat : q = Len(events') /\ q > 0
  BY <1>5, <1>7
<1>9. StatusAfter(o) \in {"ACTIVE", "BLOCKED"} /\ PolicyAfter(k, o) \in Keys \cup {"none"}
  BY <1>1, <1>2 DEF StatusAfter, PolicyAfter, SessionRow
<1>10. session' = [session EXCEPT !.version = v, !.sequence = q, !.status = StatusAfter(o),
                                  !.interpretation = k, !.policy = PolicyAfter(k, o)]
  BY <1>4, <1>8 DEF TurnEnds
<1>11. session' \in SessionRow
  BY <1>1, <1>2, <1>9, <1>10 DEF SessionRow
<1>12. /\ session'.version = v /\ session'.status = StatusAfter(o) /\ session'.sequence = q
       /\ session'.interpretation = k /\ session'.policy = PolicyAfter(k, o)
  BY <1>2, <1>10 DEF SessionRow
<1>13. SequenceIsLength'
  BY <1>8, <1>12 DEF SequenceIsLength
<1>14. turn' \in [Keys -> Outcomes \cup {"none"}]
  BY <1>1 DEF TurnEnds, StoreTypeOK
<1>15. journal' \in [Keys -> JournalRow \cup {NoJournal}]
  <2>1. [state |-> IF o = "UNKNOWN_OUTCOME" THEN o ELSE "COMMITTED", audit |-> caller[c].audit]
          \in JournalRow
    BY <1>1 DEF JournalRow
  <2> QED BY <1>1, <2>1 DEF TurnEnds, StoreTypeOK
<1> QED BY <1>1, <1>4, <1>7, <1>11, <1>12, <1>13, <1>14, <1>15

\* The outcome a turn ends with.
LEMMA EndsWithOutcome ==
  ASSUME TurnInv, NEW c \in Callers, caller[c].at = "completing"
  PROVE  caller[c].result \in Outcomes
<1>1. caller[c].key \in Keys
  BY CallerHasRow DEF TurnInv, SessionTypeOK
<1>2. record[caller[c].key] # NoRecord => record[caller[c].key].result \in Replies
  BY <1>1 DEF TurnInv, SessionTypeOK, GatewayTypeOK, RecordRow
<1> QED BY <1>2, OutcomeIsOne DEF TurnInv, ResultsRecorded

\* The authority of a team event.
LEMMA LargestOfThree ==
  ASSUME NEW x \in Nat, NEW y \in Nat, NEW z \in Nat
  PROVE  Max3(x, y, z) \in Nat /\ Max3(x, y, z) >= x /\ Max3(x, y, z) >= y /\ Max3(x, y, z) >= z
<1>1. \E m \in {x, y, z} : m >= x /\ m >= y /\ m >= z
  <2>1. CASE x >= y /\ x >= z
    BY <2>1
  <2>2. CASE y >= x /\ y >= z
    BY <2>2
  <2>3. CASE z >= x /\ z >= y
    BY <2>3
  <2> QED BY <2>1, <2>2, <2>3
<1>2. Max3(x, y, z) \in {x, y, z} /\ Max3(x, y, z) >= x /\ Max3(x, y, z) >= y /\ Max3(x, y, z) >= z
  BY <1>1 DEF Max3
<1> QED BY <1>2

LEMMA TeamAuthorityIsLargest ==
  ASSUME StoreTypeOK, SequenceIsLength, Exists, NEW e \in TeamEvents
  PROVE  /\ TeamAuthority(e) \in Nat
         /\ TeamAuthority(e) >= session.version + 1
         /\ TeamAuthority(e) >= events[Len(events)].authority
         /\ Len(events) \in 1..Len(events)
<1>1. session.version + 1 \in Nat /\ session.sequence \in Nat
  BY DEF StoreTypeOK, SessionRow
<1>2. Len(events) \in 1..Len(events) /\ session.sequence = Len(events)
  BY <1>1 DEF SequenceIsLength
<1>3. events[Len(events)] \in EventRow
  BY <1>2 DEF StoreTypeOK
<1>4. events[Len(events)].authority \in Nat /\ TeamVersion[e] \in Nat
  BY <1>3, HarnessAssumption DEF EventRow
<1> QED BY <1>1, <1>2, <1>4, LargestOfThree DEF TeamAuthority

\* The event each operation appends.
LEMMA EventTyped ==
  ASSUME NEW kind \in {"SESSION_OPENED", "SESSION_CLOSED", "USER_MESSAGE", "TEAM"} \cup RuntimeKinds,
         NEW v \in Nat, NEW auth \in Nat, NEW key \in Keys \cup Streams \cup {"none"}
  PROVE  /\ Event(kind, v, auth, key) \in EventRow
         /\ Event(kind, v, auth, key).kind = kind /\ Event(kind, v, auth, key).version = v
         /\ Event(kind, v, auth, key).authority = auth /\ Event(kind, v, auth, key).key = key
BY DEF Event, EventRow

\* What an operation that adds one event does.
Appended(e, status) ==
    /\ e \in EventRow /\ e.version = session.version + 1
    /\ events' = Append(events, e)
    /\ status \in {"ACTIVE", "BLOCKED", "CLOSED"}
    /\ session' = Advanced(status)
    /\ journal' = journal /\ turn' = turn
    /\ projection' = Refreshed(session', events', commands', journal')

LEMMA AdvancedVersion ==
  ASSUME StoreTypeOK, NEW status
  PROVE  /\ Advanced(status).version = session.version + 1 /\ session.version \in Nat
         /\ session.version + 1 \in Nat
<1>1. session \in SessionRow
  BY DEF StoreTypeOK
<1>2. session.version \in Nat
  BY <1>1 DEF SessionRow
<1>3. Advanced(status).version = session.version + 1
  BY <1>1 DEF Advanced, SessionRow
<1> QED BY <1>2, <1>3

LEMMA CloseAppends ==
  ASSUME SessionTypeOK, NEW key, CloseSession(key)
  PROVE  \E e : Appended(e, "CLOSED") /\ e.kind = "SESSION_CLOSED" /\ commands' = commands
<1> DEFINE e == Event("SESSION_CLOSED", session.version + 1, session.version + 1, "none")
<1>1. session' = Advanced("CLOSED") /\ session'.version = session.version + 1
  BY AdvancedVersion DEF CloseSession, SessionTypeOK
<1>2. e \in EventRow /\ e.version = session.version + 1 /\ e.kind = "SESSION_CLOSED"
  BY AdvancedVersion, EventTyped DEF SessionTypeOK
<1>3. events' = Append(events, e)
  BY <1>1 DEF CloseSession
<1>4. commands' = commands /\ journal' = journal /\ turn' = turn
  BY DEF CloseSession
<1>5. projection' = Refreshed(session', events', commands', journal')
  BY <1>4 DEF CloseSession
<1> HIDE DEF e
<1>6. Appended(e, "CLOSED")
  BY <1>1, <1>2, <1>3, <1>4, <1>5 DEF Appended
<1> QED BY <1>2, <1>4, <1>6

LEMMA StartAppends ==
  ASSUME SessionTypeOK, NEW c, NEW k \in Keys, NEW a, StartTurn(c, k, a)
  PROVE  \E e : /\ Appended(e, "ACTIVE") /\ e.kind = "USER_MESSAGE" /\ e.key = k
                /\ session.status = "ACTIVE"
                /\ \E x \in Nat : commands' = Append(commands, [key |-> k, expected |-> x])
<1> DEFINE e == Event("USER_MESSAGE", session.version + 1, session.version + 1, k)
<1>1. /\ session' = Advanced("ACTIVE") /\ session'.version = session.version + 1
      /\ session.version \in Nat /\ session.status = "ACTIVE"
  BY AdvancedVersion DEF StartTurn, SessionTypeOK
<1>2. e \in EventRow /\ e.version = session.version + 1 /\ e.kind = "USER_MESSAGE" /\ e.key = k
  BY AdvancedVersion, EventTyped DEF SessionTypeOK
<1>3. events' = Append(events, e)
  BY <1>1 DEF StartTurn
<1>4. commands' = Append(commands, [key |-> k, expected |-> session.version])
  BY DEF StartTurn
<1>5. journal' = journal /\ turn' = turn
  BY DEF StartTurn
<1>6. projection' = Refreshed(session', events', commands', journal')
  BY <1>5 DEF StartTurn
<1> HIDE DEF e
<1>7. Appended(e, "ACTIVE")
  BY <1>1, <1>2, <1>3, <1>5, <1>6 DEF Appended
<1> QED BY <1>1, <1>2, <1>4, <1>7

LEMMA RuntimeAppends ==
  ASSUME SessionTypeOK, NEW key, NEW s \in Streams, NEW n, NEW kind \in RuntimeKinds,
         AppendRuntimeEvent(key, s, n, kind)
  PROVE  \/ UNCHANGED storeVars
         \/ \E e : Appended(e, session.status) /\ e.kind = kind /\ commands' = commands
<1>1. CASE UNCHANGED <<session, events, projection, runtime>>
  BY <1>1 DEF AppendRuntimeEvent, storeVars
<1>2. CASE ~UNCHANGED <<session, events, projection, runtime>>
  <2> DEFINE e == Event(kind, session.version + 1, session.version + 1, s)
  <2>1. /\ session' = Advanced(session.status)
        /\ events' = Append(events, Event(kind, session'.version, session'.version, s))
        /\ projection' = Refreshed(session', events', commands, journal)
        /\ commands' = commands /\ journal' = journal /\ turn' = turn /\ Exists
    BY <1>2 DEF AppendRuntimeEvent
  <2>2. session'.version = session.version + 1
    BY <2>1, AdvancedVersion DEF SessionTypeOK
  <2>3. e \in EventRow /\ e.version = session.version + 1 /\ e.kind = kind
    <3>1. /\ session.version + 1 \in Nat /\ s \in Keys \cup Streams \cup {"none"}
          /\ kind \in {"SESSION_OPENED", "SESSION_CLOSED", "USER_MESSAGE", "TEAM"} \cup RuntimeKinds
      BY AdvancedVersion DEF SessionTypeOK
    <3> QED BY <3>1, EventTyped
  <2>4. events' = Append(events, e)
    BY <2>1, <2>2
  <2>5. session.status \in {"ACTIVE", "BLOCKED", "CLOSED"}
    BY <2>1 DEF SessionTypeOK, StoreTypeOK, SessionRow, Exists
  <2>6. projection' = Refreshed(session', events', commands', journal')
    BY <2>1
  <2> HIDE DEF e
  <2>7. Appended(e, session.status)
    BY <2>1, <2>3, <2>4, <2>5, <2>6 DEF Appended
  <2> QED BY <2>1, <2>3, <2>7
<1> QED BY <1>1, <1>2

LEMMA TeamAppends ==
  ASSUME SessionTypeOK, NEW x \in TeamEvents, AppendTeamEvent(x)
  PROVE  \E e : /\ Appended(e, session.status) /\ e.kind = "TEAM" /\ commands' = commands
                /\ e.authority >= session.version + 1
                /\ e.authority >= events[Len(events)].authority
<1> DEFINE e == Event("TEAM", session.version + 1, TeamAuthority(x), "none")
<1>1. /\ session' = Advanced(session.status)
      /\ events' = Append(events, Event("TEAM", session'.version, TeamAuthority(x), "none"))
      /\ projection' = Refreshed(session', events', commands, journal)
      /\ commands' = commands /\ journal' = journal /\ turn' = turn /\ Exists
  BY DEF AppendTeamEvent
<1>2. session'.version = session.version + 1
  BY <1>1, AdvancedVersion DEF SessionTypeOK
<1>3. /\ TeamAuthority(x) \in Nat
      /\ TeamAuthority(x) >= session.version + 1
      /\ TeamAuthority(x) >= events[Len(events)].authority
  BY <1>1, TeamAuthorityIsLargest DEF SessionTypeOK
<1>4. e \in EventRow /\ e.version = session.version + 1 /\ e.kind = "TEAM" /\ e.authority = TeamAuthority(x)
  <2>1. session.version + 1 \in Nat
    BY AdvancedVersion DEF SessionTypeOK
  <2> QED BY <1>3, <2>1, EventTyped
<1>5. events' = Append(events, e)
  BY <1>1, <1>2
<1>6. session.status \in {"ACTIVE", "BLOCKED", "CLOSED"}
  BY <1>1 DEF SessionTypeOK, StoreTypeOK, SessionRow, Exists
<1>7. projection' = Refreshed(session', events', commands', journal')
  BY <1>1
<1> HIDE DEF e
<1>8. Appended(e, session.status)
  BY <1>1, <1>4, <1>5, <1>6, <1>7 DEF Appended
<1> QED BY <1>1, <1>3, <1>4, <1>8

\* record_prepared_journal writes the head a command did not have, and the
\* next version.
Prepares(c, k) ==
    /\ caller[c].at = "preparing" /\ k = caller[c].key
    /\ journal[k] = NoJournal
    /\ journal' = [journal EXCEPT ![k] = Prepared(caller[c].audit)]
    /\ session' = [session EXCEPT !.version = @ + 1]
    /\ projection' = Refreshed(session', events', commands', journal')
    /\ caller' = [caller EXCEPT ![c] = [@ EXCEPT !.at = "invoking",
                                                 !.journal = Prepared(caller[c].audit)]]
    /\ UNCHANGED <<events, commands, turn, idemVars, streamVars, gatewayVars, crashes>>

LEMMA RecordPreparedCases ==
  ASSUME NEW c \in Callers, RecordPrepared(c)
  PROVE  \/ Prepares(c, caller[c].key)
         \/ UNCHANGED <<storeVars, idemVars, streamVars, gatewayVars, crashes>>
<1>1. UNCHANGED <<events, commands, turn, idemVars, streamVars, gatewayVars, crashes>>
  BY DEF RecordPrepared
<1>2. CASE UNCHANGED <<journal, session, projection>>
  BY <1>1, <1>2 DEF storeVars
<1>3. CASE ~UNCHANGED <<journal, session, projection>>
  BY <1>1, <1>3 DEF RecordPrepared, Prepares
<1> QED BY <1>2, <1>3

LEMMA PreparesRows ==
  ASSUME SessionTypeOK, NEW c \in Callers, NEW k, Prepares(c, k)
  PROVE  /\ k \in Keys /\ session' \in SessionRow /\ session'.version = session.version + 1
         /\ session'.status = session.status /\ session'.sequence = session.sequence
         /\ session'.interpretation = session.interpretation /\ session'.policy = session.policy
         /\ Prepared(caller[c].audit) \in JournalRow
         /\ journal' \in [Keys -> JournalRow \cup {NoJournal}]
<1> USE DEF SessionTypeOK
<1>1. k \in Keys /\ caller[c].audit \in Stamps
  BY CallerHasRow DEF Prepares
<1>2. session \in SessionRow /\ session' = [session EXCEPT !.version = @ + 1]
  BY DEF StoreTypeOK, Prepares
<1>3. /\ session' \in SessionRow /\ session'.version = session.version + 1
      /\ session'.status = session.status /\ session'.sequence = session.sequence
      /\ session'.interpretation = session.interpretation /\ session'.policy = session.policy
  BY <1>2 DEF SessionRow
<1>4. Prepared(caller[c].audit) \in JournalRow
  BY <1>1 DEF Prepared, JournalRow
<1> QED BY <1>1, <1>3, <1>4 DEF Prepares, StoreTypeOK

\* create_session
LEMMA CreateSessionRows ==
  ASSUME CreateSession
  PROVE  /\ session' \in SessionRow /\ SequenceIsLength'
         /\ session'.version = 1 /\ session'.status = "ACTIVE"
         /\ session'.interpretation = "none" /\ session'.policy = "none"
         /\ events' \in Seq(EventRow) /\ Len(events') = 1
         /\ events'[1].kind = "SESSION_OPENED" /\ events'[1].version = 1
<1> DEFINE e == Event("SESSION_OPENED", 1, 1, "none")
<1>1. session' = [status |-> "ACTIVE", version |-> 1, sequence |-> 1, interpretation |-> "none", policy |-> "none"]
  BY DEF CreateSession
<1>2. /\ session' \in SessionRow /\ session'.sequence = 1
      /\ session'.version = 1 /\ session'.status = "ACTIVE"
      /\ session'.interpretation = "none" /\ session'.policy = "none"
  BY <1>1 DEF SessionRow
<1>3. e \in EventRow /\ e.kind = "SESSION_OPENED" /\ e.version = 1
  BY EventTyped
<1>4. events' = <<e>>
  BY DEF CreateSession
<1> HIDE DEF e
<1>5. events' \in Seq(EventRow) /\ Len(events') = 1 /\ events'[1] = e
  BY <1>3, <1>4
<1> QED BY <1>2, <1>3, <1>5 DEF SequenceIsLength

\* The rows of the store keep their types.
LEMMA StoreTypeStep ==
  ASSUME TurnInv, [Next]_vars
  PROVE  StoreTypeOK' /\ SequenceIsLength'
<1> USE DEF TurnInv, SessionTypeOK
<1>1. CASE UNCHANGED storeVars
  BY <1>1 DEF storeVars, StoreTypeOK, SequenceIsLength, Exists
<1>2. CASE CreateSession
  BY <1>2, CreateSessionRows DEF CreateSession, StoreTypeOK
<1>3. ASSUME NEW e, NEW status, Appended(e, status), commands' \in Seq(CommandRow)
      PROVE  StoreTypeOK' /\ SequenceIsLength'
  <2>1. /\ e \in EventRow /\ events' = Append(events, e) /\ session' = Advanced(status)
        /\ status \in {"ACTIVE", "BLOCKED", "CLOSED"}
    BY <1>3 DEF Appended
  <2>2. session' \in SessionRow /\ events' \in Seq(EventRow) /\ SequenceIsLength'
    BY <2>1, OneEventMore
  <2> QED BY <1>3, <2>2 DEF StoreTypeOK, Appended
<1>4. commands \in Seq(CommandRow)
  BY DEF StoreTypeOK
<1>5. ASSUME NEW key, CloseSession(key)
      PROVE  StoreTypeOK' /\ SequenceIsLength'
  BY <1>3, <1>4, <1>5, CloseAppends
<1>6. ASSUME NEW c \in Callers, NEW k \in Keys, NEW a, StartTurn(c, k, a)
      PROVE  StoreTypeOK' /\ SequenceIsLength'
  <2>1. PICK e : /\ Appended(e, "ACTIVE")
                 /\ \E x \in Nat : commands' = Append(commands, [key |-> k, expected |-> x])
    BY <1>6, StartAppends
  <2>2. commands' \in Seq(CommandRow)
    BY <1>4, <2>1 DEF CommandRow
  <2> QED BY <1>3, <2>1, <2>2
<1>7. ASSUME NEW key, NEW s \in Streams, NEW n, NEW kind \in RuntimeKinds, AppendRuntimeEvent(key, s, n, kind)
      PROVE  StoreTypeOK' /\ SequenceIsLength'
  BY <1>1, <1>3, <1>4, <1>7, RuntimeAppends
<1>8. ASSUME NEW e \in TeamEvents, AppendTeamEvent(e)
      PROVE  StoreTypeOK' /\ SequenceIsLength'
  BY <1>3, <1>4, <1>8, TeamAppends
<1>9. ASSUME NEW c \in Callers, RecordPrepared(c)
      PROVE  StoreTypeOK' /\ SequenceIsLength'
  <2>1. CASE UNCHANGED storeVars
    BY <1>1, <2>1
  <2>2. ASSUME NEW k, Prepares(c, k)
        PROVE  StoreTypeOK' /\ SequenceIsLength'
    <3>1. events' = events /\ commands' = commands /\ turn' = turn
      BY <2>2 DEF Prepares
    <3> QED BY <2>2, <3>1, PreparesRows DEF StoreTypeOK, SequenceIsLength, Exists
  <2> QED BY <1>9, <2>1, <2>2, RecordPreparedCases
<1>10. ASSUME NEW c \in Callers, CompleteTurn(c)
       PROVE  StoreTypeOK' /\ SequenceIsLength'
  <2>1. ASSUME NEW k, NEW o, TurnEnds(c, k, o), o = caller[c].result
        PROVE  StoreTypeOK' /\ SequenceIsLength'
    <3>1. o \in Outcomes /\ commands' = commands
      BY <2>1, EndsWithOutcome DEF TurnEnds
    <3> QED BY <1>4, <2>1, <3>1, TurnEndsRows DEF StoreTypeOK
  <2> QED BY <1>1, <1>10, <2>1, CompleteTurnCases
<1> QED BY <1>1, <1>2, <1>5, <1>6, <1>7, <1>8, <1>9, <1>10, StoreActions

\* A command accepted under a new key.
LEMMA CommandAccepted ==
  ASSUME StoreTypeOK, NEW k \in Keys, NEW x \in Nat,
         commands' = Append(commands, [key |-> k, expected |-> x])
  PROVE  CommandKeys' = CommandKeys \cup {k}
<1> DEFINE n == Len(commands)
           row == [key |-> k, expected |-> x]
<1>1. commands \in Seq(CommandRow) /\ row \in CommandRow /\ row.key = k
  BY DEF StoreTypeOK, CommandRow
<1> HIDE DEF row
<1>2. commands' = Append(commands, row)
  BY DEF row
<1>3. /\ n \in Nat /\ Len(commands') = n + 1 /\ commands'[n + 1] = row
      /\ \A i \in 1..n : commands'[i] = commands[i]
  BY <1>1, <1>2
<1>4. 1..(n + 1) = 1..n \cup {n + 1}
  BY <1>3
<1>5. CommandKeys' = {commands'[i].key : i \in 1..(n + 1)}
  BY <1>3 DEF CommandKeys
<1>6. CommandKeys = {commands[i].key : i \in 1..n}
  BY DEF CommandKeys
<1> HIDE DEF n
<1>7. CommandKeys' = {commands'[i].key : i \in 1..n} \cup {k}
  BY <1>1, <1>3, <1>4, <1>5
<1> QED BY <1>3, <1>6, <1>7

-----------------------------------------------------------------------------
(* One call, and what is done with its answer.                             *)

\* A caller may come to be as r says without calling the provider.
CallerMay(c, r) ==
    \/ r = Idle
    \/ /\ r.key \in CommandKeys' /\ r.audit \in StampedBy(c)
       /\ r.at \notin {"invoking", "awaiting"}
       /\ r.at \in {"routing", "preparing"} =>
            journal[r.key] = NoJournal \/ journal[r.key].audit \notin StampedBy(c)
       /\ r.at = "closing" => r.result \in Replies
       /\ r.at = "completing" =>
            \/ r.result = "UNKNOWN_OUTCOME"
            \/ record[r.key] # NoRecord /\ r.result = OutcomeOf(record[r.key].result)

\* Steps that leave journals, calls and records alone.
LEMMA QuietTurn ==
  ASSUME TurnInv, SessionTypeOK', CommandKeys \subseteq CommandKeys',
         journal' = journal, calls' = calls, record' = record,
         \A c \in Callers : caller'[c] = caller[c] \/ CallerMay(c, caller'[c])
  PROVE  TurnInv'
<1> USE DEF TurnInv
<1>1. CallersKnown'
  <2> SUFFICES ASSUME NEW c \in Callers, caller'[c] # Idle
               PROVE  caller'[c].key \in CommandKeys' /\ caller'[c].audit \in StampedBy(c)
    BY DEF CallersKnown, StampedBy
  <2> QED BY DEF CallersKnown, CallerMay
<1>2. NotYetPrepared'
  <2> SUFFICES ASSUME NEW c \in Callers, caller'[c].at \in {"routing", "preparing"}
               PROVE  \/ journal[caller'[c].key] = NoJournal
                      \/ journal[caller'[c].key].audit \notin StampedBy(c)
    BY DEF NotYetPrepared, StampedBy
  <2> QED BY DEF NotYetPrepared, CallerMay, Idle
<1>3. \A c \in Callers : caller'[c].at \in {"invoking", "awaiting"} => caller'[c] = caller[c]
  BY DEF CallerMay, Idle
<1>4. OneCaller'
  <2>1. \A c \in Callers : caller'[c].at = "invoking" =>
          calls'[caller'[c].key] = 0 /\ journal'[caller'[c].key] # NoJournal
    BY <1>3 DEF OneCaller
  <2>2. \A c, d \in Callers :
          caller'[c].at = "invoking" /\ caller'[d].at = "invoking" /\ caller'[c].key = caller'[d].key => c = d
    BY <1>3 DEF OneCaller
  <2>3. \A c \in Callers : caller'[c].at = "awaiting" => calls'[caller'[c].key] = 1
    BY <1>3 DEF OneCaller
  <2> QED BY <2>1, <2>2, <2>3 DEF OneCaller
<1>5. OneCall'
  BY DEF OneCall
<1>6. ResultsRecorded'
  <2> SUFFICES ASSUME NEW c \in Callers
               PROVE  /\ caller'[c].at = "closing" => caller'[c].result \in Replies
                      /\ caller'[c].at = "completing" =>
                           \/ caller'[c].result = "UNKNOWN_OUTCOME"
                           \/ /\ record[caller'[c].key] # NoRecord
                              /\ caller'[c].result = OutcomeOf(record[caller'[c].key].result)
    BY DEF ResultsRecorded
  <2>1. CASE caller'[c] = caller[c]
    BY <2>1 DEF ResultsRecorded
  <2>2. CASE CallerMay(c, caller'[c])
    BY <2>2 DEF CallerMay, Idle
  <2> QED BY <2>1, <2>2
<1> QED BY <1>1, <1>2, <1>4, <1>5, <1>6

\* One caller goes on, and nothing else happens to the turns.
LEMMA QuietCaller ==
  ASSUME TurnInv, [Next]_vars, NEW c \in Callers, NEW r \in CallerRow \cup {Idle},
         caller' = [caller EXCEPT ![c] = r], CallerMay(c, r), CommandKeys \subseteq CommandKeys',
         journal' = journal, calls' = calls, record' = record
  PROVE  TurnInv'
<1> USE DEF TurnInv
<1>1. /\ caller' \in [Callers -> CallerRow \cup {Idle}] /\ caller'[c] = r
      /\ \A d \in Callers : d # c => caller'[d] = caller[d]
  BY CallerChanges DEF SessionTypeOK
<1>2. SessionTypeOK'
  BY <1>1, StoreTypeStep DEF SessionTypeOK, GatewayTypeOK
<1>3. \A d \in Callers : caller'[d] = caller[d] \/ CallerMay(d, caller'[d])
  BY <1>1
<1> QED BY <1>2, <1>3, QuietTurn

\* A caller leaves.
LEMMA CallerLeaves ==
  ASSUME TurnInv, [Next]_vars, NEW c \in Callers, caller' = Leave(c),
         commands' = commands, journal' = journal, calls' = calls, record' = record
  PROVE  TurnInv'
<1>1. CallerMay(c, Idle) /\ CommandKeys \subseteq CommandKeys'
  BY DEF CallerMay, CommandKeys
<1> QED BY <1>1, QuietCaller DEF Leave

\* A caller goes on with the command it has.
Moved(c, at, j, res) ==
    [caller EXCEPT ![c] = [caller[c] EXCEPT !.at = at, !.journal = j, !.result = res]]

LEMMA CallerMoves ==
  ASSUME TurnInv, [Next]_vars, NEW c \in Callers, caller[c].at # "idle",
         NEW at \in {"routing", "preparing", "closing", "completing", "reconciling", "rereading", "looking"},
         NEW j \in JournalRow \cup {NoJournal}, NEW res \in Replies \cup Outcomes \cup {"none"},
         caller' = Moved(c, at, j, res),
         at \in {"routing", "preparing"} =>
           journal[caller[c].key] = NoJournal \/ journal[caller[c].key].audit \notin StampedBy(c),
         at = "closing" => res \in Replies,
         at = "completing" =>
           \/ res = "UNKNOWN_OUTCOME"
           \/ record[caller[c].key] # NoRecord /\ res = OutcomeOf(record[caller[c].key].result),
         commands' = commands, journal' = journal, calls' = calls, record' = record
  PROVE  TurnInv'
<1> DEFINE r == [caller[c] EXCEPT !.at = at, !.journal = j, !.result = res]
<1>1. caller[c] \in CallerRow /\ caller[c] # Idle
  BY CallerHasRow DEF TurnInv, SessionTypeOK
<1>2. /\ r \in CallerRow /\ r.at = at /\ r.key = caller[c].key /\ r.audit = caller[c].audit
      /\ r.result = res
  BY <1>1 DEF CallerRow
<1>3. caller' = [caller EXCEPT ![c] = r]
  BY DEF Moved
<1> HIDE DEF r
<1>4. CommandKeys \subseteq CommandKeys'
  BY DEF CommandKeys
<1>5. caller[c].key \in CommandKeys /\ caller[c].audit \in StampedBy(c)
  BY <1>1 DEF TurnInv, CallersKnown
<1>6. CallerMay(c, r)
  BY <1>2, <1>4, <1>5 DEF CallerMay
<1> QED BY <1>2, <1>3, <1>4, <1>6, QuietCaller

\* start_turn and reconcile let a caller in.
LEMMA CallerEnters ==
  ASSUME TurnInv, [Next]_vars, NEW c \in Callers, NEW at \in {"started", "reconciling"},
         NEW k \in Keys, NEW a \in StampedBy(c), caller' = Enter(c, at, k, a),
         k \in CommandKeys', CommandKeys \subseteq CommandKeys',
         journal' = journal, calls' = calls, record' = record
  PROVE  TurnInv'
<1> DEFINE r == [at |-> at, key |-> k, audit |-> a, journal |-> NoJournal, result |-> "none"]
<1>1. r \in CallerRow /\ r.at = at /\ r.key = k /\ r.audit = a
  <2>1. r \in CallerRow
    BY StampIsOne, EnteringRow, Zenon
  <2> QED BY <2>1
<1>2. caller' = [caller EXCEPT ![c] = r]
  BY DEF Enter
<1> HIDE DEF r
<1>3. CallerMay(c, r)
  BY <1>1 DEF CallerMay
<1> QED BY <1>1, <1>2, <1>3, QuietCaller

\* What a caller is not about to change.
LEMMA SameRow ==
  ASSUME GatewayTypeOK, NEW c \in Callers, caller[c].at # "idle", NEW at
  PROVE  /\ Move(c, at) = Moved(c, at, caller[c].journal, caller[c].result)
         /\ \A j : [caller EXCEPT ![c] = [@ EXCEPT !.at = at, !.journal = j]] =
              Moved(c, at, j, caller[c].result)
<1>1. caller[c] \in CallerRow
  BY CallerHasRow, Zenon
<1>2. /\ [caller[c] EXCEPT !.at = at] =
           [caller[c] EXCEPT !.at = at, !.journal = caller[c].journal, !.result = caller[c].result]
      /\ \A j : [caller[c] EXCEPT !.at = at, !.journal = j] =
           [caller[c] EXCEPT !.at = at, !.journal = j, !.result = caller[c].result]
  BY <1>1 DEF CallerRow
<1> QED BY <1>2 DEF Move, Moved

LEMMA ResultKept ==
  ASSUME GatewayTypeOK, NEW c \in Callers, caller[c].at # "idle", NEW at, NEW res,
         caller' = [caller EXCEPT ![c] = [@ EXCEPT !.at = at, !.result = res]]
  PROVE  caller' = Moved(c, at, caller[c].journal, res)
<1>1. [caller[c] EXCEPT !.at = at, !.result = res] =
        [caller[c] EXCEPT !.at = at, !.journal = caller[c].journal, !.result = res]
  BY CallerHasRow DEF CallerRow
<1> QED BY <1>1 DEF Moved

\* The steps of a caller between its writes.
LEMMA QuietSteps ==
  ASSUME TurnInv, [Next]_vars, NEW c \in Callers,
         \/ ReadJournal(c) \/ CommitRoute(c) \/ LookupClosure(c) \/ ReadTurn(c)
         \/ RereadJournal(c) \/ LookupRecord(c) \/ Crash(c)
  PROVE  TurnInv'
<1> USE DEF TurnInv, SessionTypeOK
<1> DEFINE k == caller[c].key
           jn == caller[c].journal
           res == caller[c].result
<1>1. commands' = commands /\ journal' = journal /\ calls' = calls /\ record' = record
  BY DEF ReadJournal, CommitRoute, LookupClosure, ReadTurn, RereadJournal, LookupRecord, Crash,
         storeVars, gatewayVars
<1>2. CASE caller' = Leave(c)
  BY <1>1, <1>2, CallerLeaves
<1> SUFFICES ASSUME caller' # Leave(c) PROVE TurnInv'
  BY <1>2
<1>3. caller[c].at # "idle"
  BY DEF ReadJournal, CommitRoute, LookupClosure, ReadTurn, RereadJournal, LookupRecord, Crash
<1>4. /\ k \in Keys /\ jn \in JournalRow \cup {NoJournal}
      /\ res \in Replies \cup Outcomes \cup {"none"}
      /\ journal[k] \in JournalRow \cup {NoJournal}
      /\ record[k] # NoRecord => record[k].result \in Replies
  BY <1>3, CallerHasRow DEF StoreTypeOK, GatewayTypeOK, RecordRow
<1>5. CASE ReadJournal(c)
  <2>1. PICK at : at = IF journal[k] = NoJournal THEN "routing" ELSE "reconciling"
    OBVIOUS
  <2>2. caller' = Move(c, at)
    BY <1>5, <2>1 DEF ReadJournal
  <2>3. at \in {"routing", "reconciling"} /\ (at = "routing" => journal[k] = NoJournal)
    BY <2>1
  <2>4. caller' = Moved(c, at, jn, res)
    BY <1>3, <2>2, SameRow
  <2> QED BY <1>1, <1>3, <1>4, <2>3, <2>4, CallerMoves
<1>6. CASE CommitRoute(c)
  <2>1. caller[c].at = "routing" /\ caller' = Move(c, "preparing")
    BY <1>6 DEF CommitRoute
  <2>2. journal[k] = NoJournal \/ journal[k].audit \notin StampedBy(c)
    BY <2>1 DEF NotYetPrepared
  <2>3. caller' = Moved(c, "preparing", jn, res)
    BY <1>3, <2>1, SameRow
  <2> QED BY <1>1, <1>3, <1>4, <2>2, <2>3, CallerMoves
<1>7. CASE LookupClosure(c)
  <2>1. PICK o : o = IF record[k].result = res THEN OutcomeOf(res) ELSE "UNKNOWN_OUTCOME"
    OBVIOUS
  <2>2. /\ caller[c].at = "closing"
        /\ caller' = [caller EXCEPT ![c] = [@ EXCEPT !.at = "completing", !.result = o]]
    BY <1>7, <2>1 DEF LookupClosure
  <2>3. res \in Replies
    BY <2>2 DEF ResultsRecorded
  <2>4. o \in Outcomes /\ (o = "UNKNOWN_OUTCOME" \/ (record[k] # NoRecord /\ o = OutcomeOf(record[k].result)))
    <3>1. OutcomeOf(res) \in Outcomes /\ "UNKNOWN_OUTCOME" \in Outcomes /\ "none" \notin Replies
      BY <2>3, OutcomeIsOne
    <3>2. record[k].result = res => record[k] # NoRecord
      BY <2>3, <3>1 DEF NoRecord
    <3>3. CASE record[k].result = res
      BY <2>1, <3>1, <3>2, <3>3
    <3>4. CASE record[k].result # res
      <4>1. o = "UNKNOWN_OUTCOME"
        BY <2>1, <3>4, Zenon
      <4>2. o \in Outcomes
        BY <4>1 DEF Outcomes
      <4> QED BY <4>1, <4>2, Zenon
    <3> QED BY <3>3, <3>4
  <2>5. caller' = Moved(c, "completing", jn, o)
    BY <1>3, <2>2, ResultKept
  <2> QED BY <1>1, <1>3, <1>4, <2>4, <2>5, CallerMoves
<1>8. CASE ReadTurn(c)
  <2>1. caller' = Move(c, "rereading")
    BY <1>8 DEF ReadTurn
  <2>2. caller' = Moved(c, "rereading", jn, res)
    BY <1>3, <2>1, SameRow
  <2> QED BY <1>1, <1>3, <1>4, <2>2, CallerMoves
<1>9. CASE RereadJournal(c)
  <2>1. caller' = [caller EXCEPT ![c] = [@ EXCEPT !.at = "looking", !.journal = journal[k]]]
    BY <1>9 DEF RereadJournal
  <2>2. caller' = Moved(c, "looking", journal[k], res)
    BY <1>3, <2>1, SameRow
  <2> QED BY <1>1, <1>3, <1>4, <2>2, CallerMoves
<1>10. CASE LookupRecord(c)
  <2>1. PICK o : o = IF record[k] = NoRecord THEN "UNKNOWN_OUTCOME" ELSE OutcomeOf(record[k].result)
    OBVIOUS
  <2>2. caller' = [caller EXCEPT ![c] = [@ EXCEPT !.at = "completing", !.result = o]]
    BY <1>10, <2>1 DEF LookupRecord, LookedUp
  <2>3. o \in Outcomes /\ (o = "UNKNOWN_OUTCOME" \/ (record[k] # NoRecord /\ o = OutcomeOf(record[k].result)))
    <3>1. record[k] # NoRecord => OutcomeOf(record[k].result) \in Outcomes
      BY <1>4, OutcomeIsOne
    <3>2. CASE record[k] = NoRecord
      <4>1. o = "UNKNOWN_OUTCOME"
        BY <2>1, <3>2, Zenon
      <4>2. o \in Outcomes
        BY <4>1 DEF Outcomes
      <4> QED BY <4>1, <4>2, Zenon
    <3>3. CASE record[k] # NoRecord
      BY <2>1, <3>1, <3>3
    <3> QED BY <3>2, <3>3
  <2>4. caller' = Moved(c, "completing", jn, o)
    BY <1>3, <2>2, ResultKept
  <2> QED BY <1>1, <1>3, <1>4, <2>3, <2>4, CallerMoves
<1> QED BY <1>5, <1>6, <1>7, <1>8, <1>9, <1>10 DEF Crash

\* Whoever writes a journal marks it with a stamp of its own.
LEMMA JournalWritten ==
  ASSUME TurnInv, SessionTypeOK', NEW c \in Callers, NEW k \in Keys, NEW j \in JournalRow,
         j.audit \in StampedBy(c), journal' = [journal EXCEPT ![k] = j],
         commands' = commands, calls' = calls, record' = record,
         \A d \in Callers : d # c => caller'[d] = caller[d],
         caller'[c].at \notin {"routing", "preparing"},
         caller'[c] # Idle => caller'[c].key \in CommandKeys /\ caller'[c].audit \in StampedBy(c)
  PROVE  /\ CallersKnown' /\ NotYetPrepared' /\ OneCall'
         /\ \A i \in Keys : journal'[i] = IF i = k THEN j ELSE journal[i]
         /\ j # NoJournal
<1> USE DEF TurnInv, SessionTypeOK
<1>1. j # NoJournal
  BY DEF JournalRow, NoJournal
<1>2. \A i \in Keys : journal'[i] = IF i = k THEN j ELSE journal[i]
  BY DEF StoreTypeOK
<1>3. CommandKeys' = CommandKeys
  BY DEF CommandKeys
<1>4. CallersKnown'
  BY <1>3 DEF CallersKnown, StampedBy
<1>5. NotYetPrepared'
  <2> SUFFICES ASSUME NEW d \in Callers, caller'[d].at \in {"routing", "preparing"}
               PROVE  \/ journal'[caller'[d].key] = NoJournal
                      \/ journal'[caller'[d].key].audit \notin StampedBy(d)
    BY DEF NotYetPrepared, StampedBy
  <2>1. d # c /\ caller'[d] = caller[d]
    OBVIOUS
  <2>2. caller[d].key \in Keys
    BY <2>1, CallerHasRow
  <2>3. CASE caller[d].key = k
    BY <1>2, <2>1, <2>3, AuditAssumption
  <2>4. CASE caller[d].key # k
    BY <1>2, <2>1, <2>2, <2>4 DEF NotYetPrepared
  <2> QED BY <2>3, <2>4
<1>6. OneCall'
  BY <1>1, <1>2 DEF OneCall
<1> QED BY <1>1, <1>2, <1>4, <1>5, <1>6

\* record_prepared_journal: the one who writes the first journal may call.
LEMMA PreparesStep ==
  ASSUME TurnInv, [Next]_vars, NEW c \in Callers, NEW k, Prepares(c, k)
  PROVE  TurnInv'
<1> USE DEF TurnInv, SessionTypeOK
<1> DEFINE p == Prepared(caller[c].audit)
           r == [caller[c] EXCEPT !.at = "invoking", !.journal = p]
<1>1. /\ caller[c].at = "preparing" /\ k = caller[c].key /\ journal[k] = NoJournal
      /\ journal' = [journal EXCEPT ![k] = p] /\ caller' = [caller EXCEPT ![c] = r]
      /\ commands' = commands /\ calls' = calls /\ record' = record
  BY DEF Prepares, gatewayVars
<1>2. caller[c] \in CallerRow /\ caller[c] # Idle /\ k \in Keys
  BY <1>1, CallerHasRow
<1>3. p \in JournalRow /\ p.audit = caller[c].audit /\ caller[c].audit \in StampedBy(c) /\ k \in CommandKeys
  <2>1. p \in JournalRow
    BY PreparesRows
  <2> QED BY <1>1, <1>2, <2>1 DEF CallersKnown, Prepared
<1> HIDE DEF p
<1>4. r \in CallerRow /\ r.at = "invoking" /\ r.key = k /\ r.audit = caller[c].audit
  BY <1>1, <1>2, <1>3 DEF CallerRow
<1> HIDE DEF r
<1>5. /\ caller' \in [Callers -> CallerRow \cup {Idle}] /\ caller'[c] = r
      /\ \A d \in Callers : d # c => caller'[d] = caller[d]
  BY <1>1, <1>4, CallerChanges
<1>6. SessionTypeOK'
  BY <1>1, <1>5, StoreTypeStep DEF GatewayTypeOK
<1>7. /\ CallersKnown' /\ NotYetPrepared' /\ OneCall'
      /\ \A i \in Keys : journal'[i] = IF i = k THEN p ELSE journal[i]
      /\ p # NoJournal
  <2> HIDE DEF TurnInv, SessionTypeOK
  <2>1. p.audit \in StampedBy(c) /\ p \in JournalRow
    BY <1>3
  <2>2. caller'[c].at \notin {"routing", "preparing"}
    BY <1>4, <1>5
  <2>3. caller'[c].key \in CommandKeys /\ caller'[c].audit \in StampedBy(c)
    BY <1>3, <1>4, <1>5
  <2>4. /\ journal' = [journal EXCEPT ![k] = p] /\ k \in Keys
        /\ commands' = commands /\ calls' = calls /\ record' = record
    BY <1>1, <1>2
  <2>5. \A d \in Callers : d # c => caller'[d] = caller[d]
    BY <1>5
  <2> QED BY <1>6, <2>1, <2>2, <2>3, <2>4, <2>5, JournalWritten, Zenon
<1>8. OneCaller'
  <2>1. \A d \in Callers : caller'[d].at = "invoking" =>
          calls'[caller'[d].key] = 0 /\ journal'[caller'[d].key] # NoJournal
    <3> SUFFICES ASSUME NEW d \in Callers, caller'[d].at = "invoking"
                 PROVE  calls'[caller'[d].key] = 0 /\ journal'[caller'[d].key] # NoJournal
      OBVIOUS
    <3>1. CASE d = c
      BY <1>1, <1>2, <1>4, <1>5, <1>7, <3>1 DEF OneCall
    <3>2. CASE d # c
      <4>1. caller'[d] = caller[d] /\ caller[d].key \in Keys
        BY <1>5, <3>2, CallerHasRow
      <4> QED BY <1>1, <1>7, <4>1 DEF OneCaller
    <3> QED BY <3>1, <3>2
  <2>2. \A d \in Callers : caller[d].at = "invoking" => caller[d].key # k
    BY <1>1 DEF OneCaller
  <2>3. \A d, e \in Callers :
          caller'[d].at = "invoking" /\ caller'[e].at = "invoking" /\ caller'[d].key = caller'[e].key => d = e
    BY <1>4, <1>5, <2>2 DEF OneCaller
  <2>4. \A d \in Callers : caller'[d].at = "awaiting" => calls'[caller'[d].key] = 1
    BY <1>1, <1>4, <1>5 DEF OneCaller
  <2> QED BY <2>1, <2>3, <2>4 DEF OneCaller
<1>9. ResultsRecorded'
  <2> SUFFICES ASSUME NEW d \in Callers
               PROVE  /\ caller'[d].at = "closing" => caller'[d].result \in Replies
                      /\ caller'[d].at = "completing" =>
                           \/ caller'[d].result = "UNKNOWN_OUTCOME"
                           \/ /\ record[caller'[d].key] # NoRecord
                              /\ caller'[d].result = OutcomeOf(record[caller'[d].key].result)
    BY <1>1 DEF ResultsRecorded
  <2>1. CASE d = c
    BY <1>4, <1>5, <2>1
  <2>2. CASE d # c
    BY <1>5, <2>2 DEF ResultsRecorded
  <2> QED BY <2>1, <2>2
<1> QED BY <1>6, <1>7, <1>8, <1>9

\* Nobody finds the journal it is about to prepare already prepared.
LEMMA RecordPreparedStep ==
  ASSUME TurnInv, [Next]_vars, NEW c \in Callers, RecordPrepared(c)
  PROVE  TurnInv'
<1> USE DEF TurnInv, SessionTypeOK
<1>1. CASE Prepares(c, caller[c].key)
  BY <1>1, PreparesStep
<1>2. caller[c].at = "preparing" /\ caller[c] # Idle
  BY CallerHasRow DEF RecordPrepared
<1>3. journal[caller[c].key] # Prepared(caller[c].audit)
  <2>1. caller[c].audit \in StampedBy(c)
    BY <1>2 DEF CallersKnown
  <2> QED BY <1>2, <2>1 DEF NotYetPrepared, Prepared, NoJournal
<1>4. CASE journal[caller[c].key] # NoJournal
  <2>1. /\ caller' = Leave(c) /\ commands' = commands /\ journal' = journal
        /\ calls' = calls /\ record' = record
    BY <1>3, <1>4 DEF RecordPrepared, gatewayVars
  <2> QED BY <2>1, CallerLeaves
<1>5. CASE journal[caller[c].key] = NoJournal
  <2>1. Prepares(c, caller[c].key)
    BY <1>3, <1>5 DEF RecordPrepared, Prepares
  <2> QED BY <1>1, <2>1
<1> QED BY <1>4, <1>5

\* EmbeddedAIGateway.invoke: who gets there is the first, and calls.
LEMMA InvokeStep ==
  ASSUME TurnInv, [Next]_vars, NEW c \in Callers, Invoke(c)
  PROVE  /\ TurnInv'
         /\ calls[caller[c].key] = 0 /\ calls' = [calls EXCEPT ![caller[c].key] = 1]
<1> USE DEF TurnInv, SessionTypeOK
<1> DEFINE k == caller[c].key
           r == [caller[c] EXCEPT !.at = "awaiting"]
<1>1. caller[c].at = "invoking" /\ k \in Keys /\ caller[c] \in CallerRow /\ caller[c] # Idle
  BY CallerHasRow DEF Invoke
<1>2. calls[k] = 0 /\ record[k] = NoRecord /\ journal[k] # NoJournal
  BY <1>1 DEF OneCaller, OneCall
<1>3. /\ calls' = [calls EXCEPT ![k] = 1] /\ caller' = Move(c, "awaiting")
      /\ commands' = commands /\ journal' = journal /\ record' = record
  BY <1>2 DEF Invoke, storeVars
<1>4. r \in CallerRow /\ r.at = "awaiting" /\ r.key = k /\ r.audit = caller[c].audit
  BY <1>1 DEF CallerRow
<1>5. caller' = [caller EXCEPT ![c] = r]
  BY <1>3 DEF Move
<1> HIDE DEF r
<1>6. /\ caller' \in [Callers -> CallerRow \cup {Idle}] /\ caller'[c] = r
      /\ \A d \in Callers : d # c => caller'[d] = caller[d]
  BY <1>4, <1>5, CallerChanges
<1>7. /\ calls' \in [Keys -> Nat] /\ calls'[k] = 1
      /\ \A i \in Keys : i # k => calls'[i] = calls[i]
  BY <1>1, <1>3 DEF GatewayTypeOK
<1>8. SessionTypeOK'
  BY <1>3, <1>6, <1>7, StoreTypeStep DEF GatewayTypeOK
<1>9. CallersKnown' /\ NotYetPrepared'
  <2>1. CommandKeys' = CommandKeys
    BY <1>3 DEF CommandKeys
  <2>2. CallersKnown'
    BY <1>1, <1>4, <1>6, <2>1 DEF CallersKnown, StampedBy
  <2>3. NotYetPrepared'
    BY <1>3, <1>4, <1>6 DEF NotYetPrepared, StampedBy
  <2> QED BY <2>2, <2>3
<1>10. OneCaller'
  <2>1. \A d \in Callers : d # c /\ caller[d].at \in {"invoking", "awaiting"} =>
          caller[d].key # k /\ caller[d].key \in Keys
    BY <1>1, <1>2, CallerHasRow DEF OneCaller
  <2>2. \A d \in Callers : caller'[d].at = "invoking" =>
          d # c /\ calls'[caller'[d].key] = 0 /\ journal'[caller'[d].key] # NoJournal
    BY <1>3, <1>4, <1>6, <1>7, <2>1 DEF OneCaller
  <2>3. \A d, e \in Callers :
          caller'[d].at = "invoking" /\ caller'[e].at = "invoking" /\ caller'[d].key = caller'[e].key => d = e
    BY <1>6, <2>2 DEF OneCaller
  <2>4. \A d \in Callers : caller'[d].at = "awaiting" => calls'[caller'[d].key] = 1
    BY <1>4, <1>6, <1>7, <2>1 DEF OneCaller
  <2> QED BY <2>2, <2>3, <2>4 DEF OneCaller
<1>11. OneCall'
  BY <1>2, <1>3, <1>7 DEF OneCall
<1>12. ResultsRecorded'
  <2> SUFFICES ASSUME NEW d \in Callers
               PROVE  /\ caller'[d].at = "closing" => caller'[d].result \in Replies
                      /\ caller'[d].at = "completing" =>
                           \/ caller'[d].result = "UNKNOWN_OUTCOME"
                           \/ /\ record[caller'[d].key] # NoRecord
                              /\ caller'[d].result = OutcomeOf(record[caller'[d].key].result)
    BY <1>3 DEF ResultsRecorded
  <2>1. CASE d = c
    BY <1>4, <1>6, <2>1
  <2>2. CASE d # c
    BY <1>6, <2>2 DEF ResultsRecorded
  <2> QED BY <2>1, <2>2
<1> QED BY <1>2, <1>3, <1>8, <1>9, <1>10, <1>11, <1>12

\* The answer is recorded once, of the one call.
LEMMA CommitInvocationStep ==
  ASSUME TurnInv, [Next]_vars, NEW c \in Callers, NEW reply \in Replies, CommitInvocation(c, reply)
  PROVE  /\ TurnInv'
         /\ record' = record \/
            /\ calls[caller[c].key] = 1 /\ record[caller[c].key] = NoRecord
            /\ record' = [record EXCEPT ![caller[c].key] = [audit |-> caller[c].audit, result |-> reply]]
<1> USE DEF TurnInv, SessionTypeOK
<1> DEFINE k == caller[c].key
           r == [caller[c] EXCEPT !.at = "closing", !.result = reply]
           w == [audit |-> caller[c].audit, result |-> reply]
<1>1. /\ caller[c].at = "awaiting" /\ k \in Keys /\ caller[c] \in CallerRow /\ caller[c] # Idle
      /\ caller[c].audit \in Stamps
  BY CallerHasRow DEF CommitInvocation
<1>2. /\ commands' = commands /\ journal' = journal /\ calls' = calls /\ calls[k] = 1
  BY <1>1 DEF CommitInvocation, storeVars, OneCaller
<1>3. CASE record[k] # NoRecord
  <2>1. caller' = Leave(c) /\ record' = record
    BY <1>3 DEF CommitInvocation
  <2> QED BY <1>2, <2>1, CallerLeaves
<1>4. CASE record[k] = NoRecord
  <2>1. record' = [record EXCEPT ![k] = w] /\ caller' = [caller EXCEPT ![c] = r]
    BY <1>4 DEF CommitInvocation
  <2>2. /\ r \in CallerRow /\ r.at = "closing" /\ r.key = k /\ r.audit = caller[c].audit
        /\ r.result = reply
    BY <1>1 DEF CallerRow
  <2>3. w \in RecordRow /\ w # NoRecord
    BY <1>1, OutcomeIsOne DEF RecordRow, NoRecord
  <2> HIDE DEF r, w
  <2>4. /\ caller' \in [Callers -> CallerRow \cup {Idle}] /\ caller'[c] = r
        /\ \A d \in Callers : d # c => caller'[d] = caller[d]
    BY <2>1, <2>2, CallerChanges
  <2>5. /\ record' \in [Keys -> RecordRow \cup {NoRecord}] /\ record'[k] = w
        /\ \A i \in Keys : i # k => record'[i] = record[i]
    BY <1>1, <2>1, <2>3 DEF GatewayTypeOK
  <2>6. SessionTypeOK'
    BY <1>2, <2>4, <2>5, StoreTypeStep DEF GatewayTypeOK
  <2>7. CommandKeys' = CommandKeys
    BY <1>2 DEF CommandKeys
  <2>8. CallersKnown'
    BY <1>1, <2>2, <2>4, <2>7 DEF CallersKnown, StampedBy
  <2>9. NotYetPrepared'
    BY <1>2, <2>2, <2>4 DEF NotYetPrepared, StampedBy
  <2>10. OneCaller'
    <3>1. \A d \in Callers : caller'[d].at \in {"invoking", "awaiting"} => caller'[d] = caller[d]
      BY <2>2, <2>4
    <3> QED BY <1>2, <3>1 DEF OneCaller
  <2>11. OneCall'
    BY <1>2, <2>5 DEF OneCall
  <2>12. ResultsRecorded'
    <3> SUFFICES ASSUME NEW d \in Callers
                 PROVE  /\ caller'[d].at = "closing" => caller'[d].result \in Replies
                        /\ caller'[d].at = "completing" =>
                             \/ caller'[d].result = "UNKNOWN_OUTCOME"
                             \/ /\ record'[caller'[d].key] # NoRecord
                                /\ caller'[d].result = OutcomeOf(record'[caller'[d].key].result)
      BY DEF ResultsRecorded
    <3>1. CASE d = c
      BY <2>2, <2>4, <3>1
    <3>2. CASE d # c
      <4>1. caller'[d] = caller[d]
        BY <2>4, <3>2
      <4>2. CASE caller[d].at = "completing"
        <5>1. caller[d].key \in Keys
          BY <4>2, CallerHasRow
        <5> QED BY <1>4, <2>5, <4>1, <4>2, <5>1 DEF ResultsRecorded
      <4> QED BY <4>1, <4>2 DEF ResultsRecorded
    <3> QED BY <3>1, <3>2
  <2> QED BY <1>2, <1>4, <2>1, <2>6, <2>8, <2>9, <2>10, <2>11, <2>12 DEF w
<1> QED BY <1>3, <1>4

\* complete_turn
LEMMA CompleteTurnStep ==
  ASSUME TurnInv, [Next]_vars, NEW c \in Callers, CompleteTurn(c)
  PROVE  TurnInv'
<1> USE DEF TurnInv, SessionTypeOK
<1>1. CASE UNCHANGED storeVars /\ UNCHANGED gatewayVars /\ caller' = Leave(c)
  BY <1>1, CallerLeaves DEF storeVars, gatewayVars
<1>2. ASSUME NEW k, NEW o, TurnEnds(c, k, o)
      PROVE  TurnInv'
  <2> DEFINE j == [state |-> IF o = "UNKNOWN_OUTCOME" THEN o ELSE "COMMITTED", audit |-> caller[c].audit]
  <2>1. /\ caller[c].at = "completing" /\ k = caller[c].key
        /\ journal' = [journal EXCEPT ![k] = j] /\ caller' = [caller EXCEPT ![c] = Idle]
        /\ commands' = commands /\ calls' = calls /\ record' = record
    BY <1>2 DEF TurnEnds, Leave, gatewayVars
  <2>2. /\ k \in Keys /\ caller[c].audit \in StampedBy(c) /\ caller[c].audit \in Stamps
    BY <2>1, CallerHasRow DEF CallersKnown
  <2>3. j \in JournalRow /\ j.audit = caller[c].audit
    BY <2>2 DEF JournalRow
  <2> HIDE DEF j
  <2>4. /\ caller' \in [Callers -> CallerRow \cup {Idle}] /\ caller'[c] = Idle
        /\ \A d \in Callers : d # c => caller'[d] = caller[d]
    BY <2>1, CallerChanges
  <2>5. SessionTypeOK'
    BY <2>1, <2>4, StoreTypeStep DEF GatewayTypeOK
  <2>6. caller'[c].at = "idle"
    BY <2>4 DEF Idle
  <2>7. /\ CallersKnown' /\ NotYetPrepared' /\ OneCall'
        /\ \A i \in Keys : journal'[i] = IF i = k THEN j ELSE journal[i]
        /\ j # NoJournal
    BY <2>1, <2>2, <2>3, <2>4, <2>5, <2>6, JournalWritten
  <2>8. OneCaller'
    <3>1. \A d \in Callers : caller'[d].at \in {"invoking", "awaiting"} =>
            caller'[d] = caller[d] /\ caller[d].key \in Keys
      BY <2>4, <2>6, CallerHasRow
    <3> QED BY <2>1, <2>7, <3>1 DEF OneCaller
  <2>9. ResultsRecorded'
    <3>1. \A d \in Callers : caller'[d].at \in {"closing", "completing"} => caller'[d] = caller[d]
      BY <2>4, <2>6
    <3> QED BY <2>1, <3>1 DEF ResultsRecorded
  <2> QED BY <2>5, <2>7, <2>8, <2>9
<1> QED BY <1>1, <1>2, CompleteTurnCases

\* start_turn and reconcile.
LEMMA EnteringSteps ==
  ASSUME TurnInv, [Next]_vars, NEW c \in Callers, NEW k \in Keys, NEW a \in StampedBy(c),
         StartTurn(c, k, a) \/ ResumeTurn(c, k, a) \/ Reconcile(c, k, a)
  PROVE  TurnInv'
<1> USE DEF TurnInv, SessionTypeOK
<1>1. CASE StartTurn(c, k, a)
  <2>1. PICK x \in Nat : commands' = Append(commands, [key |-> k, expected |-> x])
    BY <1>1, StartAppends
  <2>2. CommandKeys' = CommandKeys \cup {k}
    BY <2>1, CommandAccepted
  <2>3. /\ caller' = Enter(c, "started", k, a) /\ journal' = journal
        /\ calls' = calls /\ record' = record
    BY <1>1 DEF StartTurn, gatewayVars
  <2> QED BY <2>2, <2>3, CallerEnters
<1>2. CASE ResumeTurn(c, k, a) \/ Reconcile(c, k, a)
  <2>1. /\ k \in CommandKeys /\ commands' = commands /\ journal' = journal
        /\ calls' = calls /\ record' = record
    BY <1>2 DEF ResumeTurn, Reconcile, IsNew, storeVars, gatewayVars
  <2>2. k \in CommandKeys' /\ CommandKeys \subseteq CommandKeys'
    BY <2>1 DEF CommandKeys
  <2>3. PICK at \in {"started", "reconciling"} : caller' = Enter(c, at, k, a)
    BY <1>2 DEF ResumeTurn, Reconcile
  <2> QED BY <2>1, <2>2, <2>3, CallerEnters
<1> QED BY <1>1, <1>2

\* The operations that are not about a turn.
LEMMA OtherSteps ==
  ASSUME TurnInv, [Next]_vars, UNCHANGED <<commands, journal, gatewayVars, caller>>
  PROVE  TurnInv'
<1>1. CommandKeys \subseteq CommandKeys' /\ calls' = calls /\ record' = record
  BY DEF CommandKeys, gatewayVars
<1>2. SessionTypeOK'
  BY <1>1, StoreTypeStep DEF TurnInv, SessionTypeOK, GatewayTypeOK
<1> QED BY <1>1, <1>2, QuietTurn

\* The inductive invariant holds at first.
LEMMA InitTurnInv == Init => TurnInv
<1> SUFFICES ASSUME Init PROVE TurnInv
  OBVIOUS
<1>1. session = [status |-> "ABSENT", version |-> 0, sequence |-> 0, interpretation |-> "none", policy |-> "none"]
  BY DEF Init, Absent
<1>2. session \in SessionRow /\ session.sequence = 0 /\ session.status = "ABSENT"
  BY <1>1 DEF SessionRow
<1>3. StoreTypeOK /\ SequenceIsLength
  BY <1>2 DEF Init, StoreTypeOK, SequenceIsLength, Exists
<1>4. GatewayTypeOK
  BY DEF Init, GatewayTypeOK
<1>5. \A c \in Callers : caller[c] = Idle /\ caller[c].at = "idle"
  BY DEF Init, Idle
<1>6. \A k \in Keys : calls[k] = 0 /\ record[k] = NoRecord
  BY DEF Init
<1>7. CallersKnown /\ NotYetPrepared /\ OneCaller /\ OneCall /\ ResultsRecorded
  BY <1>5, <1>6 DEF CallersKnown, NotYetPrepared, OneCaller, OneCall, ResultsRecorded
<1> QED BY <1>3, <1>4, <1>7 DEF TurnInv, SessionTypeOK

\* Every step keeps it.
LEMMA StepTurnInv == TurnInv /\ [Next]_vars => TurnInv'
<1> SUFFICES ASSUME TurnInv, [Next]_vars PROVE TurnInv'
  OBVIOUS
<1>1. CASE UNCHANGED vars
  BY <1>1, OtherSteps DEF vars, storeVars
<1>2. CASE CreateSession
  BY <1>2, OtherSteps DEF CreateSession
<1>3. ASSUME NEW key, CloseSession(key) \/ ClaimShellReconcile(key)
      PROVE  TurnInv'
  BY <1>3, OtherSteps DEF CloseSession, ClaimShellReconcile, storeVars
<1>4. ASSUME NEW key, NEW s, NEW n, NEW kind, AppendRuntimeEvent(key, s, n, kind)
      PROVE  TurnInv'
  BY <1>4, OtherSteps DEF AppendRuntimeEvent
<1>5. ASSUME NEW e, AppendTeamEvent(e)
      PROVE  TurnInv'
  BY <1>5, OtherSteps DEF AppendTeamEvent
<1>6. ASSUME NEW c \in Callers, CallerStep(c) \/ Crash(c)
      PROVE  TurnInv'
  BY <1>6, QuietSteps, RecordPreparedStep, InvokeStep, CommitInvocationStep, CompleteTurnStep
     DEF CallerStep
<1>7. ASSUME NEW c \in Callers, NEW k \in Keys,
             \/ \E a \in AuditsOf[c] : StartTurn(c, k, a)
             \/ \E a \in RetryAudits[c] : ResumeTurn(c, k, a) \/ Reconcile(c, k, a)
      PROVE  TurnInv'
  BY <1>7, EnteringSteps DEF StampedBy
<1> QED BY <1>1, <1>2, <1>3, <1>4, <1>5, <1>6, <1>7 DEF Next

\* One caller at most ever calls the provider for a command, whatever callers
\* are lost, repeated or run side by side, and a turn is completed with what
\* the gateway recorded or as unknown.
THEOREM TurnSafety == Spec => []TurnInv
<1> QED BY InitTurnInv, StepTurnInv, PTL DEF Spec

-----------------------------------------------------------------------------
(* The ledger of answered commands.                                        *)

Opened == [k \in Keys |-> k \in CommandKeys]
Answered == [k \in Keys |-> IF record[k] = NoRecord THEN "none" ELSE OutcomeOf(record[k].result)]

LEMMA LedgerVariables ==
  /\ Opened = [k \in Keys |-> Opened[k]] /\ Opened' = [k \in Keys |-> Opened'[k]]
  /\ Answered = [k \in Keys |-> Answered[k]] /\ Answered' = [k \in Keys |-> Answered'[k]]
  /\ \A k \in Keys : (Opened[k] <=> k \in CommandKeys) /\ (Opened'[k] <=> k \in CommandKeys')
  /\ \A k \in Keys : Opened[k] \in BOOLEAN /\ Opened'[k] \in BOOLEAN
  /\ \A k \in Keys :
       /\ Answered[k] = IF record[k] = NoRecord THEN "none" ELSE OutcomeOf(record[k].result)
       /\ Answered'[k] = IF record'[k] = NoRecord THEN "none" ELSE OutcomeOf(record'[k].result)
<1>1. /\ Opened' = [k \in Keys |-> k \in CommandKeys']
      /\ Answered' = [k \in Keys |-> IF record'[k] = NoRecord THEN "none" ELSE OutcomeOf(record'[k].result)]
  BY DEF Opened, Answered, NoRecord, OutcomeOf
<1>2. /\ Opened = [k \in Keys |-> Opened[k]] /\ Opened' = [k \in Keys |-> Opened'[k]]
      /\ Answered = [k \in Keys |-> Answered[k]] /\ Answered' = [k \in Keys |-> Answered'[k]]
  BY <1>1, Zenon DEF Opened, Answered
<1>3. \A k \in Keys : Opened[k] = (k \in CommandKeys) /\ Opened'[k] = (k \in CommandKeys')
  BY <1>1, Zenon DEF Opened
<1>4. \A k \in Keys :
       /\ Answered[k] = IF record[k] = NoRecord THEN "none" ELSE OutcomeOf(record[k].result)
       /\ Answered'[k] = IF record'[k] = NoRecord THEN "none" ELSE OutcomeOf(record'[k].result)
  BY <1>1, Zenon DEF Answered
<1>5. \A k \in Keys : (k \in CommandKeys) \in BOOLEAN /\ (k \in CommandKeys') \in BOOLEAN
  OBVIOUS
<1> QED BY <1>2, <1>3, <1>4, <1>5, Zenon

\* A function that changes at one key.
LEMMA OneKeyChanges ==
  ASSUME NEW f, NEW g, f = [i \in Keys |-> f[i]], g = [i \in Keys |-> g[i]],
         NEW k \in Keys, \A i \in Keys : i # k => g[i] = f[i]
  PROVE  g = [f EXCEPT ![k] = g[k]]
OBVIOUS

\* Steps the ledger does not see.
LEMMA LedgerStutters ==
  ASSUME commands' = commands, record' = record, calls' = calls, turn' = turn
  PROVE  UNCHANGED Ledger!vars
<1>1. CommandKeys' = CommandKeys
  BY DEF CommandKeys
<1>2. Opened' = Opened /\ Answered' = Answered
  BY <1>1, LedgerVariables DEF Opened, Answered
<1> QED BY <1>2 DEF Ledger!vars, Opened, Answered

\* start_turn of a new key opens the command.
LEMMA StartOpens ==
  ASSUME TurnInv, NEW c \in Callers, NEW k \in Keys, NEW a, StartTurn(c, k, a)
  PROVE  Ledger!Open(k)
<1>1. k \notin CommandKeys /\ turn' = turn /\ calls' = calls /\ record' = record
  BY DEF StartTurn, IsNew, gatewayVars
<1>2. PICK x \in Nat : commands' = Append(commands, [key |-> k, expected |-> x])
  BY StartAppends DEF TurnInv
<1>3. CommandKeys' = CommandKeys \cup {k}
  BY <1>2, CommandAccepted DEF TurnInv, SessionTypeOK
<1>4. ~Opened[k] /\ Opened' = [Opened EXCEPT ![k] = TRUE]
  <2>1. /\ ~Opened[k] /\ Opened'[k] /\ Opened'[k] \in BOOLEAN
        /\ \A i \in Keys : i # k => (Opened'[i] <=> Opened[i]) /\ Opened'[i] \in BOOLEAN /\ Opened[i] \in BOOLEAN
    BY <1>1, <1>3, LedgerVariables, Zenon
  <2>2. Opened'[k] = TRUE /\ \A i \in Keys : i # k => Opened'[i] = Opened[i]
    BY <2>1, Zenon
  <2>3. Opened' = [Opened EXCEPT ![k] = Opened'[k]]
    BY <2>2, LedgerVariables, OneKeyChanges
  <2> QED BY <2>1, <2>2, <2>3, Zenon
<1>5. Answered' = Answered
  BY <1>1, LedgerVariables DEF Answered
<1> QED BY <1>1, <1>4, <1>5 DEF Ledger!Open, Opened, Answered

\* invoke makes the one call.
LEMMA InvokeCalls ==
  ASSUME TurnInv, [Next]_vars, NEW c \in Callers, Invoke(c)
  PROVE  \E k \in Keys : Ledger!Call(k)
<1> DEFINE k == caller[c].key
<1>1. k \in Keys /\ k \in CommandKeys
  BY CallerHasRow DEF Invoke, TurnInv, SessionTypeOK, CallersKnown
<1>2. calls[k] = 0 /\ calls' = [calls EXCEPT ![k] = 1]
  BY InvokeStep
<1>3. commands' = commands /\ turn' = turn /\ record' = record
  BY DEF Invoke, storeVars
<1>4. CommandKeys' = CommandKeys
  BY <1>3 DEF CommandKeys
<1>5. Opened[k] /\ Opened' = Opened /\ Answered' = Answered
  BY <1>1, <1>3, <1>4, LedgerVariables DEF Opened, Answered
<1> HIDE DEF k
<1>6. Ledger!Call(k)
  BY <1>2, <1>3, <1>5 DEF Ledger!Call, Opened, Answered
<1> QED BY <1>1, <1>6

\* What the provider answered is kept once.
LEMMA CommitAnswers ==
  ASSUME TurnInv, [Next]_vars, NEW c \in Callers, NEW reply \in Replies, CommitInvocation(c, reply)
  PROVE  UNCHANGED Ledger!vars \/ \E k \in Keys : \E r \in Results : Ledger!Answer(k, r)
<1> DEFINE k == caller[c].key
           w == [audit |-> caller[c].audit, result |-> reply]
<1>1. k \in Keys
  BY CallerHasRow DEF CommitInvocation, TurnInv, SessionTypeOK
<1>2. commands' = commands /\ turn' = turn /\ calls' = calls
  BY DEF CommitInvocation, storeVars
<1>3. CASE record' = record
  BY <1>2, <1>3, LedgerStutters
<1>4. CASE calls[k] = 1 /\ record[k] = NoRecord /\ record' = [record EXCEPT ![k] = w]
  <2>1. w # NoRecord /\ w.result = reply
    BY OutcomeIsOne DEF NoRecord
  <2>2. CommandKeys' = CommandKeys
    BY <1>2 DEF CommandKeys
  <2>3. Opened' = Opened
    BY <2>2, LedgerVariables DEF Opened
  <2> HIDE DEF w, k
  <2>4. PICK o \in Results : o = OutcomeOf(reply)
    BY OutcomeIsOne
  <2>5. /\ record'[k] = w
        /\ \A i \in Keys : i # k => record'[i] = record[i]
    BY <1>1, <1>4 DEF TurnInv, SessionTypeOK, GatewayTypeOK
  <2>6. Answered[k] = "none" /\ Answered' = [Answered EXCEPT ![k] = o]
    <3>1. Answered[k] = "none" /\ Answered'[k] = OutcomeOf(record'[k].result)
      BY <1>1, <1>4, <2>1, <2>5, LedgerVariables
    <3>2. Answered'[k] = o
      BY <2>1, <2>4, <2>5, <3>1
    <3>3. \A i \in Keys : i # k => Answered'[i] = Answered[i]
      <4> TAKE i \in Keys
      <4> HAVE i # k
      <4>1. record'[i] = record[i]
        BY <2>5
      <4> QED BY <4>1, LedgerVariables, Zenon
    <3>4. Answered' = [Answered EXCEPT ![k] = Answered'[k]]
      BY <1>1, <3>3, LedgerVariables, OneKeyChanges
    <3> QED BY <3>1, <3>2, <3>4
  <2>7. Ledger!Answer(k, o)
    BY <1>2, <1>4, <2>3, <2>6 DEF Ledger!Answer, Opened, Answered
  <2> QED BY <1>1, <2>7
<1> QED BY <1>3, <1>4, CommitInvocationStep

\* complete_turn settles the command with the record's result or as unknown.
LEMMA CompleteSettles ==
  ASSUME TurnInv, [Next]_vars, NEW c \in Callers, CompleteTurn(c)
  PROVE  UNCHANGED Ledger!vars \/ \E k \in Keys : \E o \in Outcomes : Ledger!Settle(k, o)
<1>1. CASE UNCHANGED storeVars /\ UNCHANGED gatewayVars
  BY <1>1, LedgerStutters DEF storeVars, gatewayVars
<1>2. ASSUME NEW k, NEW o, TurnEnds(c, k, o)
      PROVE  \E i \in Keys : \E q \in Outcomes : Ledger!Settle(i, q)
  <2>1. /\ caller[c].at = "completing" /\ k = caller[c].key /\ o = caller[c].result
        /\ turn[k] = "none" /\ turn' = [turn EXCEPT ![k] = o]
        /\ commands' = commands /\ calls' = calls /\ record' = record
    BY <1>2 DEF TurnEnds, Completes, gatewayVars
  <2>2. k \in Keys /\ k \in CommandKeys
    BY <2>1, CallerHasRow DEF TurnInv, SessionTypeOK, CallersKnown
  <2>3. o \in Outcomes /\ o # "none"
    BY <1>2, <2>1, EndsWithOutcome, OutcomeIsOne DEF TurnInv, SessionTypeOK
  <2>4. CommandKeys' = CommandKeys
    BY <2>1 DEF CommandKeys
  <2>5. Opened[k] /\ Opened' = Opened /\ Answered' = Answered
    BY <2>1, <2>2, <2>4, LedgerVariables DEF Opened, Answered
  <2>6. o \in {Answered[k], "UNKNOWN_OUTCOME"}
    BY <2>1, <2>2 DEF Answered, TurnInv, ResultsRecorded
  <2>7. Ledger!Settle(k, o)
    BY <2>1, <2>3, <2>5, <2>6 DEF Ledger!Settle, Opened, Answered
  <2> QED BY <2>2, <2>3, <2>7
<1> QED BY <1>1, <1>2, CompleteTurnCases

\* Every step of the session is a step of the ledger or none.
LEMMA LedgerStep == TurnInv /\ [Next]_vars => [Ledger!Next]_(Ledger!vars)
<1> SUFFICES ASSUME TurnInv, [Next]_vars PROVE Ledger!Next \/ UNCHANGED Ledger!vars
  OBVIOUS
<1>1. CASE UNCHANGED vars
  BY <1>1, LedgerStutters DEF vars, storeVars, gatewayVars
<1>2. CASE CreateSession
  BY <1>2, LedgerStutters DEF CreateSession, gatewayVars
<1>3. ASSUME NEW key, CloseSession(key) \/ ClaimShellReconcile(key)
      PROVE  UNCHANGED Ledger!vars
  BY <1>3, LedgerStutters DEF CloseSession, ClaimShellReconcile, storeVars, gatewayVars
<1>4. ASSUME NEW key, NEW s, NEW n, NEW kind, AppendRuntimeEvent(key, s, n, kind)
      PROVE  UNCHANGED Ledger!vars
  BY <1>4, LedgerStutters DEF AppendRuntimeEvent, gatewayVars
<1>5. ASSUME NEW e, AppendTeamEvent(e)
      PROVE  UNCHANGED Ledger!vars
  BY <1>5, LedgerStutters DEF AppendTeamEvent, gatewayVars
<1>6. ASSUME NEW c \in Callers, NEW k, NEW a, ResumeTurn(c, k, a) \/ Reconcile(c, k, a)
      PROVE  UNCHANGED Ledger!vars
  BY <1>6, LedgerStutters DEF ResumeTurn, Reconcile, storeVars, gatewayVars
<1>7. ASSUME NEW c \in Callers, NEW k \in Keys, NEW a, StartTurn(c, k, a)
      PROVE  Ledger!Next
  BY <1>7, StartOpens DEF Ledger!Next
<1>8. ASSUME NEW c \in Callers,
             \/ ReadJournal(c) \/ CommitRoute(c) \/ LookupClosure(c) \/ ReadTurn(c)
             \/ RereadJournal(c) \/ LookupRecord(c) \/ Crash(c) \/ RecordPrepared(c)
      PROVE  UNCHANGED Ledger!vars
  <2>1. commands' = commands /\ record' = record /\ calls' = calls /\ turn' = turn
    BY <1>8 DEF ReadJournal, CommitRoute, LookupClosure, ReadTurn, RereadJournal, LookupRecord, Crash,
                RecordPrepared, storeVars, gatewayVars
  <2> QED BY <2>1, LedgerStutters
<1>9. ASSUME NEW c \in Callers, Invoke(c)
      PROVE  Ledger!Next
  BY <1>9, InvokeCalls DEF Ledger!Next
<1>10. ASSUME NEW c \in Callers, NEW reply \in Replies, CommitInvocation(c, reply)
       PROVE  Ledger!Next \/ UNCHANGED Ledger!vars
  BY <1>10, CommitAnswers DEF Ledger!Next
<1>11. ASSUME NEW c \in Callers, CompleteTurn(c)
       PROVE  Ledger!Next \/ UNCHANGED Ledger!vars
  BY <1>11, CompleteSettles DEF Ledger!Next, Outcomes
<1> QED BY <1>1, <1>2, <1>3, <1>4, <1>5, <1>6, <1>7, <1>8, <1>9, <1>10, <1>11 DEF Next, CallerStep

\* The session's first state is the ledger's.
LEMMA LedgerInit == Init => Ledger!Init
<1> SUFFICES ASSUME Init PROVE Ledger!Init
  OBVIOUS
<1>1. CommandKeys = {}
  BY DEF Init, CommandKeys
<1>2. Opened = [k \in Keys |-> FALSE]
  <2>1. \A k \in Keys : (k \in {}) = FALSE
    OBVIOUS
  <2>2. Opened = [k \in Keys |-> k \in {}]
    BY <1>1 DEF Opened
  <2> QED BY <2>1, <2>2, Zenon
<1>4. Answered = [k \in Keys |-> "none"]
  BY DEF Init, Answered
<1>3. turn = [k \in Keys |-> "none"] /\ calls = [k \in Keys |-> 0]
  BY DEF Init
<1> QED BY <1>2, <1>3, <1>4 DEF Ledger!Init, Opened, Answered

\* A harness session implements the turn ledger: for any number of messages
\* and callers, crashes and retries, the provider is called at most once for
\* a command, and a command is answered at most once, with the recorded
\* result or as unknown.
THEOREM SessionImplementsLedger == Spec => ImplementsTurnLedger
<1>1. Spec => []TurnInv
  BY TurnSafety
<1> QED BY <1>1, LedgerInit, LedgerStep, PTL DEF Spec, ImplementsTurnLedger, Ledger!Spec

-----------------------------------------------------------------------------
(* The log, the session row and the read model.                            *)

\* Which event an operation appends, and with what.
AppendedFor(e, status) ==
    \/ /\ e.kind = "SESSION_CLOSED" /\ status = "CLOSED" /\ commands' = commands
    \/ /\ e.kind \in RuntimeKinds /\ status = session.status /\ commands' = commands
    \/ /\ e.kind = "TEAM" /\ status = session.status /\ commands' = commands
       /\ e.authority >= session.version + 1 /\ e.authority >= events[Len(events)].authority
    \/ /\ e.kind = "USER_MESSAGE" /\ status = session.status /\ e.key \in Keys
       /\ e.key \notin CommandKeys /\ CommandKeys' = CommandKeys \cup {e.key}

\* What a step does to the session's rows.
LEMMA StoreStep ==
  ASSUME TurnInv, [Next]_vars
  PROVE  \/ UNCHANGED storeVars
         \/ CreateSession
         \/ \E e, status : Appended(e, status) /\ AppendedFor(e, status)
         \/ \E c \in Callers : \E k : Prepares(c, k)
         \/ \E c \in Callers : \E k : \E o \in Outcomes : TurnEnds(c, k, o)
<1> USE DEF TurnInv
<1>1. ASSUME NEW key, CloseSession(key)
      PROVE  \E e, status : Appended(e, status) /\ AppendedFor(e, status)
  <2>1. PICK e : Appended(e, "CLOSED") /\ e.kind = "SESSION_CLOSED" /\ commands' = commands
    BY <1>1, CloseAppends
  <2>2. AppendedFor(e, "CLOSED")
    BY <2>1 DEF AppendedFor
  <2> QED BY <2>1, <2>2
<1>2. ASSUME NEW c \in Callers, NEW k \in Keys, NEW a, StartTurn(c, k, a)
      PROVE  \E e, status : Appended(e, status) /\ AppendedFor(e, status)
  <2>1. PICK e : /\ Appended(e, "ACTIVE") /\ e.kind = "USER_MESSAGE" /\ e.key = k
                 /\ session.status = "ACTIVE"
                 /\ \E x \in Nat : commands' = Append(commands, [key |-> k, expected |-> x])
    BY <1>2, StartAppends
  <2>2. k \notin CommandKeys
    BY <1>2 DEF StartTurn, IsNew
  <2>3. CommandKeys' = CommandKeys \cup {k}
    BY <2>1, CommandAccepted DEF SessionTypeOK
  <2>4. AppendedFor(e, "ACTIVE")
    BY <2>1, <2>2, <2>3 DEF AppendedFor
  <2> QED BY <2>1, <2>4
<1>3. ASSUME NEW key, NEW s \in Streams, NEW n, NEW kind \in RuntimeKinds, AppendRuntimeEvent(key, s, n, kind)
      PROVE  UNCHANGED storeVars \/ \E e, status : Appended(e, status) /\ AppendedFor(e, status)
  <2>1. ASSUME NEW e, Appended(e, session.status), e.kind = kind, commands' = commands
        PROVE  AppendedFor(e, session.status)
    BY <2>1 DEF AppendedFor
  <2> QED BY <1>3, <2>1, RuntimeAppends
<1>4. ASSUME NEW x \in TeamEvents, AppendTeamEvent(x)
      PROVE  \E e, status : Appended(e, status) /\ AppendedFor(e, status)
  <2>1. PICK e : /\ Appended(e, session.status) /\ e.kind = "TEAM" /\ commands' = commands
                 /\ e.authority >= session.version + 1
                 /\ e.authority >= events[Len(events)].authority
    BY <1>4, TeamAppends
  <2>2. AppendedFor(e, session.status)
    BY <2>1 DEF AppendedFor
  <2> QED BY <2>1, <2>2
<1>5. ASSUME NEW c \in Callers, RecordPrepared(c)
      PROVE  UNCHANGED storeVars \/ \E k : Prepares(c, k)
  BY <1>5, RecordPreparedCases
<1>6. ASSUME NEW c \in Callers, CompleteTurn(c)
      PROVE  UNCHANGED storeVars \/ \E k : \E o \in Outcomes : TurnEnds(c, k, o)
  <2>1. caller[c].result \in Outcomes
    BY <1>6, EndsWithOutcome DEF CompleteTurn
  <2> QED BY <1>6, <2>1, CompleteTurnCases
<1> QED BY <1>1, <1>2, <1>3, <1>4, <1>5, <1>6, StoreActions

\* Every operation that writes rows rebuilds the read model.
LEMMA ReadModelStep ==
  ASSUME TurnInv, [Next]_vars, projection = BuildProjection(session, events, commands, journal)
  PROVE  projection' = BuildProjection(session', events', commands', journal')
<1>1. CASE UNCHANGED storeVars
  BY <1>1 DEF storeVars
<1>2. CASE projection' = Refreshed(session', events', commands', journal')
  BY <1>2 DEF Refreshed
<1>3. CreateSession => projection' = Refreshed(session', events', commands', journal')
  BY DEF CreateSession
<1>4. ASSUME NEW e, NEW status, Appended(e, status)
      PROVE  projection' = Refreshed(session', events', commands', journal')
  BY <1>4 DEF Appended
<1>5. ASSUME NEW c \in Callers, NEW k, Prepares(c, k)
      PROVE  projection' = Refreshed(session', events', commands', journal')
  BY <1>5 DEF Prepares
<1>6. ASSUME NEW c \in Callers, NEW k, NEW o, TurnEnds(c, k, o)
      PROVE  projection' = Refreshed(session', events', commands', journal')
  BY <1>6 DEF TurnEnds
<1> QED BY <1>1, <1>2, <1>3, <1>4, <1>5, <1>6, StoreStep

\* The stored read model is at every moment the one rebuild_projection makes
\* of the rows, and the session row knows the length of its log.
THEOREM ReadModelSafety == Spec => []ProjectionIsRebuildable
<1> DEFINE Built == projection = BuildProjection(session, events, commands, journal)
<1>1. Init => Built
  BY DEF Init
<1>2. TurnInv /\ Built /\ [Next]_vars => Built'
  BY ReadModelStep
<1>3. TurnInv /\ Built => ProjectionIsRebuildable
  BY DEF TurnInv, SessionTypeOK, SequenceIsLength, ProjectionIsRebuildable
<1> HIDE DEF Built
<1> QED BY <1>1, <1>2, <1>3, TurnSafety, PTL DEF Spec

-----------------------------------------------------------------------------
(* The versions of the log.                                                *)

\* No event is ahead of the session.
VersionsBounded == \A i \in 1..Len(events) : events[i].version <= session.version

LogInv == VersionsBounded /\ TeamEventsNotBehind

\* A log that grew at its end, with events of the next version.
LEMMA LogInvGrows ==
  ASSUME TurnInv, SessionTypeOK', LogInv, Len(events') >= Len(events),
         session'.version = session.version + 1,
         \A i \in 1..Len(events) : events'[i] = events[i],
         \A i \in 1..Len(events') : i > Len(events) =>
           /\ events'[i].version = session.version + 1
           /\ events'[i].kind = "TEAM" =>
                /\ i = Len(events) + 1 /\ events'[i].authority >= session.version + 1
                /\ events'[i].authority >= events[Len(events)].authority
  PROVE  LogInv'
<1>1. /\ Len(events) \in Nat /\ Len(events') \in Nat
      /\ session.version \in Nat /\ session'.version \in Nat
      /\ \A i \in 1..Len(events) : events[i].version \in Nat
  <2>1. /\ session \in SessionRow /\ session' \in SessionRow
        /\ events \in Seq(EventRow) /\ events' \in Seq(EventRow)
    BY DEF TurnInv, SessionTypeOK, StoreTypeOK, SessionRow, EventRow
  <2>2. \A i \in 1..Len(events) : events[i] \in EventRow
    BY <2>1
  <2>3. \A i \in 1..Len(events) : events[i].version \in Nat
    BY <2>2 DEF EventRow
  <2> QED BY <2>1, <2>3 DEF SessionRow
<1>2. VersionsBounded'
  <2> SUFFICES ASSUME NEW i \in 1..Len(events') PROVE events'[i].version <= session'.version
    BY DEF VersionsBounded
  <2>1. CASE i <= Len(events)
    <3>1. events'[i] = events[i] /\ events[i].version <= session.version /\ events[i].version \in Nat
      BY <1>1, <2>1 DEF LogInv, VersionsBounded
    <3> QED BY <1>1, <3>1
  <2>2. CASE i > Len(events)
    BY <1>1, <2>2
  <2> QED BY <1>1, <2>1, <2>2
<1>3. TeamEventsNotBehind'
  <2> SUFFICES ASSUME NEW i \in 2..Len(events')
               PROVE  /\ events'[i - 1].version <= events'[i].version
                      /\ events'[i].version <= session'.version
                      /\ events'[i].kind = "TEAM" =>
                           /\ events'[i].authority >= events'[i].version
                           /\ events'[i].authority >= events'[i - 1].authority
    BY DEF TeamEventsNotBehind
  <2>1. i \in 1..Len(events') /\ i - 1 \in 1..Len(events')
    BY <1>1
  <2>2. CASE i <= Len(events)
    <3>1. i \in 2..Len(events) /\ events'[i] = events[i] /\ events'[i - 1] = events[i - 1]
      BY <1>1, <2>2
    <3> QED BY <1>2, <2>1, <3>1 DEF LogInv, TeamEventsNotBehind, VersionsBounded
  <2>3. CASE i > Len(events)
    <3>1. events'[i].version = session.version + 1
      BY <2>1, <2>3
    <3>2. events'[i - 1].version <= session'.version
      BY <1>2, <2>1 DEF VersionsBounded
    <3>3. CASE events'[i].kind = "TEAM"
      <4>1. /\ i - 1 = Len(events) /\ events'[i].authority >= session.version + 1
            /\ events'[i].authority >= events[Len(events)].authority
        BY <1>1, <2>1, <2>3, <3>3
      <4>2. events'[i - 1] = events[Len(events)]
        BY <1>1, <2>1, <4>1
      <4> QED BY <1>1, <3>1, <3>2, <4>1, <4>2
    <3> QED BY <1>1, <3>1, <3>2, <3>3
  <2> QED BY <1>1, <2>2, <2>3
<1> QED BY <1>2, <1>3 DEF LogInv

LEMMA LogInvStep == TurnInv /\ TurnInv' /\ LogInv /\ [Next]_vars => LogInv'
<1> SUFFICES ASSUME TurnInv, TurnInv', LogInv, [Next]_vars PROVE LogInv'
  OBVIOUS
<1> USE DEF TurnInv, SessionTypeOK
<1>1. CASE UNCHANGED storeVars
  BY <1>1 DEF storeVars, LogInv, VersionsBounded, TeamEventsNotBehind
<1>2. CASE CreateSession
  <2>1. /\ session'.version = 1 /\ Len(events') = 1 /\ events'[1].version = 1
    BY <1>2, CreateSessionRows
  <2> QED BY <2>1 DEF LogInv, VersionsBounded, TeamEventsNotBehind
<1>3. ASSUME NEW e, NEW status, Appended(e, status), AppendedFor(e, status)
      PROVE  LogInv'
  <2>1. /\ e \in EventRow /\ events' = Append(events, e) /\ session' = Advanced(status)
        /\ status \in {"ACTIVE", "BLOCKED", "CLOSED"} /\ e.version = session.version + 1
    BY <1>3 DEF Appended
  <2>2. /\ session'.version = session.version + 1
        /\ Len(events') = Len(events) + 1 /\ Len(events) \in Nat
        /\ events'[Len(events')] = e
        /\ \A i \in 1..Len(events) : events'[i] = events[i]
    BY <2>1, OneEventMore
  <2>3. e.kind = "TEAM" => /\ e.authority >= session.version + 1
                           /\ e.authority >= events[Len(events)].authority
    BY <1>3 DEF AppendedFor, RuntimeKinds
  <2>4. \A i \in 1..Len(events') : i > Len(events) => i = Len(events) + 1 /\ events'[i] = e
    BY <2>2
  <2> QED BY <2>1, <2>2, <2>3, <2>4, LogInvGrows
<1>4. ASSUME NEW c \in Callers, NEW k, Prepares(c, k)
      PROVE  LogInv'
  <2>1. session'.version = session.version + 1 /\ events' = events
    BY <1>4, PreparesRows DEF Prepares
  <2>2. Len(events) \in Nat
    BY DEF StoreTypeOK
  <2> QED BY <2>1, <2>2, LogInvGrows
<1>5. ASSUME NEW c \in Callers, NEW k, NEW o \in Outcomes, TurnEnds(c, k, o)
      PROVE  LogInv'
  <2>1. /\ k \in Keys /\ session'.version = session.version + 1
        /\ Len(events') = Len(events) + Chunks + 3 /\ Len(events) \in Nat
        /\ \A i \in 1..Len(events) : events'[i] = events[i]
        /\ \A i \in 1..Chunks + 3 : events'[Len(events) + i] = TurnEvents(k, o, session.version + 1)[i]
    BY <1>5, TurnEndsRows
  <2>2. Chunks \in Nat /\ session.version + 1 \in Nat
    BY HarnessAssumption, AdvancedVersion
  <2>3. PICK v \in Nat : v = session.version + 1
    BY <2>2
  <2>4. \A i \in 1..Chunks + 3 :
          /\ TurnEvents(k, o, v)[i].version = v
          /\ TurnEvents(k, o, v)[i].kind # "TEAM"
    <3>1. GatewayEvent(o) # "TEAM" /\ RequirementEvent(o) # "TEAM"
      BY DEF GatewayEvent, RequirementEvent
    <3>2. ASSUME NEW i \in 1..Chunks + 3
          PROVE  /\ TurnEvents(k, o, v)[i].version = v
                 /\ TurnEvents(k, o, v)[i].kind \in
                      {"ASSISTANT_CHUNK", "ASSISTANT_MESSAGE", GatewayEvent(o), RequirementEvent(o)}
      <4>1. /\ TurnEvents(k, o, v)[i].version = v
            /\ TurnEvents(k, o, v)[i].kind =
                 IF i <= Chunks THEN "ASSISTANT_CHUNK"
                 ELSE IF i = Chunks + 1 THEN "ASSISTANT_MESSAGE"
                 ELSE IF i = Chunks + 2 THEN GatewayEvent(o) ELSE RequirementEvent(o)
        BY <2>1, TurnEventsTyped
      <4> QED BY <4>1, Zenon
    <3> QED BY <3>1, <3>2
  <2>5. ASSUME NEW i \in 1..Len(events'), i > Len(events)
        PROVE  events'[i].version = v /\ events'[i].kind # "TEAM"
    <3>1. PICK j \in 1..Chunks + 3 : i = Len(events) + j
      <4>1. i - Len(events) \in 1..Chunks + 3 /\ i = Len(events) + (i - Len(events))
        BY <2>1, <2>2, <2>5
      <4> QED BY <4>1
    <3>2. events'[i] = TurnEvents(k, o, v)[j]
      BY <2>1, <2>3, <3>1
    <3> QED BY <2>4, <3>2
  <2>6. Len(events') >= Len(events)
    BY <2>1, <2>2
  <2> QED BY <2>1, <2>3, <2>5, <2>6, LogInvGrows
<1> QED BY <1>1, <1>2, <1>3, <1>4, <1>5, StoreStep

\* The session versions of the log never go back, and a team event is behind
\* neither the event before it nor the session, however far ahead the team
\* was at an earlier one.
THEOREM TeamLogSafety == Spec => []TeamEventsNotBehind
<1>1. Init => LogInv
  BY DEF Init, LogInv, VersionsBounded, TeamEventsNotBehind
<1>2. LogInv => TeamEventsNotBehind
  BY DEF LogInv
<1> QED BY <1>1, <1>2, LogInvStep, TurnSafety, PTL DEF Spec

-----------------------------------------------------------------------------
(* The policy in force.                                                    *)

LEMMA PolicyStep == TurnInv /\ PolicyFromReadyTurn /\ [Next]_vars => PolicyFromReadyTurn'
<1> SUFFICES ASSUME TurnInv, PolicyFromReadyTurn, [Next]_vars PROVE PolicyFromReadyTurn'
  OBVIOUS
<1> USE DEF TurnInv, SessionTypeOK
<1>1. CASE UNCHANGED storeVars
  BY <1>1 DEF storeVars, PolicyFromReadyTurn
<1>2. CASE CreateSession
  BY <1>2, CreateSessionRows DEF PolicyFromReadyTurn
<1>3. ASSUME NEW e, NEW status, Appended(e, status), AppendedFor(e, status)
      PROVE  PolicyFromReadyTurn'
  <2>1. /\ e \in EventRow /\ events' = Append(events, e) /\ session' = Advanced(status)
        /\ status \in {"ACTIVE", "BLOCKED", "CLOSED"} /\ turn' = turn
    BY <1>3 DEF Appended
  <2>2. /\ session'.status = status
        /\ session'.interpretation = session.interpretation /\ session'.policy = session.policy
    BY <2>1, OneEventMore
  <2>3. status \in {"CLOSED", session.status}
    BY <1>3 DEF AppendedFor
  <2> QED BY <2>1, <2>2, <2>3 DEF PolicyFromReadyTurn
<1>4. ASSUME NEW c \in Callers, NEW k, Prepares(c, k)
      PROVE  PolicyFromReadyTurn'
  <2>1. turn' = turn
    BY <1>4 DEF Prepares
  <2> QED BY <1>4, <2>1, PreparesRows DEF PolicyFromReadyTurn
<1>5. ASSUME NEW c \in Callers, NEW k, NEW o \in Outcomes, TurnEnds(c, k, o)
      PROVE  PolicyFromReadyTurn'
  <2>1. /\ k \in Keys /\ session'.status = StatusAfter(o)
        /\ session'.interpretation = k /\ session'.policy = PolicyAfter(k, o)
    BY <1>5, TurnEndsRows
  <2>2. turn[k] = "none" /\ turn' = [turn EXCEPT ![k] = o]
    BY <1>5 DEF TurnEnds, Completes
  <2>3. turn'[k] = o /\ \A i \in Keys : i # k => turn'[i] = turn[i]
    BY <2>1, <2>2 DEF StoreTypeOK
  <2>4. session.policy \in Keys \cup {"none"}
    BY DEF StoreTypeOK, SessionRow
  <2>5. session'.policy # "none" => turn'[session'.policy] = "READY"
    <3>1. CASE o = "READY"
      BY <2>1, <2>3, <3>1 DEF PolicyAfter
    <3>2. CASE o # "READY" /\ session.policy # "none"
      <4>1. session'.policy = session.policy /\ turn[session.policy] = "READY"
        BY <2>1, <3>2 DEF PolicyAfter, PolicyFromReadyTurn
      <4>2. session.policy \in Keys /\ session.policy # k
        BY <2>2, <2>4, <3>2, <4>1
      <4> QED BY <2>3, <4>1, <4>2
    <3>3. CASE o # "READY" /\ session.policy = "none"
      BY <2>1, <3>3 DEF PolicyAfter
    <3> QED BY <3>1, <3>2, <3>3
  <2>6. (session'.status = "ACTIVE") =
          (turn'[session'.interpretation] \in {"READY", "CLARIFICATION_REQUIRED"})
    BY <2>1, <2>3 DEF StatusAfter
  <2> QED BY <2>5, <2>6 DEF PolicyFromReadyTurn
<1> QED BY <1>1, <1>2, <1>3, <1>4, <1>5, StoreStep

\* The requirement policy in force always comes from a READY turn, and a
\* session is usable exactly when its last turn left it so.
THEOREM PolicySafety == Spec => []PolicyFromReadyTurn
<1>1. Init => PolicyFromReadyTurn
  BY DEF Init, Absent, PolicyFromReadyTurn
<1> QED BY <1>1, PolicyStep, TurnSafety, PTL DEF Spec

-----------------------------------------------------------------------------
(* One message in, one answer out.                                         *)

\* Where the log has the events of a kind about a command.
Where(log, k, kind) == {i \in 1..Len(log) : log[i].key = k /\ log[i].kind = kind}

\* Before the session there is nothing; a command has the user message it
\* was accepted with, and a turn its chunks and its final answer.
MessageInv ==
    /\ ~Exists => CommandKeys = {} /\ \A k \in Keys : turn[k] = "none"
    /\ \A k \in Keys :
        /\ k \notin CommandKeys => Where(events, k, "USER_MESSAGE") = {}
        /\ k \in CommandKeys => \E i \in Nat : Where(events, k, "USER_MESSAGE") = {i}
        /\ turn[k] = "none" => /\ Where(events, k, "ASSISTANT_MESSAGE") = {}
                               /\ Where(events, k, "ASSISTANT_CHUNK") = {}
        /\ turn[k] # "none" =>
             /\ \E i \in Nat : Where(events, k, "ASSISTANT_MESSAGE") = {i}
             /\ \E i \in Nat : Where(events, k, "ASSISTANT_CHUNK") = (i + 1)..(i + Chunks)

LEMMA MessagesCounted ==
  ASSUME MessageInv
  PROVE  MessagesOnce
<1>1. Chunks \in Nat
  BY HarnessAssumption
<1>2. Cardinality({}) = 0
  BY FS_EmptySet
<1>3. \A i : Cardinality({i}) = 1
  BY FS_Singleton
<1>4. \A i \in Nat : Cardinality((i + 1)..(i + Chunks)) = Chunks
  <2> TAKE i \in Nat
  <2>1. i + 1 \in Int /\ i + Chunks \in Int
    BY <1>1
  <2>2. Cardinality((i + 1)..(i + Chunks)) = IF i + 1 > i + Chunks THEN 0 ELSE (i + Chunks) - (i + 1) + 1
    BY <2>1, FS_Interval
  <2> QED BY <1>1, <2>2
<1> SUFFICES ASSUME NEW k \in Keys
             PROVE  /\ Cardinality(Where(events, k, "USER_MESSAGE")) = IF k \in CommandKeys THEN 1 ELSE 0
                    /\ Cardinality(Where(events, k, "ASSISTANT_MESSAGE")) = IF turn[k] = "none" THEN 0 ELSE 1
                    /\ Cardinality(Where(events, k, "ASSISTANT_CHUNK")) = IF turn[k] = "none" THEN 0 ELSE Chunks
  BY DEF MessagesOnce, Where
<1>5. Cardinality(Where(events, k, "USER_MESSAGE")) = IF k \in CommandKeys THEN 1 ELSE 0
  BY <1>2, <1>3 DEF MessageInv
<1>6. CASE turn[k] = "none"
  BY <1>2, <1>5, <1>6 DEF MessageInv
<1>7. CASE turn[k] # "none"
  <2>1. PICK i \in Nat, j \in Nat : /\ Where(events, k, "ASSISTANT_MESSAGE") = {i}
                                    /\ Where(events, k, "ASSISTANT_CHUNK") = (j + 1)..(j + Chunks)
    BY <1>7 DEF MessageInv
  <2> QED BY <1>3, <1>4, <1>5, <1>7, <2>1
<1> QED BY <1>6, <1>7

\* One event more.
LEMMA WhereAppended ==
  ASSUME NEW s, NEW n \in Nat, Len(s) = n, NEW log, Len(log) = n + 1, NEW e, log[n + 1] = e,
         \A i \in 1..n : log[i] = s[i], NEW k, NEW kind
  PROVE  Where(log, k, kind) =
           IF e.key = k /\ e.kind = kind THEN Where(s, k, kind) \cup {n + 1} ELSE Where(s, k, kind)
<1>1. 1..(n + 1) = 1..n \cup {n + 1} /\ n + 1 \notin 1..n
  OBVIOUS
<1>2. CASE e.key = k /\ e.kind = kind
  BY <1>1, <1>2 DEF Where
<1>3. CASE ~(e.key = k /\ e.kind = kind)
  BY <1>1, <1>3 DEF Where
<1> QED BY <1>2, <1>3

\* A turn more.
TurnLogged(s, log, n, k, o, v) ==
    /\ Len(s) = n /\ Len(log) = n + Chunks + 3
    /\ \A i \in 1..n : log[i] = s[i]
    /\ \A i \in 1..Chunks + 3 : log[n + i] = TurnEvents(k, o, v)[i]

LEMMA WhereTurnEnded ==
  ASSUME NEW n \in Nat, NEW s, NEW log, NEW k \in Keys, NEW o \in Outcomes, NEW v \in Nat,
         TurnLogged(s, log, n, k, o, v)
  PROVE  /\ \A i \in Keys : i # k => \A kind : Where(log, i, kind) = Where(s, i, kind)
         /\ Where(log, k, "USER_MESSAGE") = Where(s, k, "USER_MESSAGE")
         /\ Where(log, k, "ASSISTANT_MESSAGE") = Where(s, k, "ASSISTANT_MESSAGE") \cup {n + Chunks + 1}
         /\ Where(log, k, "ASSISTANT_CHUNK") = Where(s, k, "ASSISTANT_CHUNK") \cup ((n + 1)..(n + Chunks))
<1>1. Chunks \in Nat
  BY HarnessAssumption
<1>2. /\ GatewayEvent(o) \notin {"USER_MESSAGE", "ASSISTANT_MESSAGE", "ASSISTANT_CHUNK"}
      /\ RequirementEvent(o) \notin {"USER_MESSAGE", "ASSISTANT_MESSAGE", "ASSISTANT_CHUNK"}
  BY DEF GatewayEvent, RequirementEvent
<1>3. ASSUME NEW i \in 1..Chunks + 3
      PROVE  /\ log[n + i].key = k
             /\ log[n + i].kind = "ASSISTANT_CHUNK" <=> i <= Chunks
             /\ log[n + i].kind = "ASSISTANT_MESSAGE" <=> i = Chunks + 1
             /\ log[n + i].kind # "USER_MESSAGE"
  <2>1. /\ log[n + i].key = k
        /\ log[n + i].kind = IF i <= Chunks THEN "ASSISTANT_CHUNK"
                             ELSE IF i = Chunks + 1 THEN "ASSISTANT_MESSAGE"
                             ELSE IF i = Chunks + 2 THEN GatewayEvent(o) ELSE RequirementEvent(o)
    <3>1. log[n + i] = TurnEvents(k, o, v)[i]
      BY DEF TurnLogged
    <3>2. /\ TurnEvents(k, o, v)[i].key = k
          /\ TurnEvents(k, o, v)[i].kind =
               IF i <= Chunks THEN "ASSISTANT_CHUNK"
               ELSE IF i = Chunks + 1 THEN "ASSISTANT_MESSAGE"
               ELSE IF i = Chunks + 2 THEN GatewayEvent(o) ELSE RequirementEvent(o)
      BY TurnEventsTyped
    <3> QED BY <3>1, <3>2, Zenon
  <2>2. CASE i <= Chunks
    BY <1>1, <2>1, <2>2
  <2>3. CASE i = Chunks + 1
    BY <1>1, <2>1, <2>3
  <2>4. CASE ~(i <= Chunks) /\ i # Chunks + 1
    <3>1. log[n + i].kind \in {GatewayEvent(o), RequirementEvent(o)}
      BY <2>1, <2>4, Zenon
    <3> QED BY <1>2, <2>1, <2>4, <3>1
  <2> QED BY <2>2, <2>3, <2>4
<1>4. ASSUME NEW j \in 1..(n + Chunks + 3), j > n
      PROVE  /\ log[j].key = k
             /\ log[j].kind = "ASSISTANT_CHUNK" <=> j <= n + Chunks
             /\ log[j].kind = "ASSISTANT_MESSAGE" <=> j = n + Chunks + 1
             /\ log[j].kind # "USER_MESSAGE"
  <2>1. PICK i \in 1..Chunks + 3 : j = n + i
    <3>1. j - n \in 1..Chunks + 3 /\ j = n + (j - n)
      BY <1>1, <1>4
    <3> QED BY <3>1
  <2>2. /\ log[n + i].key = k
        /\ log[n + i].kind = "ASSISTANT_CHUNK" <=> i <= Chunks
        /\ log[n + i].kind = "ASSISTANT_MESSAGE" <=> i = Chunks + 1
        /\ log[n + i].kind # "USER_MESSAGE"
    BY <1>3
  <2>3. (i <= Chunks <=> j <= n + Chunks) /\ (i = Chunks + 1 <=> j = n + Chunks + 1)
    BY <1>1, <2>1
  <2> QED BY <2>1, <2>2, <2>3, Zenon
<1>5. ASSUME NEW i, NEW kind, NEW j
      PROVE  j \in Where(log, i, kind) <=>
               \/ j \in Where(s, i, kind)
               \/ j \in 1..(n + Chunks + 3) /\ j > n /\ log[j].key = i /\ log[j].kind = kind
  <2>1. CASE j \in 1..n
    <3>1. log[j] = s[j] /\ j \in 1..(n + Chunks + 3) /\ ~(j > n)
      BY <1>1, <2>1 DEF TurnLogged
    <3> QED BY <2>1, <3>1 DEF Where, TurnLogged
  <2>2. CASE j \notin 1..n
    <3>1. j \in 1..(n + Chunks + 3) => j > n
      BY <1>1, <2>2
    <3> QED BY <2>2, <3>1 DEF Where, TurnLogged
  <2> QED BY <2>1, <2>2
<1>6. ASSUME NEW i \in Keys, i # k, NEW kind
      PROVE  Where(log, i, kind) = Where(s, i, kind)
  <2>1. \A j : j \in Where(log, i, kind) <=> j \in Where(s, i, kind)
    BY <1>4, <1>5, <1>6
  <2> QED BY <2>1
<1>7. Where(log, k, "USER_MESSAGE") = Where(s, k, "USER_MESSAGE")
  <2>1. \A j : j \in Where(log, k, "USER_MESSAGE") <=> j \in Where(s, k, "USER_MESSAGE")
    BY <1>4, <1>5
  <2> QED BY <2>1
<1>8. Where(log, k, "ASSISTANT_MESSAGE") = Where(s, k, "ASSISTANT_MESSAGE") \cup {n + Chunks + 1}
  <2>1. n + Chunks + 1 \in 1..(n + Chunks + 3) /\ n + Chunks + 1 > n
    BY <1>1
  <2> QED BY <1>4, <1>5, <2>1
<1>9. Where(log, k, "ASSISTANT_CHUNK") = Where(s, k, "ASSISTANT_CHUNK") \cup ((n + 1)..(n + Chunks))
  <2>1. \A j : j \in (n + 1)..(n + Chunks) <=> j \in 1..(n + Chunks + 3) /\ j > n /\ j <= n + Chunks
    BY <1>1
  <2> QED BY <1>4, <1>5, <2>1
<1> QED BY <1>6, <1>7, <1>8, <1>9

LEMMA MessageStep == TurnInv /\ MessageInv /\ [Next]_vars => MessageInv'
<1> SUFFICES ASSUME TurnInv, MessageInv, [Next]_vars PROVE MessageInv'
  OBVIOUS
<1> USE DEF TurnInv, SessionTypeOK
<1>1. CASE UNCHANGED storeVars
  <2>1. CommandKeys' = CommandKeys /\ turn' = turn /\ events' = events /\ (Exists' <=> Exists)
    BY <1>1 DEF storeVars, CommandKeys, Exists
  <2> QED BY <2>1 DEF MessageInv
<1>2. CASE CreateSession
  <2>1. /\ session'.status = "ACTIVE" /\ Len(events') = 1 /\ events'[1].kind = "SESSION_OPENED"
        /\ commands' = commands /\ turn' = turn /\ ~Exists
    BY <1>2, CreateSessionRows DEF CreateSession
  <2>2. CommandKeys' = {} /\ Exists' /\ \A k \in Keys : turn'[k] = "none"
    <3>1. CommandKeys' = CommandKeys
      BY <2>1 DEF CommandKeys
    <3> QED BY <2>1, <3>1 DEF MessageInv, Exists
  <2>3. \A k : \A kind \in {"USER_MESSAGE", "ASSISTANT_MESSAGE", "ASSISTANT_CHUNK"} :
          Where(events', k, kind) = {}
    BY <2>1 DEF Where
  <2> QED BY <2>2, <2>3 DEF MessageInv
<1>3. ASSUME NEW e, NEW status, Appended(e, status), AppendedFor(e, status)
      PROVE  MessageInv'
  <2>1. /\ e \in EventRow /\ events' = Append(events, e) /\ session' = Advanced(status)
        /\ status \in {"ACTIVE", "BLOCKED", "CLOSED"} /\ turn' = turn
    BY <1>3 DEF Appended
  <2>2. /\ session'.status = status
        /\ Len(events') = Len(events) + 1 /\ Len(events) \in Nat
        /\ events'[Len(events')] = e
        /\ \A i \in 1..Len(events) : events'[i] = events[i]
    BY <2>1, OneEventMore
  <2>3. Exists'
    BY <2>1, <2>2 DEF Exists
  <2>4. PICK n \in Nat : n = Len(events)
    BY <2>2
  <2>5. \A k, kind : Where(events', k, kind) =
          IF e.key = k /\ e.kind = kind THEN Where(events, k, kind) \cup {n + 1} ELSE Where(events, k, kind)
    BY <2>2, <2>4, WhereAppended
  <2>6. e.kind \notin {"ASSISTANT_MESSAGE", "ASSISTANT_CHUNK"}
    BY <1>3 DEF AppendedFor, RuntimeKinds
  <2>7. \A k : /\ Where(events', k, "ASSISTANT_MESSAGE") = Where(events, k, "ASSISTANT_MESSAGE")
               /\ Where(events', k, "ASSISTANT_CHUNK") = Where(events, k, "ASSISTANT_CHUNK")
    BY <2>5, <2>6
  <2>8. \A k \in Keys :
          /\ k \notin CommandKeys' => Where(events', k, "USER_MESSAGE") = {}
          /\ k \in CommandKeys' => \E i \in Nat : Where(events', k, "USER_MESSAGE") = {i}
    <3>1. CASE e.kind = "USER_MESSAGE"
      <4>1. e.key \in Keys /\ e.key \notin CommandKeys /\ CommandKeys' = CommandKeys \cup {e.key}
        BY <1>3, <3>1 DEF AppendedFor, RuntimeKinds
      <4>2. Where(events', e.key, "USER_MESSAGE") = {n + 1} /\ n + 1 \in Nat
        BY <2>5, <3>1, <4>1 DEF MessageInv
      <4>3. \A k \in Keys : k # e.key => Where(events', k, "USER_MESSAGE") = Where(events, k, "USER_MESSAGE")
        BY <2>5
      <4> QED BY <4>1, <4>2, <4>3 DEF MessageInv
    <3>2. CASE e.kind # "USER_MESSAGE"
      <4>1. CommandKeys' = CommandKeys
        BY <1>3, <3>2 DEF AppendedFor, CommandKeys
      <4>2. \A k : Where(events', k, "USER_MESSAGE") = Where(events, k, "USER_MESSAGE")
        BY <2>5, <3>2
      <4> QED BY <4>1, <4>2 DEF MessageInv
    <3> QED BY <3>1, <3>2
  <2> QED BY <2>1, <2>3, <2>7, <2>8 DEF MessageInv
<1>4. ASSUME NEW c \in Callers, NEW k, Prepares(c, k)
      PROVE  MessageInv'
  <2>1. events' = events /\ turn' = turn /\ commands' = commands /\ session'.status = session.status
    BY <1>4, PreparesRows DEF Prepares
  <2>2. CommandKeys' = CommandKeys /\ (Exists' <=> Exists)
    BY <2>1 DEF CommandKeys, Exists
  <2> QED BY <2>1, <2>2 DEF MessageInv
<1>5. ASSUME NEW c \in Callers, NEW k, NEW o \in Outcomes, TurnEnds(c, k, o)
      PROVE  MessageInv'
  <2>1. /\ k \in Keys /\ session'.status = StatusAfter(o)
        /\ Len(events') = Len(events) + Chunks + 3 /\ Len(events) \in Nat
        /\ \A i \in 1..Len(events) : events'[i] = events[i]
        /\ \A i \in 1..Chunks + 3 : events'[Len(events) + i] = TurnEvents(k, o, session.version + 1)[i]
    BY <1>5, TurnEndsRows
  <2>2. turn[k] = "none" /\ turn' = [turn EXCEPT ![k] = o] /\ commands' = commands
    BY <1>5 DEF TurnEnds, Completes
  <2>3. /\ turn'[k] = o /\ o # "none" /\ CommandKeys' = CommandKeys
        /\ \A i \in Keys : i # k => turn'[i] = turn[i]
    BY <2>1, <2>2, OutcomeIsOne DEF StoreTypeOK, CommandKeys
  <2>4. Exists'
    BY <2>1 DEF Exists, StatusAfter
  <2>5. PICK n \in Nat, v \in Nat : n = Len(events) /\ v = session.version + 1
    BY <2>1, AdvancedVersion
  <2>6. Chunks \in Nat /\ n + Chunks + 1 \in Nat
    BY HarnessAssumption
  <2>7. /\ \A i \in Keys : i # k => \A kind : Where(events', i, kind) = Where(events, i, kind)
        /\ Where(events', k, "USER_MESSAGE") = Where(events, k, "USER_MESSAGE")
        /\ Where(events', k, "ASSISTANT_MESSAGE") = Where(events, k, "ASSISTANT_MESSAGE") \cup {n + Chunks + 1}
        /\ Where(events', k, "ASSISTANT_CHUNK") = Where(events, k, "ASSISTANT_CHUNK") \cup ((n + 1)..(n + Chunks))
    <3>1. /\ Len(events) = n /\ Len(events') = n + Chunks + 3
          /\ \A i \in 1..n : events'[i] = events[i]
          /\ \A i \in 1..Chunks + 3 : events'[n + i] = TurnEvents(k, o, v)[i]
      BY <2>1, <2>5
    <3>2. TurnLogged(events, events', n, k, o, v)
      BY <3>1 DEF TurnLogged
    <3>3. k \in Keys
      BY <2>1
    <3> QED BY <3>2, <3>3, WhereTurnEnded
  <2>8. /\ Where(events', k, "ASSISTANT_MESSAGE") = {n + Chunks + 1}
        /\ Where(events', k, "ASSISTANT_CHUNK") = (n + 1)..(n + Chunks)
    <3>1. Where(events, k, "ASSISTANT_MESSAGE") = {} /\ Where(events, k, "ASSISTANT_CHUNK") = {}
      BY <2>1, <2>2 DEF MessageInv
    <3> QED BY <2>7, <3>1, Zenon
  <2>9. ASSUME NEW i \in Keys
        PROVE  /\ i \notin CommandKeys' => Where(events', i, "USER_MESSAGE") = {}
               /\ i \in CommandKeys' => \E j \in Nat : Where(events', i, "USER_MESSAGE") = {j}
               /\ turn'[i] = "none" => /\ Where(events', i, "ASSISTANT_MESSAGE") = {}
                                       /\ Where(events', i, "ASSISTANT_CHUNK") = {}
               /\ turn'[i] # "none" =>
                    /\ \E j \in Nat : Where(events', i, "ASSISTANT_MESSAGE") = {j}
                    /\ \E j \in Nat : Where(events', i, "ASSISTANT_CHUNK") = (j + 1)..(j + Chunks)
    <3>1. CASE i = k
      <4>1. /\ i \notin CommandKeys' => Where(events', i, "USER_MESSAGE") = {}
            /\ i \in CommandKeys' => \E j \in Nat : Where(events', i, "USER_MESSAGE") = {j}
        BY <2>3, <2>7, <3>1 DEF MessageInv
      <4>2. /\ \E j \in Nat : Where(events', i, "ASSISTANT_MESSAGE") = {j}
            /\ \E j \in Nat : Where(events', i, "ASSISTANT_CHUNK") = (j + 1)..(j + Chunks)
        BY <2>5, <2>6, <2>8, <3>1
      <4> QED BY <2>3, <3>1, <4>1, <4>2
    <3>2. CASE i # k
      <4>1. /\ Where(events', i, "USER_MESSAGE") = Where(events, i, "USER_MESSAGE")
            /\ Where(events', i, "ASSISTANT_MESSAGE") = Where(events, i, "ASSISTANT_MESSAGE")
            /\ Where(events', i, "ASSISTANT_CHUNK") = Where(events, i, "ASSISTANT_CHUNK")
            /\ turn'[i] = turn[i]
        BY <2>3, <2>7, <3>2
      <4> QED BY <2>3, <4>1 DEF MessageInv
    <3> QED BY <3>1, <3>2
  <2> QED BY <2>4, <2>9 DEF MessageInv
<1> QED BY <1>1, <1>2, <1>3, <1>4, <1>5, StoreStep

LEMMA InitMessageInv == Init => MessageInv
<1> SUFFICES ASSUME Init PROVE MessageInv
  OBVIOUS
<1>1. CommandKeys = {} /\ \A k \in Keys : turn[k] = "none"
  BY DEF Init, CommandKeys
<1>2. \A k, kind : Where(events, k, kind) = {}
  BY DEF Init, Where
<1> QED BY <1>1, <1>2 DEF MessageInv

\* However often a message is repeated, whoever completes it and whichever
\* callers are lost, its command has one user message, and one final answer
\* with its chunks exactly when it has a turn.
THEOREM MessageSafety == Spec => []MessagesOnce
<1>1. MessageInv => MessagesOnce
  BY MessagesCounted
<1> QED BY <1>1, InitMessageInv, MessageStep, TurnSafety, PTL DEF Spec

-----------------------------------------------------------------------------
(* The runtime streams and their events in the log.                        *)

\* The log is empty before the session, and the streams are of runtime events.
StreamInv ==
    /\ ~Exists => Len(events) = 0
    /\ runtime \in [Streams -> Seq(RuntimeKinds)]
    /\ RuntimeProjectedOnce

\* Only a delivery writes the streams.
LEMMA StreamActions ==
  ASSUME [Next]_vars,
         ~\E key \in DeliveryKeys, s \in Streams, n \in 1..StreamLimit, kind \in RuntimeKinds :
             AppendRuntimeEvent(key, s, n, kind)
  PROVE  UNCHANGED streamVars
<1>1. ASSUME NEW c \in Callers, CallerStep(c)
      PROVE  UNCHANGED streamVars
  BY <1>1 DEF CallerStep, ReadJournal, CommitRoute, RecordPrepared, Invoke, CommitInvocation,
              LookupClosure, ReadTurn, RereadJournal, LookupRecord, CompleteTurn
<1>2. ASSUME NEW c \in Callers, Crash(c)
      PROVE  UNCHANGED streamVars
  BY <1>2 DEF Crash
<1>3. ASSUME NEW c \in Callers, NEW k \in Keys, NEW a,
             StartTurn(c, k, a) \/ ResumeTurn(c, k, a) \/ Reconcile(c, k, a)
      PROVE  UNCHANGED streamVars
  BY <1>3 DEF StartTurn, ResumeTurn, Reconcile
<1>4. ASSUME NEW key, CloseSession(key) \/ ClaimShellReconcile(key) \/ AppendTeamEvent(key)
      PROVE  UNCHANGED streamVars
  BY <1>4 DEF CloseSession, ClaimShellReconcile, AppendTeamEvent
<1>5. CreateSession => UNCHANGED streamVars
  BY DEF CreateSession
<1>6. UNCHANGED vars => UNCHANGED streamVars
  BY DEF vars
<1> QED BY <1>1, <1>2, <1>3, <1>4, <1>5, <1>6 DEF Next

\* A log that grew by events of other kinds.
LogGrewElsewhere ==
    /\ Len(events) \in Nat /\ Len(events') \in Nat /\ Len(events') >= Len(events)
    /\ \A i \in 1..Len(events) : events'[i] = events[i]
    /\ \A i \in 1..Len(events') : i > Len(events) => events'[i].kind \notin RuntimeKinds
    /\ ~Exists' => events' = events /\ ~Exists

\* Every operation but a delivery leaves the streams' part of the log alone.
LEMMA ElsewhereStep ==
  ASSUME TurnInv, [Next]_vars,
         ~\E key \in DeliveryKeys, s \in Streams, n \in 1..StreamLimit, kind \in RuntimeKinds :
             AppendRuntimeEvent(key, s, n, kind)
  PROVE  CreateSession \/ LogGrewElsewhere
<1> USE DEF TurnInv, SessionTypeOK
<1>1. Len(events) \in Nat
  BY DEF StoreTypeOK
<1>2. ASSUME events' = events, session'.status = session.status
      PROVE  LogGrewElsewhere
  BY <1>1, <1>2 DEF LogGrewElsewhere, Exists
<1>3. CASE UNCHANGED storeVars
  BY <1>2, <1>3 DEF storeVars
<1>4. ASSUME NEW e, NEW status, Appended(e, status), e.kind \notin RuntimeKinds
      PROVE  LogGrewElsewhere
  <2>1. /\ e \in EventRow /\ events' = Append(events, e) /\ session' = Advanced(status)
        /\ status \in {"ACTIVE", "BLOCKED", "CLOSED"}
    BY <1>4 DEF Appended
  <2>2. /\ session'.status = status /\ Len(events') = Len(events) + 1
        /\ events'[Len(events')] = e
        /\ \A i \in 1..Len(events) : events'[i] = events[i]
    BY <2>1, OneEventMore
  <2>3. Exists'
    BY <2>1, <2>2 DEF Exists
  <2>4. \A i \in 1..Len(events') : i > Len(events) => events'[i] = e
    BY <1>1, <2>2
  <2> QED BY <1>1, <1>4, <2>2, <2>3, <2>4 DEF LogGrewElsewhere
<1>5. ASSUME NEW key, CloseSession(key)
      PROVE  LogGrewElsewhere
  BY <1>4, <1>5, CloseAppends DEF RuntimeKinds
<1>6. ASSUME NEW c, NEW k \in Keys, NEW a, StartTurn(c, k, a)
      PROVE  LogGrewElsewhere
  BY <1>4, <1>6, StartAppends DEF RuntimeKinds
<1>7. ASSUME NEW x \in TeamEvents, AppendTeamEvent(x)
      PROVE  LogGrewElsewhere
  BY <1>4, <1>7, TeamAppends DEF RuntimeKinds
<1>8. ASSUME NEW c \in Callers, NEW k, Prepares(c, k)
      PROVE  LogGrewElsewhere
  <2>1. events' = events /\ session'.status = session.status
    BY <1>8, PreparesRows DEF Prepares
  <2> QED BY <1>2, <2>1
<1>9. ASSUME NEW c \in Callers, NEW k, NEW o \in Outcomes, TurnEnds(c, k, o)
      PROVE  LogGrewElsewhere
  <2>1. /\ k \in Keys /\ session'.status = StatusAfter(o)
        /\ Len(events') = Len(events) + Chunks + 3
        /\ \A i \in 1..Len(events) : events'[i] = events[i]
        /\ \A i \in 1..Chunks + 3 : events'[Len(events) + i] = TurnEvents(k, o, session.version + 1)[i]
    BY <1>9, TurnEndsRows
  <2>2. PICK v \in Nat : v = session.version + 1
    BY AdvancedVersion
  <2>3. Chunks \in Nat
    BY HarnessAssumption
  <2>4. \A i \in 1..Chunks + 3 : TurnEvents(k, o, v)[i].kind \notin RuntimeKinds
    <3>1. GatewayEvent(o) \notin RuntimeKinds /\ RequirementEvent(o) \notin RuntimeKinds
      BY DEF GatewayEvent, RequirementEvent, RuntimeKinds
    <3>2. ASSUME NEW i \in 1..Chunks + 3
          PROVE  TurnEvents(k, o, v)[i].kind \in
                   {"ASSISTANT_CHUNK", "ASSISTANT_MESSAGE", GatewayEvent(o), RequirementEvent(o)}
      <4>1. TurnEvents(k, o, v)[i].kind =
              IF i <= Chunks THEN "ASSISTANT_CHUNK"
              ELSE IF i = Chunks + 1 THEN "ASSISTANT_MESSAGE"
              ELSE IF i = Chunks + 2 THEN GatewayEvent(o) ELSE RequirementEvent(o)
        BY <2>1, TurnEventsTyped
      <4> QED BY <4>1, Zenon
    <3>3. "ASSISTANT_CHUNK" \notin RuntimeKinds /\ "ASSISTANT_MESSAGE" \notin RuntimeKinds
      BY DEF RuntimeKinds
    <3> QED BY <3>1, <3>2, <3>3
  <2>5. ASSUME NEW i \in 1..Len(events'), i > Len(events)
        PROVE  events'[i].kind \notin RuntimeKinds
    <3>1. PICK j \in 1..Chunks + 3 : i = Len(events) + j
      <4>1. i - Len(events) \in 1..Chunks + 3 /\ i = Len(events) + (i - Len(events))
        BY <1>1, <2>1, <2>3, <2>5
      <4> QED BY <4>1
    <3>2. events'[i] = TurnEvents(k, o, v)[j]
      BY <2>1, <2>2, <3>1
    <3> QED BY <2>4, <3>2
  <2>6. Exists'
    BY <2>1 DEF Exists, StatusAfter
  <2> QED BY <1>1, <2>1, <2>3, <2>5, <2>6 DEF LogGrewElsewhere
<1>10. ASSUME NEW c \in Callers, RecordPrepared(c)
       PROVE  LogGrewElsewhere
  <2>1. CASE UNCHANGED <<storeVars, idemVars, streamVars, gatewayVars, crashes>>
    BY <1>2, <2>1 DEF storeVars
  <2> QED BY <1>8, <1>10, <2>1, RecordPreparedCases
<1>11. ASSUME NEW c \in Callers, CompleteTurn(c)
       PROVE  LogGrewElsewhere
  <2>1. caller[c].result \in Outcomes
    BY <1>11, EndsWithOutcome DEF CompleteTurn
  <2>2. CASE UNCHANGED storeVars
    BY <1>2, <2>2 DEF storeVars
  <2> QED BY <1>9, <1>11, <2>1, <2>2, CompleteTurnCases
<1> QED BY <1>3, <1>5, <1>6, <1>7, <1>10, <1>11, StoreActions

\* The places of a stream are finitely many.
LEMMA PlacesFinite ==
  ASSUME NEW log, NEW s, NEW m \in Nat
  PROVE  /\ IsFiniteSet(StreamPlaces(log, s, m)) /\ Cardinality(StreamPlaces(log, s, m)) \in Nat
         /\ \A i \in StreamPlaces(log, s, m) :
              Cardinality(StreamPlaces(log, s, i)) \in 1..Cardinality(StreamPlaces(log, s, m))
<1>1. ASSUME NEW i \in Nat PROVE IsFiniteSet(StreamPlaces(log, s, i))
  <2>1. IsFiniteSet(1..i)
    BY FS_Interval
  <2>2. StreamPlaces(log, s, i) \subseteq 1..i
    BY DEF StreamPlaces
  <2> QED BY <2>1, <2>2, FS_Subset
<1>2. ASSUME NEW i \in StreamPlaces(log, s, m)
      PROVE  Cardinality(StreamPlaces(log, s, i)) \in 1..Cardinality(StreamPlaces(log, s, m))
  <2>1. i \in Nat /\ i \in StreamPlaces(log, s, i)
        /\ StreamPlaces(log, s, i) \subseteq StreamPlaces(log, s, m)
    BY <1>2 DEF StreamPlaces
  <2>2. IsFiniteSet(StreamPlaces(log, s, i)) /\ IsFiniteSet(StreamPlaces(log, s, m))
    BY <1>1, <2>1
  <2>3. Cardinality(StreamPlaces(log, s, i)) <= Cardinality(StreamPlaces(log, s, m))
    BY <2>1, <2>2, FS_Subset
  <2>4. Cardinality(StreamPlaces(log, s, i)) # 0
    BY <2>1, <2>2, FS_EmptySet
  <2> QED BY <2>2, <2>3, <2>4, FS_CardinalityType
<1> QED BY <1>1, <1>2, FS_CardinalityType

LEMMA ElsewhereKeepsStreams ==
  ASSUME StreamInv, LogGrewElsewhere, UNCHANGED streamVars
  PROVE  StreamInv'
<1>1. PICK n \in Nat, m \in Nat :
        /\ n = Len(events) /\ m = Len(events') /\ m >= n
        /\ \A i \in 1..n : events'[i] = events[i]
        /\ \A i \in 1..m : i > n => events'[i].kind \notin RuntimeKinds
  BY DEF LogGrewElsewhere
<1>2. runtime' = runtime /\ deliveries' = deliveries
  BY DEF streamVars
<1>3. ASSUME NEW s \in Streams
      PROVE  StreamPlaces(events', s, m) = StreamPlaces(events, s, n)
  BY <1>1 DEF StreamPlaces
<1>4. ASSUME NEW s \in Streams, NEW i \in StreamPlaces(events', s, m)
      PROVE  /\ i \in StreamPlaces(events, s, n) /\ events'[i] = events[i]
             /\ StreamPlaces(events', s, i) = StreamPlaces(events, s, i)
  <2>1. i \in StreamPlaces(events, s, n)
    BY <1>3, <1>4
  <2>2. i \in 1..n
    BY <2>1 DEF StreamPlaces
  <2>3. \A j \in 1..i : events'[j] = events[j]
    BY <1>1, <2>2
  <2> QED BY <2>1, <2>2, <2>3 DEF StreamPlaces
<1>5. RuntimeProjectedOnce'
  BY <1>1, <1>2, <1>3, <1>4 DEF StreamInv, RuntimeProjectedOnce
<1>6. ~Exists' => Len(events') = 0
  BY DEF StreamInv, LogGrewElsewhere
<1> QED BY <1>2, <1>5, <1>6 DEF StreamInv

LEMMA OpeningKeepsStreams ==
  ASSUME StreamInv, CreateSession
  PROVE  StreamInv'
<1>1. /\ Len(events') = 1 /\ events'[1].kind = "SESSION_OPENED" /\ Exists' /\ ~Exists
  BY CreateSessionRows DEF Exists, CreateSession
<1>2. runtime' = runtime /\ deliveries' = deliveries
  BY DEF CreateSession, streamVars
<1>3. Len(events) = 0
  BY <1>1 DEF StreamInv
<1>4. ASSUME NEW s \in Streams
      PROVE  StreamPlaces(events, s, Len(events)) = {} /\ StreamPlaces(events', s, Len(events')) = {}
  BY <1>1, <1>3 DEF StreamPlaces, RuntimeKinds
<1>5. RuntimeProjectedOnce'
  BY <1>2, <1>4 DEF StreamInv, RuntimeProjectedOnce
<1> QED BY <1>1, <1>2, <1>5 DEF StreamInv

\* append_runtime_event: a stored event is bound to another key, or the next
\* one of its stream is stored and projected.
LEMMA DeliveryKeepsStreams ==
  ASSUME TurnInv, StreamInv, NEW key, NEW s \in Streams, NEW n \in 1..StreamLimit,
         NEW kind \in RuntimeKinds, AppendRuntimeEvent(key, s, n, kind)
  PROVE  StreamInv'
<1> USE DEF TurnInv, SessionTypeOK
<1> DEFINE bound(r) == {d.n : d \in {x \in deliveries : x.stream = r}}
<1>1. /\ deliveries' = deliveries \cup {[key |-> key, stream |-> s, n |-> n]}
      /\ Exists /\ n \in Nat
  BY HarnessAssumption DEF AppendRuntimeEvent
<1>2. \A r : bound(r)' = IF r = s THEN bound(r) \cup {n} ELSE bound(r)
  <2> TAKE r
  <2>1. {x \in deliveries' : x.stream = r} =
          IF r = s THEN {x \in deliveries : x.stream = r} \cup {[key |-> key, stream |-> s, n |-> n]}
          ELSE {x \in deliveries : x.stream = r}
    BY <1>1
  <2>2. CASE r = s
    <3>1. bound(r)' = {d.n : d \in {x \in deliveries : x.stream = r} \cup {[key |-> key, stream |-> s, n |-> n]}}
      BY <2>1, <2>2
    <3>2. [key |-> key, stream |-> s, n |-> n].n = n
      OBVIOUS
    <3> QED BY <2>2, <3>1, <3>2
  <2>3. CASE r # s
    BY <2>1, <2>3
  <2> QED BY <2>2, <2>3
<1>3. \A r \in Streams : bound(r) = 1..Len(runtime[r])
  BY DEF StreamInv, RuntimeProjectedOnce
<1>4. /\ runtime \in [Streams -> Seq(RuntimeKinds)]
      /\ \A r \in Streams : Len(runtime[r]) \in Nat
  BY DEF StreamInv
<1>5. /\ session \in SessionRow /\ events \in Seq(EventRow) /\ Len(events) \in Nat
  BY DEF StoreTypeOK
<1>6. CASE KnownRuntimeEvent(s, n, kind) /\ UNCHANGED <<session, events, projection, runtime>>
  <2>1. bound(s)' = bound(s)
    BY <1>2, <1>3, <1>6 DEF KnownRuntimeEvent
  <2>2. \A r \in Streams : bound(r)' = bound(r)
    BY <1>2, <2>1
  <2> HIDE DEF bound
  <2>3. RuntimeProjectedOnce'
    <3>1. \A r \in Streams : bound(r)' = 1..Len(runtime'[r])
      BY <1>3, <1>6, <2>2
    <3>2. events' = events /\ runtime' = runtime
      BY <1>6
    <3> QED BY <3>1, <3>2 DEF StreamInv, RuntimeProjectedOnce, bound
  <2> QED BY <1>6, <2>3 DEF StreamInv, Exists
<1>7. CASE /\ RuntimeEventAllowed(s, n, kind)
           /\ runtime' = [runtime EXCEPT ![s] = Append(@, kind)]
           /\ session' = Advanced(session.status)
           /\ events' = Append(events, Event(kind, session'.version, session'.version, s))
  <2>1. session'.version = session.version + 1 /\ session.version + 1 \in Nat
    BY <1>7, AdvancedVersion
  <2> DEFINE e == Event(kind, session.version + 1, session.version + 1, s)
  <2>2. e \in EventRow /\ e.kind = kind /\ e.key = s
    <3>1. /\ s \in Keys \cup Streams \cup {"none"}
          /\ kind \in {"SESSION_OPENED", "SESSION_CLOSED", "USER_MESSAGE", "TEAM"} \cup RuntimeKinds
      OBVIOUS
    <3> QED BY <2>1, <3>1, EventTyped
  <2>3. events' = Append(events, e)
    BY <1>7, <2>1
  <2> HIDE DEF e
  <2>4. session.status \in {"ACTIVE", "BLOCKED", "CLOSED"}
    BY <1>1, <1>5 DEF SessionRow, Exists
  <2>5. /\ session'.status = session.status /\ Len(events') = Len(events) + 1
        /\ events'[Len(events')] = e
        /\ \A i \in 1..Len(events) : events'[i] = events[i]
    BY <1>7, <2>2, <2>3, <2>4, OneEventMore
  <2>6. PICK m \in Nat :
          /\ m = Len(events) /\ m + 1 = Len(events') /\ events'[m + 1] = e
          /\ \A i \in 1..m : events'[i] = events[i]
    BY <1>5, <2>5
  <2>7. /\ n = Len(runtime[s]) + 1
        /\ runtime'[s] = Append(runtime[s], kind)
        /\ \A r \in Streams : r # s => runtime'[r] = runtime[r]
        /\ runtime' \in [Streams -> Seq(RuntimeKinds)]
    BY <1>4, <1>7 DEF RuntimeEventAllowed
  <2>8. /\ Len(runtime'[s]) = n /\ runtime'[s][n] = kind
        /\ \A i \in 1..Len(runtime[s]) : runtime'[s][i] = runtime[s][i]
    BY <1>4, <2>7
  <2>9. \A r \in Streams : \A i \in 0..m : StreamPlaces(events', r, i) = StreamPlaces(events, r, i)
    BY <2>6 DEF StreamPlaces
  <2>10. ASSUME NEW r \in Streams, r # s
         PROVE  StreamPlaces(events', r, m + 1) = StreamPlaces(events, r, m)
    BY <2>2, <2>6, <2>10 DEF StreamPlaces
  <2>11. /\ StreamPlaces(events', s, m + 1) = StreamPlaces(events, s, m) \cup {m + 1}
         /\ m + 1 \notin StreamPlaces(events, s, m)
    BY <2>2, <2>6 DEF StreamPlaces
  <2>12. Cardinality(StreamPlaces(events', s, m + 1)) = n
    <3>1. IsFiniteSet(StreamPlaces(events, s, m)) /\ Cardinality(StreamPlaces(events, s, m)) = Len(runtime[s])
      BY <2>6, PlacesFinite DEF StreamInv, RuntimeProjectedOnce
    <3>2. Cardinality(StreamPlaces(events, s, m) \cup {m + 1}) = Cardinality(StreamPlaces(events, s, m)) + 1
      BY <2>11, <3>1, FS_AddElement
    <3> QED BY <2>7, <2>11, <3>1, <3>2
  <2>13. ASSUME NEW r \in Streams, NEW i \in StreamPlaces(events, r, m)
         PROVE  events'[i].kind = runtime'[r][Cardinality(StreamPlaces(events', r, i))]
    <3>1. i \in 1..m /\ i \in 0..m
      BY <2>13 DEF StreamPlaces
    <3>2. /\ events[i].kind = runtime[r][Cardinality(StreamPlaces(events, r, i))]
          /\ Cardinality(StreamPlaces(events, r, m)) = Len(runtime[r])
      BY <2>6 DEF StreamInv, RuntimeProjectedOnce
    <3>3. Cardinality(StreamPlaces(events, r, i)) \in 1..Len(runtime[r])
      BY <3>2, PlacesFinite
    <3>4. events'[i] = events[i] /\ StreamPlaces(events', r, i) = StreamPlaces(events, r, i)
      BY <2>6, <2>9, <3>1
    <3> QED BY <2>7, <2>8, <3>2, <3>3, <3>4
  <2>14. \A r \in Streams : bound(r)' = 1..Len(runtime'[r])
    <3>1. bound(s)' = 1..Len(runtime[s]) \cup {n}
      BY <1>2, <1>3
    <3>2. 1..Len(runtime[s]) \cup {n} = 1..n
      BY <1>4, <2>7
    <3>3. \A r \in Streams : r # s => bound(r)' = bound(r)
      BY <1>2
    <3> HIDE DEF bound
    <3> QED BY <1>3, <2>7, <2>8, <3>1, <3>2, <3>3
  <2>15. ASSUME NEW r \in Streams
         PROVE  /\ Cardinality(StreamPlaces(events', r, m + 1)) = Len(runtime'[r])
                /\ \A i \in StreamPlaces(events', r, m + 1) :
                     events'[i].kind = runtime'[r][Cardinality(StreamPlaces(events', r, i))]
    <3>1. CASE r = s
      <4>1. events'[m + 1].kind = runtime'[s][Cardinality(StreamPlaces(events', s, m + 1))]
        BY <2>2, <2>6, <2>8, <2>12
      <4> QED BY <2>8, <2>11, <2>12, <2>13, <3>1, <4>1
    <3>2. CASE r # s
      <4>1. Cardinality(StreamPlaces(events, r, m)) = Len(runtime[r])
        BY <2>6 DEF StreamInv, RuntimeProjectedOnce
      <4> QED BY <2>7, <2>10, <2>13, <3>2, <4>1
    <3> QED BY <3>1, <3>2
  <2>16. RuntimeProjectedOnce'
    BY <2>6, <2>14, <2>15 DEF RuntimeProjectedOnce
  <2>17. Exists'
    BY <1>1, <2>5 DEF Exists
  <2> QED BY <2>7, <2>16, <2>17 DEF StreamInv
<1> QED BY <1>6, <1>7 DEF AppendRuntimeEvent

LEMMA StreamStep == TurnInv /\ StreamInv /\ [Next]_vars => StreamInv'
<1> SUFFICES ASSUME TurnInv, StreamInv, [Next]_vars PROVE StreamInv'
  OBVIOUS
<1>1. ASSUME NEW key \in DeliveryKeys, NEW s \in Streams, NEW n \in 1..StreamLimit, NEW kind \in RuntimeKinds,
             AppendRuntimeEvent(key, s, n, kind)
      PROVE  StreamInv'
  BY <1>1, DeliveryKeepsStreams
<1>2. CASE ~\E key \in DeliveryKeys, s \in Streams, n \in 1..StreamLimit, kind \in RuntimeKinds :
              AppendRuntimeEvent(key, s, n, kind)
  <2>1. UNCHANGED streamVars
    BY <1>2, StreamActions
  <2>2. CreateSession \/ LogGrewElsewhere
    BY <1>2, ElsewhereStep
  <2> QED BY <2>1, <2>2, OpeningKeepsStreams, ElsewhereKeepsStreams
<1> QED BY <1>1, <1>2

\* However often a runtime event is delivered, under whichever keys and
\* between whichever messages and team events, the session's log has it once
\* and at its place in the stream.
THEOREM StreamSafety == Spec => []RuntimeProjectedOnce
<1>1. Init => StreamInv
  <2> SUFFICES ASSUME Init PROVE StreamInv
    OBVIOUS
  <2>1. /\ Len(events) = 0 /\ deliveries = {} /\ runtime = [s \in Streams |-> <<>>]
    BY DEF Init
  <2>2. \A s \in Streams : /\ StreamPlaces(events, s, Len(events)) = {}
                            /\ Len(runtime[s]) = 0
                            /\ {d.n : d \in {x \in deliveries : x.stream = s}} = {}
    BY <2>1 DEF StreamPlaces
  <2>3. 1..0 = {} /\ Cardinality({}) = 0
    BY FS_EmptySet
  <2>4. RuntimeProjectedOnce
    BY <2>2, <2>3 DEF RuntimeProjectedOnce
  <2> QED BY <2>1, <2>4 DEF StreamInv
<1>2. StreamInv => RuntimeProjectedOnce
  BY DEF StreamInv
<1> QED BY <1>1, <1>2, StreamStep, TurnSafety, PTL DEF Spec

-----------------------------------------------------------------------------
(* No answer is thrown away.                                               *)

\* Where a caller keeps a journal it prepared or read.
Holding == {"invoking", "awaiting", "closing", "looking", "completing"}

\* The journal a caller keeps is the stored one, unless its turn is over.
Holds(r) ==
    r.at \in Holding =>
        /\ r.journal # NoJournal
        /\ journal[r.key] = r.journal \/ turn[r.key] # "none"

JournalInv ==
    /\ \A k \in Keys : (turn[k] = "none") = (journal[k].state \in {"none", "PREPARED"})
    /\ \A c \in Callers : Holds(caller[c])

\* Between the writes one caller at most changes, and keeps what it held.
LEMMA QuietJournal ==
  ASSUME TurnInv, JournalInv, NEW c \in Callers, NEW r, caller' = [caller EXCEPT ![c] = r],
         Holds(r), journal' = journal, turn' = turn
  PROVE  JournalInv'
<1>1. \A d \in Callers : caller'[d] = IF d = c THEN r ELSE caller[d]
  BY DEF TurnInv, SessionTypeOK, GatewayTypeOK
<1>2. \A d \in Callers : Holds(caller'[d])
  BY <1>1 DEF JournalInv
<1> QED BY <1>2 DEF JournalInv, Holds

\* A caller moves on with the journal it has.
LEMMA MovesHolding ==
  ASSUME TurnInv, JournalInv, NEW c \in Callers, caller[c].at # "idle", NEW at, NEW res,
         caller' = Moved(c, at, caller[c].journal, res),
         at \in Holding => caller[c].at \in Holding,
         journal' = journal, turn' = turn
  PROVE  JournalInv'
<1> DEFINE r == [caller[c] EXCEPT !.at = at, !.journal = caller[c].journal, !.result = res]
<1>1. caller[c] \in CallerRow
  BY CallerHasRow DEF TurnInv, SessionTypeOK
<1>2. r.at = at /\ r.key = caller[c].key /\ r.journal = caller[c].journal
  BY <1>1 DEF CallerRow
<1>3. caller' = [caller EXCEPT ![c] = r]
  BY DEF Moved
<1> HIDE DEF r
<1>4. Holds(r)
  BY <1>2 DEF Holds, JournalInv
<1> QED BY <1>3, <1>4, QuietJournal

\* A caller takes up the journal that is stored.
LEMMA TakesJournal ==
  ASSUME TurnInv, JournalInv, NEW c \in Callers, caller[c].at # "idle", NEW at, NEW j,
         caller' = [caller EXCEPT ![c] = [@ EXCEPT !.at = at, !.journal = j]],
         j = journal[caller[c].key], j # NoJournal,
         journal' = journal, turn' = turn
  PROVE  JournalInv'
<1> DEFINE r == [caller[c] EXCEPT !.at = at, !.journal = j]
<1>1. caller[c] \in CallerRow
  BY CallerHasRow DEF TurnInv, SessionTypeOK
<1>2. r.key = caller[c].key /\ r.journal = j
  BY <1>1 DEF CallerRow
<1>3. caller' = [caller EXCEPT ![c] = r]
  OBVIOUS
<1> HIDE DEF r
<1>4. Holds(r)
  BY <1>2 DEF Holds
<1> QED BY <1>3, <1>4, QuietJournal

\* A caller that leaves or enters holds nothing.
LEMMA HoldsNothing ==
  ASSUME TurnInv, JournalInv, NEW c \in Callers,
         \/ caller' = Leave(c)
         \/ \E at \in {"started", "reconciling"} : \E k, a : caller' = Enter(c, at, k, a),
         journal' = journal, turn' = turn
  PROVE  JournalInv'
<1>1. Holds(Idle)
  BY DEF Holds, Holding, Idle
<1>2. CASE caller' = Leave(c)
  BY <1>1, <1>2, QuietJournal DEF Leave
<1>3. ASSUME NEW at \in {"started", "reconciling"}, NEW k, NEW a, caller' = Enter(c, at, k, a)
      PROVE  JournalInv'
  <2> DEFINE r == [at |-> at, key |-> k, audit |-> a, journal |-> NoJournal, result |-> "none"]
  <2>1. r.at \notin Holding
    BY DEF Holding
  <2>2. Holds(r)
    BY <2>1 DEF Holds
  <2>3. caller' = [caller EXCEPT ![c] = r]
    BY <1>3 DEF Enter
  <2> HIDE DEF r
  <2> QED BY <2>2, <2>3, QuietJournal
<1> QED BY <1>2, <1>3

\* The callers' steps that leave journals and turns alone.
LEMMA CallersKeepJournals ==
  ASSUME TurnInv, JournalInv, NEW c \in Callers, CallerStep(c), journal' = journal, turn' = turn
  PROVE  JournalInv'
<1> USE DEF TurnInv, SessionTypeOK
<1> DEFINE k == caller[c].key
<1>1. CASE caller' = Leave(c)
  BY <1>1, HoldsNothing
<1> SUFFICES ASSUME caller' # Leave(c) PROVE JournalInv'
  BY <1>1
<1>2. ASSUME NEW at, caller' = Move(c, at), caller[c].at # "idle",
             at \in Holding => caller[c].at \in Holding
      PROVE  JournalInv'
  <2>1. caller' = Moved(c, at, caller[c].journal, caller[c].result)
    BY <1>2, SameRow
  <2> QED BY <1>2, <2>1, MovesHolding
<1>3. ASSUME NEW at, NEW res, caller' = [caller EXCEPT ![c] = [@ EXCEPT !.at = at, !.result = res]],
             caller[c].at \in Holding
      PROVE  JournalInv'
  <2>1. caller[c].at # "idle"
    BY <1>3 DEF Holding
  <2>2. caller' = Moved(c, at, caller[c].journal, res)
    BY <1>3, <2>1, ResultKept
  <2> QED BY <1>3, <2>1, <2>2, MovesHolding
<1>4. CASE ReadJournal(c)
  <2>1. PICK at : at = IF journal[k] = NoJournal THEN "routing" ELSE "reconciling"
    OBVIOUS
  <2>2. caller' = Move(c, at) /\ at \notin Holding /\ caller[c].at # "idle"
    BY <1>4, <2>1 DEF ReadJournal, Holding
  <2> QED BY <1>2, <2>2
<1>5. CASE CommitRoute(c)
  <2>1. caller' = Move(c, "preparing") /\ "preparing" \notin Holding /\ caller[c].at # "idle"
    BY <1>5 DEF CommitRoute, Holding
  <2> QED BY <1>2, <2>1
<1>6. CASE RecordPrepared(c)
  <2>1. PICK j : j = Prepared(caller[c].audit)
    OBVIOUS
  <2>2. /\ caller[c].at = "preparing" /\ journal[k] = j /\ j # NoJournal
        /\ caller' = [caller EXCEPT ![c] = [@ EXCEPT !.at = "invoking", !.journal = j]]
    <3>1. caller[c].at = "preparing" /\ k \in Keys
      BY <1>6, CallerHasRow DEF RecordPrepared
    <3>2. j # NoJournal
      BY <2>1 DEF Prepared, NoJournal
    <3>3. journal[k] = NoJournal => journal'[k] = j
      BY <1>6, <2>1, <3>1 DEF RecordPrepared, StoreTypeOK
    <3>4. journal[k] = j
      BY <1>6, <2>1, <3>2, <3>3 DEF RecordPrepared
    <3> QED BY <1>6, <2>1, <3>1, <3>2, <3>4 DEF RecordPrepared
  <2> QED BY <2>2, TakesJournal
<1>7. CASE Invoke(c)
  <2>1. caller[c].at = "invoking"
    BY <1>7 DEF Invoke
  <2>2. \/ caller' = Move(c, "awaiting")
        \/ caller' = [caller EXCEPT ![c] = [@ EXCEPT !.at = "closing", !.result = record[k].result]]
    BY <1>7 DEF Invoke
  <2> QED BY <1>2, <1>3, <2>1, <2>2 DEF Holding
<1>8. ASSUME NEW r, CommitInvocation(c, r) PROVE JournalInv'
  <2>1. /\ caller[c].at = "awaiting"
        /\ caller' = [caller EXCEPT ![c] = [@ EXCEPT !.at = "closing", !.result = r]]
    BY <1>8 DEF CommitInvocation
  <2> QED BY <1>3, <2>1 DEF Holding
<1>9. CASE LookupClosure(c)
  <2>1. PICK o : o = IF record[k].result = caller[c].result THEN OutcomeOf(caller[c].result)
                     ELSE "UNKNOWN_OUTCOME"
    OBVIOUS
  <2>2. /\ caller[c].at = "closing"
        /\ caller' = [caller EXCEPT ![c] = [@ EXCEPT !.at = "completing", !.result = o]]
    BY <1>9, <2>1 DEF LookupClosure
  <2> QED BY <1>3, <2>2 DEF Holding
<1>10. CASE ReadTurn(c)
  <2>1. caller' = Move(c, "rereading") /\ "rereading" \notin Holding /\ caller[c].at # "idle"
    BY <1>10 DEF ReadTurn, Holding
  <2> QED BY <1>2, <2>1
<1>11. CASE RereadJournal(c)
  <2>1. PICK j : j = journal[k]
    OBVIOUS
  <2>2. /\ caller[c].at # "idle" /\ j # NoJournal
        /\ caller' = [caller EXCEPT ![c] = [@ EXCEPT !.at = "looking", !.journal = j]]
    BY <1>11, <2>1 DEF RereadJournal, NoJournal
  <2> QED BY <2>1, <2>2, TakesJournal
<1>12. CASE LookupRecord(c)
  <2>1. PICK o : o = IF record[k] = NoRecord THEN "UNKNOWN_OUTCOME" ELSE OutcomeOf(record[k].result)
    OBVIOUS
  <2>2. /\ caller[c].at = "looking"
        /\ caller' = [caller EXCEPT ![c] = [@ EXCEPT !.at = "completing", !.result = o]]
    BY <1>12, <2>1 DEF LookupRecord, LookedUp
  <2> QED BY <1>3, <2>2 DEF Holding
<1>13. CASE CompleteTurn(c)
  BY <1>13 DEF CompleteTurn
<1> QED BY <1>4, <1>5, <1>6, <1>7, <1>8, <1>9, <1>10, <1>11, <1>12, <1>13 DEF CallerStep

\* A journal is prepared where there was none: nobody held one, unless its
\* turn is over.
LEMMA PreparingKeepsJournals ==
  ASSUME TurnInv, JournalInv, NEW c \in Callers, NEW k, Prepares(c, k)
  PROVE  JournalInv'
<1> USE DEF TurnInv, SessionTypeOK
<1> DEFINE j == Prepared(caller[c].audit)
           r == [caller[c] EXCEPT !.at = "invoking", !.journal = j]
<1>1. k \in Keys /\ k = caller[c].key /\ journal[k] = NoJournal /\ turn' = turn /\ caller[c] \in CallerRow
  BY CallerHasRow, PreparesRows DEF Prepares
<1>2. journal'[k] = j /\ \A i \in Keys : i # k => journal'[i] = journal[i]
  BY <1>1 DEF Prepares, StoreTypeOK
<1>3. j # NoJournal /\ j.state = "PREPARED" /\ journal[k].state = "none"
  BY <1>1 DEF Prepared, NoJournal
<1>4. r.key = k /\ r.journal = j
  BY <1>1 DEF CallerRow
<1>5. caller'[c] = r /\ \A d \in Callers : d # c => caller'[d] = caller[d]
  BY DEF Prepares, GatewayTypeOK
<1> HIDE DEF j, r
<1>6. \A i \in Keys : (turn'[i] = "none") = (journal'[i].state \in {"none", "PREPARED"})
  BY <1>1, <1>2, <1>3 DEF JournalInv
<1>7. ASSUME NEW d \in Callers PROVE Holds(caller[d])'
  <2>1. CASE d = c
    BY <1>2, <1>3, <1>4, <1>5, <2>1 DEF Holds
  <2>2. CASE d # c /\ caller[d].at \in Holding
    <3>1. caller[d].key \in Keys
      BY <2>2, CallerHasRow DEF Holding
    <3> QED BY <1>1, <1>2, <1>5, <2>2, <3>1 DEF Holds, JournalInv
  <2>3. CASE d # c /\ caller[d].at \notin Holding
    BY <1>5, <2>3 DEF Holds
  <2> QED BY <2>1, <2>2, <2>3
<1> QED BY <1>6, <1>7 DEF JournalInv

\* Whoever held the journal of a turn that ends now holds one that is over.
LEMMA EndingKeepsJournals ==
  ASSUME TurnInv, JournalInv, NEW c \in Callers, NEW k, NEW o \in Outcomes, TurnEnds(c, k, o)
  PROVE  JournalInv'
<1> USE DEF TurnInv, SessionTypeOK
<1>1. k \in Keys
  BY TurnEndsRows
<1>2. turn'[k] = o /\ o # "none" /\ \A i \in Keys : i # k => turn'[i] = turn[i]
  BY <1>1, OutcomeIsOne DEF TurnEnds, StoreTypeOK
<1>3. journal'[k].state \in {"UNKNOWN_OUTCOME", "COMMITTED"}
      /\ \A i \in Keys : i # k => journal'[i] = journal[i]
  BY <1>1 DEF TurnEnds, StoreTypeOK
<1>4. caller'[c] = Idle /\ \A d \in Callers : d # c => caller'[d] = caller[d]
  BY DEF TurnEnds, Leave, GatewayTypeOK
<1>5. \A i \in Keys : (turn'[i] = "none") = (journal'[i].state \in {"none", "PREPARED"})
  BY <1>1, <1>2, <1>3 DEF JournalInv
<1>6. ASSUME NEW d \in Callers PROVE Holds(caller[d])'
  <2>1. CASE d = c \/ caller[d].at \notin Holding
    BY <1>4, <2>1 DEF Holds, Idle, Holding
  <2>2. CASE d # c /\ caller[d].at \in Holding
    <3>1. caller[d].key \in Keys
      BY <2>2, CallerHasRow DEF Holding
    <3> QED BY <1>2, <1>3, <1>4, <2>2, <3>1 DEF Holds, JournalInv
  <2> QED BY <2>1, <2>2
<1> QED BY <1>5, <1>6 DEF JournalInv

LEMMA JournalStep == TurnInv /\ JournalInv /\ [Next]_vars => JournalInv'
<1> SUFFICES ASSUME TurnInv, JournalInv, [Next]_vars PROVE JournalInv'
  OBVIOUS
<1>1. CASE UNCHANGED <<journal, turn, caller>>
  BY <1>1 DEF JournalInv, Holds
<1>2. ASSUME NEW c \in Callers, CallerStep(c)
      PROVE  JournalInv'
  <2>1. CASE journal' = journal /\ turn' = turn
    BY <1>2, <2>1, CallersKeepJournals
  <2>2. CASE RecordPrepared(c)
    BY <2>1, <2>2, RecordPreparedCases, PreparingKeepsJournals DEF storeVars
  <2>3. CASE CompleteTurn(c)
    <3>1. CASE UNCHANGED storeVars
      BY <2>1, <3>1 DEF storeVars
    <3>2. CASE TurnEnds(c, caller[c].key, caller[c].result)
      <4>1. caller[c].result \in Outcomes
        BY <3>2, EndsWithOutcome DEF TurnEnds
      <4> QED BY <3>2, <4>1, EndingKeepsJournals
    <3> QED BY <2>3, <3>1, <3>2, CompleteTurnCases
  <2>4. CASE ~RecordPrepared(c) /\ ~CompleteTurn(c)
    <3>1. UNCHANGED storeVars
      BY <1>2, <2>4 DEF CallerStep, ReadJournal, CommitRoute, Invoke, CommitInvocation,
                        LookupClosure, ReadTurn, RereadJournal, LookupRecord
    <3> QED BY <2>1, <3>1 DEF storeVars
  <2> QED BY <2>2, <2>3, <2>4
<1>3. ASSUME NEW c \in Callers, Crash(c)
      PROVE  JournalInv'
  BY <1>3, HoldsNothing DEF Crash, storeVars
<1>4. ASSUME NEW c \in Callers, NEW k, NEW a, StartTurn(c, k, a) \/ ResumeTurn(c, k, a) \/ Reconcile(c, k, a)
      PROVE  JournalInv'
  BY <1>4, HoldsNothing DEF StartTurn, ResumeTurn, Reconcile, storeVars
<1>5. ASSUME NEW key, CloseSession(key) \/ ClaimShellReconcile(key) \/ AppendTeamEvent(key)
      PROVE  UNCHANGED <<journal, turn, caller>>
  BY <1>5 DEF CloseSession, ClaimShellReconcile, AppendTeamEvent, storeVars
<1>6. ASSUME NEW key, NEW s, NEW n, NEW kind, AppendRuntimeEvent(key, s, n, kind)
      PROVE  UNCHANGED <<journal, turn, caller>>
  BY <1>6 DEF AppendRuntimeEvent
<1>7. CreateSession \/ UNCHANGED vars => UNCHANGED <<journal, turn, caller>>
  BY DEF CreateSession, vars, storeVars
<1> QED BY <1>1, <1>2, <1>3, <1>4, <1>5, <1>6, <1>7 DEF Next

\* No answer is thrown away: the journal a caller held before the provider
\* answered still stands when it completes the turn, unless another caller
\* completed the turn meanwhile.
THEOREM AnswerLandingSafety == Spec => []AnswersLand
<1>1. Init => JournalInv
  BY DEF Init, JournalInv, Holds, Holding, Idle, NoJournal
<1>2. TurnInv /\ JournalInv => AnswersLand
  BY DEF JournalInv, Holds, Holding, AnswersLand, Completes
<1> QED BY <1>1, <1>2, JournalStep, TurnSafety, PTL DEF Spec

-----------------------------------------------------------------------------
(* The type invariant.                                                     *)

\* A key is accepted once, and the replay tables hold keys that were used.
TablesOK ==
    /\ IsFiniteSet(CommandKeys) /\ Len(commands) = Cardinality(CommandKeys)
    /\ closes \subseteq CloseKeys /\ teamDone \subseteq TeamEvents

LEMMA TablesStep == TurnInv /\ TablesOK /\ [Next]_vars => TablesOK'
<1> SUFFICES ASSUME TurnInv, TablesOK, [Next]_vars PROVE TablesOK'
  OBVIOUS
<1>1. ASSUME commands' = commands PROVE CommandKeys' = CommandKeys /\ Len(commands') = Len(commands)
  BY <1>1 DEF CommandKeys
<1>2. CASE UNCHANGED <<commands, closes, teamDone>>
  BY <1>1, <1>2 DEF TablesOK
<1>3. ASSUME NEW key \in CloseKeys, CloseSession(key)
      PROVE  TablesOK'
  BY <1>1, <1>3 DEF CloseSession, TablesOK
<1>4. ASSUME NEW e \in TeamEvents, AppendTeamEvent(e)
      PROVE  TablesOK'
  BY <1>1, <1>4 DEF AppendTeamEvent, TablesOK
<1>5. ASSUME NEW c \in Callers, NEW k \in Keys, NEW a, StartTurn(c, k, a)
      PROVE  TablesOK'
  <2>1. PICK x \in Nat : commands' = Append(commands, [key |-> k, expected |-> x])
    BY <1>5, StartAppends DEF TurnInv
  <2>2. CommandKeys' = CommandKeys \cup {k}
    BY <2>1, CommandAccepted DEF TurnInv, SessionTypeOK
  <2>3. k \notin CommandKeys /\ closes' = closes /\ teamDone' = teamDone
    BY <1>5 DEF StartTurn, IsNew, idemVars
  <2>4. Len(commands') = Len(commands) + 1
    BY <2>1 DEF TurnInv, SessionTypeOK, StoreTypeOK
  <2>5. /\ IsFiniteSet(CommandKeys \cup {k})
        /\ Cardinality(CommandKeys \cup {k}) = Cardinality(CommandKeys) + 1
    BY <2>3, FS_AddElement DEF TablesOK
  <2> QED BY <2>2, <2>3, <2>4, <2>5 DEF TablesOK
<1>6. CreateSession => UNCHANGED <<commands, closes, teamDone>>
  BY DEF CreateSession, idemVars
<1>7. ASSUME NEW key, ClaimShellReconcile(key)
      PROVE  UNCHANGED <<commands, closes, teamDone>>
  BY <1>7 DEF ClaimShellReconcile, storeVars
<1>8. ASSUME NEW key, NEW s, NEW n, NEW kind, AppendRuntimeEvent(key, s, n, kind)
      PROVE  UNCHANGED <<commands, closes, teamDone>>
  BY <1>8 DEF AppendRuntimeEvent, idemVars
<1>9. ASSUME NEW c \in Callers, NEW k, NEW a, ResumeTurn(c, k, a) \/ Reconcile(c, k, a)
      PROVE  UNCHANGED <<commands, closes, teamDone>>
  <2>1. CASE ResumeTurn(c, k, a)
    BY <2>1 DEF ResumeTurn, storeVars, idemVars
  <2>2. CASE Reconcile(c, k, a)
    BY <2>2 DEF Reconcile, storeVars, idemVars
  <2> QED BY <1>9, <2>1, <2>2
<1>10. ASSUME NEW c \in Callers, CallerStep(c) \/ Crash(c)
       PROVE  UNCHANGED <<commands, closes, teamDone>>
  BY <1>10 DEF CallerStep, Crash, ReadJournal, CommitRoute, RecordPrepared, Invoke, CommitInvocation,
               LookupClosure, ReadTurn, RereadJournal, LookupRecord, CompleteTurn, storeVars, idemVars
<1>11. UNCHANGED vars => UNCHANGED <<commands, closes, teamDone>>
  BY DEF vars, storeVars, idemVars
<1> QED BY <1>2, <1>3, <1>4, <1>5, <1>6, <1>7, <1>8, <1>9, <1>10, <1>11 DEF Next

\* The session store and the gateway records keep their types, and no
\* idempotency key has two commands.
THEOREM SessionTypeSafety == Spec => []HarnessTypeOK
<1>1. Init => TablesOK
  <2> SUFFICES ASSUME Init PROVE TablesOK
    OBVIOUS
  <2>1. CommandKeys = {} /\ Len(commands) = 0 /\ closes = {} /\ teamDone = {}
    BY DEF Init, CommandKeys
  <2> QED BY <2>1, FS_EmptySet DEF TablesOK
<1>2. ASSUME TurnInv, TablesOK PROVE HarnessTypeOK
  <2> USE <1>2 DEF TurnInv, SessionTypeOK
  <2>1. /\ session.status \in {"ABSENT", "ACTIVE", "BLOCKED", "CLOSED"}
        /\ session.version \in Nat /\ session.sequence \in Nat
    BY DEF StoreTypeOK, SessionRow
  <2>2. ASSUME NEW k \in Keys
        PROVE  /\ journal[k].state \in {"none", "PREPARED", "COMMITTED", "UNKNOWN_OUTCOME"}
               /\ turn[k] \in Outcomes \cup {"none"}
               /\ record[k].result \in Replies \cup {"none"}
               /\ calls[k] \in Nat
    <3>1. journal[k] \in JournalRow \cup {NoJournal} /\ record[k] \in RecordRow \cup {NoRecord}
      BY DEF StoreTypeOK, GatewayTypeOK
    <3>2. journal[k].state \in {"none", "PREPARED", "COMMITTED", "UNKNOWN_OUTCOME"}
      BY <3>1 DEF JournalRow, NoJournal
    <3>3. record[k].result \in Replies \cup {"none"}
      BY <3>1 DEF RecordRow, NoRecord
    <3> QED BY <3>2, <3>3 DEF StoreTypeOK, GatewayTypeOK
  <2>3. CommandKeys \subseteq Keys
    <3>1. \A i \in 1..Len(commands) : commands[i] \in CommandRow
      BY DEF StoreTypeOK
    <3>2. \A i \in 1..Len(commands) : commands[i].key \in Keys
      BY <3>1 DEF CommandRow
    <3> QED BY <3>2 DEF CommandKeys
  <2> QED BY <2>1, <2>2, <2>3 DEF HarnessTypeOK, TablesOK
<1> QED BY <1>1, <1>2, TablesStep, TurnSafety, PTL DEF Spec

=============================================================================
