\* One message repeated by two callers with their own clocks, a crash and a close;
\* or by one caller beside a redelivered runtime stream and a team event.
SPECIFICATION FairSpec
CONSTANTS
    k1 = k1
    c1 = c1
    c2 = c2
    a1 = a1
    a2 = a2
    a3 = a3
    a4 = a4
    e1 = e1
    Keys = {k1}
    Callers = {c1, c2}
    AuditsOf <- OwnAudits
    RetryAudits <- LaterAudits
    CloseKeys = {"close"}
    ClaimKeys = {"claim"}
    TeamEvents = {e1}
    TeamVersion <- OneTeam
    Streams = {"s1"}
    StreamLimit = 2
    DeliveryKeys = {"d1", "d2", "d3"}
    Chunks = 1
    CrashLimit = 1
CONSTRAINT Scenario
INVARIANTS
    ProjectionIsRebuildable
    MessagesOnce
    PolicyFromReadyTurn
    AnswersLand
    RuntimeProjectedOnce
PROPERTY
    ImplementsTurnLedger
    PreparedTurnEnds
CHECK_DEADLOCK FALSE
