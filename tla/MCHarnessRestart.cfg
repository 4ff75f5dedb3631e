\* One message repeated until it is answered, with one crash.
SPECIFICATION FairSpec
CONSTANTS
    k1 = k1
    c1 = c1
    c2 = c2
    a1 = a1
    a2 = a2
    a3 = a3
    a4 = a4
    e1 = e1
    Keys = {k1}
    Callers = {c1, c2}
    AuditsOf <- OwnAudits
    RetryAudits <- LaterAudits
    CloseKeys = {}
    ClaimKeys = {}
    TeamEvents = {}
    TeamVersion <- NoTeam
    Streams = {}
    StreamLimit = 0
    DeliveryKeys = {}
    Chunks = 1
    CrashLimit = 1
PROPERTY
    EveryTurnEnds
CHECK_DEADLOCK FALSE
