\* One message and a team that is ahead of the session.
SPECIFICATION Spec
CONSTANTS
    k1 = k1
    c1 = c1
    c2 = c2
    a1 = a1
    a2 = a2
    a3 = a3
    a4 = a4
    e1 = e1
    Keys = {k1}
    Callers = {c1}
    AuditsOf <- SoloAudit
    RetryAudits <- SoloLater
    CloseKeys = {}
    ClaimKeys = {}
    TeamEvents = {e1}
    TeamVersion <- OneTeam
    Streams = {}
    StreamLimit = 0
    DeliveryKeys = {}
    Chunks = 1
    CrashLimit = 0
INVARIANT
    AuthorityMonotonic
CHECK_DEADLOCK FALSE
