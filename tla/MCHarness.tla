------------------------------ MODULE MCHarness ------------------------------
\* Small instances of HarnessSession.
EXTENDS HarnessSession, TLC

CONSTANTS k1, c1, c2, a1, a2, a3, a4, e1

OwnAudits == (c1 :> {a1}) @@ (c2 :> {a2})
LaterAudits == (c1 :> {a3}) @@ (c2 :> {a4})
SoloAudit == c1 :> {a1}
SoloLater == c1 :> {a3}
NoTeam == [e \in {} |-> 0]
OneTeam == e1 :> 5

\* Two callers of one message, with everything else that may happen to a turn.
TurnsAlone == deliveries = {} /\ teamDone = {}

\* One caller beside the two other writers of the log.
WritersBesideOneCaller ==
    /\ \A c \in Callers \ {c1} : caller[c] = Idle
    /\ \A k \in Keys : route[k] \in {"none"} \cup StampedBy(c1)
    /\ closes = {} /\ claims = {} /\ crashes = 0

\* The states explored.
Scenario == TurnsAlone \/ WritersBesideOneCaller
=============================================================================
