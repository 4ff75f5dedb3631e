------------------------------- MODULE MCWork ------------------------------
(***************************************************************************)
(* A small work graph: u1 and u2 are stages of one item and u2 needs u1's  *)
(* success; u3, an artifact group at job scope, joins u1 whatever its      *)
(* outcome.                                                                *)
(***************************************************************************)
EXTENDS WorkControl, TLC

CONSTANTS j1, u1, u2, u3, i1, h1, h2

MCJob == {j1}
MCUnit == {u1, u2, u3}
MCItem == {i1}
MCHolder == {h1, h2}
MCSymmetry == Permutations(MCHolder)
MCJobOf == [u \in MCUnit |-> j1]
MCItemOf == [u \in MCUnit |-> IF u = u3 THEN NoItem ELSE i1]
MCDependsOn == [u \in MCUnit |-> IF u = u1 THEN {} ELSE {u1}]
MCRetryDelay == <<1>>

Untouched(u) == snapshots[u] = {}

\* The life of one lease: two attempts of u1 and two competing holders, until
\* its retry has expired too, while nothing else of the graph moves.
LeaseAlone == Untouched(u2) /\ Untouched(u3) /\ itemStatus[i1] = "CANDIDATE"

\* Readiness and dispatch: u1 with its retry and one of the units that wait
\* for it, all worked by one holder without heartbeats.  Of the item only
\* matters whether its status is terminal.
OneJoin ==
  /\ Untouched(u2) \/ Untouched(u3)
  /\ itemStatus[i1] \in {"CANDIDATE"} \cup TerminalItem
  /\ now \in {0, 1} /\ (now = 1 => retry[u1][1].decision = "RETRY_SCHEDULED")
  /\ \E h \in MCHolder : \A u \in MCUnit : \A a \in Attempt : Exists(u, a) =>
        /\ lease[u][a].holder = h
        /\ lease[u][a].expires = lease[u][a].acquired + LeaseDuration

\* The states explored.
Scenario == LeaseAlone \/ OneJoin
=============================================================================
