----------------------------- MODULE MCCombined ----------------------------
(***************************************************************************)
(* Combined control of one job on small instances: two units, a stage run  *)
(* and an artifact group, that share a process and a token bucket.         *)
(***************************************************************************)
EXTENDS CombinedControl

CONSTANTS j1, u1, u2, h1, p, s, requests

OneJob == {j1}
TwoUnits == {u1, u2}
MCHolder == {h1}
MCJobOf == [u \in Unit |-> j1]
MCItemOf == [u \in Unit |-> NoItem]
MCDependsOn == [u \in Unit |-> {}]
NoRetryDelay == <<>>

\* One process at a time, and nothing stored.
Amount(processes) == [r \in Resource |-> IF r = p THEN processes ELSE 0]
MCPool == Amount(1)
MCLimit == [j \in Job |-> Amount(2)]
MCDemand == [u \in Unit |-> Amount(1)]

\* A bucket of two requests, refilled by two thirds of one per tick.
MCBurst == [d \in Dimension |-> 2]
MCRefillRate == [d \in Dimension |-> 2]
MCGrant == [u \in Unit |-> [d \in Dimension |-> 1]]
MCModelMax == [j \in Job |-> [d \in Dimension |-> 2]]
MCConcurrent == [j \in Job |-> 2]
MCInvocations == [u \in Unit |-> 1]
=============================================================================
