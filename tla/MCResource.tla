---------------------------- MODULE MCResource -----------------------------
(***************************************************************************)
(* Resource control of two units of one job: a stage run with a process    *)
(* and an artifact group without one.  Both ask for a request and for      *)
(* storage, and the job's budget of requests is smaller than its           *)
(* concurrency.                                                            *)
(***************************************************************************)
EXTENDS ResourceControl

CONSTANTS j1, u1, u2, h1, p, s, n

OneJob == {j1}
TwoUnits == {u1, u2}
MCHolder == {h1}
MCJobOf == [u \in Unit |-> j1]
MCItemOf == [u \in Unit |-> NoItem]
MCDependsOn == [u \in Unit |-> {}]
NoRetryDelay == <<>>

Amount(processes, requests, bytes) ==
  [r \in Resource |-> CASE r = p -> processes [] r = n -> requests [] OTHER -> bytes]

MCPool == Amount(1, 2, 2)
MCConcurrency == [j \in Job |-> Amount(1, 2, 2)]
MCBudget == [j \in Job |-> Amount(1, 1, 2)]
MCDemand == [u \in Unit |-> IF u = u1 THEN Amount(1, 1, 1) ELSE Amount(0, 1, 1)]
=============================================================================
