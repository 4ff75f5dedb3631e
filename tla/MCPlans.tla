------------------------------- MODULE MCPlans -------------------------------
\* One run, its global plan, a domain plan and one downstream of it.
EXTENDS PlanControl, TLC

CONSTANTS c1, c2

\* The downstream plan keeps its first version.
Versions == [k \in PlanKind |-> IF k = "CRITERIA_RUBRIC" THEN 1 ELSE 2]
=============================================================================
