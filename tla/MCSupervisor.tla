---------------------------- MODULE MCSupervisor ----------------------------
\* One task with two attempts and two runners of it.
EXTENDS AgentSupervisor, TLC

CONSTANTS t1, w1, w2, k1, k2

=============================================================================
