----------------------------- MODULE TurnLedger -----------------------------
(***************************************************************************)
(* What a harness session promises about the message commands it accepts:  *)
(* every command is answered at most once, the provider is called at most  *)
(* once for it, and an answer other than UNKNOWN_OUTCOME is the one the    *)
(* gateway recorded.  HarnessSession is shown to implement this.           *)
(***************************************************************************)
CONSTANTS Keys, Results

VARIABLES opened, calls, answer, settled

vars == <<opened, calls, answer, settled>>

Init ==
    /\ opened = [k \in Keys |-> FALSE]
    /\ calls = [k \in Keys |-> 0]
    /\ answer = [k \in Keys |-> "none"]
    /\ settled = [k \in Keys |-> "none"]

\* The command is accepted.
Open(k) ==
    /\ ~opened[k]
    /\ opened' = [opened EXCEPT ![k] = TRUE]
    /\ UNCHANGED <<calls, answer, settled>>

\* The one call of the provider.
Call(k) ==
    /\ opened[k]
    /\ calls[k] = 0
    /\ calls' = [calls EXCEPT ![k] = 1]
    /\ UNCHANGED <<opened, answer, settled>>

\* The gateway keeps the provider's result.
Answer(k, r) ==
    /\ calls[k] = 1
    /\ answer[k] = "none"
    /\ answer' = [answer EXCEPT ![k] = r]
    /\ UNCHANGED <<opened, calls, settled>>

\* The turn is committed with the recorded result, or as unknown.
Settle(k, o) ==
    /\ opened[k]
    /\ settled[k] = "none"
    /\ o # "none"
    /\ o \in {answer[k], "UNKNOWN_OUTCOME"}
    /\ settled' = [settled EXCEPT ![k] = o]
    /\ UNCHANGED <<opened, calls, answer>>

Next ==
    \E k \in Keys :
        \/ Open(k)
        \/ Call(k)
        \/ \E r \in Results : Answer(k, r)
        \/ \E o \in Results \cup {"UNKNOWN_OUTCOME"} : Settle(k, o)

Spec == Init /\ [][Next]_vars
=============================================================================
