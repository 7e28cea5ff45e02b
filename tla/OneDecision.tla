---------------------------- MODULE OneDecision ----------------------------
(***************************************************************************)
(* What an approval promises (control-plane/src/policy/                    *)
(* approval-workflow.ts, its header), without records, stores, timers or   *)
(* requests: it is decided once, what it holds back runs at most once and  *)
(* only if it was granted, and whoever waits hears that one decision.      *)
(***************************************************************************)
EXTENDS Naturals

VARIABLES
    verdict,   \* "open", "yes" or "no"
    runs,      \* how often the command that was held back was sent
    answer     \* what the waiting side has heard

vars == <<verdict, runs, answer>>

\* Policy may decide as soon as it is asked.
Init == verdict \in {"open", "yes", "no"} /\ runs = 0 /\ answer = "none"

Decide ==
    /\ verdict = "open"
    /\ verdict' \in {"yes", "no"}
    /\ UNCHANGED <<runs, answer>>

Run ==
    /\ verdict = "yes" /\ runs = 0
    /\ runs' = 1
    /\ UNCHANGED <<verdict, answer>>

Answer ==
    /\ verdict # "open" /\ answer = "none"
    /\ answer' = verdict
    /\ UNCHANGED <<verdict, runs>>

Next == Decide \/ Run \/ Answer

Spec == Init /\ [][Next]_vars
=============================================================================
