----------------------------- MODULE TaskBoard -----------------------------
(***************************************************************************)
(* What the orchestrator promises about the order of a run's steps         *)
(* (control-plane/src/orchestration/multi-agent-orchestrator.ts, its       *)
(* header), without sessions, approvals, agents or locks.                  *)
(*                                                                         *)
(* A run is a board of tasks that need one another.  A task starts only    *)
(* when all it needs is done.  When one ends, the board may grow and its   *)
(* needs may be rewired, but nothing ever stops running after what it ran  *)
(* after before.                                                           *)
(***************************************************************************)
EXTENDS Naturals, Sequences

CONSTANT Boards     \* the boards a run may begin with

VARIABLE board      \* Seq([needs : SUBSET Nat, phase : Phases])

Phases == {"open", "started", "done", "dropped"}

Task == [needs : SUBSET (Nat \ {0}), phase : Phases]

Needs(b) == [t \in DOMAIN b |-> b[t].needs]

\* Task t runs after task u: whatever holds t and all that its members need
\* holds u.
RunsAfter(needs, t, u) ==
    \A S \in SUBSET DOMAIN needs : (t \in S /\ \A i \in S : needs[i] \subseteq S) => u \in S

Init == board \in Boards /\ \A t \in DOMAIN board : board[t].phase = "open"

\* A task starts; one that may not start at all is dropped in its place.
Begin(t) ==
    /\ board[t].phase = "open"
    /\ \A u \in board[t].needs : u \in DOMAIN board /\ board[u].phase = "done"
    /\ \E phase \in {"started", "dropped"} : board' = [board EXCEPT ![t].phase = phase]

\* The board after task t ended, with new open tasks and rewired needs.
End(t) ==
    /\ board[t].phase = "started"
    /\ board' \in Seq(Task) /\ Len(board') >= Len(board)
    /\ board'[t].phase \in {"done", "dropped"}
    /\ \A u \in DOMAIN board' \ {t} :
          board'[u].phase = IF u \in DOMAIN board THEN board[u].phase ELSE "open"
    /\ \A u \in DOMAIN board : board[u].phase # "open" => board'[u].needs = board[u].needs
    /\ \A u, v \in DOMAIN board :
          RunsAfter(Needs(board), u, v) => RunsAfter(Needs(board'), u, v)

\* The run is given up: what has not started never will.
GiveUp ==
    board' = [t \in DOMAIN board |->
                 IF board[t].phase = "open" THEN [board[t] EXCEPT !.phase = "dropped"]
                 ELSE board[t]]

Next == GiveUp \/ \E t \in DOMAIN board : Begin(t) \/ End(t)

Spec == Init /\ [][Next]_board
--------------------------------------------------------------------------
\* No task is under way, or done, before what it needs is done.
InOrder ==
    \A t \in DOMAIN board : board[t].phase \in {"started", "done"} =>
        \A u \in board[t].needs : u \in DOMAIN board /\ board[u].phase = "done"
=============================================================================
