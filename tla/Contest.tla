------------------------------ MODULE Contest ------------------------------
(***************************************************************************)
(* One contest of the arena: the same task for several vendors' agents,    *)
(* each in a worktree of its own; the results are evaluated on the         *)
(* machine, reviewed by an agent of another vendor, scored, and one of     *)
(* them may be applied (control-plane/src/arena/contest.ts, runtime.ts,    *)
(* review.ts).  Everything the service does to the record goes through     *)
(* update, one change at a time (serial.ts); between two updates it        *)
(* awaits the machine, and the other calls go on.                          *)
(*                                                                         *)
(* An action is one update, with the reads and replies it follows from.    *)
(* Entries are numbered in the order of the record.  Each has at most two  *)
(* sessions, its own and that of its review, so the checks of a session's  *)
(* id against the recorded one never fail here.  Of a session's record     *)
(* only matters whether it is over and whether it completed: one that      *)
(* waits for its approval is "open" as one that runs is.                   *)
(*                                                                         *)
(* Abstracted: which agent reviews (never the one that is reviewed),       *)
(* prompts, diffs, notes; ties between equal scores are broken by chance.  *)
(***************************************************************************)
EXTENDS Naturals, FiniteSets

CONSTANTS
    N,           \* how many agents compete
    Evaluations, \* what the evaluation of a worktree may find
    Scores,      \* what reviewers give, in tenths of a point
    MaxFaults    \* bound: how many rare things happen; each of them is a Fault below

ASSUME EntriesAssumption == N \in Nat /\ N >= 2
ASSUME EvaluationsAssumption == Evaluations \subseteq {"passed", "failed", "untested", "empty"}
ASSUME ScoresAssumption == Scores \subseteq 0 .. 100
ASSUME FaultsAssumption == MaxFaults \in Nat

Entries == 1 .. N
Sessions == Entries \X {"entry", "review"}
Work(e) == <<e, "entry">>
Review(e) == <<e, "review">>

VARIABLES
    \* the record
    state,    \* the contest's state
    winner,   \* winnerAgentId, or 0
    entry,    \* Entries -> [state, eval, review, score]
    named,    \* sessions whose id the record has
    \* calls under way in the control plane
    start,    \* Entries -> where startEntry is
    judge,    \* maybeJudge's loop: [pc, at, todo]
    grading,  \* entries whose end awaits the evaluation
    calls,    \* calls of maybeJudge and maybeDecide that are due
    hook,     \* sessions for which onSessionFinished was called
    granted,  \* held sessions whose start was sent and is yet to be recorded
    cancel,   \* cancel: [pc, stop]
    \* the sessions and the machine
    session,  \* Sessions -> what the session's record says
    gate,     \* sessions whose start an approval holds back
    agent,    \* sessions whose agent is at work
    \* bookkeeping
    faults,
    cut       \* history: something was lost that the contest waits for

record == <<state, winner, entry, named>>
asked == <<granted, cancel>>
running == <<start, judge, grading, calls, hook>>
machine == <<session, gate, agent>>
history == <<faults, cut>>
vars == <<record, running, asked, machine, history>>

Over == {"decided", "failed", "cancelled"}
EntryStates == {"preparing", "running", "evaluating", "reviewing", "done", "failed", "cancelled"}
ReviewStates == {"none", "skipped", "pending", "running", "done", "failed"}
Terminal == {"completed", "failed"}    \* "failed" is any end but completion

Fresh == [state |-> "preparing", eval |-> "none", review |-> "none", score |-> 0]

\* create: the record is saved, and every agent's startEntry, which finds it
\* running, awaits its worktree.
Init ==
    /\ state = "running" /\ winner = 0
    /\ entry = [e \in Entries |-> Fresh] /\ named = {}
    /\ start = [e \in Entries |-> "start"]
    /\ judge = [pc |-> "idle", at |-> 0, todo |-> {}]
    /\ grading = {} /\ calls = {} /\ hook = {}
    /\ granted = {} /\ cancel = [pc |-> "idle", stop |-> {}]
    /\ session = [s \in Sessions |-> "none"]
    /\ gate = {} /\ agent = {}
    /\ faults = 0 /\ cut = FALSE

SetEntry(e, s) == entry' = [entry EXCEPT ![e].state = s]
Fault == faults < MaxFaults /\ faults' = faults + 1
NoFault == faults' = faults

Done == {e \in Entries : entry[e].state = "done"}
Changed(e) == entry[e].eval # "empty"
Settled == \A e \in Entries : entry[e].state \in {"done", "failed"}
ToJudge == state = "running" /\ Settled
ToDecide == state = "judging" /\ \A e \in Entries : entry[e].state # "reviewing"

\* A call of maybeJudge or maybeDecide that finds nothing to do is left out.
Call(what) ==
    calls' = IF (what = "judge" /\ ToJudge') \/ (what = "decide" /\ ToDecide') THEN calls \cup {what} ELSE calls

--------------------------------------------------------------------------
(* Starting a session (runtime.ts, startSession), and its approval *)

\* What the call comes to: policy denies or the machine refuses ("refused"),
\* an approval holds it back ("held"), the agent starts ("sent"), or starts
\* and is not heard of in time ("late").  Bound: "held" and "late" are faults.
Starts(s, reply) ==
    /\ session' = [session EXCEPT ![s] = IF reply \in {"refused", "late"} THEN "failed" ELSE "open"]
    /\ gate' = IF reply = "held" THEN gate \cup {s} ELSE gate
    /\ agent' = IF reply \in {"sent", "late"} THEN agent \cup {s} ELSE agent
    /\ IF reply \in {"late", "held"} THEN Fault ELSE NoFault
    /\ UNCHANGED <<cut>>

\* Where the caller goes on: a start that was acknowledged, or held back by an
\* approval that was created, has yet to be recorded; the others are known at
\* once.
After(reply) == IF reply \in {"sent", "held"} THEN "sent" ELSE "noteFailed"

\* The record is set running, or waiting for the approval, whatever it has
\* become since: the approval may have been decided.
Recorded(s) == session' = [session EXCEPT ![s] = "open"]

\* The approval is granted and its start is sent, whatever the record says; then
\* the record is set running.  When the start does not reach the machine or is
\* refused there, nobody tells the contest (Fault).
Grant(s) ==
    /\ s \in gate /\ gate' = gate \ {s}
    /\ \/ /\ agent' = agent \cup {s} /\ granted' = granted \cup {s}
          /\ UNCHANGED <<session, history>>
       \/ /\ Fault /\ cut' = TRUE
          /\ session' \in {session, [session EXCEPT ![s] = "open"]}
          /\ UNCHANGED <<agent, granted>>
    /\ UNCHANGED <<record, running, cancel>>

GrantRecorded(s) ==
    /\ s \in granted /\ granted' = granted \ {s}
    /\ Recorded(s)
    /\ UNCHANGED <<record, running, cancel, gate, agent, history>>

\* It is denied or expires: only the expiry ends the session's record, and the
\* contest hears of neither.
Refuse(s) ==
    /\ s \in gate /\ gate' = gate \ {s}
    /\ session' \in {session, [session EXCEPT ![s] = "failed"]}
    /\ cut' = TRUE
    /\ UNCHANGED <<record, running, asked, agent, faults>>

--------------------------------------------------------------------------
(* startEntry *)

At(e, from, to) == start[e] = from /\ start' = [start EXCEPT ![e] = to]

StartEntry(e) ==
    \E reply \in {"refused", "held", "sent", "late"} :
        /\ At(e, "start", After(reply))
        /\ Starts(Work(e), reply)
        /\ UNCHANGED <<record, judge, grading, calls, hook, asked>>

EntryRecorded(e) ==
    /\ At(e, "sent", "note")
    /\ Recorded(Work(e))
    /\ UNCHANGED <<record, judge, grading, calls, hook, asked, gate, agent, history>>

\* Mutant: the state is set whatever has become of the entry since.
NoteAlways(e) ==
    /\ start[e] \in {"note", "noteFailed"}
    /\ start' = [start EXCEPT ![e] = "over"]
    /\ named' = named \cup {Work(e)}
    /\ SetEntry(e, IF start[e] = "noteFailed" THEN "failed" ELSE "running")
    /\ UNCHANGED <<state, winner, judge, grading, hook, asked, machine, history>>
    /\ Call("judge")

\* A fast agent can finish before this runs; its result stands.
Note(e) ==
    /\ start[e] \in {"note", "noteFailed"}
    /\ start' = [start EXCEPT ![e] = "over"]
    /\ named' = named \cup {Work(e)}
    /\ IF entry[e].state = "preparing"
       THEN SetEntry(e, IF start[e] = "noteFailed" THEN "failed" ELSE "running")
       ELSE UNCHANGED entry
    /\ UNCHANGED <<state, winner, judge, grading, hook, asked, machine, history>>
    /\ Call("judge")

\* The worktree cannot be made, or the start throws before it is sent.
StartThrows(e) ==
    /\ At(e, "start", "over")
    /\ SetEntry(e, "failed")
    /\ UNCHANGED <<state, winner, named, judge, grading, hook, asked, machine, history>>
    /\ Call("judge")

--------------------------------------------------------------------------
(* Ends of sessions *)

\* The agent ends, the tunnel server writes it into the session's record and
\* calls the contest.
Ends(s, exit) ==
    /\ agent' = agent \ {s}
    /\ session' = IF session[s] \in Terminal THEN session ELSE [session EXCEPT ![s] = exit]
    /\ hook' = hook \cup {s}

AgentEnds(s) ==
    /\ s \in agent
    /\ \E exit \in Terminal : Ends(s, exit)
    /\ UNCHANGED <<record, start, judge, grading, calls, asked, gate, history>>

\* Some adapters send two events for one end.
EndsAgain(s) ==
    /\ session[s] \in Terminal /\ s \notin agent \cup hook /\ Fault
    /\ hook' = hook \cup {s}
    /\ UNCHANGED <<record, start, judge, grading, calls, asked, machine, cut>>

\* The machine goes down: the recovery ends the record without an event.
LoseAgent(s) ==
    /\ s \in agent /\ Fault
    /\ agent' = agent \ {s}
    /\ session' = [session EXCEPT ![s] = "failed"]
    /\ cut' = TRUE
    /\ UNCHANGED <<record, running, asked, gate>>

\* onSessionFinished finds the record running again: a start was recorded
\* after the end.
Revived(s) ==
    /\ s \in hook /\ session[s] \notin Terminal
    /\ hook' = hook \ {s}
    /\ cut' = TRUE
    /\ UNCHANGED <<record, start, judge, grading, calls, asked, machine, faults>>

\* onEntryFinished, up to the evaluation it awaits.
EntryEnds(e) ==
    LET s == Work(e) ends == entry[e].state \in {"running", "preparing"}
        good == session[s] = "completed"
    IN /\ s \in hook /\ session[s] \in Terminal
       /\ hook' = hook \ {s}
       /\ IF ends
          THEN /\ SetEntry(e, IF good THEN "evaluating" ELSE "failed")
               /\ named' = named \cup {s}
          ELSE UNCHANGED <<entry, named>>
       /\ UNCHANGED <<state, winner, start, judge, asked, machine, history>>
       /\ IF ends /\ good
          THEN grading' = grading \cup {e} /\ UNCHANGED calls
          ELSE Call("judge") /\ UNCHANGED grading

\* The machine answers: its worktree was evaluated, or could not be.  The
\* entry's state is not looked at again.
Graded(e) ==
    /\ e \in grading
    /\ grading' = grading \ {e}
    /\ \/ \E found \in Evaluations :
             entry' = [entry EXCEPT ![e] = [@ EXCEPT !.state = "done", !.eval = found]]
       \/ SetEntry(e, "failed")
    /\ UNCHANGED <<state, winner, named, start, judge, hook, asked, machine, history>>
    /\ Call("judge")

\* onReviewFinished
ReviewEnds(e) ==
    LET s == Review(e)
    IN /\ s \in hook /\ session[s] \in Terminal
       /\ hook' = hook \ {s}
       /\ IF entry[e].review \in {"pending", "running"}
          THEN /\ named' = named \cup {s}
               /\ \/ /\ session[s] = "completed"
                     /\ \E points \in Scores :
                          entry' = [entry EXCEPT ![e] = [@ EXCEPT !.review = "done", !.score = points,
                                                                   !.state = "done"]]
                  \/ entry' = [entry EXCEPT ![e] = [@ EXCEPT !.review = "failed", !.state = "done"]]
          ELSE UNCHANGED <<entry, named>>
       /\ UNCHANGED <<state, winner, start, judge, grading, asked, machine, history>>
       /\ Call("decide")

--------------------------------------------------------------------------
(* Judging and deciding *)

\* Mutant: an entry only counts as under review once its review was started.
JudgeEarly ==
    /\ "judge" \in calls
    /\ calls' = calls \ {"judge"}
    /\ IF ToJudge
       THEN /\ state' = IF Done = {} THEN "failed" ELSE "judging"
            /\ entry' = [e \in Entries |->
                           IF e \in Done THEN [entry[e] EXCEPT !.review = IF Changed(e) THEN "pending" ELSE "skipped"]
                           ELSE entry[e]]
            /\ judge' = IF Done = {} THEN judge
                        ELSE [pc |-> "start", at |-> 0, todo |-> {e \in Done : Changed(e)}]
       ELSE UNCHANGED <<state, entry, judge>>
    /\ UNCHANGED <<winner, named, start, grading, hook, asked, machine, history>>

\* maybeJudge: once every entry has a result, those with a change are reviewed.
MaybeJudge ==
    /\ "judge" \in calls
    /\ calls' = calls \ {"judge"}
    /\ IF ToJudge
       THEN /\ state' = IF Done = {} THEN "failed" ELSE "judging"
            /\ entry' = [e \in Entries |->
                           IF e \notin Done THEN entry[e]
                           ELSE IF Changed(e)
                                THEN [entry[e] EXCEPT !.state = "reviewing", !.review = "pending"]
                                ELSE [entry[e] EXCEPT !.review = "skipped"]]
            /\ judge' = IF Done = {} THEN judge
                        ELSE [pc |-> "start", at |-> 0, todo |-> {e \in Done : Changed(e)}]
       ELSE UNCHANGED <<state, entry, judge>>
    /\ UNCHANGED <<winner, named, start, grading, hook, asked, machine, history>>

\* Mutant: the loop forgets whose review it started.
StartReviewUnnamed ==
    /\ judge.pc = "start"
    /\ \E e \in judge.todo, reply \in {"refused", "held", "sent", "late"} :
         /\ \A other \in judge.todo : e <= other
         /\ judge' = [judge EXCEPT !.pc = After(reply), !.todo = @ \ {e}]
         /\ Starts(Review(e), reply)
    /\ UNCHANGED <<record, start, grading, calls, hook, asked>>

\* Its loop starts the reviews one after another, in the order of the record.
StartReview ==
    /\ judge.pc = "start"
    /\ \E e \in judge.todo, reply \in {"refused", "held", "sent", "late"} :
         /\ \A other \in judge.todo : e <= other
         /\ judge' = [pc |-> After(reply), at |-> e, todo |-> judge.todo \ {e}]
         /\ Starts(Review(e), reply)
    /\ UNCHANGED <<record, start, grading, calls, hook, asked>>

ReviewRecorded ==
    /\ judge.pc = "sent"
    /\ judge' = [judge EXCEPT !.pc = "note"]
    /\ Recorded(Review(judge.at))
    /\ UNCHANGED <<record, start, grading, calls, hook, asked, gate, agent, history>>

NoteReview ==
    /\ judge.pc \in {"note", "noteFailed"}
    /\ judge' = [judge EXCEPT !.pc = "start"]
    /\ named' = named \cup {Review(judge.at)}
    /\ entry' = IF entry[judge.at].review # "pending" THEN entry
                ELSE IF judge.pc = "note" THEN [entry EXCEPT ![judge.at].review = "running"]
                ELSE [entry EXCEPT ![judge.at] = [@ EXCEPT !.review = "failed", !.state = "done"]]
    /\ UNCHANGED <<state, winner, start, grading, calls, hook, asked, machine, history>>

\* Mutant: the loop does not ask for a decision when it is through.
JudgeEndsSilent ==
    /\ judge.pc = "start" /\ judge.todo = {}
    /\ judge' = [judge EXCEPT !.pc = "idle"]
    /\ UNCHANGED <<record, start, grading, calls, hook, asked, machine, history>>

JudgeEnds ==
    /\ judge.pc = "start" /\ judge.todo = {}
    /\ judge' = [judge EXCEPT !.pc = "idle"]
    /\ UNCHANGED <<record, start, grading, hook, asked, machine, history>>
    /\ Call("decide")

\* A start throws: the reviews that were to follow are never started.
JudgeThrows ==
    /\ judge.pc = "start" /\ judge.todo # {} /\ Fault
    /\ judge' = [judge EXCEPT !.pc = "idle", !.todo = {}]
    /\ cut' = TRUE
    /\ UNCHANGED <<record, start, grading, calls, hook, asked, machine>>

\* scoreEntry: 60 points for the tests and 40 for the review; what could not
\* be had counts half, and an entry without a change has nothing.
TestPoints(e) == CASE entry[e].eval = "passed" -> 60 [] entry[e].eval = "untested" -> 30 [] OTHER -> 0

ReviewPoints(e) ==
    IF ~Changed(e) THEN 0
    ELSE IF entry[e].review = "done" THEN (4 * entry[e].score + 5) \div 10 ELSE 20

Total(e) == TestPoints(e) + ReviewPoints(e)

Usable == {e \in Done : Changed(e)}
Best == {e \in Usable : \A other \in Usable : Total(other) <= Total(e)}

\* maybeDecide
MaybeDecide ==
    /\ "decide" \in calls
    /\ calls' = calls \ {"decide"}
    /\ IF ToDecide
       THEN /\ state' = "decided"
            /\ winner' \in IF Usable = {} THEN {0} ELSE Best
       ELSE UNCHANGED <<state, winner>>
    /\ UNCHANGED <<entry, named, start, judge, grading, hook, asked, machine, history>>

--------------------------------------------------------------------------
(* What the user asks for *)

\* cancel stops the sessions that the record names, ...
CancelLook ==
    /\ cancel.pc = "idle" /\ Fault
    /\ cancel' = [pc |-> "stop", stop |-> named]
    /\ UNCHANGED <<record, running, granted, machine, cut>>

\* (in the order of the record, an entry's before its review's)
NotAfter(s, other) == s[1] < other[1] \/ (s[1] = other[1] /\ (s[2] = "entry" \/ s = other))

\* (stopSession: unless it is over, whether or not the machine hears of it)
CancelStop(s) ==
    /\ cancel.pc = "stop" /\ s \in cancel.stop /\ \A other \in cancel.stop : NotAfter(s, other)
    /\ cancel' = [cancel EXCEPT !.stop = @ \ {s}]
    /\ \/ /\ session[s] \in Terminal
          /\ UNCHANGED <<session, agent, hook>>
       \/ /\ session[s] \notin Terminal /\ s \in agent
          /\ Ends(s, "failed")
       \/ /\ session[s] \notin Terminal
          /\ session' = [session EXCEPT ![s] = "failed"]
          /\ UNCHANGED <<agent, hook>>
    /\ UNCHANGED <<record, start, judge, grading, calls, granted, gate, history>>

\* ... and marks what is not over.
CancelMark ==
    /\ cancel.pc = "stop" /\ cancel.stop = {}
    /\ cancel' = [cancel EXCEPT !.pc = "idle"]
    /\ state' = IF state \in {"running", "judging"} THEN "cancelled" ELSE state
    /\ entry' = [e \in Entries |-> IF entry[e].state \in {"done", "failed"} THEN entry[e]
                                   ELSE [entry[e] EXCEPT !.state = "cancelled"]]
    /\ UNCHANGED <<winner, named, running, granted, machine, history>>

\* The control plane restarts: the calls under way are gone.  What they were to
\* do is lost unless there was nothing left to do.
Restart ==
    /\ Fault
    /\ start' = [e \in Entries |-> "over"]
    /\ judge' = [pc |-> "idle", at |-> 0, todo |-> {}]
    /\ grading' = {} /\ calls' = {} /\ hook' = {}
    /\ granted' = {} /\ cancel' = [pc |-> "idle", stop |-> {}]
    /\ cut' = (cut \/ judge.pc # "idle" \/ grading # {} \/ calls # {} \/ hook # {}
                   \/ \E e \in Entries : start[e] # "over")
    /\ UNCHANGED <<record, machine>>

--------------------------------------------------------------------------

StartSteps(e) == StartEntry(e) \/ EntryRecorded(e) \/ Note(e) \/ StartThrows(e)
JudgeSteps == StartReview \/ ReviewRecorded \/ NoteReview \/ JudgeEnds \/ JudgeThrows
HookSteps(e) == EntryEnds(e) \/ ReviewEnds(e) \/ Revived(Work(e)) \/ Revived(Review(e))
Answered(s) == Grant(s) \/ Refuse(s) \/ GrantRecorded(s)
UserSteps ==
    CancelLook \/ (\E s \in Sessions : CancelStop(s)) \/ CancelMark

Next ==
    \/ \E e \in Entries : StartSteps(e) \/ HookSteps(e) \/ Graded(e)
    \/ JudgeSteps \/ MaybeJudge \/ MaybeDecide
    \/ \E s \in Sessions : AgentEnds(s) \/ EndsAgain(s) \/ LoseAgent(s) \/ Answered(s)
    \/ UserSteps \/ Restart

Spec == Init /\ [][Next]_vars

\* Awaited calls answer and what is due is run; agents end, their events are
\* handled, and approvals are decided or expire.  Users need not do anything.
Fairness ==
    /\ \A e \in Entries : WF_vars(StartSteps(e)) /\ WF_vars(HookSteps(e)) /\ WF_vars(Graded(e))
    /\ WF_vars(JudgeSteps) /\ WF_vars(MaybeJudge) /\ WF_vars(MaybeDecide)
    /\ \A s \in Sessions : WF_vars(AgentEnds(s)) /\ WF_vars(Answered(s))

FairSpec == Spec /\ Fairness

--------------------------------------------------------------------------
(* Properties *)

EntryRecords == [state : EntryStates, eval : Evaluations \cup {"none"}, review : ReviewStates,
                 score : Scores \cup {0}]
JudgeRecords == [pc : {"idle", "start", "sent", "note", "noteFailed"}, at : 0 .. N, todo : SUBSET Entries]

\* The record and the calls under way stay within their types.
TypeOK ==
    /\ state \in {"running", "judging"} \cup Over
    /\ winner \in 0 .. N
    /\ entry \in [Entries -> EntryRecords]
    /\ named \in SUBSET Sessions
    /\ start \in [Entries -> {"start", "sent", "note", "noteFailed", "over"}]
    /\ judge \in JudgeRecords
    /\ judge.pc \notin {"idle", "start"} => judge.at # 0
    /\ grading \in SUBSET Entries /\ calls \in SUBSET {"judge", "decide"} /\ hook \in SUBSET Sessions
    /\ granted \in SUBSET Sessions /\ cancel \in [pc : {"idle", "stop"}, stop : SUBSET Sessions]
    /\ session \in [Sessions -> {"none", "open"} \cup Terminal]
    /\ gate \in SUBSET Sessions /\ agent \in SUBSET Sessions
    /\ faults \in 0 .. MaxFaults /\ cut \in BOOLEAN

\* A contest is decided on all there is: every entry has its result, every
\* change was reviewed or its reviewer failed, the winner has the most points,
\* and no review lets a change that breaks the tests win over one that passes
\* them (maybeJudge, maybeDecide, scoreEntry).
VerdictIsSound ==
    state = "decided" =>
        /\ \A e \in Entries :
              \/ entry[e].state = "failed" /\ entry[e].eval = "none"
              \/ /\ entry[e].state = "done"
                 /\ entry[e].review \in (IF Changed(e) THEN {"done", "failed"} ELSE {"skipped"})
        /\ winner = 0 <=> Usable = {}
        /\ winner # 0 =>
              /\ winner \in Usable /\ \A e \in Usable : Total(e) <= Total(winner)
              /\ entry[winner].eval = "failed" => \A e \in Usable : entry[e].eval # "passed"

\* What is over stays as it is, whatever comes late or twice: the outcome, the
\* results it rests on (the guards of every update).
DecisionStands ==
    [][/\ state \in Over => state' = state /\ winner' = winner
       /\ state \in {"decided", "failed"} => entry' = entry]_vars

\* Every contest is decided, fails or is cancelled, unless something it waits
\* for was lost: a start that was not approved, a machine that went down, an
\* end that a late record of the start hid, a restart, a review loop that threw.
ContestEnds == <>(state \in Over \/ cut)
=============================================================================
