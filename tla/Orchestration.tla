--------------------------- MODULE Orchestration ---------------------------
(***************************************************************************)
(* One run of the multi-agent orchestrator of the control plane            *)
(* (control-plane/src/orchestration/multi-agent-orchestrator.ts), with the *)
(* sessions it starts, the approvals that hold them back, and the agents   *)
(* on the user's machine.                                                  *)
(*                                                                         *)
(* A run is a list of steps that depend on one another.  `advance` and     *)
(* `cancel` are serialised per run by a promise chain (withLock), so at    *)
(* most one of them works at a time: that one is the variable `worker`.    *)
(* It works on its own copy of the plan, with an await between any two     *)
(* steps, and writes the copy back at the end (updateRun), as in the       *)
(* Firestore store; the in-memory store hands out the record itself, and   *)
(* differs after a throw only.  Everything else -- events of agents,       *)
(* decisions on approvals, the REST API, the recovery after a restart --   *)
(* interleaves with it at those awaits.                                    *)
(*                                                                         *)
(* Abstracted: prompts, titles, risk scores, timestamps and step ids (a    *)
(* step is its position in the plan).  A session record whose start never  *)
(* left the control plane is recorded failed and never looked at again: it *)
(* is not represented.  An approval is decided once, as the in-memory      *)
(* store sees to; that Firestore may let two decisions through is in       *)
(* Approvals.                                                              *)
(***************************************************************************)
EXTENDS Integers, Sequences, FiniteSets

CONSTANTS
    UserPlans,      \* the step lists a user may submit: sequences of [kind, deps]
    PlannerReplies, \* the step lists a planner agent may reply with
    MaxFix,         \* run.maxFixAttempts, as clampAttempts leaves it
    MaxSessions,    \* bound: sessions the run may create
    MaxFaults,      \* bound: interruptions, and sessions ended from outside
    Policy,         \* what policy may decide on a step's start
    AdoptsIds,      \* whether the gateway runs a session under the record's id
    Disturbances    \* what the environment may do, see below

(***************************************************************************)
(* The disturbances an instance may allow:                                 *)
(*   offline   no machine is eligible, or a command is not delivered       *)
(*   refuse    the gateway acknowledges a start and starts nothing         *)
(*   overtake  what a sent command or a created approval causes is handled *)
(*             before the sender has recorded that it sent or created it   *)
(*   late      a decision comes after its window and before the timer      *)
(*   sweep     a lock, a revoked device or the kill switch supersedes what *)
(*             is pending                                                  *)
(*   lose      a machine restarts and its agents are gone                  *)
(*   stop      sessions end outside the orchestrator: the REST cancel, the *)
(*             kill switch, or the recovery after a restart                *)
(*   cancel    the user cancels the run                                    *)
(*   crash     the control plane restarts, or an awaited call throws       *)
(***************************************************************************)
\* The gateway runs a session under the id it finds in config.metadata and
\* mints one of its own when there is none (createSession); the handlers and
\* commands of the control plane know the record's id only.
ASSUME IdsAssumption == AdoptsIds \in BOOLEAN

AllDisturbances ==
    {"offline", "refuse", "overtake", "late", "sweep", "lose", "stop", "cancel", "crash"}

Kinds == {"planning", "implementation", "test", "security_review", "general"}
Checks == {"test", "security_review"}
Writers == {"implementation", "general"}
StepStates == {"pending", "blocked", "running", "completed", "failed", "skipped"}
Origins == {"user", "planner", "guarantee", "test_fix", "review_fix"}
Verdicts == {"none", "pass", "fail"}
RunStates == {"planned", "running", "waiting_for_approval", "completed", "failed", "cancelled"}
DoneRun == {"completed", "failed", "cancelled"}
Ended == {"completed", "failed", "cancelled", "crashed"}
SessionStates == {"absent", "initializing", "waiting_for_approval", "running"} \cup Ended
Decisions == {"none", "pending", "granted", "refused", "dropped"}

SessionIds == 1 .. MaxSessions
Inputs == [kind : Kinds, deps : SUBSET (Nat \ {0})]
Step == [kind : Kinds, deps : SUBSET (Nat \ {0}), state : StepStates,
         session : 0 .. MaxSessions, attempt : Nat \ {0}, verdict : Verdicts,
         origin : Origins]

ASSUME PlansAssumption == UserPlans \subseteq Seq(Inputs) /\ PlannerReplies \subseteq Seq(Inputs)
ASSUME BoundsAssumption == MaxFix \in 0 .. 5 /\ MaxSessions \in Nat /\ MaxFaults \in Nat
ASSUME PolicyAssumption == Policy \subseteq {"allow", "require_approval", "deny"}
ASSUME DisturbancesAssumption == Disturbances \subseteq AllDisturbances

VARIABLES
    run,           \* the stored run: [state, plan]
    worker,        \* the advance or cancel that holds the run's lock
    wake,          \* an advance is queued behind the lock
    session,       \* SessionIds -> state of the session record
    role,          \* SessionIds -> the task kind its prompt is written for
    approval,      \* SessionIds -> decision on the approval of its start
    followUp,      \* SessionIds -> what a decided approval has yet to do
    agent,         \* SessionIds -> the agent process on the machine
    inbox,         \* SessionIds -> events of the agent not yet handled
    report,        \* SessionIds -> how the agent ended and what it said
    faults         \* interruptions, and sessions ended from outside, so far

envVars == <<agent, inbox, report>>
gateVars == <<approval, followUp>>
vars == <<run, worker, wake, session, role, approval, followUp, agent,
          inbox, report, faults>>

--------------------------------------------------------------------------
(* Plans *)

NewStep(kind, deps, origin, attempt) ==
    [kind |-> kind, deps |-> deps, state |-> "pending", session |-> 0,
     attempt |-> attempt, verdict |-> "none", origin |-> origin]

AsPlan(inputs) ==
    [i \in DOMAIN inputs |-> NewStep(inputs[i].kind, inputs[i].deps, "user", 1)]

\* Every set of steps has one that depends on no other step of the set.
ValidDag(plan) ==
    /\ \A i \in DOMAIN plan : plan[i].deps \subseteq (DOMAIN plan) \ {i}
    /\ \A S \in (SUBSET DOMAIN plan) \ {{}} : \E i \in S : plan[i].deps \cap S = {}

OfKind(plan, from, kind) == {i \in from .. Len(plan) : plan[i].kind = kind}

\* The planner's steps run after the planning step p.
PlannedSteps(plan, p, reply) ==
    plan \o [i \in DOMAIN reply |->
                NewStep(reply[i].kind,
                        IF reply[i].deps = {} THEN {p}
                        ELSE {Len(plan) + d : d \in reply[i].deps},
                        "planner", 1)]

\* A plan that changes code gets the check it forgot, after what it checks.
Guarantee(plan, first, kind, after) ==
    IF OfKind(plan, first, "implementation") = {} \/ OfKind(plan, first, kind) # {}
    THEN plan
    ELSE Append(plan, NewStep(kind, after, "guarantee", 1))

ExpandPlan(plan, p, reply) ==
    LET first == Len(plan) + 1
        planned == PlannedSteps(plan, p, reply)
        builds == OfKind(planned, first, "implementation")
        tested == Guarantee(planned, first, "test", builds)
    IN Guarantee(tested, first, "security_review",
                 builds \cup OfKind(tested, first, "test"))

\* Mutant: what waited for the failed check is not rewired.
SendBackUnwired(plan, c) ==
    LET n == Len(plan)
        fixOrigin == IF plan[c].kind = "test" THEN "test_fix" ELSE "review_fix"
    IN plan \o <<NewStep("implementation", {c}, fixOrigin, plan[c].attempt),
                 NewStep(plan[c].kind, {n + 1}, fixOrigin, plan[c].attempt + 1)>>

\* Mutant: the re-check does not wait for the fix.
SendBackAtOnce(plan, c) ==
    LET n == Len(plan)
        Rewired(deps) == IF c \in deps THEN (deps \ {c}) \cup {n + 2} ELSE deps
        fixOrigin == IF plan[c].kind = "test" THEN "test_fix" ELSE "review_fix"
    IN [i \in 1 .. n |-> [plan[i] EXCEPT !.deps = Rewired(@)]]
       \o <<NewStep("implementation", {c}, fixOrigin, plan[c].attempt),
            NewStep(plan[c].kind, {c}, fixOrigin, plan[c].attempt + 1)>>

\* A failed check c sends work back: a fix, then a re-check, and whatever
\* waited for c waits for the re-check instead.
SendBack(plan, c) ==
    LET n == Len(plan)
        Rewired(deps) == IF c \in deps THEN (deps \ {c}) \cup {n + 2} ELSE deps
        fixOrigin == IF plan[c].kind = "test" THEN "test_fix" ELSE "review_fix"
    IN [i \in 1 .. n + 2 |->
          IF i <= n THEN [plan[i] EXCEPT !.deps = Rewired(@)]
          ELSE IF i = n + 1
               THEN NewStep("implementation", {c}, fixOrigin, plan[c].attempt)
               ELSE NewStep(plan[c].kind, {n + 1}, fixOrigin, plan[c].attempt + 1)]

SetState(plan, i, state) == [plan EXCEPT ![i].state = state]
Assign(plan, i, s) == [plan EXCEPT ![i].session = s]

Least(S) == CHOOSE i \in S : \A j \in S : i <= j

\* Mutant: one attempt too many.
OutOfAttemptsLate(step) == step.attempt > MaxFix + 1

OutOfAttempts(step) == step.attempt > MaxFix

\* Step i completed; a check's verdict is kept.
Concluded(plan, i, verdict) ==
    [plan EXCEPT ![i].state = "completed",
                 ![i].verdict = IF plan[i].kind \in Checks THEN verdict ELSE "none"]

\* A planning step's reply becomes the rest of the plan, if it can be read and
\* is a plan; if not the step failed after all.
AfterPlanning(plan, i, reply) ==
    IF reply # <<>> /\ ValidDag(ExpandPlan(plan, i, reply))
    THEN ExpandPlan(plan, i, reply)
    ELSE SetState(plan, i, "failed")

Outcome(plan, error) == [plan |-> plan, error |-> error]

\* A check must come to a verdict; one that failed sends work back, up to the
\* limit, which stops the run (run.error).
AfterCheck(plan, i, verdict) ==
    IF verdict = "pass" THEN Outcome(plan, FALSE)
    ELSE IF verdict = "none" THEN Outcome(SetState(plan, i, "failed"), FALSE)
    ELSE IF OutOfAttempts(plan[i]) THEN Outcome(plan, TRUE)
    ELSE Outcome(SendBack(plan, i), FALSE)

\* What a session's ending does to its step i and to the plan: finishStep.
Finished(plan, i, state, said) ==
    LET ended == Concluded(plan, i, said.verdict)
    IN IF state # "completed" THEN Outcome(SetState(plan, i, "failed"), FALSE)
       ELSE IF plan[i].kind = "planning" THEN Outcome(AfterPlanning(ended, i, said.reply), FALSE)
       ELSE IF plan[i].kind \in Checks THEN AfterCheck(ended, i, said.verdict)
       ELSE Outcome(ended, FALSE)

\* Mutant: a builder that waits for its approval does not hold the tree.
OccupiedRunning(plan) ==
    {i \in DOMAIN plan : plan[i].kind \in Writers /\ plan[i].state = "running"}

\* The builder steps that hold the working tree.
Occupied(plan) ==
    {i \in DOMAIN plan : /\ plan[i].kind \in Writers
                         /\ \/ plan[i].state = "running"
                            \/ plan[i].state = "blocked" /\ plan[i].session # 0}

\* Mutant: a step that waits for its approval is tried again too.
RetriedAll(plan) ==
    [i \in DOMAIN plan |->
        IF plan[i].state = "blocked" THEN [plan[i] EXCEPT !.state = "pending"] ELSE plan[i]]

\* Steps that could not start last time are tried again.
Retried(plan) ==
    [i \in DOMAIN plan |->
        IF plan[i].state = "blocked" /\ plan[i].session = 0
        THEN [plan[i] EXCEPT !.state = "pending"] ELSE plan[i]]

\* Mutant: a failed dependency counts as settled.
DepsSettled(plan, i) == \A d \in plan[i].deps : plan[d].state \in {"completed", "failed"}

DepsCompleted(plan, i) == \A d \in plan[i].deps : plan[d].state = "completed"

RunState(plan, error) ==
    LET Some(state) == \E i \in DOMAIN plan : plan[i].state = state
    IN CASE error -> "failed"
         [] ~error /\ \A i \in DOMAIN plan : plan[i].state \in {"completed", "skipped"} -> "completed"
         [] ~error /\ Some("failed") -> "failed"
         [] OTHER -> IF \E i \in DOMAIN plan : plan[i].state = "blocked" /\ plan[i].session # 0
                     THEN "waiting_for_approval" ELSE "running"

--------------------------------------------------------------------------
Idle == [pc |-> "idle", at |-> 1, plan |-> <<>>, error |-> FALSE, busy |-> FALSE]

Silent == [verdict |-> "none", reply |-> <<>>, exit |-> "failed"]

Init ==
    /\ \E inputs \in {u \in UserPlans : ValidDag(AsPlan(u))} :
          run = [state |-> "planned", plan |-> AsPlan(inputs)]
    /\ worker = Idle
    /\ wake = TRUE
    /\ session = [s \in SessionIds |-> "absent"]
    /\ role = [s \in SessionIds |-> "general"]
    /\ approval = [s \in SessionIds |-> "none"]
    /\ followUp = [s \in SessionIds |-> "none"]
    /\ agent = [s \in SessionIds |-> "none"]
    /\ inbox = [s \in SessionIds |-> {}]
    /\ report = [s \in SessionIds |-> Silent]
    /\ faults = 0

--------------------------------------------------------------------------
(* advanceNow: reconcile, then dispatch, then store *)

\* Mutant: a run that is done is advanced again.
TakeAdvanceAlways ==
    /\ worker.pc = "idle"
    /\ wake' = FALSE
    /\ worker' = [Idle EXCEPT !.pc = "reconcile", !.plan = run.plan]
    /\ UNCHANGED <<run, session, role, gateVars, envVars, faults>>

TakeAdvance ==
    /\ worker.pc = "idle"
    /\ wake' = FALSE
    /\ worker' = IF run.state \in DoneRun THEN Idle
                 ELSE [Idle EXCEPT !.pc = "reconcile", !.plan = run.plan]
    /\ UNCHANGED <<run, session, role, gateVars, envVars, faults>>

\* An advance that was queued, or one that a user asks for
\* (POST /orchestrations/:id/advance); a request that waits for the lock is
\* one that comes when the lock is free.
QueuedAdvance == wake /\ TakeAdvance
RequestedAdvance == ~wake /\ TakeAdvance

\* Steps with a session, from position `at` on.
Dispatched(plan, at) ==
    {i \in DOMAIN plan : i >= at /\ plan[i].session # 0 /\ plan[i].state \in {"running", "blocked"}}

\* The session has not ended: a step waiting for its approval keeps waiting
\* until its session runs.
ReconcileOpen ==
    /\ worker.pc = "reconcile"
    /\ Dispatched(worker.plan, worker.at) # {}
    /\ LET i == Least(Dispatched(worker.plan, worker.at))
           state == session[worker.plan[i].session]
       IN /\ state \notin Ended
          /\ worker' = [worker EXCEPT
                 !.at = i + 1,
                 !.plan = IF state = "running" THEN SetState(@, i, "running") ELSE @]
    /\ UNCHANGED <<run, wake, session, role, gateVars, envVars, faults>>

ReconcileEnded ==
    /\ worker.pc = "reconcile"
    /\ Dispatched(worker.plan, worker.at) # {}
    /\ LET i == Least(Dispatched(worker.plan, worker.at))
           s == worker.plan[i].session
           result == Finished(worker.plan, i, session[s], report[s])
       IN /\ session[s] \in Ended
          /\ worker' = [worker EXCEPT !.at = i + 1, !.plan = result.plan, !.error = result.error,
                                      !.pc = IF result.error THEN "store" ELSE @]
    /\ UNCHANGED <<run, wake, session, role, gateVars, envVars, faults>>

ReconcileDone ==
    /\ worker.pc = "reconcile"
    /\ Dispatched(worker.plan, worker.at) = {}
    /\ LET plan == Retried(worker.plan)
       IN worker' = [worker EXCEPT !.pc = "dispatch", !.at = 1, !.plan = plan,
                                   !.busy = Occupied(plan) # {}]
    /\ UNCHANGED <<run, wake, session, role, gateVars, envVars, faults>>

\* Builders take turns: while one is at work the others are passed over.
Ready(w) ==
    {i \in DOMAIN w.plan : /\ i >= w.at
                           /\ w.plan[i].state = "pending"
                           /\ DepsCompleted(w.plan, i)
                           /\ ~(w.busy /\ w.plan[i].kind \in Writers)}

\* Mutant: the builder that is being started is not counted as busy.
HoldsBefore(w, i) == w.busy

Holds(w, i) == w.busy \/ w.plan[i].kind \in Writers

\* No eligible agent, or the organization's budget is spent, or the start
\* could not be delivered (then the step forgets its session).
DispatchBlocked ==
    /\ worker.pc = "dispatch" /\ Ready(worker) # {}
    /\ "offline" \in Disturbances
    /\ LET i == Least(Ready(worker))
       IN worker' = [worker EXCEPT !.at = i + 1, !.plan = SetState(@, i, "blocked")]
    /\ UNCHANGED <<run, wake, session, role, gateVars, envVars, faults>>

Unused == {s \in SessionIds : session[s] = "absent"}

\* Policy denies the step.
DispatchDenied ==
    /\ "deny" \in Policy
    /\ worker.pc = "dispatch" /\ Ready(worker) # {} /\ Unused # {}
    /\ LET i == Least(Ready(worker))
           s == Least(Unused)
       IN /\ worker' = [worker EXCEPT !.at = i + 1, !.plan = SetState(Assign(@, i, s), i, "failed")]
          /\ session' = [session EXCEPT ![s] = "failed"]
          /\ role' = [role EXCEPT ![s] = worker.plan[i].kind]
    /\ UNCHANGED <<run, wake, gateVars, envVars, faults>>

\* Policy wants an approval: it is created, and visible, before the step and
\* the session say that they wait for it.
DispatchAsk ==
    /\ "require_approval" \in Policy
    /\ worker.pc = "dispatch" /\ Ready(worker) # {} /\ Unused # {}
    /\ LET i == Least(Ready(worker))
           s == Least(Unused)
       IN /\ worker' = [worker EXCEPT !.pc = "ask", !.at = i, !.plan = Assign(@, i, s),
                                      !.busy = Holds(worker, i)]
          /\ session' = [session EXCEPT ![s] = "initializing"]
          /\ role' = [role EXCEPT ![s] = worker.plan[i].kind]
          /\ approval' = [approval EXCEPT ![s] = "pending"]
    /\ UNCHANGED <<run, wake, followUp, envVars, faults>>

\* Mutant: the session is given the state of the step.
AskRecordedMixed ==
    /\ worker.pc = "ask"
    /\ LET i == worker.at
       IN /\ worker' = [worker EXCEPT !.pc = "dispatch", !.at = i + 1, !.plan = SetState(@, i, "blocked")]
          /\ session' = [session EXCEPT ![worker.plan[i].session] = "blocked"]
    /\ UNCHANGED <<run, wake, role, gateVars, envVars, faults>>

AskRecorded ==
    /\ worker.pc = "ask"
    /\ LET i == worker.at
       IN /\ worker' = [worker EXCEPT !.pc = "dispatch", !.at = i + 1, !.plan = SetState(@, i, "blocked")]
          /\ session' = [session EXCEPT ![worker.plan[i].session] = "waiting_for_approval"]
    /\ UNCHANGED <<run, wake, role, gateVars, envVars, faults>>

\* What a delivered session.start does on the machine: the agent starts and
\* says so, or the gateway refuses and no event ever follows.
StartAgent(s) ==
    \/ /\ agent' = [agent EXCEPT ![s] = "live"]
       /\ inbox' = [inbox EXCEPT ![s] = @ \cup {"started"}]
       /\ UNCHANGED report
    \/ /\ "refuse" \in Disturbances
       /\ UNCHANGED envVars

DispatchSend ==
    /\ "allow" \in Policy
    /\ worker.pc = "dispatch" /\ Ready(worker) # {} /\ Unused # {}
    /\ LET i == Least(Ready(worker))
           s == Least(Unused)
       IN /\ worker' = [worker EXCEPT !.pc = "start", !.at = i, !.plan = Assign(@, i, s),
                                      !.busy = Holds(worker, i)]
          /\ session' = [session EXCEPT ![s] = "initializing"]
          /\ role' = [role EXCEPT ![s] = worker.plan[i].kind]
          /\ StartAgent(s)
    /\ UNCHANGED <<run, wake, gateVars, faults>>

\* Delivery is enough: the reply to the start is not looked at.
StartRecorded ==
    /\ worker.pc = "start"
    /\ LET i == worker.at
       IN /\ worker' = [worker EXCEPT !.pc = "dispatch", !.at = i + 1, !.plan = SetState(@, i, "running")]
          /\ session' = [session EXCEPT ![worker.plan[i].session] = "running"]
    /\ UNCHANGED <<run, wake, role, gateVars, envVars, faults>>

StoreRun ==
    /\ \/ worker.pc = "store"
       \/ worker.pc = "dispatch" /\ Ready(worker) = {}
    /\ run' = [state |-> RunState(worker.plan, worker.error), plan |-> worker.plan]
    /\ worker' = Idle
    /\ UNCHANGED <<wake, session, role, gateVars, envVars, faults>>

--------------------------------------------------------------------------
(* cancelNow *)

Unstarted(step) == step.state = "pending" \/ (step.state = "blocked" /\ step.session = 0)

\* POST /orchestrations/:id/cancel
TakeCancel ==
    /\ "cancel" \in Disturbances
    /\ worker.pc = "idle"
    /\ worker' = IF run.state \in DoneRun THEN Idle
                 ELSE [Idle EXCEPT !.pc = "cancel",
                         !.plan = [i \in DOMAIN run.plan |->
                                     IF Unstarted(run.plan[i])
                                     THEN [run.plan[i] EXCEPT !.state = "skipped"]
                                     ELSE run.plan[i]]]
    /\ UNCHANGED <<run, wake, session, role, gateVars, envVars, faults>>

\* The step's session ended by itself.
CancelEnded ==
    /\ worker.pc = "cancel"
    /\ Dispatched(worker.plan, worker.at) # {}
    /\ LET i == Least(Dispatched(worker.plan, worker.at))
       IN /\ session[worker.plan[i].session] \in Ended
          /\ worker' = [worker EXCEPT !.at = i + 1, !.plan = SetState(@, i, "failed")]
    /\ UNCHANGED <<run, wake, session, role, gateVars, envVars, faults>>

\* What session.stop does when it is delivered: the agent, if there is one,
\* is aborted, and reports that it was.
StopAgent(s) ==
    \/ /\ agent[s] = "live" /\ AdoptsIds
       /\ agent' = [agent EXCEPT ![s] = "gone"]
       /\ report' = [report EXCEPT ![s] = [Silent EXCEPT !.exit = "cancelled"]]
       /\ inbox' = [inbox EXCEPT ![s] = @ \cup {"ended"}]
    \/ /\ agent[s] # "live" \/ ~AdoptsIds \/ "offline" \in Disturbances
       /\ UNCHANGED envVars

CancelStop ==
    /\ worker.pc = "cancel"
    /\ Dispatched(worker.plan, worker.at) # {}
    /\ LET i == Least(Dispatched(worker.plan, worker.at))
           s == worker.plan[i].session
       IN /\ session[s] \notin Ended
          /\ StopAgent(s)
          /\ worker' = [worker EXCEPT !.pc = "stop", !.at = i]
    /\ UNCHANGED <<run, wake, session, role, gateVars, faults>>

CancelMark ==
    /\ worker.pc = "stop"
    /\ LET i == worker.at
       IN /\ session' = [session EXCEPT ![worker.plan[i].session] = "cancelled"]
          /\ worker' = [worker EXCEPT !.pc = "cancel", !.at = i + 1, !.plan = SetState(@, i, "failed")]
    /\ UNCHANGED <<run, wake, role, gateVars, envVars, faults>>

StoreCancelled ==
    /\ worker.pc = "cancel"
    /\ Dispatched(worker.plan, worker.at) = {}
    /\ run' = [state |-> "cancelled", plan |-> worker.plan]
    /\ worker' = Idle
    /\ UNCHANGED <<wake, session, role, gateVars, envVars, faults>>

--------------------------------------------------------------------------
(* Agents and their events *)

\* The start of s was sent, or its approval created, and the sender has not
\* recorded it yet.
Awaiting(s) ==
    \/ worker.pc \in {"ask", "start"} /\ worker.plan[worker.at].session = s
    \/ followUp[s] = "run"

MayTouch(s) == "overtake" \in Disturbances \/ ~Awaiting(s)

\* What an agent in this role may leave behind when it completes.
Said(kind) ==
    CASE kind = "planning" -> [verdict : {"none"}, reply : PlannerReplies \cup {<<>>}, exit : {"completed"}]
      [] kind \in Checks -> [verdict : Verdicts, reply : {<<>>}, exit : {"completed"}]
      [] OTHER -> [verdict : {"none"}, reply : {<<>>}, exit : {"completed"}]

AgentEnds(s) ==
    /\ agent[s] = "live"
    /\ agent' = [agent EXCEPT ![s] = "gone"]
    /\ \E said \in Said(role[s]) \cup {Silent} : report' = [report EXCEPT ![s] = said]
    /\ inbox' = [inbox EXCEPT ![s] = @ \cup {"ended"}]
    /\ UNCHANGED <<run, worker, wake, session, role, gateVars, faults>>

HandleStarted(s) ==
    /\ "started" \in inbox[s] /\ MayTouch(s)
    /\ inbox' = [inbox EXCEPT ![s] = @ \ {"started"}]
    /\ session' = IF AdoptsIds THEN [session EXCEPT ![s] = "running"] ELSE session
    /\ UNCHANGED <<run, worker, wake, role, gateVars, agent, report, faults>>

\* Mutant: an ended session does not advance its run.
HandleEndedAlone(s) ==
    /\ "ended" \in inbox[s] /\ MayTouch(s)
    /\ "started" \in inbox[s] => "overtake" \in Disturbances
    /\ inbox' = [inbox EXCEPT ![s] = @ \ {"ended"}]
    /\ session' = IF AdoptsIds /\ session[s] \notin Ended
                  THEN [session EXCEPT ![s] = report[s].exit] ELSE session
    /\ UNCHANGED <<run, worker, wake, role, gateVars, agent, report, faults>>

\* A terminal event ends the record unless it has ended already, and queues
\* an advance either way.
HandleEnded(s) ==
    /\ "ended" \in inbox[s] /\ MayTouch(s)
    /\ "started" \in inbox[s] => "overtake" \in Disturbances
    /\ inbox' = [inbox EXCEPT ![s] = @ \ {"ended"}]
    /\ session' = IF AdoptsIds /\ session[s] \notin Ended
                  THEN [session EXCEPT ![s] = report[s].exit] ELSE session
    /\ wake' = (AdoptsIds \/ wake)
    /\ UNCHANGED <<run, worker, role, gateVars, agent, report, faults>>

--------------------------------------------------------------------------
(* Approvals of held-back starts: decideApproval and expireApproval *)

Decide(s, decision, then) ==
    /\ approval[s] = "pending" /\ MayTouch(s)
    /\ approval' = [approval EXCEPT ![s] = decision]
    /\ followUp' = [followUp EXCEPT ![s] = then]
    /\ UNCHANGED <<run, worker, wake, session, role, envVars, faults>>

Grant(s) == Decide(s, "granted", "send")
\* Denied by a user, or nobody decided before it expired.
Refuse(s) == Decide(s, "refused", "end")

\* A decision that comes after the window, before the timer is served: the
\* record times out and that is all.  The timer finds nothing pending then.
Lapse(s) == "late" \in Disturbances /\ Decide(s, "dropped", "none")

\* What a lock, the kill switch or a revoked device leaves of it.  Neither the
\* session nor the run hears of that.
Supersede(s) == "sweep" \in Disturbances /\ Decide(s, "dropped", "none")

Decided(s) == Grant(s) \/ Refuse(s) \/ Lapse(s) \/ Supersede(s)

SendGranted(s) ==
    /\ followUp[s] = "send"
    /\ \/ /\ StartAgent(s)
          /\ followUp' = [followUp EXCEPT ![s] = "run"]
       \/ /\ "offline" \in Disturbances
          /\ followUp' = [followUp EXCEPT ![s] = "none"]
          /\ UNCHANGED envVars
    /\ UNCHANGED <<run, worker, wake, session, role, approval, faults>>

GrantedRuns(s) ==
    /\ followUp[s] = "run"
    /\ followUp' = [followUp EXCEPT ![s] = "none"]
    /\ session' = [session EXCEPT ![s] = "running"]
    /\ wake' = TRUE
    /\ UNCHANGED <<run, worker, role, approval, envVars, faults>>

\* Mutant: a refused start does not advance its run.
RefusedEndsAlone(s) ==
    /\ followUp[s] = "end"
    /\ followUp' = [followUp EXCEPT ![s] = "none"]
    /\ session' = [session EXCEPT ![s] = "cancelled"]
    /\ UNCHANGED <<run, worker, wake, role, approval, envVars, faults>>

RefusedEnds(s) ==
    /\ followUp[s] = "end"
    /\ followUp' = [followUp EXCEPT ![s] = "none"]
    /\ session' = [session EXCEPT ![s] = "cancelled"]
    /\ wake' = TRUE
    /\ UNCHANGED <<run, worker, role, approval, envVars, faults>>

--------------------------------------------------------------------------
(* What happens to sessions and runs from outside the orchestrator *)

\* POST /sessions/:id/cancel and the kill switch: nobody advances the run.
StopSession(s) ==
    /\ "stop" \in Disturbances /\ faults < MaxFaults
    /\ session[s] # "absent"
    /\ StopAgent(s)
    /\ session' = [session EXCEPT ![s] = "cancelled"]
    /\ faults' = faults + 1
    /\ UNCHANGED <<run, worker, wake, role, gateVars>>

\* The machine restarts: its agents are gone and no event says so.
LoseAgent(s) ==
    /\ "lose" \in Disturbances
    /\ agent[s] = "live"
    /\ agent' = [agent EXCEPT ![s] = "gone"]
    /\ UNCHANGED <<run, worker, wake, session, role, gateVars, inbox, report, faults>>

\* The recovery after a reconnect ends the records the gateway knows nothing
\* of, except those held back by a pending approval.
RecoverLost(s) ==
    /\ "stop" \in Disturbances /\ faults < MaxFaults
    /\ session[s] \notin Ended \cup {"absent"} /\ ~Awaiting(s)
    /\ agent[s] # "live" \/ ~AdoptsIds
    /\ approval[s] # "pending"
    /\ session' = [session EXCEPT ![s] = "crashed"]
    /\ faults' = faults + 1
    /\ UNCHANGED <<run, worker, wake, role, gateVars, envVars>>

\* An awaited call throws: the working copy is dropped, the lock is free.
Throw ==
    /\ "crash" \in Disturbances /\ faults < MaxFaults
    /\ worker.pc # "idle"
    /\ worker' = Idle /\ faults' = faults + 1
    /\ UNCHANGED <<run, wake, session, role, gateVars, envVars>>

\* The control plane restarts: what was queued or half done in memory is gone.
Restart ==
    /\ "crash" \in Disturbances /\ faults < MaxFaults
    /\ worker' = Idle /\ wake' = FALSE
    /\ followUp' = [s \in SessionIds |-> "none"]
    /\ faults' = faults + 1
    /\ UNCHANGED <<run, session, role, approval, envVars>>

--------------------------------------------------------------------------
Advance ==
    \/ QueuedAdvance \/ ReconcileOpen \/ ReconcileEnded \/ ReconcileDone
    \/ DispatchBlocked \/ DispatchDenied \/ DispatchAsk \/ AskRecorded
    \/ DispatchSend \/ StartRecorded \/ StoreRun

Cancel == CancelEnded \/ CancelStop \/ CancelMark \/ StoreCancelled

Handlers(s) ==
    HandleStarted(s) \/ HandleEnded(s) \/ SendGranted(s) \/ GrantedRuns(s) \/ RefusedEnds(s)

Outside ==
    \/ \E s \in SessionIds :
         AgentEnds(s) \/ Decided(s)
         \/ StopSession(s) \/ LoseAgent(s) \/ RecoverLost(s)
    \/ RequestedAdvance \/ TakeCancel \/ Throw \/ Restart

Next == Advance \/ Cancel \/ (\E s \in SessionIds : Handlers(s)) \/ Outside

Spec == Init /\ [][Next]_vars

\* The event loop runs what is queued; agents end; an approval that stays
\* pending is refused by its timer, at the latest.
Fairness ==
    /\ WF_vars(Advance) /\ WF_vars(Cancel)
    /\ \A s \in SessionIds :
          /\ WF_vars(Handlers(s))
          /\ WF_vars(AgentEnds(s))
          /\ WF_vars(Refuse(s))

FairSpec == Spec /\ Fairness

--------------------------------------------------------------------------
(* The run as a board of tasks: what it promises about their order *)

Plan == IF worker.pc = "idle" THEN run.plan ELSE worker.plan

Phase(step) ==
    CASE step.state = "completed" -> "done"
      [] step.state \in {"failed", "skipped"} -> "dropped"
      [] OTHER -> IF step.session # 0 THEN "started" ELSE "open"

Board == INSTANCE TaskBoard WITH
    Boards <- {[i \in DOMAIN u |-> [needs |-> u[i].deps, phase |-> "open"]] : u \in UserPlans},
    board <- [i \in DOMAIN Plan |-> [needs |-> Plan[i].deps, phase |-> Phase(Plan[i])]]

--------------------------------------------------------------------------
(* Properties *)

\* The orchestrator, faults aside, keeps the promises of a task board: a step
\* starts only when all it waits for is completed, however the plan was
\* expanded by a planner or rewired by a failed check, and what has settled
\* stays settled (reconcile, expandPlan, sendBack, dispatchReady, cancelNow).
ImplementsTaskBoard == Board!Spec

\* Every variable stays within its type: the stored run, the copy the lock
\* holder works on, and what is known of each session.
TypeOK ==
    /\ run \in [state : RunStates, plan : Seq(Step)]
    /\ worker \in [pc : {"idle", "reconcile", "dispatch", "ask", "start", "store", "cancel", "stop"},
                   at : Nat \ {0}, plan : Seq(Step), error : BOOLEAN, busy : BOOLEAN]
    /\ wake \in BOOLEAN
    /\ session \in [SessionIds -> SessionStates]
    /\ role \in [SessionIds -> Kinds]
    /\ approval \in [SessionIds -> Decisions]
    /\ followUp \in [SessionIds -> {"none", "send", "run", "end"}]
    /\ agent \in [SessionIds -> {"none", "live", "gone"}]
    /\ inbox \in [SessionIds -> SUBSET {"started", "ended"}]
    /\ report \in [SessionIds -> [verdict : Verdicts, reply : PlannerReplies \cup {<<>>}, exit : Ended]]
    /\ faults \in 0 .. MaxFaults

AtMostOne(S) == \A i, j \in S : i = j

\* Builders share one working tree and take turns: neither the stored plan nor
\* the copy at work ever has two builder steps that run or wait for the
\* approval of their start (dispatchReady's builderBusy).
BuildersTakeTurns == AtMostOne(Occupied(run.plan)) /\ AtMostOne(Occupied(worker.plan))

\* The same on the machine: no two builder agents are ever live at once, as long
\* as nobody ends a session behind the run's back (a stop that is not delivered
\* leaves its agent at work) and no pass is interrupted after a start.
OneWriterInTree ==
    faults = 0 => AtMostOne({s \in SessionIds : agent[s] = "live" /\ role[s] \in Writers})

IsFixOf(plan, i, check) ==
    plan[i].origin \in {"test_fix", "review_fix"} /\ plan[i].kind = "implementation"
    /\ plan[i].deps = {check}

\* Work that waited for a check never starts on a failed one: whatever has
\* started after a check that failed is the fix of that check (sendBack's
\* rewiring happens before anything can be dispatched).
NothingBuildsOnAFailedCheck ==
    \A plan \in {run.plan, worker.plan} : \A i \in DOMAIN plan : \A d \in plan[i].deps :
        plan[d].verdict = "fail" /\ plan[i].state \in {"running", "blocked", "completed"}
            => IsFixOf(plan, i, d)

FailuresRechecked ==
    \A c \in DOMAIN run.plan : run.plan[c].verdict = "fail" =>
        \E f, r \in DOMAIN run.plan :
            /\ IsFixOf(run.plan, f, c) /\ run.plan[r].deps = {f}
            /\ run.plan[r].kind = run.plan[c].kind /\ run.plan[r].verdict # "none"

BuildsTested ==
    LET plan == run.plan
        Planned(kind) == {i \in DOMAIN plan : plan[i].kind = kind /\ plan[i].origin = "planner"}
    IN Planned("test") = {} =>
         \A b \in Planned("implementation") : \E t \in DOMAIN plan :
            /\ plan[t].kind = "test" /\ plan[t].verdict # "none"
            /\ Board!RunsAfter([i \in DOMAIN plan |-> plan[i].deps], t, b)

\* A run only completes when every check that failed was fixed and checked
\* again, with a verdict; and when its planner named no test of its own, every
\* planned builder has a test that runs after it and had a verdict (sendBack,
\* expandPlan's guarantee).
CompletedRunIsChecked == run.state = "completed" => FailuresRechecked /\ BuildsTested

\* Fix loops stop: a run never holds more fixes than the limit allows for
\* each check that the user, the planner or the guarantee put in its plan
\* (the attempt carried from a check to its re-check).
FixLoopsStop ==
    \A plan \in {run.plan, worker.plan} :
        LET fixes == {i \in DOMAIN plan : plan[i].kind = "implementation"
                                         /\ plan[i].origin \in {"test_fix", "review_fix"}}
            checks == {i \in DOMAIN plan : plan[i].kind \in Checks
                                         /\ plan[i].origin \notin {"test_fix", "review_fix"}}
        IN Cardinality(fixes) <= MaxFix * Cardinality(checks)

\* A run that is done is never changed again, whatever is queued behind its
\* lock (the DONE_RUN returns of advanceNow and cancelNow).
DoneRunIsFinal == [][run.state \in DoneRun => run' = run]_vars

\* A live agent always belongs to a step that knows its session, so that it
\* can be followed and stopped, unless a pass was interrupted between a start
\* and its record.
EveryAgentHasAStep ==
    faults = 0 => \A s \in SessionIds : agent[s] = "live" => \E i \in DOMAIN Plan : Plan[i].session = s

\* A step waits for an approval that was settled without a word to anybody.
Dropped(plan) == \E i \in Dispatched(plan, 1) : approval[plan[i].session] = "dropped"

\* Somebody will end or has ended session s and will queue an advance for it.
Attends(s) ==
    agent[s] = "live" \/ inbox[s] # {} \/ approval[s] = "pending" \/ followUp[s] # "none"

\* No lost wake-up: a run that is not done and that nobody works on has an
\* advance queued, or something under way that will queue one, or a step that
\* waits for a machine or a budget (which is tried again on request), or one
\* whose approval was settled by a path that tells nobody: a decision after its
\* window, a lock.  Those two are the only ways in which an approval strands a
\* run; every other decision, expiry and end of an agent is followed by an
\* advance (handleSessionEvent, decideApproval, expireApproval).
RunNeverStranded ==
    \/ run.state \in DoneRun \/ worker.pc # "idle" \/ wake
    \/ \E i \in DOMAIN run.plan : run.plan[i].state = "blocked" /\ run.plan[i].session = 0
    \/ \E i \in Dispatched(run.plan, 1) : Attends(run.plan[i].session)
    \/ Dropped(run.plan)

\* Every run ends: it completes, fails or is cancelled, unless one of its steps
\* waits for an approval that was settled without telling anybody.
RunEnds == <>(run.state \in DoneRun \/ Dropped(run.plan))

\* A run advances by itself whenever the session of a step has finished,
\* whoever finished it: an advance is at work, queued, or will be.
EndedStepsAreSeen ==
    \/ run.state \in DoneRun \/ worker.pc # "idle" \/ wake
    \/ \A i \in Dispatched(run.plan, 1) :
         session[run.plan[i].session] \in Ended => Attends(run.plan[i].session)

=============================================================================
