----------------------------- MODULE AgentProofs -----------------------------
(***************************************************************************)
(* More about Orchestration: as long as no session is ended from outside   *)
(* and no pass is interrupted, every agent belongs to a step, and no two   *)
(* builder agents are live at once, for every plan, planner, policy and    *)
(* bound, whatever is refused, undelivered, overtaken or cancelled.        *)
(*                                                                         *)
(* The argument: an agent is live, or may still come to be, only for a     *)
(* step that runs or waits (HasStep); such a step, if it builds, holds the *)
(* tree, and `busy` then keeps any other builder from being started.       *)
(*                                                                         *)
(* And as long as the environment is calm (Calm, below), no run is left    *)
(* running with nobody to move it, unless it waits for an approval that    *)
(* was settled silently: a session that is open has somebody who           *)
(* will end it (Attended), a plan never waits in a circle (Grounded), a    *)
(* pass leaves nothing behind that it could have started (PassInv), and no *)
(* session ends without a wake-up that will see it (SeenInv).              *)
(***************************************************************************)
EXTENDS PlanProofs

--------------------------------------------------------------------------
(* The inductive invariant *)

\* Session s has an agent at work, or a start of it is held or being sent.
Wants(s) == agent[s] = "live" \/ approval[s] = "pending" \/ followUp[s] = "send"

\* A cancelled run forgets its steps before their agents are gone: a stop may
\* not be delivered.  It starts nothing any more.
Cancelling == worker.pc \in {"cancel", "stop"} \/ run.state = "cancelled"

\* A session is asked for, started and ended in this order.
Lifecycle ==
    \A s \in SessionIds :
       /\ session[s] = "absent" =>
             approval[s] = "none" /\ followUp[s] = "none" /\ agent[s] = "none" /\ inbox[s] = {}
       /\ approval[s] \in {"pending", "refused", "dropped"} => agent[s] = "none"
       /\ followUp[s] = "send" => agent[s] = "none" /\ approval[s] = "granted"
       /\ followUp[s] = "end" => approval[s] = "refused"
       /\ "ended" \in inbox[s] => agent[s] = "gone"

\* A record that says ended is right.
EndedIsIdle == Cancelling \/ \A s \in SessionIds : session[s] \in Ended => ~Wants(s)

\* Step i runs or waits, or is being started, with what session s is for.
Keeps(s, i) ==
    /\ Plan[i].kind = role[s]
    /\ Plan[i].state \in {"running", "blocked"} \/ (worker.pc \in {"ask", "start"} /\ worker.at = i)

HasStep ==
    \A s \in SessionIds : Wants(s) =>
       \E i \in DOMAIN Plan : Plan[i].session = s /\ (Cancelling \/ Keeps(s, i))

OneWrites == AtMostOne({s \in SessionIds : Wants(s) /\ role[s] \in Writers})

Followed == Lifecycle /\ EndedIsIdle /\ HasStep /\ OneWrites

AgentInv == faults = 0 => Followed

--------------------------------------------------------------------------
(* What keeps it *)

\* No session comes to want a step that did not before.
NoneWants == \A s \in SessionIds : Wants(s)' => Wants(s) /\ role'[s] = role[s]

LEMMA OneWritesKept ==
    ASSUME OneWrites, NoneWants
    PROVE  OneWrites'
BY DEF OneWrites, NoneWants, AtMostOne

\* The steps with a session keep it, and what waits goes on waiting.
Carried ==
    \A i \in DOMAIN Plan : Plan[i].session # 0 =>
       /\ i \in DOMAIN Plan' /\ Plan'[i].session = Plan[i].session /\ Plan'[i].kind = Plan[i].kind

StepsKept ==
    \A i \in DOMAIN Plan : \A s \in SessionIds :
       Wants(s)' /\ Plan[i].session = s /\ Keeps(s, i) => Keeps(s, i)'

LEMMA HasStepKept ==
    ASSUME HasStep, NoneWants, Carried, Cancelling => Cancelling', Cancelling' \/ StepsKept
    PROVE  HasStep'
<1> SUFFICES ASSUME NEW s \in SessionIds, Wants(s)'
             PROVE  \E i \in DOMAIN Plan' : Plan'[i].session = s /\ (Cancelling' \/ Keeps(s, i)')
  BY DEF HasStep
<1>1. PICK i \in DOMAIN Plan : Plan[i].session = s /\ (Cancelling \/ Keeps(s, i))
  BY DEF HasStep, NoneWants
<1>2. Plan[i].session # 0
  BY <1>1, BoundsAssumption DEF SessionIds
<1>3. i \in DOMAIN Plan' /\ Plan'[i].session = s
  BY <1>1, <1>2 DEF Carried
<1>4. Cancelling' \/ Keeps(s, i)'
  BY <1>1 DEF StepsKept
<1> QED
  BY <1>3, <1>4

\* What handles a session and its agent touches no plan.
LEMMA PlanKept ==
    ASSUME UNCHANGED <<run, worker, role>>
    PROVE  Carried /\ StepsKept /\ (Cancelling <=> Cancelling') /\ Plan' = Plan
<1>1. Plan' = Plan
  BY DEF Plan
<1>2. \A s, i : Keeps(s, i)' <=> Keeps(s, i)
  BY <1>1 DEF Keeps
<1> QED
  BY <1>1, <1>2 DEF Carried, StepsKept, Cancelling

\* The handlers of a session's events and approval, and the end of its agent.
LEMMA SessionFollowed ==
    ASSUME TypeOK, Followed, NEW s \in SessionIds,
           Handlers(s) \/ AgentEnds(s) \/ Decided(s) \/ LoseAgent(s)
    PROVE  Followed'
<1>1. UNCHANGED <<run, worker, role>>
  BY DEF Handlers, HandleStarted, HandleEnded, SendGranted, GrantedRuns, RefusedEnds,
         AgentEnds, Decided, Grant, Refuse, Lapse, Supersede, Decide, LoseAgent, envVars, gateVars, StartAgent
<1>2. NoneWants /\ Lifecycle' /\ (EndedIsIdle => EndedIsIdle')
  <2>0. /\ session \in [SessionIds -> SessionStates] /\ role' = role
        /\ approval \in [SessionIds -> Decisions]
        /\ followUp \in [SessionIds -> {"none", "send", "run", "end"}]
        /\ agent \in [SessionIds -> {"none", "live", "gone"}]
        /\ inbox \in [SessionIds -> SUBSET {"started", "ended"}]
        /\ report[s].exit \in Ended
        /\ Lifecycle
    BY <1>1 DEF TypeOK, Followed
  <2>1. CASE HandleStarted(s)
    BY <2>0, <2>1, <1>1 DEF HandleStarted, NoneWants, Wants, Lifecycle, EndedIsIdle, Cancelling, gateVars, Ended
  <2>2. CASE HandleEnded(s)
    BY <2>0, <2>2, <1>1 DEF HandleEnded, NoneWants, Wants, Lifecycle, EndedIsIdle, Cancelling, gateVars, Ended
  <2>3. CASE SendGranted(s)
    BY <2>0, <2>3, <1>1 DEF SendGranted, StartAgent, NoneWants, Wants, Lifecycle, EndedIsIdle, Cancelling, envVars, Ended
  <2>4. CASE GrantedRuns(s) \/ RefusedEnds(s)
    BY <2>0, <2>4, <1>1 DEF GrantedRuns, RefusedEnds, NoneWants, Wants, Lifecycle, EndedIsIdle, Cancelling, envVars, Ended
  <2>5. CASE AgentEnds(s) \/ LoseAgent(s)
    BY <2>0, <2>5, <1>1 DEF AgentEnds, LoseAgent, NoneWants, Wants, Lifecycle, EndedIsIdle, Cancelling, gateVars
  <2>6. CASE Decided(s)
    BY <2>0, <2>6, <1>1 DEF Decided, Grant, Refuse, Lapse, Supersede, Decide, NoneWants, Wants, Lifecycle, EndedIsIdle, Cancelling, envVars
  <2> QED
    BY <2>1, <2>2, <2>3, <2>4, <2>5, <2>6 DEF Handlers
<1> QED
  BY <1>1, <1>2, PlanKept, HasStepKept, OneWritesKept DEF Followed

\* A step of the lock holder that starts nothing: sessions may be recorded,
\* denied or stopped.
LEMMA WorkerFollowed ==
    ASSUME Followed, TypeOK, Lifecycle', NoneWants, EndedIsIdle',
           Carried, Cancelling => Cancelling', Cancelling' \/ StepsKept
    PROVE  Followed'
BY HasStepKept, OneWritesKept DEF Followed

\* What the lock holder does without a session being touched.
LEMMA QuietFollowed ==
    ASSUME Followed, TypeOK, UNCHANGED <<session, role, approval, followUp, agent, inbox>>,
           Carried, Cancelling => Cancelling', Cancelling' \/ StepsKept
    PROVE  Followed'
<1>1. \A s : Wants(s)' <=> Wants(s)
  BY DEF Wants
<1>2. Lifecycle' /\ NoneWants
  BY <1>1 DEF Followed, Lifecycle, NoneWants
<1>3. EndedIsIdle'
  BY <1>1 DEF Followed, EndedIsIdle
<1> QED
  BY <1>2, <1>3, WorkerFollowed

LEMMA ReconcileFollowed ==
    ASSUME Followed, IInv, ReconcileOpen \/ ReconcileEnded \/ ReconcileDone
    PROVE  Followed'
<1> DEFINE i == Least(Dispatched(worker.plan, worker.at))
           t == worker.plan[i].session
<1>1. /\ worker.pc = "reconcile" /\ run' = run /\ worker'.pc \in {"reconcile", "dispatch", "store"}
      /\ UNCHANGED <<session, role, approval, followUp, agent, inbox>>
  <2>1. worker \in WorkerType
    BY DEF IInv, Turns, WorkerTurns
  <2> QED
    BY <2>1 DEF ReconcileOpen, ReconcileEnded, ReconcileDone, WorkerType, gateVars, envVars
<1>2. WorkerTurns(worker) /\ worker \in WorkerType /\ worker.plan \in Seq(Step)
  BY DEF IInv, Turns, WorkerTurns, WorkerType
<1>3. Plan = worker.plan /\ Plan' = worker'.plan /\ ~Cancelling /\ ~Cancelling'
  BY <1>1 DEF Plan, Cancelling, IInv, Turns, DoneIsIdle, DoneRun
<1>4. ASSUME \A j \in DOMAIN worker.plan :
                /\ j \in DOMAIN worker'.plan
                /\ worker'.plan[j].session = worker.plan[j].session
                /\ worker'.plan[j].kind = worker.plan[j].kind
                /\ \/ worker'.plan[j].state = worker.plan[j].state
                   \/ worker'.plan[j].state \in {"running", "blocked"}
                   \/ worker.plan[j].session \in SessionIds => ~Wants(worker.plan[j].session)
      PROVE  Followed'
  <2>1. Carried
    BY <1>3, <1>4 DEF Carried
  <2>2. \A s : Wants(s)' <=> Wants(s)
    BY <1>1 DEF Wants
  <2>3. StepsKept
    BY <1>1, <1>3, <1>4, <2>2 DEF StepsKept, Keeps
  <2> QED
    BY <1>1, <1>3, <2>1, <2>3, QuietFollowed DEF IInv
<1>5. CASE ReconcileOpen
  <2>1. i \in DOMAIN worker.plan /\ worker.plan[i].state \in {"running", "blocked"} /\ i + 1 \in Nat \ {0}
    BY <1>2, <1>5, DispatchedIn DEF ReconcileOpen
  <2>2. worker'.plan = worker.plan \/ worker'.plan = SetState(worker.plan, i, "running")
    BY <1>2, <1>5 DEF ReconcileOpen, WorkerType
  <2> HIDE DEF i
  <2>3. \A j \in DOMAIN worker.plan :
            /\ SetState(worker.plan, i, "running")[j].kind = worker.plan[j].kind
            /\ SetState(worker.plan, i, "running")[j].session = worker.plan[j].session
            /\ SetState(worker.plan, i, "running")[j].state = IF j = i THEN "running" ELSE worker.plan[j].state
    BY <1>2, <2>1, SetStateOccupies DEF StepStates
  <2>4. DOMAIN SetState(worker.plan, i, "running") = DOMAIN worker.plan
    BY <1>2, <2>1, SetStateType DEF StepStates
  <2> QED
    BY <1>4, <2>2, <2>3, <2>4
<1>6. CASE ReconcileEnded
  <2>1. i \in DOMAIN worker.plan
    BY <1>2, <1>6, DispatchedIn DEF ReconcileEnded
  <2>2. session[t] \in Ended
    BY <1>6 DEF ReconcileEnded
  <2>3. worker'.plan = Finished(worker.plan, i, session[t], report[t]).plan
    BY <1>2, <1>6 DEF ReconcileEnded, WorkerType
  <2>4. t \in SessionIds /\ ~Wants(t)
    <3>1. t # 0
      BY <1>2, <1>6, DispatchedIn DEF ReconcileEnded
    <3>2. worker.plan[i] \in Step
      BY <1>2, <2>1
    <3>3. t \in SessionIds
      BY <3>1, <3>2, BoundsAssumption DEF Step, SessionIds
    <3> QED
      BY <1>3, <2>2, <3>3 DEF Followed, EndedIsIdle
  <2>5. report[t] \in [verdict : Verdicts, reply : PlannerReplies \cup {<<>>}, exit : Ended]
    BY <2>4 DEF IInv, TypeOK
  <2>6. Settled(worker'.plan, worker.plan, i)
    BY <1>2, <2>1, <2>3, <2>5, FinishedSettles
  <2> HIDE DEF i
  <2>7. DOMAIN worker.plan \subseteq DOMAIN worker'.plan
    BY <2>6 DEF Settled
  <2> QED
    BY <1>4, <2>4, <2>6, <2>7 DEF Settled
<1>7. CASE ReconcileDone
  <2>1. worker'.plan = Retried(worker.plan)
    BY <1>2, <1>7 DEF ReconcileDone, WorkerType
  <2>2. \A j \in DOMAIN worker.plan : worker.plan[j] \in Step
    BY <1>2
  <2>3. \A j \in DOMAIN worker.plan :
            /\ j \in DOMAIN worker'.plan
            /\ worker'.plan[j].session = worker.plan[j].session
            /\ worker'.plan[j].kind = worker.plan[j].kind
            /\ worker'.plan[j].state = worker.plan[j].state \/ worker.plan[j].session = 0
    BY <2>1, <2>2 DEF Retried, Step
  <2> QED
    BY <1>4, <2>3, BoundsAssumption DEF SessionIds
<1> QED
  BY <1>5, <1>6, <1>7

\* An advance or a cancel takes up the stored plan, or leaves it to another.
LEMMA TakeFollowed ==
    ASSUME Followed, IInv, TakeAdvance \/ TakeCancel
    PROVE  Followed'
<1>1. /\ worker.pc = "idle" /\ run' = run
      /\ UNCHANGED <<session, role, approval, followUp, agent, inbox>>
  BY DEF TakeAdvance, TakeCancel, gateVars, envVars
<1>2. Plan = run.plan /\ run.plan \in Seq(Step) /\ Idle.pc = "idle" /\ Idle.plan = <<>> /\ Idle \in WorkerType
  BY <1>1, IdleTurns DEF Plan, IInv, Turns, RunTurns, WorkerTurns
<1>3. \A s : Wants(s)' <=> Wants(s)
  BY <1>1 DEF Wants
<1>4. CASE worker' = Idle
  <2>1. Plan' = Plan /\ (Cancelling <=> Cancelling')
    BY <1>1, <1>2, <1>4 DEF Plan, Cancelling
  <2>2. Carried /\ StepsKept
    BY <1>1, <1>2, <1>4, <2>1 DEF Carried, StepsKept, Keeps
  <2> QED
    BY <1>1, <2>1, <2>2, QuietFollowed DEF IInv
<1>5. CASE TakeAdvance /\ worker' # Idle
  <2>1. worker'.pc = "reconcile" /\ worker'.plan = run.plan
    BY <1>2, <1>5 DEF TakeAdvance, WorkerType
  <2>2. Plan' = Plan /\ (Cancelling => Cancelling')
    BY <1>1, <1>2, <2>1 DEF Plan, Cancelling
  <2>3. Carried /\ StepsKept
    BY <1>1, <1>2, <2>2 DEF Carried, StepsKept, Keeps
  <2> QED
    BY <1>1, <2>2, <2>3, QuietFollowed DEF IInv
<1>6. CASE TakeCancel /\ worker' # Idle
  <2>1. /\ worker'.pc = "cancel" /\ DOMAIN worker'.plan = DOMAIN run.plan
        /\ \A i \in DOMAIN run.plan : \/ worker'.plan[i] = run.plan[i]
                                     \/ worker'.plan[i] = [run.plan[i] EXCEPT !.state = "skipped"]
    BY <1>2, <1>6 DEF TakeCancel, WorkerType
  <2>2. \A i \in DOMAIN run.plan : run.plan[i] \in Step
    BY <1>2
  <2>3. Cancelling' /\ Plan' = worker'.plan
    BY <2>1 DEF Cancelling, Plan
  <2>4. Carried
    BY <1>2, <2>1, <2>2, <2>3 DEF Carried, Step
  <2> QED
    BY <1>1, <2>3, <2>4, QuietFollowed DEF IInv
<1> QED
  BY <1>4, <1>5, <1>6

\* A step is set aside, or its session denied at once.
LEMMA NotStartedFollowed ==
    ASSUME Followed, IInv, DispatchBlocked \/ DispatchDenied
    PROVE  Followed'
<1> DEFINE i == Least(Ready(worker))
           t == Least(Unused)
<1>1. WorkerTurns(worker) /\ worker \in WorkerType /\ worker.plan \in Seq(Step)
      /\ worker.pc = "dispatch" /\ Ready(worker) # {} /\ run' = run
  BY DEF IInv, Turns, WorkerTurns, WorkerType, DispatchBlocked, DispatchDenied
<1>2. i \in DOMAIN worker.plan /\ i + 1 \in Nat \ {0} /\ worker.plan[i].state = "pending"
  BY <1>1, ReadyIn
<1>3. Fresh(worker.plan)
  BY <1>1, WorkerFresh
<1>4. ~Cancelling /\ Plan = worker.plan
  BY <1>1 DEF Plan, Cancelling, IInv, Turns, DoneIsIdle, DoneRun
<1>5. ASSUME worker'.pc = "dispatch",
             \A j \in DOMAIN worker.plan : j # i =>
                /\ j \in DOMAIN worker'.plan /\ worker'.plan[j] = worker.plan[j],
             role' = role \/ \E s \in SessionIds : role' = [role EXCEPT ![s] = role'[s]] /\ ~Wants(s),
             UNCHANGED <<approval, followUp, agent>>
      PROVE  Carried /\ ~Cancelling' /\ NoneWants /\ StepsKept /\ \A s : Wants(s)' <=> Wants(s)
  <2>1. ~Cancelling' /\ Plan' = worker'.plan
    BY <1>1, <1>4, <1>5 DEF Cancelling, Plan
  <2>2. Carried
    BY <1>2, <1>3, <1>4, <1>5, <2>1 DEF Carried, Fresh
  <2>3. \A s : Wants(s)' <=> Wants(s)
    BY <1>5 DEF Wants
  <2>4. NoneWants
    BY <1>5, <2>3 DEF NoneWants, IInv, TypeOK
  <2>5. StepsKept
    BY <1>1, <1>2, <1>3, <1>4, <1>5, <2>1, <2>3, <2>4, BoundsAssumption
       DEF StepsKept, Keeps, NoneWants, Fresh, SessionIds
  <2> QED
    BY <2>1, <2>2, <2>3, <2>4, <2>5
<1>6. CASE DispatchBlocked
  <2>1. worker'.pc = "dispatch" /\ worker'.plan = SetState(worker.plan, i, "blocked")
        /\ UNCHANGED <<session, role, approval, followUp, agent, inbox>>
    BY <1>1, <1>6 DEF DispatchBlocked, WorkerType, gateVars, envVars
  <2>2. \A j \in DOMAIN worker.plan : j # i => j \in DOMAIN worker'.plan /\ worker'.plan[j] = worker.plan[j]
    BY <1>1, <1>2, <2>1 DEF SetState
  <2> HIDE DEF i
  <2>3. Carried /\ ~Cancelling' /\ StepsKept
    BY <1>5, <2>1, <2>2
  <2> QED
    BY <1>4, <2>1, <2>3, QuietFollowed DEF IInv
<1>7. CASE DispatchDenied
  <2>1. /\ worker'.pc = "dispatch" /\ worker'.plan = SetState(Assign(worker.plan, i, t), i, "failed")
        /\ session' = [session EXCEPT ![t] = "failed"]
        /\ role' = [role EXCEPT ![t] = worker.plan[i].kind]
        /\ UNCHANGED <<approval, followUp, agent, inbox>>
    BY <1>1, <1>7 DEF DispatchDenied, WorkerType, gateVars, envVars
  <2>2. t \in SessionIds /\ session[t] = "absent"
    <3>1. Unused # {} /\ Unused \in SUBSET Nat
      BY <1>7, BoundsAssumption DEF DispatchDenied, Unused, SessionIds
    <3>2. t \in Unused
      BY <3>1, LeastIn
    <3> QED
      BY ONLY <3>2 DEF Unused
  <2>3. \A j \in DOMAIN worker.plan : j # i => j \in DOMAIN worker'.plan /\ worker'.plan[j] = worker.plan[j]
    BY <1>1, <1>2, <2>1 DEF SetState, Assign
  <2> HIDE DEF i, t
  <2>4. ~Wants(t)
    BY <2>2 DEF Followed, Lifecycle, Wants
  <2>5. role' = [role EXCEPT ![t] = role'[t]]
    BY <2>1, <2>2 DEF IInv, TypeOK
  <2>6. Carried /\ ~Cancelling' /\ NoneWants /\ StepsKept /\ \A s : Wants(s)' <=> Wants(s)
    BY <1>5, <2>1, <2>2, <2>3, <2>4, <2>5
  <2>7. Lifecycle' /\ EndedIsIdle'
    BY <1>4, <2>1, <2>2, <2>4, <2>6 DEF Followed, Lifecycle, EndedIsIdle, IInv, TypeOK
  <2> QED
    BY <1>4, <2>6, <2>7, WorkerFollowed DEF IInv
<1> QED
  BY <1>6, <1>7

\* A step is given a session, which is new: it is started or held.  A builder
\* is only started when no builder's agent is wanted.
LEMMA StartingFollowed ==
    ASSUME Followed, IInv, DispatchAsk \/ DispatchSend
    PROVE  Followed'
<1> DEFINE i == Least(Ready(worker))
           t == Least(Unused)
<1>1. WorkerTurns(worker) /\ worker \in WorkerType /\ worker.plan \in Seq(Step)
      /\ worker.pc = "dispatch" /\ Ready(worker) # {} /\ run' = run
  BY DEF IInv, Turns, WorkerTurns, WorkerType, DispatchAsk, DispatchSend
<1>2. i \in DOMAIN worker.plan /\ i \in Nat \ {0} /\ worker.plan[i].state = "pending"
      /\ (worker.plan[i].kind \in Writers => worker.busy = FALSE)
  BY <1>1, ReadyIn
<1>3. Fresh(worker.plan)
  BY <1>1, WorkerFresh
<1>4. ~Cancelling /\ Plan = worker.plan
  BY <1>1 DEF Plan, Cancelling, IInv, Turns, DoneIsIdle, DoneRun
<1>5. t \in SessionIds /\ session[t] = "absent"
  <2>1. Unused # {} /\ Unused \in SUBSET Nat
    BY BoundsAssumption DEF DispatchAsk, DispatchSend, Unused, SessionIds
  <2>2. t \in Unused
    BY <2>1, LeastIn
  <2> QED
    BY ONLY <2>2 DEF Unused
<1>6. /\ worker'.pc \in {"ask", "start"} /\ worker'.at = i /\ worker'.plan = Assign(worker.plan, i, t)
      /\ session' = [session EXCEPT ![t] = "initializing"]
      /\ role' = [role EXCEPT ![t] = worker.plan[i].kind]
      /\ followUp' = followUp
      /\ approval' = approval \/ approval' = [approval EXCEPT ![t] = "pending"]
      /\ \/ agent' = agent /\ inbox' = inbox
         \/ /\ approval' = approval /\ agent' = [agent EXCEPT ![t] = "live"]
            /\ inbox' = [inbox EXCEPT ![t] = @ \cup {"started"}]
  BY <1>1 DEF DispatchAsk, DispatchSend, StartAgent, WorkerType, gateVars, envVars
<1>7. /\ DOMAIN worker'.plan = DOMAIN worker.plan
      /\ \A j \in DOMAIN worker.plan : j # i => worker'.plan[j] = worker.plan[j]
      /\ worker'.plan[i].kind = worker.plan[i].kind /\ worker'.plan[i].session = t
  <2>1. worker.plan[i] \in Step
    BY <1>1, <1>2
  <2>2. DOMAIN Assign(worker.plan, i, t) = DOMAIN worker.plan
        /\ \A j \in DOMAIN worker.plan :
              Assign(worker.plan, i, t)[j] = IF j = i THEN [worker.plan[j] EXCEPT !.session = t] ELSE worker.plan[j]
    BY <1>1, <1>2, <1>5, AssignType
  <2> HIDE DEF i, t
  <2>3. worker'.plan[i] = [worker.plan[i] EXCEPT !.session = t]
    BY <1>2, <1>6, <2>2
  <2> QED
    BY <1>2, <1>6, <2>1, <2>2, <2>3 DEF Step
<1> HIDE DEF i, t
<1>8. ~Cancelling' /\ Plan' = worker'.plan
  BY <1>1, <1>4, <1>6 DEF Cancelling, Plan
<1>9. /\ role \in [SessionIds -> Kinds] /\ session \in [SessionIds -> SessionStates]
      /\ approval \in [SessionIds -> Decisions] /\ agent \in [SessionIds -> {"none", "live", "gone"}]
      /\ inbox \in [SessionIds -> SUBSET {"started", "ended"}]
  BY DEF IInv, TypeOK
<1>10. \A s \in SessionIds : s # t => (Wants(s)' <=> Wants(s)) /\ role'[s] = role[s] /\ session'[s] = session[s]
  BY <1>5, <1>6, <1>9 DEF Wants
<1>11. ~Wants(t)
  BY <1>5 DEF Followed, Lifecycle, Wants
<1>12. Lifecycle'
  BY <1>5, <1>6, <1>9 DEF Followed, Lifecycle
<1>13. EndedIsIdle'
  BY <1>4, <1>5, <1>6, <1>9, <1>10 DEF Followed, EndedIsIdle, Ended
<1>14. HasStep'
  <2> SUFFICES ASSUME NEW s \in SessionIds, Wants(s)'
               PROVE  \E j \in DOMAIN Plan' : Plan'[j].session = s /\ Keeps(s, j)'
    BY DEF HasStep
  <2>1. CASE s = t
    <3>1. i \in DOMAIN Plan' /\ Plan'[i].session = t /\ Plan'[i].kind = role'[t]
      BY <1>2, <1>5, <1>6, <1>7, <1>8, <1>9
    <3>2. PICK j \in DOMAIN Plan' : j = i
      BY <3>1
    <3>3. Plan'[j].session = s /\ Plan'[j].kind = role'[s]
      BY <2>1, <3>1, <3>2
    <3>4. Keeps(s, j)'
      BY <1>6, <3>2, <3>3 DEF Keeps
    <3> QED
      BY <3>3, <3>4
  <2>2. CASE s # t
    <3>1. PICK j \in DOMAIN Plan : Plan[j].session = s /\ Keeps(s, j)
      BY <1>4, <1>10, <2>2 DEF Followed, HasStep
    <3>2. Plan[j].state \in {"running", "blocked"} /\ Plan[j].kind = role[s]
      BY <1>1, <3>1 DEF Keeps
    <3>3. j # i
      BY <1>2, <1>4, <3>2
    <3>4. j \in DOMAIN Plan' /\ Plan'[j] = Plan[j]
      BY <1>4, <1>7, <1>8, <3>1, <3>3
    <3>5. Keeps(s, j)'
      BY <1>10, <2>2, <3>2, <3>4 DEF Keeps
    <3> QED
      BY <3>1, <3>4, <3>5
  <2> QED
    BY <2>1, <2>2
<1>15. OneWrites'
  <2>1. CASE worker.plan[i].kind \in Writers
    <3>1. Occupied(worker.plan) = {}
      BY <1>1, <1>2, <2>1 DEF WorkerTurns, BusyKnows
    <3>2. \A s \in SessionIds : Wants(s) => role[s] \notin Writers
      <4> SUFFICES ASSUME NEW s \in SessionIds, Wants(s), role[s] \in Writers PROVE FALSE
        OBVIOUS
      <4>1. PICK j \in DOMAIN Plan : Plan[j].session = s /\ Keeps(s, j)
        BY <1>4 DEF Followed, HasStep
      <4>2. s # 0
        BY BoundsAssumption DEF SessionIds
      <4>3. j \in Occupied(worker.plan)
        BY <1>1, <1>4, <4>1, <4>2 DEF Keeps, Occupied
      <4> QED
        BY <3>1, <4>3
    <3> QED
      BY <1>10, <3>2 DEF OneWrites, AtMostOne
  <2>2. CASE worker.plan[i].kind \notin Writers
    <3>1. role'[t] \notin Writers
      BY <1>5, <1>6, <1>9, <2>2
    <3> QED
      BY <1>10, <3>1 DEF Followed, OneWrites, AtMostOne
  <2> QED
    BY <2>1, <2>2
<1> QED
  BY <1>12, <1>13, <1>14, <1>15 DEF Followed

\* What was started or held is recorded: the step now runs or waits.
LEMMA RecordedFollowed ==
    ASSUME Followed, IInv, AskRecorded \/ StartRecorded
    PROVE  Followed'
<1> DEFINE i == worker.at
           t == worker.plan[i].session
<1>1. WorkerTurns(worker) /\ worker \in WorkerType /\ worker.plan \in Seq(Step)
      /\ worker.pc \in {"ask", "start"} /\ run' = run
  BY DEF IInv, Turns, WorkerTurns, WorkerType, AskRecorded, StartRecorded
<1>2. i \in DOMAIN worker.plan
  BY <1>1 DEF WorkerTurns, AtStep
<1>3. ~Cancelling /\ Plan = worker.plan
  BY <1>1 DEF Plan, Cancelling, IInv, Turns, DoneIsIdle, DoneRun
<1>4. PICK state \in {"running", "blocked"} :
         worker'.pc = "dispatch" /\ worker'.plan = SetState(worker.plan, i, state)
  BY <1>1 DEF AskRecorded, StartRecorded, WorkerType
<1>5. /\ \/ session' = [session EXCEPT ![t] = "waiting_for_approval"]
         \/ session' = [session EXCEPT ![t] = "running"]
      /\ UNCHANGED <<role, approval, followUp, agent, inbox>>
  BY DEF AskRecorded, StartRecorded, gateVars, envVars
<1>6. /\ DOMAIN worker'.plan = DOMAIN worker.plan
      /\ \A j \in DOMAIN worker.plan :
            /\ worker'.plan[j].kind = worker.plan[j].kind
            /\ worker'.plan[j].session = worker.plan[j].session
            /\ worker'.plan[j].state = IF j = i THEN state ELSE worker.plan[j].state
  <2>1. state \in StepStates
    BY DEF StepStates
  <2> QED
    BY <1>1, <1>2, <1>4, <2>1, SetStateOccupies, SetStateType
<1> HIDE DEF i
<1>7. ~Cancelling' /\ Plan' = worker'.plan
  BY <1>1, <1>3, <1>4 DEF Cancelling, Plan
<1>8. \A s : Wants(s)' <=> Wants(s)
  BY <1>5 DEF Wants
<1>9. NoneWants /\ Carried
  BY <1>3, <1>5, <1>6, <1>7, <1>8 DEF NoneWants, Carried
<1>10. StepsKept
  BY <1>3, <1>5, <1>6, <1>7 DEF StepsKept, Keeps, i
<1>11. Lifecycle' /\ EndedIsIdle'
  BY <1>3, <1>5, <1>8 DEF Followed, Lifecycle, EndedIsIdle, Ended, IInv, TypeOK
<1> QED
  BY <1>3, <1>9, <1>10, <1>11, WorkerFollowed DEF IInv

\* The working copy becomes the stored plan.
LEMMA StoreFollowed ==
    ASSUME Followed, IInv, StoreRun \/ StoreCancelled
    PROVE  Followed'
<1>1. /\ worker.pc \in {"store", "dispatch", "cancel"} /\ worker' = Idle /\ Idle.pc = "idle"
      /\ run'.plan = worker.plan /\ UNCHANGED <<session, role, approval, followUp, agent, inbox>>
  BY IdleTurns DEF StoreRun, StoreCancelled, gateVars, envVars
<1>2. Plan = worker.plan /\ Plan' = Plan
  BY <1>1 DEF Plan
<1>3. Cancelling => Cancelling'
  <2>1. CASE StoreCancelled
    BY <2>1 DEF StoreCancelled, Cancelling
  <2>2. CASE StoreRun
    BY <2>2 DEF StoreRun, Cancelling, IInv, Turns, DoneIsIdle, DoneRun
  <2> QED
    BY <2>1, <2>2
<1>4. Carried /\ StepsKept
  BY <1>1, <1>2 DEF Carried, StepsKept, Keeps
<1> QED
  BY <1>1, <1>3, <1>4, QuietFollowed DEF IInv

\* A cancel gives its steps up; their sessions stay with them.
LEMMA CancelFollowed ==
    ASSUME Followed, IInv, CancelEnded \/ CancelStop \/ CancelMark
    PROVE  Followed'
<1>1. WorkerTurns(worker) /\ worker \in WorkerType /\ worker.plan \in Seq(Step)
      /\ worker.pc \in {"cancel", "stop"} /\ run' = run
  BY DEF IInv, Turns, WorkerTurns, WorkerType, CancelEnded, CancelStop, CancelMark
<1>2. worker'.pc \in {"cancel", "stop"} /\ UNCHANGED <<role, approval, followUp>>
  BY <1>1 DEF CancelEnded, CancelStop, CancelMark, WorkerType, gateVars
<1>3. Cancelling /\ Cancelling' /\ Plan = worker.plan /\ Plan' = worker'.plan /\ EndedIsIdle'
  BY <1>1, <1>2 DEF Cancelling, Plan, EndedIsIdle
<1>4. /\ DOMAIN worker'.plan = DOMAIN worker.plan
      /\ \A j \in DOMAIN worker.plan : /\ worker'.plan[j].session = worker.plan[j].session
                                      /\ worker'.plan[j].kind = worker.plan[j].kind
  <2>1. ASSUME NEW i \in DOMAIN worker.plan
        PROVE  /\ DOMAIN SetState(worker.plan, i, "failed") = DOMAIN worker.plan
               /\ \A j \in DOMAIN worker.plan :
                     /\ SetState(worker.plan, i, "failed")[j].session = worker.plan[j].session
                     /\ SetState(worker.plan, i, "failed")[j].kind = worker.plan[j].kind
    <3>1. "failed" \in StepStates
      BY DEF StepStates
    <3> QED
      BY <1>1, <2>1, <3>1, SetStateType, SetStateOccupies
  <2>2. CASE CancelEnded
    <3>1. PICK i \in DOMAIN worker.plan : worker'.plan = SetState(worker.plan, i, "failed")
      BY <1>1, <2>2, DispatchedIn DEF CancelEnded, WorkerType
    <3> QED
      BY <2>1, <3>1
  <2>3. CASE CancelStop
    BY <1>1, <2>3 DEF CancelStop, WorkerType
  <2>4. CASE CancelMark
    <3>1. worker.at \in DOMAIN worker.plan
      BY <1>1, <2>4 DEF WorkerTurns, AtStep, CancelMark
    <3>2. worker'.plan = SetState(worker.plan, worker.at, "failed")
      BY <1>1, <2>4 DEF CancelMark, WorkerType
    <3> QED
      BY <2>1, <3>1, <3>2
  <2> QED
    BY <2>2, <2>3, <2>4
<1>5. Carried
  BY <1>3, <1>4 DEF Carried
<1>6. Lifecycle' /\ NoneWants
  <2>1. CASE CancelEnded
    BY <2>1 DEF CancelEnded, gateVars, envVars, Followed, Lifecycle, NoneWants, Wants
  <2>2. CASE CancelMark
    BY <2>2 DEF CancelMark, gateVars, envVars, Followed, Lifecycle, NoneWants, Wants, IInv, TypeOK
  <2>3. CASE CancelStop
    <3> DEFINE s == worker.plan[Least(Dispatched(worker.plan, worker.at))].session
    <3>1. StopAgent(s) /\ UNCHANGED <<session, role, approval, followUp>>
      BY <2>3 DEF CancelStop, gateVars
    <3> HIDE DEF s
    <3> QED
      BY <3>1 DEF StopAgent, envVars, Followed, Lifecycle, NoneWants, Wants, IInv, TypeOK
  <2> QED
    BY <2>1, <2>2, <2>3
<1> QED
  BY <1>3, <1>5, <1>6, WorkerFollowed DEF IInv

--------------------------------------------------------------------------
(* Theorems *)

LEMMA InitFollowed == Init => AgentInv
<1> SUFFICES ASSUME Init PROVE Followed
  BY DEF AgentInv
<1>1. \A s \in SessionIds : ~Wants(s)
  BY DEF Init, Wants
<1>2. Lifecycle
  BY DEF Init, Lifecycle
<1> QED
  BY <1>1, <1>2 DEF Init, Followed, EndedIsIdle, HasStep, OneWrites, AtMostOne, Ended

LEMMA AgentStep == IInv /\ AgentInv /\ [Next]_vars => AgentInv'
<1> SUFFICES ASSUME IInv, AgentInv, [Next]_vars, faults' = 0 PROVE Followed'
  BY DEF AgentInv
<1>1. faults \in Nat
  BY BoundsAssumption DEF IInv, TypeOK
<1>2. CASE Advance \/ RequestedAdvance \/ Cancel \/ TakeCancel
  <2>1. faults' = faults
    BY <1>2 DEF Advance, RequestedAdvance, QueuedAdvance, TakeAdvance, Cancel, TakeCancel, ReconcileOpen,
       ReconcileEnded, ReconcileDone, DispatchBlocked, DispatchDenied, DispatchAsk, AskRecorded, DispatchSend,
       StartRecorded, StoreRun, CancelEnded, CancelStop, CancelMark, StoreCancelled
  <2>2. Followed
    BY <2>1 DEF AgentInv
  <2> QED
    BY <1>2, <2>2, TakeFollowed, ReconcileFollowed, NotStartedFollowed, StartingFollowed, RecordedFollowed,
       StoreFollowed, CancelFollowed DEF Advance, RequestedAdvance, QueuedAdvance, Cancel
<1>3. ASSUME NEW s \in SessionIds,
             Handlers(s) \/ AgentEnds(s) \/ Decided(s) \/ LoseAgent(s)
      PROVE  Followed'
  <2>1. faults' = faults
    BY <1>3 DEF Handlers, HandleStarted, HandleEnded, SendGranted, GrantedRuns, RefusedEnds,
       AgentEnds, Decided, Grant, Refuse, Lapse, Supersede, Decide, LoseAgent
  <2> QED
    BY <1>3, <2>1, SessionFollowed DEF AgentInv, IInv
<1>4. ASSUME NEW s \in SessionIds, StopSession(s) \/ RecoverLost(s) PROVE FALSE
  BY <1>1, <1>4 DEF StopSession, RecoverLost
<1>5. CASE Throw \/ Restart
  BY <1>1, <1>5 DEF Throw, Restart
<1>6. CASE UNCHANGED vars
  <2>1. Followed /\ UNCHANGED <<run, worker, role, session, approval, followUp, agent, inbox>>
    BY <1>6 DEF vars, AgentInv
  <2> QED
    BY <2>1, PlanKept, QuietFollowed DEF IInv
<1> QED
  BY <1>2, <1>3, <1>4, <1>5, <1>6 DEF Next, Outside

LEMMA AgentInvariance == Spec => [](IInv /\ AgentInv)
<1>1. Init => IInv /\ AgentInv
  BY InitInv, InitFollowed
<1>2. IInv /\ AgentInv /\ [Next]_vars => (IInv /\ AgentInv)'
  BY StepInv, AgentStep
<1> QED
  BY <1>1, <1>2, PTL DEF Spec

\* A live agent belongs to a step that knows its session, so that a cancel of
\* the run finds it (dispatch's order of send and record), for every plan and
\* whatever overtakes the record.
THEOREM EveryAgentHasAStepAlways == Spec => []EveryAgentHasAStep
<1>1. IInv /\ AgentInv => EveryAgentHasAStep
  BY DEF AgentInv, Followed, HasStep, Wants, EveryAgentHasAStep
<1> QED
  BY <1>1, AgentInvariance, PTL

\* No two builder agents are live at once in the tree they share (builderBusy),
\* although starts fail, are held, overtaken or cancelled.
THEOREM OneWriterInTreeAlways == Spec => []OneWriterInTree
<1>1. IInv /\ AgentInv => OneWriterInTree
  BY DEF AgentInv, Followed, OneWrites, Wants, OneWriterInTree, AtMostOne
<1> QED
  BY <1>1, AgentInvariance, PTL

--------------------------------------------------------------------------
(* Plans have no cycle *)

\* Whatever is left of a plan has a step that waits for nothing of it.
Grounded(plan) == \A S \in SUBSET DOMAIN plan : S # {} => \E i \in S : plan[i].deps \cap S = {}

GroundedInv == Grounded(run.plan) /\ Grounded(worker.plan)

LEMMA SameGrounded ==
    ASSUME NEW old, NEW new, SameAttempts(new, old), Grounded(old)
    PROVE  Grounded(new)
<1> SUFFICES ASSUME NEW S \in SUBSET DOMAIN old, S # {} PROVE \E i \in S : new[i].deps \cap S = {}
  BY DEF Grounded, SameAttempts
<1>1. PICK i \in S : old[i].deps \cap S = {}
  BY DEF Grounded
<1>2. new[i].deps = old[i].deps
  BY DEF SameAttempts
<1> QED
  BY <1>1, <1>2

\* The fix waits for the check only and the re-check for the fix only, so what
\* is rewired to the re-check closes no cycle.
LEMMA SendBackGrounded ==
    ASSUME NEW plan \in Seq(Step), NEW c \in DOMAIN plan, Grounded(plan),
           \A i \in DOMAIN plan : plan[i].deps \subseteq DOMAIN plan
    PROVE  Grounded(SendBack(plan, c))
<1> DEFINE n == Len(plan)
           Rewired(deps) == IF c \in deps THEN (deps \ {c}) \cup {n + 2} ELSE deps
           fixOrigin == IF plan[c].kind = "test" THEN "test_fix" ELSE "review_fix"
           fix == NewStep("implementation", {c}, fixOrigin, plan[c].attempt)
           recheck == NewStep(plan[c].kind, {n + 1}, fixOrigin, plan[c].attempt + 1)
           new == SendBack(plan, c)
<1>1. n \in Nat /\ DOMAIN plan = 1 .. n /\ \A i \in 1 .. n : plan[i] \in Step
  OBVIOUS
<1>2. new = [i \in 1 .. n + 2 |->
                IF i <= n THEN [plan[i] EXCEPT !.deps = Rewired(@)]
                ELSE IF i = n + 1 THEN fix ELSE recheck]
  BY DEF SendBack
<1>3. fix.deps = {c} /\ recheck.deps = {n + 1}
  BY DEF NewStep
<1> HIDE DEF fix, recheck, new, Rewired
<1>4. DOMAIN new = 1 .. n + 2 /\ new[n + 1].deps = {c} /\ new[n + 2].deps = {n + 1}
  BY <1>1, <1>2, <1>3
<1>5. ASSUME NEW i \in 1 .. n
      PROVE  /\ new[i].deps \subseteq plan[i].deps \cup {n + 2}
             /\ c \notin plan[i].deps => new[i].deps = plan[i].deps
  <2>1. new[i] = [plan[i] EXCEPT !.deps = Rewired(@)]
    BY <1>1, <1>2
  <2>2. new[i].deps = Rewired(plan[i].deps)
    BY <1>1, <2>1 DEF Step
  <2> QED
    BY <2>2 DEF Rewired
<1>6. c \in 1 .. n /\ n + 1 \notin 1 .. n /\ n + 2 \notin 1 .. n /\ n + 1 # n + 2
  BY <1>1
<1>7. ASSUME NEW S \in SUBSET DOMAIN new, S # {} PROVE \E i \in S : new[i].deps \cap S = {}
  <2> DEFINE T == S \cap 1 .. n
  <2>1. S \subseteq T \cup {n + 1, n + 2}
    BY <1>1, <1>4
  <2>2. ASSUME c \notin S, n + 1 \in S PROVE \E i \in S : new[i].deps \cap S = {}
    BY <1>4, <2>2
  <2>3. ASSUME n + 1 \notin S, n + 2 \in S PROVE \E i \in S : new[i].deps \cap S = {}
    BY <1>4, <2>3
  <2>4. CASE T = {}
    BY <1>6, <1>7, <2>1, <2>2, <2>3, <2>4
  <2>5. CASE T # {}
    <3>1. PICK i \in T : plan[i].deps \cap T = {}
      BY <1>1, <2>5 DEF Grounded
    <3>2. plan[i].deps \subseteq 1 .. n
      BY <1>1, <3>1
    <3>3. CASE c \notin plan[i].deps \/ n + 2 \notin S
      <4>1. new[i].deps \subseteq plan[i].deps \/ n + 2 \notin S
        BY <1>5, <3>1, <3>3
      <4>2. new[i].deps \cap S = {}
        BY <1>5, <3>1, <3>2, <4>1
      <4> QED
        BY <3>1, <4>2
    <3>4. CASE c \in plan[i].deps /\ n + 2 \in S
      <4>1. c \notin S
        BY <1>6, <3>1, <3>4
      <4> QED
        BY <2>2, <2>3, <3>4, <4>1
    <3> QED
      BY <3>3, <3>4
  <2> QED
    BY <2>4, <2>5
<1> QED
  BY <1>7 DEF Grounded, new

\* A session's end leaves a plan without cycles: what a planner replied is
\* checked before it becomes part of the plan.
LEMMA FinishedGrounded ==
    ASSUME NEW plan \in Seq(Step), NEW i \in DOMAIN plan, NEW state, NEW said \in Reports,
           Grounded(plan), plan[i].verdict # "fail",
           \A j \in DOMAIN plan : plan[j].deps \subseteq DOMAIN plan
    PROVE  Grounded(Finished(plan, i, state, said).plan)
<1> DEFINE ended == Concluded(plan, i, said.verdict)
           new == Finished(plan, i, state, said).plan
<1>1. said.verdict \in Verdicts
  BY DEF Reports
<1>2. SameAttempts(ended, plan) /\ ended \in Seq(Step) /\ i \in DOMAIN ended
  BY <1>1, ConcludedAttempts DEF SameAttempts
<1>3. \/ new = SetState(plan, i, "failed")
      \/ new = AfterPlanning(ended, i, said.reply)
      \/ new = SetState(ended, i, "failed")
      \/ new = ended
      \/ new = SendBack(ended, i)
  BY <1>1, FinishedCases
<1> HIDE DEF ended, new
<1>4. "failed" \in StepStates
  BY DEF StepStates
<1>5. Grounded(ended)
  BY <1>2, SameGrounded
<1>6. Grounded(SetState(plan, i, "failed")) /\ Grounded(SetState(ended, i, "failed"))
  BY <1>2, <1>4, <1>5, SetStateAttempts, SameGrounded
<1>7. Grounded(AfterPlanning(ended, i, said.reply))
  <2>1. \A p : ValidDag(p) => Grounded(p)
    BY DEF ValidDag, Grounded
  <2> QED
    BY <1>6, <2>1 DEF AfterPlanning
<1>8. Grounded(SendBack(ended, i))
  <2>1. \A j \in DOMAIN ended : ended[j].deps \subseteq DOMAIN ended
    BY <1>2 DEF SameAttempts
  <2> QED
    BY <1>2, <1>5, <2>1, SendBackGrounded
<1> QED
  BY <1>3, <1>5, <1>6, <1>7, <1>8 DEF new

LEMMA EmptyGrounded == Grounded(<<>>)
BY DEF Grounded

LEMMA GroundedStep == IInv /\ ChecksInv /\ GroundedInv /\ [Next]_vars => GroundedInv'
<1> SUFFICES ASSUME IInv, ChecksInv, GroundedInv, [Next]_vars PROVE GroundedInv'
  OBVIOUS
<1>1. worker.plan \in Seq(Step) /\ \A j \in DOMAIN worker.plan : worker.plan[j].deps \subseteq DOMAIN worker.plan
  BY DEF IInv, Turns, WorkerTurns, WorkerType, ChecksInv, WorkerChecks, Ordered
<1>2. CASE Copied
  BY <1>2, SameGrounded, EmptyGrounded DEF Copied, GroundedInv
<1>3. CASE ReconcileEnded
  <2>1. PICK i \in DOMAIN worker.plan, state \in SessionStates, said \in Reports :
           /\ worker'.plan = Finished(worker.plan, i, state, said).plan
           /\ worker.plan[i].verdict = "none"
    BY <1>3, EndedFinishes
  <2>2. Grounded(worker'.plan)
    BY <1>1, <2>1, FinishedGrounded DEF GroundedInv
  <2> QED
    BY <1>3, <2>2, EndedFinishes DEF GroundedInv
<1>4. CASE Stored
  BY <1>4, EmptyGrounded DEF Stored, GroundedInv
<1> QED
  BY <1>2, <1>3, <1>4, PlanMoves

\* A run starts from a plan that was checked.
LEMMA InitGrounded == Init => GroundedInv
<1> SUFFICES ASSUME Init PROVE GroundedInv
  OBVIOUS
<1>1. PICK inputs \in UserPlans : run.plan = AsPlan(inputs) /\ ValidDag(AsPlan(inputs))
  BY DEF Init
<1>2. Grounded(run.plan)
  BY <1>1 DEF ValidDag, Grounded
<1>3. worker.plan = <<>>
  BY DEF Init, Idle
<1> QED
  BY <1>2, <1>3, EmptyGrounded DEF GroundedInv

--------------------------------------------------------------------------
(* Nobody is left waiting *)

\* Nothing is lost on the way to an agent or from it, nothing overtakes its
\* cause, nobody ends a session or a pass from outside, and a step that waits
\* for its approval finds its machine when it is granted.  Decisions may come
\* late, and locks may supersede what is pending.
Calm ==
    /\ AdoptsIds /\ Disturbances \cap {"refuse", "overtake", "lose", "stop", "crash"} = {}
    /\ "offline" \in Disturbances => "require_approval" \notin Policy

\* The agent of session s will be heard of.
Working(s) == agent[s] = "live" \/ "ended" \in inbox[s]

\* Something is under way that ends s or lets it run, or its approval was
\* settled without a word.
Engaged(s) == Working(s) \/ approval[s] \in {"pending", "dropped"} \/ followUp[s] # "none"

\* A session that is open is engaged.
Attended(s) ==
    /\ session[s] \notin Ended \cup {"absent"} => Engaged(s)
    /\ followUp[s] = "run" \/ "started" \in inbox[s] => Working(s)
    /\ "require_approval" \notin Policy => approval[s] = "none" /\ followUp[s] = "none"

\* So is the one that is being started.
StartAttended ==
    /\ worker.pc = "ask" => approval[worker.plan[worker.at].session] = "pending"
    /\ worker.pc = "start" => Working(worker.plan[worker.at].session)

AttendedInv == faults = 0 /\ (\A s \in SessionIds : Attended(s)) /\ StartAttended

\* Under calm nobody ends a session or a pass from outside.
LEMMA CalmSteps ==
    ASSUME Calm, faults = 0, [Next]_vars
    PROVE  /\ faults' = 0 /\ ~Throw /\ ~Restart
           /\ \A s \in SessionIds : ~StopSession(s) /\ ~LoseAgent(s) /\ ~RecoverLost(s)
<1>1. ~Throw /\ ~Restart /\ \A s \in SessionIds : ~StopSession(s) /\ ~LoseAgent(s) /\ ~RecoverLost(s)
  BY DEF Calm, Throw, Restart, StopSession, LoseAgent, RecoverLost
<1>2. faults' = faults
  <2>1. CASE UNCHANGED vars
    BY <2>1 DEF vars
  <2>2. CASE Advance
    BY <2>2 DEF Advance, QueuedAdvance, TakeAdvance, ReconcileOpen, ReconcileEnded, ReconcileDone,
       DispatchBlocked, DispatchDenied, DispatchAsk, AskRecorded, DispatchSend, StartRecorded, StoreRun
  <2>3. CASE Cancel
    BY <2>3 DEF Cancel, CancelEnded, CancelStop, CancelMark, StoreCancelled
  <2>4. ASSUME NEW s \in SessionIds, Handlers(s) PROVE faults' = faults
    BY <2>4 DEF Handlers, HandleStarted, HandleEnded, SendGranted, GrantedRuns, RefusedEnds
  <2>5. CASE Outside
    BY <1>1, <2>5 DEF Outside, AgentEnds, Decided, Grant, Refuse, Lapse, Supersede, Decide, RequestedAdvance, TakeAdvance, TakeCancel
  <2> QED
    BY <2>1, <2>2, <2>3, <2>4, <2>5 DEF Next
<1> QED
  BY <1>1, <1>2

\* What a session is to the handlers.
sessionVars == <<session, approval, followUp, agent, inbox>>

LEMMA AttendedSame ==
    ASSUME UNCHANGED sessionVars, NEW s \in SessionIds, Attended(s)
    PROVE  Attended(s)'
BY DEF Attended, Engaged, Working, sessionVars

LEMMA StartAgentCalm ==
    ASSUME Calm, NEW s \in SessionIds, StartAgent(s)
    PROVE  /\ agent' = [agent EXCEPT ![s] = "live"]
           /\ inbox' = [inbox EXCEPT ![s] = @ \cup {"started"}]
BY DEF Calm, StartAgent

\* The steps of the lock holder.
LEMMA WorkerAttended ==
    ASSUME Calm, IInv, ChecksInv, AttendedInv, Advance \/ Cancel \/ RequestedAdvance \/ TakeCancel,
           NEW s \in SessionIds
    PROVE  Attended(s)'
<1> DEFINE i == Least(Ready(worker))
           t == Least(Unused)
           u == worker.plan[worker.at].session
<1>1. /\ session \in [SessionIds -> SessionStates] /\ approval \in [SessionIds -> Decisions]
      /\ followUp \in [SessionIds -> {"none", "send", "run", "end"}]
      /\ agent \in [SessionIds -> {"none", "live", "gone"}]
      /\ inbox \in [SessionIds -> SUBSET {"started", "ended"}]
  BY DEF IInv, TypeOK
<1>2. Attended(s) /\ StartAttended
  BY DEF AttendedInv
<1>3. CASE QueuedAdvance \/ RequestedAdvance \/ TakeCancel \/ ReconcileOpen \/ ReconcileEnded
           \/ ReconcileDone \/ DispatchBlocked \/ StoreRun \/ StoreCancelled \/ CancelEnded
  <2>1. UNCHANGED sessionVars
    BY <1>3 DEF QueuedAdvance, RequestedAdvance, TakeAdvance, TakeCancel, ReconcileOpen, ReconcileEnded,
       ReconcileDone, DispatchBlocked, StoreRun, StoreCancelled, CancelEnded, sessionVars, gateVars, envVars
  <2> QED
    BY <1>2, <2>1, AttendedSame
<1>4. CASE DispatchDenied
  <2>1. session' = [session EXCEPT ![t] = "failed"] /\ UNCHANGED <<approval, followUp, agent, inbox>>
    BY <1>4 DEF DispatchDenied, gateVars, envVars
  <2> HIDE DEF t
  <2> QED
    BY <1>1, <1>2, <2>1 DEF Attended, Engaged, Working, Ended
<1>5. CASE DispatchAsk
  <2>1. /\ session' = [session EXCEPT ![t] = "initializing"] /\ approval' = [approval EXCEPT ![t] = "pending"]
        /\ UNCHANGED <<followUp, agent, inbox>> /\ "require_approval" \in Policy
    BY <1>5 DEF DispatchAsk, envVars
  <2> HIDE DEF t
  <2> QED
    BY <1>1, <1>2, <2>1 DEF Attended, Engaged, Working
<1>6. CASE AskRecorded
  <2>1. /\ session' = [session EXCEPT ![u] = "waiting_for_approval"] /\ approval[u] = "pending"
        /\ UNCHANGED <<approval, followUp, agent, inbox>>
    BY <1>2, <1>6 DEF AskRecorded, gateVars, envVars, StartAttended
  <2> HIDE DEF u
  <2> QED
    BY <1>1, <1>2, <2>1 DEF Attended, Engaged, Working
<1>7. CASE DispatchSend
  <2>1. t \in SessionIds
    BY <1>7, UnusedIn DEF DispatchSend
  <2>2. /\ session' = [session EXCEPT ![t] = "initializing"] /\ StartAgent(t)
        /\ UNCHANGED <<approval, followUp>>
    BY <1>7 DEF DispatchSend, gateVars
  <2> HIDE DEF t
  <2>3. agent' = [agent EXCEPT ![t] = "live"] /\ inbox' = [inbox EXCEPT ![t] = @ \cup {"started"}]
    BY <2>1, <2>2, StartAgentCalm
  <2> QED
    BY <1>1, <1>2, <2>1, <2>2, <2>3 DEF Attended, Engaged, Working
<1>8. CASE StartRecorded
  <2>1. /\ session' = [session EXCEPT ![u] = "running"] /\ Working(u)
        /\ UNCHANGED <<approval, followUp, agent, inbox>>
    BY <1>2, <1>8 DEF StartRecorded, gateVars, envVars, StartAttended
  <2> HIDE DEF u
  <2> QED
    BY <1>1, <1>2, <2>1 DEF Attended, Engaged, Working
<1>9. CASE CancelStop
  <2> DEFINE v == worker.plan[Least(Dispatched(worker.plan, worker.at))].session
  <2>1. StopAgent(v) /\ UNCHANGED <<session, approval, followUp>>
    BY <1>9 DEF CancelStop, gateVars
  <2> HIDE DEF v
  <2>2. \/ UNCHANGED <<agent, inbox>>
        \/ agent' = [agent EXCEPT ![v] = "gone"] /\ inbox' = [inbox EXCEPT ![v] = @ \cup {"ended"}]
    BY <2>1 DEF StopAgent, envVars
  <2> QED
    BY <1>1, <1>2, <2>1, <2>2 DEF Attended, Engaged, Working
<1>10. CASE CancelMark
  <2>1. session' = [session EXCEPT ![u] = "cancelled"] /\ UNCHANGED <<approval, followUp, agent, inbox>>
    BY <1>10 DEF CancelMark, gateVars, envVars
  <2> HIDE DEF u
  <2> QED
    BY <1>1, <1>2, <2>1 DEF Attended, Engaged, Working, Ended
<1> QED
  BY <1>3, <1>4, <1>5, <1>6, <1>7, <1>8, <1>9, <1>10 DEF Advance, Cancel

\* The handlers of session u, its approval and the end of its agent.
LEMMA SessionAttended ==
    ASSUME Calm, IInv, AttendedInv, NEW u \in SessionIds,
           Handlers(u) \/ AgentEnds(u) \/ Decided(u), NEW s \in SessionIds
    PROVE  Attended(s)'
<1>1. /\ session \in [SessionIds -> SessionStates] /\ approval \in [SessionIds -> Decisions]
      /\ followUp \in [SessionIds -> {"none", "send", "run", "end"}]
      /\ agent \in [SessionIds -> {"none", "live", "gone"}]
      /\ inbox \in [SessionIds -> SUBSET {"started", "ended"}]
      /\ report[u].exit \in Ended /\ AdoptsIds /\ "overtake" \notin Disturbances
  BY DEF IInv, TypeOK, Calm
<1>2. Attended(s) /\ Attended(u)
  BY DEF AttendedInv
<1>3. CASE HandleStarted(u)
  <2>1. /\ session' = [session EXCEPT ![u] = "running"] /\ inbox' = [inbox EXCEPT ![u] = @ \ {"started"}]
        /\ "started" \in inbox[u] /\ UNCHANGED <<approval, followUp, agent>>
    BY <1>1, <1>3 DEF HandleStarted, gateVars
  <2> QED
    BY <1>1, <1>2, <2>1 DEF Attended, Engaged, Working
<1>4. CASE HandleEnded(u)
  <2>1. /\ inbox' = [inbox EXCEPT ![u] = @ \ {"ended"}] /\ UNCHANGED <<approval, followUp, agent>>
        /\ followUp[u] # "run" /\ "started" \notin inbox[u]
        /\ session'[u] \in Ended /\ (s # u => session'[s] = session[s])
    BY <1>1, <1>4 DEF HandleEnded, gateVars, MayTouch, Awaiting
  <2> QED
    BY <1>1, <1>2, <2>1 DEF Attended, Engaged, Working
<1>5. CASE SendGranted(u)
  <2>1. followUp[u] = "send" /\ "require_approval" \in Policy
    BY <1>2, <1>5 DEF SendGranted, Attended
  <2>2. StartAgent(u) /\ followUp' = [followUp EXCEPT ![u] = "run"] /\ UNCHANGED <<session, approval>>
    BY <1>5, <2>1 DEF SendGranted, Calm
  <2>3. agent' = [agent EXCEPT ![u] = "live"] /\ inbox' = [inbox EXCEPT ![u] = @ \cup {"started"}]
    BY <2>2, StartAgentCalm
  <2> QED
    BY <1>1, <1>2, <2>1, <2>2, <2>3 DEF Attended, Engaged, Working
<1>6. CASE GrantedRuns(u)
  <2>1. /\ session' = [session EXCEPT ![u] = "running"] /\ followUp' = [followUp EXCEPT ![u] = "none"]
        /\ followUp[u] = "run" /\ UNCHANGED <<approval, agent, inbox>>
    BY <1>6 DEF GrantedRuns, envVars
  <2> QED
    BY <1>1, <1>2, <2>1 DEF Attended, Engaged, Working
<1>7. CASE RefusedEnds(u)
  <2>1. /\ session' = [session EXCEPT ![u] = "cancelled"] /\ followUp' = [followUp EXCEPT ![u] = "none"]
        /\ UNCHANGED <<approval, agent, inbox>>
    BY <1>7 DEF RefusedEnds, envVars
  <2> QED
    BY <1>1, <1>2, <2>1 DEF Attended, Engaged, Working, Ended
<1>8. CASE AgentEnds(u)
  <2>1. /\ agent' = [agent EXCEPT ![u] = "gone"] /\ inbox' = [inbox EXCEPT ![u] = @ \cup {"ended"}]
        /\ UNCHANGED <<session, approval, followUp>>
    BY <1>8 DEF AgentEnds, gateVars
  <2> QED
    BY <1>1, <1>2, <2>1 DEF Attended, Engaged, Working
<1>9. CASE Decided(u)
  <2>1. PICK decision \in {"granted", "refused", "dropped"}, then \in {"send", "end", "none"} :
           /\ approval[u] = "pending" /\ approval' = [approval EXCEPT ![u] = decision]
           /\ decision = "dropped" \/ then # "none"
           /\ followUp' = [followUp EXCEPT ![u] = then] /\ UNCHANGED <<session, agent, inbox>>
    BY <1>9 DEF Decided, Grant, Refuse, Lapse, Supersede, Decide, envVars
  <2> QED
    BY <1>1, <1>2, <2>1 DEF Attended, Engaged, Working
<1> QED
  BY <1>3, <1>4, <1>5, <1>6, <1>7, <1>8, <1>9 DEF Handlers

\* The lock holder asks and sends in one step with what it then records.
LEMMA WorkerStartAttended ==
    ASSUME Calm, IInv, ChecksInv, AttendedInv, Advance \/ Cancel \/ RequestedAdvance \/ TakeCancel
    PROVE  StartAttended'
<1> DEFINE i == Least(Ready(worker))
           t == Least(Unused)
<1>1. WorkerTurns(worker) /\ worker \in WorkerType /\ worker.plan \in Seq(Step)
  BY DEF IInv, Turns, WorkerTurns, WorkerType
<1>2. /\ approval \in [SessionIds -> Decisions] /\ agent \in [SessionIds -> {"none", "live", "gone"}]
  BY DEF IInv, TypeOK
<1>3. CASE worker'.pc \notin {"ask", "start"}
  BY <1>3 DEF StartAttended
<1>4. CASE DispatchAsk \/ DispatchSend
  <2>1. i \in DOMAIN worker.plan /\ t \in SessionIds
    BY <1>1, <1>4, ReadyMayBegin, UnusedIn DEF DispatchAsk, DispatchSend
  <2>2. worker'.at = i /\ worker'.plan = Assign(worker.plan, i, t)
    BY <1>1, <1>4 DEF DispatchAsk, DispatchSend, WorkerType
  <2>3. /\ DispatchAsk => worker'.pc = "ask" /\ approval' = [approval EXCEPT ![t] = "pending"]
        /\ DispatchSend => worker'.pc = "start" /\ StartAgent(t)
    BY <1>1 DEF DispatchAsk, DispatchSend, WorkerType
  <2> HIDE DEF i, t
  <2>4. worker'.plan[worker'.at].session = t
    BY <1>1, <2>1, <2>2, AssignPhases
  <2>5. DispatchSend => agent' = [agent EXCEPT ![t] = "live"]
    BY <2>1, <2>3, StartAgentCalm
  <2> QED
    BY <1>2, <1>4, <2>1, <2>3, <2>4, <2>5 DEF StartAttended, Working
<1>5. CASE ~DispatchAsk /\ ~DispatchSend
  <2>1. Idle.pc = "idle"
    BY DEF Idle
  <2>2. ~(Advance \/ Cancel \/ RequestedAdvance \/ TakeCancel) \/ worker'.pc \notin {"ask", "start"}
    BY <1>1, <1>5, <2>1 DEF Advance, Cancel, QueuedAdvance, RequestedAdvance, TakeAdvance, TakeCancel,
       ReconcileOpen, ReconcileEnded, ReconcileDone, DispatchBlocked, DispatchDenied, AskRecorded,
       StartRecorded, StoreRun, CancelEnded, CancelStop, CancelMark, StoreCancelled, WorkerType, Idle
  <2> QED
    BY <1>3, <2>2
<1> QED
  BY <1>4, <1>5

\* What a session hears meanwhile waits until the start is recorded.
LEMMA SessionStartAttended ==
    ASSUME Calm, IInv, ChecksInv, AttendedInv, NEW u \in SessionIds,
           Handlers(u) \/ AgentEnds(u) \/ Decided(u)
    PROVE  StartAttended'
<1>0. PICK s : s = worker.plan[worker.at].session
  OBVIOUS
<1>1. /\ approval \in [SessionIds -> Decisions] /\ agent \in [SessionIds -> {"none", "live", "gone"}]
      /\ inbox \in [SessionIds -> SUBSET {"started", "ended"}]
      /\ worker' = worker
  BY DEF IInv, TypeOK, Handlers, HandleStarted, HandleEnded, SendGranted, GrantedRuns, RefusedEnds,
         AgentEnds, Decided, Grant, Refuse, Lapse, Supersede, Decide
<1>2. worker.pc \in {"ask", "start"} /\ u = s => Awaiting(u)
  BY <1>0 DEF Awaiting
<1>3. worker.pc \in {"ask", "start"} => s \in SessionIds
  <2>1. /\ worker.pc \in {"ask", "start"} => worker.at \in DOMAIN worker.plan /\ s # 0
        /\ worker.plan \in Seq(Step)
    BY <1>0 DEF IInv, Turns, WorkerTurns, AtStep, WorkerType, ChecksInv, WorkerChecks, AtWork
  <2>2. worker.pc \in {"ask", "start"} => worker.plan[worker.at] \in Step
    BY <2>1
  <2> QED
    BY <1>0, <2>1, <2>2, BoundsAssumption DEF Step, SessionIds
<1>4. /\ worker.pc = "ask" => approval[s] = "pending"
      /\ worker.pc = "start" => Working(s)
  BY <1>0 DEF AttendedInv, StartAttended
<1>5. ASSUME worker.pc = "ask" PROVE approval'[s] = "pending"
  <2>1. \/ approval' = approval
        \/ ~Awaiting(u) /\ \E decision \in Decisions : approval' = [approval EXCEPT ![u] = decision]
    BY DEF Handlers, HandleStarted, HandleEnded, SendGranted, GrantedRuns, RefusedEnds,
           AgentEnds, Decided, Grant, Refuse, Lapse, Supersede, Decide, MayTouch, Calm, gateVars, Decisions
  <2> QED
    BY <1>1, <1>2, <1>3, <1>4, <1>5, <2>1
<1>6. ASSUME worker.pc = "start" PROVE Working(s)'
  <2>1. CASE HandleEnded(u)
    BY <1>1, <1>2, <1>3, <1>4, <1>6, <2>1 DEF HandleEnded, MayTouch, Calm, Working
  <2>2. CASE HandleStarted(u)
    BY <1>1, <1>3, <1>4, <1>6, <2>2 DEF HandleStarted, Working
  <2>3. CASE SendGranted(u)
    BY <1>1, <1>3, <1>4, <1>6, <2>3 DEF SendGranted, StartAgent, envVars, Working
  <2>4. CASE AgentEnds(u)
    BY <1>1, <1>3, <1>4, <1>6, <2>4 DEF AgentEnds, Working
  <2>5. CASE GrantedRuns(u) \/ RefusedEnds(u) \/ Decided(u)
    BY <1>4, <1>6, <2>5 DEF GrantedRuns, RefusedEnds, Decided, Grant, Refuse, Lapse, Supersede, Decide, envVars, Working
  <2> QED
    BY <2>1, <2>2, <2>3, <2>4, <2>5 DEF Handlers
<1>7. worker'.plan[worker'.at].session = s
  BY <1>0, <1>1
<1> QED
  BY <1>1, <1>5, <1>6, <1>7 DEF StartAttended, Working

LEMMA AttendedStep ==
    ASSUME Calm, IInv, ChecksInv, AttendedInv, [Next]_vars
    PROVE  AttendedInv'
<1>1. /\ faults' = 0 /\ ~Throw /\ ~Restart
      /\ \A s \in SessionIds : ~StopSession(s) /\ ~LoseAgent(s) /\ ~RecoverLost(s)
  BY CalmSteps DEF AttendedInv
<1>2. CASE UNCHANGED vars
  <2>1. UNCHANGED sessionVars /\ worker' = worker
    BY <1>2 DEF vars, gateVars, envVars, sessionVars
  <2>2. StartAttended'
    BY <2>1 DEF AttendedInv, StartAttended, Working, sessionVars
  <2> QED
    BY <1>1, <2>1, <2>2, AttendedSame DEF AttendedInv
<1>3. CASE Advance \/ Cancel \/ RequestedAdvance \/ TakeCancel
  BY <1>1, <1>3, WorkerAttended, WorkerStartAttended DEF AttendedInv
<1>4. ASSUME NEW u \in SessionIds, Handlers(u) \/ AgentEnds(u) \/ Decided(u)
      PROVE  AttendedInv'
  BY <1>1, <1>4, SessionAttended, SessionStartAttended DEF AttendedInv
<1> QED
  BY <1>1, <1>2, <1>3, <1>4 DEF Next, Outside

LEMMA InitAttended == Init => AttendedInv
<1> SUFFICES ASSUME Init PROVE AttendedInv
  OBVIOUS
<1>1. faults = 0 /\ worker.pc = "idle"
  BY DEF Init, Idle
<1>2. \A s \in SessionIds : /\ session[s] = "absent" /\ approval[s] = "none"
                            /\ followUp[s] = "none" /\ inbox[s] = {}
  BY DEF Init
<1> QED
  BY <1>1, <1>2 DEF AttendedInv, Attended, StartAttended

--------------------------------------------------------------------------
(* A pass leaves nothing behind that could be started *)

\* A pending step that dispatch has gone past waits for a step, or for the
\* tree.
PassedOver(w) ==
    w.pc \in {"dispatch", "ask", "start"} =>
       \A i \in DOMAIN w.plan : i < w.at /\ w.plan[i].state = "pending" =>
          ~DepsCompleted(w.plan, i) \/ (w.busy /\ w.plan[i].kind \in Writers)

\* `busy` is said of a builder that holds the tree, or is being started.
BusyHas(w) ==
    /\ w.pc = "dispatch" /\ w.busy => Occupied(w.plan) # {}
    /\ w.pc \in {"ask", "start"} /\ w.busy => Occupied(w.plan) # {} \/ w.plan[w.at].kind \in Writers

PassInv == PassedOver(worker) /\ BusyHas(worker) /\ (worker.pc = "store" => worker.error)

\* Step i of the plan has been taken up, and not completed.
TakenUp(new, old, i) ==
    /\ DOMAIN new = DOMAIN old /\ old[i].state = "pending" /\ new[i].state # "completed"
    /\ \A j \in DOMAIN old : /\ new[j].deps = old[j].deps /\ new[j].kind = old[j].kind
                             /\ j # i => new[j] = old[j]

LEMMA SetStateTakesUp ==
    ASSUME NEW plan \in Seq(Step), NEW i \in DOMAIN plan, plan[i].state = "pending",
           NEW state \in {"running", "blocked", "failed"}
    PROVE  TakenUp(SetState(plan, i, state), plan, i)
<1>1. state \in StepStates
  BY DEF StepStates
<1> QED
  BY <1>1, SetStatePhases, SetStateOccupies DEF TakenUp

LEMMA AssignTakesUp ==
    ASSUME NEW plan \in Seq(Step), NEW i \in DOMAIN plan, plan[i].state = "pending",
           NEW s \in SessionIds
    PROVE  TakenUp(Assign(plan, i, s), plan, i)
BY AssignPhases, AssignOccupies DEF TakenUp

LEMMA DenyTakesUp ==
    ASSUME NEW plan \in Seq(Step), NEW i \in DOMAIN plan, plan[i].state = "pending",
           NEW s \in SessionIds
    PROVE  TakenUp(SetState(Assign(plan, i, s), i, "failed"), plan, i)
<1> DEFINE given == Assign(plan, i, s)
<1>1. /\ given \in Seq(Step) /\ i \in DOMAIN given /\ given[i].state = "pending"
      /\ TakenUp(given, plan, i)
  BY AssignPhases, AssignTakesUp
<1> HIDE DEF given
<1>2. TakenUp(SetState(given, i, "failed"), given, i)
  BY <1>1, SetStateTakesUp
<1> QED
  BY <1>1, <1>2 DEF TakenUp, given

\* That completes nothing, and frees no tree.
LEMMA TakenUpKeeps ==
    ASSUME NEW old, NEW new, NEW i, TakenUp(new, old, i),
           \A j \in DOMAIN old : old[j].deps \subseteq DOMAIN old
    PROVE  /\ \A j \in DOMAIN old : DepsCompleted(new, j) => DepsCompleted(old, j)
           /\ Occupied(old) \subseteq Occupied(new)
<1>1. \A d \in DOMAIN old : new[d].state = "completed" => old[d].state = "completed"
  BY DEF TakenUp
<1>2. \A j \in DOMAIN old : DepsCompleted(new, j) => DepsCompleted(old, j)
  BY <1>1 DEF DepsCompleted, TakenUp
<1>3. Occupied(old) \subseteq Occupied(new)
  BY DEF Occupied, TakenUp
<1> QED
  BY <1>2, <1>3

\* What comes before the first step that is ready cannot be started.
LEMMA ReadyPasses ==
    ASSUME WorkerTurns(worker), worker.pc = "dispatch", PassedOver(worker), Ready(worker) # {},
           NEW i, i = Least(Ready(worker)), NEW j \in DOMAIN worker.plan, j < i,
           worker.plan[j].state = "pending"
    PROVE  ~DepsCompleted(worker.plan, j) \/ (worker.busy /\ worker.plan[j].kind \in Writers)
<1>1. Ready(worker) \in SUBSET Nat /\ worker.plan \in Seq(Step) /\ worker.at \in Nat
  BY DEF WorkerTurns, WorkerType, Ready
<1>2. i \in Nat /\ j \in Nat /\ \A k \in Ready(worker) : i <= k
  BY <1>1, LeastIn
<1>3. j \notin Ready(worker)
  BY <1>2
<1>4. CASE j < worker.at
  BY <1>4 DEF PassedOver
<1>5. CASE j >= worker.at
  BY <1>3, <1>5 DEF Ready
<1> QED
  BY <1>1, <1>2, <1>4, <1>5

\* The step of a pass that begins, denies or sets aside a step.
LEMMA DispatchPasses ==
    ASSUME IInv, ChecksInv, PassInv, DispatchBlocked \/ DispatchDenied \/ DispatchAsk \/ DispatchSend
    PROVE  PassInv'
<1>1. PICK i : i = Least(Ready(worker))
  OBVIOUS
<1>2. PICK t : t = Least(Unused)
  OBVIOUS
<1>3. /\ WorkerTurns(worker) /\ worker \in WorkerType /\ worker.plan \in Seq(Step)
      /\ \A j \in DOMAIN worker.plan : worker.plan[j].deps \subseteq DOMAIN worker.plan
      /\ PassedOver(worker) /\ BusyHas(worker)
  BY DEF IInv, Turns, WorkerTurns, WorkerType, ChecksInv, WorkerChecks, Ordered, PassInv
<1>4. worker.pc = "dispatch" /\ Ready(worker) # {}
  BY DEF DispatchBlocked, DispatchDenied, DispatchAsk, DispatchSend
<1>5. i \in DOMAIN worker.plan /\ i \in Nat \ {0} /\ worker.plan[i].state = "pending"
  BY <1>1, <1>3, <1>4, ReadyIn
<1>6. \A j \in DOMAIN worker.plan : j < i /\ worker.plan[j].state = "pending" =>
         ~DepsCompleted(worker.plan, j) \/ (worker.busy /\ worker.plan[j].kind \in Writers)
  BY <1>1, <1>3, <1>4, ReadyPasses
<1>7. worker.busy => Occupied(worker.plan) # {}
  BY <1>3, <1>4 DEF BusyHas
<1>8. CASE DispatchBlocked \/ DispatchDenied
  <2>1. worker'.pc = "dispatch" /\ worker'.at = i + 1 /\ worker'.busy = worker.busy
    BY <1>1, <1>3, <1>4, <1>8 DEF DispatchBlocked, DispatchDenied, WorkerType
  <2>2. TakenUp(worker'.plan, worker.plan, i) /\ worker'.plan[i].state # "pending"
    <3>1. CASE DispatchBlocked
      <4>1. worker'.plan = SetState(worker.plan, i, "blocked")
        BY <1>1, <1>3, <3>1 DEF DispatchBlocked, WorkerType
      <4>2. "blocked" \in StepStates
        BY DEF StepStates
      <4> QED
        BY <1>3, <1>5, <4>1, <4>2, SetStateTakesUp, SetStatePhases
    <3>2. CASE DispatchDenied
      <4>1. worker'.plan = SetState(Assign(worker.plan, i, t), i, "failed")
        BY <1>1, <1>2, <1>3, <3>2 DEF DispatchDenied, WorkerType
      <4>2. t \in SessionIds /\ "failed" \in StepStates
        BY <1>2, <3>2, UnusedIn DEF DispatchDenied, StepStates
      <4>3. Assign(worker.plan, i, t) \in Seq(Step) /\ i \in DOMAIN Assign(worker.plan, i, t)
        BY <1>3, <1>5, <4>2, AssignPhases
      <4> QED
        BY <1>3, <1>5, <4>1, <4>2, <4>3, DenyTakesUp, SetStatePhases
    <3> QED
      BY <1>8, <3>1, <3>2
  <2>3. /\ \A j \in DOMAIN worker.plan : DepsCompleted(worker'.plan, j) => DepsCompleted(worker.plan, j)
        /\ Occupied(worker.plan) \subseteq Occupied(worker'.plan)
    BY <1>3, <2>2, TakenUpKeeps
  <2>4. ASSUME NEW j \in DOMAIN worker'.plan, j < i + 1, worker'.plan[j].state = "pending"
        PROVE  ~DepsCompleted(worker'.plan, j) \/ (worker'.busy /\ worker'.plan[j].kind \in Writers)
    <3>1. j \in DOMAIN worker.plan /\ j # i /\ j \in Nat
      BY <1>3, <2>2, <2>4 DEF TakenUp
    <3>2. j < i /\ worker'.plan[j] = worker.plan[j]
      BY <1>5, <2>2, <2>4, <3>1 DEF TakenUp
    <3> QED
      BY <1>6, <2>1, <2>3, <2>4, <3>1, <3>2
  <2>5. PassedOver(worker)'
    BY <2>1, <2>4 DEF PassedOver
  <2> QED
    BY <1>7, <2>1, <2>3, <2>5 DEF PassInv, BusyHas
<1>9. CASE DispatchAsk \/ DispatchSend
  <2>1. /\ worker'.pc \in {"ask", "start"} /\ worker'.at = i /\ worker'.busy = Holds(worker, i)
        /\ worker'.plan = Assign(worker.plan, i, t)
    BY <1>1, <1>2, <1>3, <1>4, <1>9 DEF DispatchAsk, DispatchSend, WorkerType
  <2>2. t \in SessionIds
    BY <1>2, <1>9, UnusedIn DEF DispatchAsk, DispatchSend
  <2>3. TakenUp(worker'.plan, worker.plan, i)
    BY <1>3, <1>5, <2>1, <2>2, AssignTakesUp
  <2>4. /\ \A j \in DOMAIN worker.plan : DepsCompleted(worker'.plan, j) => DepsCompleted(worker.plan, j)
        /\ Occupied(worker.plan) \subseteq Occupied(worker'.plan)
    BY <1>3, <2>3, TakenUpKeeps
  <2>5. ASSUME NEW j \in DOMAIN worker'.plan, j < i, worker'.plan[j].state = "pending"
        PROVE  ~DepsCompleted(worker'.plan, j) \/ (worker'.busy /\ worker'.plan[j].kind \in Writers)
    <3>1. j \in DOMAIN worker.plan /\ j # i /\ j \in Nat
      BY <1>3, <1>5, <2>3, <2>5 DEF TakenUp
    <3>2. worker'.plan[j] = worker.plan[j]
      BY <2>3, <3>1 DEF TakenUp
    <3> QED
      BY <1>6, <2>1, <2>4, <2>5, <3>1, <3>2 DEF Holds
  <2>6. PassedOver(worker)'
    BY <2>1, <2>5 DEF PassedOver
  <2>7. worker'.plan[i].kind = worker.plan[i].kind
    BY <1>5, <2>3 DEF TakenUp
  <2> QED
    BY <1>7, <2>1, <2>4, <2>6, <2>7 DEF PassInv, BusyHas, Holds
<1> QED
  BY <1>8, <1>9

\* The step of a pass that records a start, or that a start is held.
LEMMA RecordedPasses ==
    ASSUME IInv, ChecksInv, PassInv, AskRecorded \/ StartRecorded
    PROVE  PassInv'
<1>1. PICK i : i = worker.at
  OBVIOUS
<1>2. /\ worker \in WorkerType /\ worker.plan \in Seq(Step) /\ worker.pc \in {"ask", "start"}
      /\ \A j \in DOMAIN worker.plan : worker.plan[j].deps \subseteq DOMAIN worker.plan
      /\ PassedOver(worker) /\ BusyHas(worker)
  BY DEF IInv, Turns, WorkerTurns, WorkerType, ChecksInv, WorkerChecks, Ordered, PassInv,
         AskRecorded, StartRecorded
<1>3. /\ i \in DOMAIN worker.plan /\ i \in Nat /\ worker.plan[i].state = "pending"
      /\ worker.plan[i].session # 0
  BY <1>1, <1>2 DEF IInv, Turns, WorkerTurns, AtStep, ChecksInv, WorkerChecks, AtWork
<1>4. PICK state \in {"running", "blocked"} :
         /\ worker'.plan = SetState(worker.plan, i, state) /\ worker'.pc = "dispatch"
         /\ worker'.at = i + 1 /\ worker'.busy = worker.busy
  BY <1>1, <1>2 DEF AskRecorded, StartRecorded, WorkerType
<1>5. state \in StepStates
  BY DEF StepStates
<1>6. /\ TakenUp(worker'.plan, worker.plan, i) /\ worker'.plan[i].state = state
      /\ worker'.plan[i].session # 0
  BY <1>2, <1>3, <1>4, <1>5, SetStateTakesUp, SetStatePhases
<1>7. /\ \A j \in DOMAIN worker.plan : DepsCompleted(worker'.plan, j) => DepsCompleted(worker.plan, j)
      /\ Occupied(worker.plan) \subseteq Occupied(worker'.plan)
  BY <1>2, <1>6, TakenUpKeeps
<1>8. ASSUME NEW j \in DOMAIN worker'.plan, j < i + 1, worker'.plan[j].state = "pending"
      PROVE  ~DepsCompleted(worker'.plan, j) \/ (worker'.busy /\ worker'.plan[j].kind \in Writers)
  <2>1. j \in DOMAIN worker.plan /\ j # i /\ j \in Nat
    BY <1>2, <1>6, <1>8 DEF TakenUp
  <2>2. j < i /\ worker'.plan[j] = worker.plan[j]
    BY <1>3, <1>6, <1>8, <2>1 DEF TakenUp
  <2> QED
    BY <1>1, <1>2, <1>4, <1>7, <1>8, <2>1, <2>2 DEF PassedOver
<1>9. PassedOver(worker)'
  BY <1>4, <1>8 DEF PassedOver
<1>10. worker'.busy => Occupied(worker'.plan) # {}
  <2>1. worker.plan[i].kind \in Writers => i \in Occupied(worker'.plan)
    BY <1>3, <1>6 DEF Occupied, TakenUp
  <2> QED
    BY <1>1, <1>2, <1>4, <1>7, <2>1 DEF BusyHas
<1> QED
  BY <1>4, <1>9, <1>10 DEF PassInv, BusyHas

LEMMA PassStep ==
    ASSUME IInv, ChecksInv, PassInv, [Next]_vars
    PROVE  PassInv'
<1>1. /\ worker \in WorkerType /\ worker.plan \in Seq(Step)
      /\ Idle \in WorkerType /\ Idle.pc = "idle"
  BY IdleTurns DEF IInv, Turns, WorkerTurns, WorkerType
<1>2. ASSUME worker'.pc \notin {"dispatch", "ask", "start", "store"} PROVE PassInv'
  BY <1>2 DEF PassInv, PassedOver, BusyHas
<1>3. ASSUME worker' = worker PROVE PassInv'
  BY <1>3 DEF PassInv, PassedOver, BusyHas
<1>4. CASE QueuedAdvance \/ RequestedAdvance \/ TakeCancel \/ StoreRun \/ StoreCancelled \/ Throw \/ Restart
  <2>1. worker'.pc \in {"idle", "reconcile", "cancel"}
    <3>1. CASE QueuedAdvance \/ RequestedAdvance
      BY <1>1, <3>1 DEF QueuedAdvance, RequestedAdvance, TakeAdvance, WorkerType
    <3>2. CASE TakeCancel
      BY <1>1, <3>2 DEF TakeCancel, WorkerType
    <3>3. CASE StoreRun \/ StoreCancelled \/ Throw \/ Restart
      BY <1>1, <3>3 DEF StoreRun, StoreCancelled, Throw, Restart
    <3> QED
      BY <1>4, <3>1, <3>2, <3>3
  <2> QED
    BY <1>2, <2>1
<1>5. CASE ReconcileOpen \/ CancelEnded \/ CancelStop \/ CancelMark
  <2>1. worker'.pc \in {"reconcile", "cancel", "stop"}
    BY <1>1, <1>5 DEF ReconcileOpen, CancelEnded, CancelStop, CancelMark, WorkerType
  <2> QED
    BY <1>2, <2>1
<1>6. CASE ReconcileEnded
  <2> DEFINE i == Least(Dispatched(worker.plan, worker.at))
             s == worker.plan[i].session
  <2>1. PICK result : result = Finished(worker.plan, i, session[s], report[s])
    OBVIOUS
  <2>2. worker'.error = result.error /\ worker'.pc = IF result.error THEN "store" ELSE "reconcile"
    BY <1>1, <1>6, <2>1 DEF ReconcileEnded, WorkerType
  <2> QED
    BY <1>2, <2>2 DEF PassInv, PassedOver, BusyHas
<1>7. CASE ReconcileDone
  <2>1. PICK plan : plan = Retried(worker.plan)
    OBVIOUS
  <2>2. /\ worker'.pc = "dispatch" /\ worker'.at = 1 /\ worker'.plan = plan
        /\ worker'.busy = (Occupied(plan) # {})
    BY <1>1, <1>7, <2>1 DEF ReconcileDone, WorkerType
  <2>3. DOMAIN plan = DOMAIN worker.plan
    BY <1>1, <2>1, RetriedKeeps
  <2>4. \A i \in DOMAIN plan : ~(i < 1)
    BY <1>1, <2>3
  <2> QED
    BY <2>2, <2>4 DEF PassInv, PassedOver, BusyHas
<1>8. CASE DispatchBlocked \/ DispatchDenied \/ DispatchAsk \/ DispatchSend
  BY <1>8, DispatchPasses
<1>9. CASE AskRecorded \/ StartRecorded
  BY <1>9, RecordedPasses
<1>10. ASSUME NEW s \in SessionIds,
              Handlers(s) \/ AgentEnds(s) \/ Decided(s) \/ StopSession(s) \/ LoseAgent(s) \/ RecoverLost(s)
       PROVE  PassInv'
  BY <1>3, <1>10 DEF Handlers, HandleStarted, HandleEnded, SendGranted, GrantedRuns, RefusedEnds,
     AgentEnds, Decided, Grant, Refuse, Lapse, Supersede, Decide, StopSession, LoseAgent, RecoverLost
<1>11. CASE UNCHANGED vars
  BY <1>3, <1>11 DEF vars
<1> QED
  BY <1>4, <1>5, <1>6, <1>7, <1>8, <1>9, <1>10, <1>11 DEF Next, Advance, Cancel, Outside

LEMMA InitPass == Init => PassInv
BY DEF Init, Idle, PassInv, PassedOver, BusyHas

--------------------------------------------------------------------------
(* No session ends unseen *)

\* The sessions that a plan names.
Names(plan) == {plan[i].session : i \in DOMAIN plan} \ {0}

KnownInv == \A s \in Names(run.plan) \cup Names(worker.plan) : session[s] # "absent"

LEMMA NamesTyped ==
    ASSUME NEW plan \in Seq(Step)
    PROVE  Names(plan) \subseteq SessionIds
<1>1. \A i \in DOMAIN plan : plan[i] \in Step
  OBVIOUS
<1> QED
  BY <1>1, BoundsAssumption DEF Names, Step, SessionIds

\* A session record stays.
LEMMA SessionsStay ==
    ASSUME IInv, [Next]_vars, NEW s \in SessionIds, session[s] # "absent"
    PROVE  session'[s] # "absent"
<1>1. session \in [SessionIds -> SessionStates] /\ \A u \in SessionIds : report[u].exit # "absent"
  BY DEF IInv, TypeOK, Ended
<1>2. CASE session' = session \/ \E u, state : state # "absent" /\ session' = [session EXCEPT ![u] = state]
  BY <1>1, <1>2
<1>3. CASE Advance
  BY <1>2, <1>3 DEF Advance, QueuedAdvance, TakeAdvance, ReconcileOpen, ReconcileEnded, ReconcileDone,
     DispatchBlocked, DispatchDenied, DispatchAsk, AskRecorded, DispatchSend, StartRecorded, StoreRun
<1>4. CASE Cancel
  BY <1>2, <1>4 DEF Cancel, CancelEnded, CancelStop, CancelMark, StoreCancelled
<1>5. ASSUME NEW u \in SessionIds, Handlers(u) PROVE session'[s] # "absent"
  BY <1>1, <1>2, <1>5 DEF Handlers, HandleStarted, HandleEnded, SendGranted, GrantedRuns, RefusedEnds
<1>6. CASE Outside
  BY <1>2, <1>6 DEF Outside, AgentEnds, Decided, Grant, Refuse, Lapse, Supersede, Decide, StopSession, LoseAgent, RecoverLost,
     RequestedAdvance, TakeAdvance, TakeCancel, Throw, Restart
<1>7. CASE UNCHANGED vars
  BY <1>2, <1>7 DEF vars
<1> QED
  BY <1>3, <1>4, <1>5, <1>6, <1>7 DEF Next

LEMMA SetStateNames ==
    ASSUME NEW plan \in Seq(Step), NEW i \in DOMAIN plan, NEW state \in StepStates
    PROVE  Names(SetState(plan, i, state)) = Names(plan)
<1> DEFINE new == SetState(plan, i, state)
<1>1. DOMAIN new = DOMAIN plan /\ \A j \in DOMAIN plan : new[j].session = plan[j].session
  BY SetStatePhases, SetStateOccupies
<1> HIDE DEF new
<1>2. Names(new) = Names(plan)
  BY <1>1 DEF Names
<1> QED
  BY <1>2 DEF new

LEMMA AssignNames ==
    ASSUME NEW plan \in Seq(Step), NEW i \in DOMAIN plan, NEW s \in SessionIds
    PROVE  Names(Assign(plan, i, s)) \subseteq Names(plan) \cup {s}
<1> DEFINE new == Assign(plan, i, s)
<1>1. /\ DOMAIN new = DOMAIN plan /\ new[i].session = s
      /\ \A j \in DOMAIN plan : j # i => new[j] = plan[j]
  BY AssignPhases
<1> HIDE DEF new
<1>2. Names(new) \subseteq Names(plan) \cup {s}
  BY <1>1 DEF Names
<1> QED
  BY <1>2 DEF new

\* A plan comes to name a session in the step that records it.
LEMMA NamesStep ==
    ASSUME IInv, ChecksInv, [Next]_vars
    PROVE  /\ Names(run'.plan) \subseteq Names(run.plan) \cup Names(worker.plan)
           /\ \/ Names(worker'.plan) \subseteq Names(run.plan) \cup Names(worker.plan)
              \/ \E t \in SessionIds : /\ session'[t] # "absent"
                                       /\ Names(worker'.plan) \subseteq Names(worker.plan) \cup {t}
<1> DEFINE Goal == /\ Names(run'.plan) \subseteq Names(run.plan) \cup Names(worker.plan)
                   /\ \/ Names(worker'.plan) \subseteq Names(run.plan) \cup Names(worker.plan)
                      \/ \E t \in SessionIds : /\ session'[t] # "absent"
                                               /\ Names(worker'.plan) \subseteq Names(worker.plan) \cup {t}
<1>1. /\ WorkerTurns(worker) /\ worker \in WorkerType /\ worker.plan \in Seq(Step)
      /\ run.plan \in Seq(Step) /\ session \in [SessionIds -> SessionStates]
  BY DEF IInv, TypeOK, Turns, RunTurns, WorkerTurns, WorkerType
<1>2. Idle.plan = <<>> /\ Names(<<>>) = {}
  BY DEF Idle, Names
<1>3. ASSUME run' = run,
             \/ Names(worker'.plan) \subseteq Names(worker.plan)
             \/ Names(worker'.plan) \subseteq Names(run.plan)
             \/ worker' = Idle
      PROVE  Goal
  BY <1>2, <1>3
<1>4. ASSUME run' = run, NEW j \in DOMAIN worker.plan, NEW state \in {"running", "blocked", "failed"},
             worker'.plan = SetState(worker.plan, j, state)
      PROVE  Goal
  <2>1. state \in StepStates
    BY DEF StepStates
  <2> QED
    BY <1>1, <1>3, <1>4, <2>1, SetStateNames
<1>5. CASE QueuedAdvance \/ RequestedAdvance
  <2>1. run' = run /\ (worker' = Idle \/ worker'.plan = run.plan)
    BY <1>5 DEF QueuedAdvance, RequestedAdvance, TakeAdvance, Idle
  <2> QED
    BY <1>3, <2>1
<1>6. CASE TakeCancel
  <2> DEFINE new == [j \in DOMAIN run.plan |->
                        IF Unstarted(run.plan[j])
                        THEN [run.plan[j] EXCEPT !.state = "skipped"]
                        ELSE run.plan[j]]
  <2>1. run' = run /\ (worker' = Idle \/ worker'.plan = new)
    BY <1>6 DEF TakeCancel, Idle
  <2>2. \A j \in DOMAIN run.plan : run.plan[j] \in Step
    BY <1>1
  <2>3. DOMAIN new = DOMAIN run.plan /\ \A j \in DOMAIN run.plan : new[j].session = run.plan[j].session
    BY <2>2 DEF Step
  <2> HIDE DEF new
  <2>4. Names(new) \subseteq Names(run.plan)
    BY <2>3 DEF Names
  <2> QED
    BY <1>3, <2>1, <2>4
<1>7. CASE ReconcileOpen
  <2>1. PICK i : i = Least(Dispatched(worker.plan, worker.at))
    OBVIOUS
  <2>2. i \in DOMAIN worker.plan
    BY <1>1, <1>7, <2>1, DispatchedIn DEF ReconcileOpen
  <2>3. /\ worker'.plan = worker.plan \/ worker'.plan = SetState(worker.plan, i, "running")
        /\ run' = run
    BY <1>1, <1>7, <2>1 DEF ReconcileOpen, WorkerType
  <2> QED
    BY <1>3, <1>4, <2>2, <2>3
<1>8. CASE ReconcileEnded
  <2>1. PICK i \in DOMAIN worker.plan, state \in SessionStates, said \in Reports :
           worker'.plan = Finished(worker.plan, i, state, said).plan
    BY <1>8, EndedFinishes
  <2>2. Settled(worker'.plan, worker.plan, i)
    BY <1>1, <2>1, FinishedSettles DEF Reports
  <2>3. \A j \in DOMAIN worker'.plan :
           \/ worker'.plan[j].session = 0
           \/ j \in DOMAIN worker.plan /\ worker'.plan[j].session = worker.plan[j].session
    BY <2>2 DEF Settled
  <2>4. Names(worker'.plan) \subseteq Names(worker.plan)
    BY <2>3 DEF Names
  <2> QED
    BY <1>3, <1>8, <2>4, EndedFinishes
<1>9. CASE ReconcileDone
  <2>1. worker'.plan = Retried(worker.plan) /\ run' = run
    BY <1>1, <1>9 DEF ReconcileDone, WorkerType
  <2>2. \A j \in DOMAIN worker.plan : worker.plan[j] \in Step
    BY <1>1
  <2>3. /\ DOMAIN Retried(worker.plan) = DOMAIN worker.plan
        /\ \A j \in DOMAIN worker.plan : Retried(worker.plan)[j].session = worker.plan[j].session
    BY <2>2 DEF Retried, Step
  <2>4. Names(worker'.plan) \subseteq Names(worker.plan)
    BY <2>1, <2>3 DEF Names
  <2> QED
    BY <1>3, <2>1, <2>4
<1>10. CASE DispatchBlocked \/ DispatchDenied \/ DispatchAsk \/ DispatchSend
  <2>1. PICK i : i = Least(Ready(worker))
    OBVIOUS
  <2>2. PICK t : t = Least(Unused)
    OBVIOUS
  <2>3. i \in DOMAIN worker.plan /\ run' = run
    BY <1>1, <1>10, <2>1, ReadyMayBegin DEF DispatchBlocked, DispatchDenied, DispatchAsk, DispatchSend
  <2>4. CASE DispatchBlocked
    <3>1. worker'.plan = SetState(worker.plan, i, "blocked")
      BY <1>1, <2>1, <2>4 DEF DispatchBlocked, WorkerType
    <3> QED
      BY <1>4, <2>3, <3>1
  <2>5. CASE DispatchDenied \/ DispatchAsk \/ DispatchSend
    <3> DEFINE given == Assign(worker.plan, i, t)
    <3>1. t \in SessionIds
      BY <2>2, <2>5, UnusedIn DEF DispatchDenied, DispatchAsk, DispatchSend
    <3>2. session'[t] # "absent"
      BY <1>1, <2>2, <2>5, <3>1 DEF DispatchDenied, DispatchAsk, DispatchSend
    <3>3. worker'.plan = given \/ worker'.plan = SetState(given, i, "failed")
      BY <1>1, <2>1, <2>2, <2>5 DEF DispatchDenied, DispatchAsk, DispatchSend, WorkerType
    <3>4. /\ given \in Seq(Step) /\ i \in DOMAIN given
          /\ Names(given) \subseteq Names(worker.plan) \cup {t} /\ "failed" \in StepStates
      BY <1>1, <2>3, <3>1, AssignType, AssignNames DEF StepStates
    <3> HIDE DEF given
    <3>5. Names(worker'.plan) \subseteq Names(worker.plan) \cup {t}
      BY <3>3, <3>4, SetStateNames
    <3> QED
      BY <2>3, <3>1, <3>2, <3>5
  <2> QED
    BY <1>10, <2>4, <2>5
<1>11. CASE AskRecorded \/ StartRecorded
  <2>1. worker.at \in DOMAIN worker.plan /\ run' = run
    BY <1>1, <1>11 DEF AskRecorded, StartRecorded, WorkerTurns, AtStep
  <2>2. PICK state \in {"running", "blocked"} : worker'.plan = SetState(worker.plan, worker.at, state)
    BY <1>1, <1>11 DEF AskRecorded, StartRecorded, WorkerType
  <2> QED
    BY <1>4, <2>1, <2>2
<1>12. CASE StoreRun \/ StoreCancelled
  <2>1. run'.plan = worker.plan /\ worker' = Idle
    BY <1>12 DEF StoreRun, StoreCancelled
  <2> QED
    BY <1>2, <2>1
<1>13. CASE CancelEnded
  <2>1. PICK i : i = Least(Dispatched(worker.plan, worker.at))
    OBVIOUS
  <2>2. i \in DOMAIN worker.plan
    BY <1>1, <1>13, <2>1, DispatchedIn DEF CancelEnded
  <2>3. worker'.plan = SetState(worker.plan, i, "failed") /\ run' = run
    BY <1>1, <1>13, <2>1 DEF CancelEnded, WorkerType
  <2> QED
    BY <1>4, <2>2, <2>3
<1>14. CASE CancelMark
  <2>1. /\ worker.at \in DOMAIN worker.plan /\ run' = run
        /\ worker'.plan = SetState(worker.plan, worker.at, "failed")
    BY <1>1, <1>14 DEF CancelMark, WorkerType, WorkerTurns, AtStep
  <2> QED
    BY <1>4, <2>1
<1>15. CASE CancelStop
  <2>1. worker'.plan = worker.plan /\ run' = run
    BY <1>1, <1>15 DEF CancelStop, WorkerType
  <2> QED
    BY <1>3, <2>1
<1>16. CASE Throw \/ Restart
  BY <1>3, <1>16 DEF Throw, Restart
<1>17. ASSUME NEW s \in SessionIds,
              Handlers(s) \/ AgentEnds(s) \/ Decided(s) \/ StopSession(s) \/ LoseAgent(s) \/ RecoverLost(s)
       PROVE  Goal
  BY <1>3, <1>17 DEF Handlers, HandleStarted, HandleEnded, SendGranted, GrantedRuns, RefusedEnds,
     AgentEnds, Decided, Grant, Refuse, Lapse, Supersede, Decide, StopSession, LoseAgent, RecoverLost
<1>18. CASE UNCHANGED vars
  BY <1>3, <1>18 DEF vars
<1> QED
  BY <1>5, <1>6, <1>7, <1>8, <1>9, <1>10, <1>11, <1>12, <1>13, <1>14, <1>15, <1>16, <1>17, <1>18
     DEF Next, Advance, Cancel, Outside

LEMMA KnownStep ==
    ASSUME IInv, ChecksInv, KnownInv, [Next]_vars
    PROVE  KnownInv'
<1>1. Names(run.plan) \subseteq SessionIds /\ Names(worker.plan) \subseteq SessionIds
  BY NamesTyped DEF IInv, Turns, RunTurns, WorkerTurns, WorkerType
<1>2. \A s \in Names(run.plan) \cup Names(worker.plan) : session'[s] # "absent"
  BY <1>1, SessionsStay DEF KnownInv
<1> QED
  BY <1>2, NamesStep DEF KnownInv

LEMMA InitKnown == Init => KnownInv
<1> SUFFICES ASSUME Init PROVE KnownInv
  OBVIOUS
<1>1. PICK inputs \in UserPlans : run.plan = AsPlan(inputs)
  BY DEF Init
<1>2. \A i \in DOMAIN run.plan : run.plan[i].session = 0
  BY <1>1 DEF AsPlan, NewStep
<1>3. worker.plan = <<>>
  BY DEF Init, Idle
<1> QED
  BY <1>2, <1>3 DEF KnownInv, Names

\* Step i runs or waits, and its session has ended.
Late(plan, i) ==
    /\ plan[i].session # 0 /\ plan[i].state \in {"running", "blocked"}
    /\ session[plan[i].session] \in Ended

\* The run is done, or this pass ends it.
Over == run.state \in DoneRun \/ worker.pc \in {"cancel", "stop", "store"}

\* A reconcile will come to that step, or an advance is queued.
Seen ==
    \A i \in DOMAIN Plan : Late(Plan, i) => wake \/ (worker.pc = "reconcile" /\ worker.at <= i)

SeenInv == Over \/ Seen

\* No step is late that was not.
LEMMA NotLater ==
    ASSUME SeenInv, Over => Over', wake => wake', worker.pc # "reconcile",
           \A i \in DOMAIN Plan' : Late(Plan, i)' => i \in DOMAIN Plan /\ Late(Plan, i)
    PROVE  SeenInv'
BY DEF SeenInv, Seen

\* Reconcile comes to each step that is late.
LEMMA ReconcileSeen ==
    ASSUME IInv, ChecksInv, SeenInv, ReconcileOpen \/ ReconcileEnded \/ ReconcileDone
    PROVE  SeenInv'
<1>1. /\ WorkerTurns(worker) /\ worker \in WorkerType /\ worker.plan \in Seq(Step)
      /\ worker.pc = "reconcile" /\ UNCHANGED <<run, session, wake>>
  BY DEF IInv, Turns, WorkerTurns, WorkerType, ReconcileOpen, ReconcileEnded, ReconcileDone
<1>2. run.state \notin DoneRun /\ Plan = worker.plan
  BY <1>1 DEF IInv, Turns, DoneIsIdle, Plan
<1>3. \A j \in DOMAIN worker.plan : Late(worker.plan, j) => wake \/ worker.at <= j
  BY <1>1, <1>2 DEF SeenInv, Seen, Over, DoneRun
<1>4. \A j \in DOMAIN worker.plan : Late(worker.plan, j) /\ ~wake => j \in Dispatched(worker.plan, worker.at)
  BY <1>1, <1>3 DEF Late, Dispatched, WorkerType
<1>5. CASE ReconcileOpen
  <2>1. PICK i : i = Least(Dispatched(worker.plan, worker.at))
    OBVIOUS
  <2>2. /\ i \in DOMAIN worker.plan /\ i \in Nat /\ session[worker.plan[i].session] \notin Ended
        /\ worker.plan[i].state \in {"running", "blocked"}
        /\ \A j \in Dispatched(worker.plan, worker.at) : i <= j
    <3>1. Dispatched(worker.plan, worker.at) \in SUBSET Nat
      BY <1>1 DEF Dispatched
    <3>2. Dispatched(worker.plan, worker.at) # {}
      BY <1>5 DEF ReconcileOpen
    <3> QED
      BY <1>1, <1>5, <2>1, <3>1, <3>2, DispatchedIn, LeastIn DEF ReconcileOpen
  <2>3. /\ worker'.at = i + 1 /\ worker'.pc = "reconcile"
        /\ worker'.plan = worker.plan \/ worker'.plan = SetState(worker.plan, i, "running")
    BY <1>1, <1>5, <2>1 DEF ReconcileOpen, WorkerType
  <2>4. /\ DOMAIN worker'.plan = DOMAIN worker.plan
        /\ \A j \in DOMAIN worker.plan : j # i => worker'.plan[j] = worker.plan[j]
        /\ worker'.plan[i].session = worker.plan[i].session
    <3>1. "running" \in StepStates
      BY DEF StepStates
    <3> QED
      BY <1>1, <2>2, <2>3, <3>1, SetStatePhases
  <2>5. ASSUME NEW j \in DOMAIN worker'.plan, Late(worker.plan, j)' PROVE wake' \/ worker'.at <= j
    <3>1. j # i
      BY <1>1, <2>2, <2>4, <2>5 DEF Late
    <3>2. Late(worker.plan, j)
      BY <1>1, <2>4, <2>5, <3>1 DEF Late
    <3>3. j \in Nat
      BY <1>1, <2>4
    <3> QED
      BY <1>1, <1>4, <2>2, <2>3, <2>4, <3>1, <3>2, <3>3
  <2> QED
    BY <2>3, <2>5 DEF SeenInv, Seen, Plan
<1>6. CASE ReconcileEnded
  <2>1. PICK i : i = Least(Dispatched(worker.plan, worker.at))
    OBVIOUS
  <2> DEFINE s == worker.plan[i].session
             result == Finished(worker.plan, i, session[s], report[s])
  <2>2. /\ i \in DOMAIN worker.plan /\ worker.plan[i].state \in {"running", "blocked"}
        /\ s \in SessionIds /\ \A j \in Dispatched(worker.plan, worker.at) : i <= j
    <3>1. Dispatched(worker.plan, worker.at) \in SUBSET Nat
      BY <1>1 DEF Dispatched
    <3>2. Dispatched(worker.plan, worker.at) # {}
      BY <1>6 DEF ReconcileEnded
    <3> QED
      BY <1>1, <1>6, <2>1, <3>1, <3>2, EndedIn, LeastIn
  <2>3. /\ worker'.plan = result.plan /\ worker'.at = i + 1
        /\ worker'.pc = IF result.error THEN "store" ELSE "reconcile"
    BY <1>1, <1>6, <2>1 DEF ReconcileEnded, WorkerType
  <2>4. report[s] \in [verdict : Verdicts, reply : PlannerReplies \cup {<<>>}, exit : Ended]
    BY <2>2 DEF IInv, TypeOK
  <2>5. Ordered(worker.plan) /\ Whole(worker.plan)
    BY <1>1 DEF ChecksInv, WorkerChecks, AtWork, WorkerType
  <2> HIDE DEF s
  <2>6. worker'.plan[i].state \in {"completed", "failed"} /\ Settled(worker'.plan, worker.plan, i)
    <3>1. result.plan[i].state \in {"completed", "failed"}
      BY <1>1, <2>2, <2>4, <2>5, FinishedChecks
    <3>2. Settled(result.plan, worker.plan, i)
      BY <1>1, <2>2, <2>4, FinishedSettles
    <3> HIDE DEF result
    <3> QED
      BY <2>3, <3>1, <3>2
  <2> HIDE DEF result
  <2>7. CASE result.error
    BY <2>3, <2>7 DEF SeenInv, Over
  <2>8. CASE ~result.error
    <3>1. ASSUME NEW j \in DOMAIN worker'.plan, Late(worker.plan, j)' PROVE wake' \/ worker'.at <= j
      <4>1. j # i /\ j \in DOMAIN worker.plan
        BY <2>6, <3>1 DEF Late, Settled
      <4>2. Late(worker.plan, j)
        BY <1>1, <2>6, <3>1, <4>1 DEF Late, Settled
      <4>3. j \in Nat /\ i \in Nat
        BY <1>1, <2>2, <4>1
      <4> QED
        BY <1>1, <1>4, <2>2, <2>3, <4>1, <4>2, <4>3
    <3> QED
      BY <2>3, <2>8, <3>1 DEF SeenInv, Seen, Plan
  <2> QED
    BY <2>7, <2>8
<1>7. CASE ReconcileDone
  <2>1. worker'.plan = Retried(worker.plan) /\ worker'.pc = "dispatch" /\ Dispatched(worker.plan, worker.at) = {}
    BY <1>1, <1>7 DEF ReconcileDone, WorkerType
  <2>2. \A j \in DOMAIN worker.plan : worker.plan[j] \in Step
    BY <1>1
  <2>3. \A j \in DOMAIN worker'.plan :
           /\ j \in DOMAIN worker.plan /\ worker'.plan[j].session = worker.plan[j].session
           /\ worker'.plan[j].state = worker.plan[j].state \/ worker'.plan[j].state = "pending"
    BY <2>1, <2>2 DEF Retried, Step
  <2>4. ASSUME NEW j \in DOMAIN worker'.plan, Late(worker.plan, j)' PROVE wake'
    <3>1. j \in DOMAIN worker.plan /\ Late(worker.plan, j)
      BY <1>1, <2>3, <2>4 DEF Late
    <3> QED
      BY <1>1, <1>4, <2>1, <3>1
  <2> QED
    BY <2>1, <2>4 DEF SeenInv, Seen, Plan
<1> QED
  BY <1>5, <1>6, <1>7

\* What dispatch starts is not over when it starts.
LEMMA DispatchSeen ==
    ASSUME IInv, ChecksInv, KnownInv, SeenInv,
           DispatchBlocked \/ DispatchDenied \/ DispatchAsk \/ DispatchSend
    PROVE  SeenInv'
<1>1. PICK i : i = Least(Ready(worker))
  OBVIOUS
<1>2. PICK t : t = Least(Unused)
  OBVIOUS
<1>3. /\ WorkerTurns(worker) /\ worker \in WorkerType /\ worker.plan \in Seq(Step)
      /\ worker.pc = "dispatch" /\ Ready(worker) # {} /\ UNCHANGED <<run, wake>>
      /\ session \in [SessionIds -> SessionStates]
  BY DEF IInv, TypeOK, Turns, WorkerTurns, WorkerType, DispatchBlocked, DispatchDenied, DispatchAsk, DispatchSend
<1>4. i \in DOMAIN worker.plan /\ worker.plan[i].state = "pending" /\ worker.plan[i].session = 0
  BY <1>1, <1>3, ReadyMayBegin, WorkerFresh DEF Fresh
<1>5. Plan = worker.plan /\ ~Over
  BY <1>3 DEF Plan, Over, IInv, Turns, DoneIsIdle
<1>6. worker'.pc \in {"dispatch", "ask", "start"}
  BY <1>3 DEF DispatchBlocked, DispatchDenied, DispatchAsk, DispatchSend, WorkerType
<1>7. Plan' = worker'.plan
  BY <1>6 DEF Plan
<1>8. CASE DispatchBlocked
  <2>1. worker'.plan = SetState(worker.plan, i, "blocked") /\ session' = session
    BY <1>1, <1>3, <1>8 DEF DispatchBlocked, WorkerType
  <2>2. "blocked" \in StepStates
    BY DEF StepStates
  <2>3. /\ DOMAIN worker'.plan = DOMAIN worker.plan /\ worker'.plan[i].session = 0
        /\ \A j \in DOMAIN worker.plan : j # i => worker'.plan[j] = worker.plan[j]
    BY <1>3, <1>4, <2>1, <2>2, SetStatePhases
  <2>4. \A j \in DOMAIN Plan' : Late(Plan, j)' => j \in DOMAIN Plan /\ Late(Plan, j)
    BY <1>5, <1>7, <2>1, <2>3 DEF Late
  <2> QED
    BY <1>3, <1>5, <2>4, NotLater
<1>9. CASE DispatchDenied \/ DispatchAsk \/ DispatchSend
  <2> DEFINE given == Assign(worker.plan, i, t)
  <2>1. t \in SessionIds /\ session[t] = "absent"
    <3>1. Unused # {} /\ Unused \in SUBSET Nat
      BY <1>9, BoundsAssumption DEF DispatchDenied, DispatchAsk, DispatchSend, Unused, SessionIds
    <3>2. t \in Unused
      BY <1>2, <3>1, LeastIn
    <3> QED
      BY <3>2 DEF Unused
  <2>2. /\ worker'.plan = given \/ worker'.plan = SetState(given, i, "failed")
        /\ \A s \in SessionIds : s # t => session'[s] = session[s]
    BY <1>1, <1>2, <1>3, <1>9 DEF DispatchDenied, DispatchAsk, DispatchSend, WorkerType
  <2>3. /\ given \in Seq(Step) /\ i \in DOMAIN given /\ DOMAIN given = DOMAIN worker.plan
        /\ given[i].state = "pending" /\ "failed" \in StepStates
        /\ \A j \in DOMAIN worker.plan : j # i => given[j] = worker.plan[j]
    BY <1>3, <1>4, <2>1, AssignPhases DEF StepStates
  <2> HIDE DEF given
  <2>4. /\ DOMAIN worker'.plan = DOMAIN worker.plan /\ worker'.plan[i].state \in {"pending", "failed"}
        /\ \A j \in DOMAIN worker.plan : j # i => worker'.plan[j] = worker.plan[j]
    BY <2>2, <2>3, SetStatePhases
  <2>5. ASSUME NEW j \in DOMAIN Plan', Late(Plan, j)' PROVE j \in DOMAIN Plan /\ Late(Plan, j)
    <3>1. j \in DOMAIN worker.plan /\ j # i /\ worker'.plan[j] = worker.plan[j]
      BY <1>7, <2>4, <2>5 DEF Late
    <3>2. worker.plan[j].session \in Names(worker.plan)
      BY <1>7, <2>5, <3>1 DEF Late, Names
    <3>3. worker.plan[j].session # t /\ worker.plan[j].session \in SessionIds
      BY <1>3, <2>1, <3>2, NamesTyped DEF KnownInv
    <3> QED
      BY <1>5, <1>7, <2>2, <2>5, <3>1, <3>3 DEF Late
  <2> QED
    BY <1>3, <1>5, <2>5, NotLater
<1> QED
  BY <1>8, <1>9

\* A recorded start is open.
LEMMA RecordedSeen ==
    ASSUME IInv, ChecksInv, SeenInv, AskRecorded \/ StartRecorded
    PROVE  SeenInv'
<1>1. PICK i : i = worker.at
  OBVIOUS
<1>2. PICK u : u = worker.plan[i].session
  OBVIOUS
<1>3. /\ worker \in WorkerType /\ worker.plan \in Seq(Step) /\ i \in DOMAIN worker.plan
      /\ worker.pc \in {"ask", "start"} /\ UNCHANGED <<run, wake>>
      /\ session \in [SessionIds -> SessionStates]
  BY <1>1 DEF IInv, TypeOK, Turns, WorkerTurns, WorkerType, AtStep, AskRecorded, StartRecorded
<1>4. PICK state \in {"running", "blocked"}, as \in {"running", "waiting_for_approval"} :
         /\ worker'.plan = SetState(worker.plan, i, state) /\ worker'.pc = "dispatch"
         /\ session' = [session EXCEPT ![u] = as]
  BY <1>1, <1>2, <1>3 DEF AskRecorded, StartRecorded, WorkerType
<1>5. state \in StepStates
  BY DEF StepStates
<1>6. /\ DOMAIN worker'.plan = DOMAIN worker.plan /\ worker'.plan[i].session = u
      /\ \A j \in DOMAIN worker.plan : j # i => worker'.plan[j] = worker.plan[j]
  BY <1>2, <1>3, <1>4, <1>5, SetStatePhases
<1>7. Plan = worker.plan /\ Plan' = worker'.plan /\ ~Over
  BY <1>3, <1>4 DEF Plan, Over, IInv, Turns, DoneIsIdle
<1>8. ASSUME NEW j \in DOMAIN Plan', Late(Plan, j)' PROVE j \in DOMAIN Plan /\ Late(Plan, j)
  <2>1. worker'.plan[j] \in Step
    BY <1>3, <1>4, <1>5, <1>7, SetStatePhases
  <2>2. worker'.plan[j].session \in SessionIds /\ session'[worker'.plan[j].session] \in Ended
    BY <1>7, <1>8, <2>1, BoundsAssumption DEF Late, Step, SessionIds
  <2>3. worker'.plan[j].session # u
    BY <1>3, <1>4, <2>2 DEF Ended
  <2> QED
    BY <1>3, <1>4, <1>6, <1>7, <1>8, <2>2, <2>3 DEF Late
<1> QED
  BY <1>3, <1>7, <1>8, NotLater

\* A pass that ends the run is over; the others reconcile before anything else.
LEMMA TakeSeen ==
    ASSUME IInv, SeenInv, QueuedAdvance \/ RequestedAdvance \/ TakeCancel
    PROVE  SeenInv'
<1>1. run' = run /\ Idle \in WorkerType /\ run.plan \in Seq(Step)
  BY IdleTurns DEF QueuedAdvance, RequestedAdvance, TakeAdvance, TakeCancel, WorkerTurns, IInv, Turns, RunTurns
<1>2. CASE run.state \in DoneRun
  BY <1>1, <1>2 DEF SeenInv, Over
<1>3. CASE run.state \notin DoneRun /\ (QueuedAdvance \/ RequestedAdvance)
  <2>1. worker'.pc = "reconcile" /\ worker'.plan = run.plan /\ worker'.at = 1
    BY <1>1, <1>3 DEF QueuedAdvance, RequestedAdvance, TakeAdvance, WorkerType, Idle
  <2>2. Plan' = run.plan
    BY <2>1 DEF Plan
  <2>3. \A i \in DOMAIN run.plan : 1 <= i
    BY <1>1
  <2> QED
    BY <2>1, <2>2, <2>3 DEF SeenInv, Seen
<1>4. CASE run.state \notin DoneRun /\ TakeCancel
  <2>1. worker'.pc = "cancel"
    BY <1>1, <1>4 DEF TakeCancel, WorkerType
  <2> QED
    BY <2>1 DEF SeenInv, Over
<1> QED
  BY <1>2, <1>3, <1>4

\* The state of a run that is stopped by its fix loop.
LEMMA StoreSeen ==
    ASSUME IInv, SeenInv, PassInv, StoreRun \/ StoreCancelled
    PROVE  SeenInv'
<1>1. CASE worker.pc = "store"
  <2>1. worker.error = TRUE /\ run'.state = RunState(worker.plan, worker.error)
    BY <1>1 DEF StoreRun, StoreCancelled, PassInv, IInv, TypeOK
  <2>2. run'.state = "failed"
    BY <2>1 DEF RunState
  <2> QED
    BY <2>2 DEF SeenInv, Over, DoneRun
<1>2. CASE worker.pc = "cancel"
  <2>1. run'.state = "cancelled"
    BY <1>2 DEF StoreRun, StoreCancelled
  <2> QED
    BY <2>1 DEF SeenInv, Over, DoneRun
<1>3. CASE worker.pc = "dispatch"
  <2>1. run'.plan = worker.plan /\ worker'.pc = "idle" /\ UNCHANGED <<wake, session>>
    BY <1>3, IdleTurns DEF StoreRun, StoreCancelled
  <2>2. Plan = worker.plan /\ Plan' = worker.plan /\ ~Over
    BY <1>3, <2>1 DEF Plan, Over, IInv, Turns, DoneIsIdle
  <2>3. \A j \in DOMAIN Plan' : Late(Plan, j)' => j \in DOMAIN Plan /\ Late(Plan, j)
    BY <2>1, <2>2 DEF Late
  <2> QED
    BY <1>3, <2>1, <2>2, <2>3, NotLater
<1> QED
  BY <1>1, <1>2, <1>3 DEF StoreRun, StoreCancelled

LEMMA CancelSeen ==
    ASSUME IInv, CancelEnded \/ CancelStop \/ CancelMark
    PROVE  SeenInv'
<1>1. worker \in WorkerType
  BY DEF IInv, Turns, WorkerTurns
<1>2. worker'.pc \in {"cancel", "stop"}
  BY <1>1 DEF CancelEnded, CancelStop, CancelMark, WorkerType
<1> QED
  BY <1>2 DEF SeenInv, Over

\* Whoever ends a session queues an advance.
LEMMA SessionSeen ==
    ASSUME Calm, IInv, SeenInv, NEW u \in SessionIds,
           Handlers(u) \/ AgentEnds(u) \/ Decided(u)
    PROVE  SeenInv'
<1>1. UNCHANGED <<run, worker>> /\ session \in [SessionIds -> SessionStates] /\ run.plan \in Seq(Step)
      /\ worker.plan \in Seq(Step)
  BY DEF Handlers, HandleStarted, HandleEnded, SendGranted, GrantedRuns, RefusedEnds,
         AgentEnds, Decided, Grant, Refuse, Lapse, Supersede, Decide, IInv, TypeOK, Turns, RunTurns, WorkerTurns, WorkerType
<1>2. Plan' = Plan /\ (Over' <=> Over)
  BY <1>1 DEF Plan, Over
<1>3. CASE wake'
  BY <1>3 DEF SeenInv, Seen
<1>4. CASE (wake => wake') /\ (session' = session \/ session' = [session EXCEPT ![u] = "running"])
  <2>1. ASSUME NEW j \in DOMAIN Plan, Late(Plan, j)' PROVE Late(Plan, j)
    <3>1. Plan[j] \in Step
      BY <1>1 DEF Plan
    <3>2. Plan[j].session \in SessionIds
      BY <1>2, <2>1, <3>1, BoundsAssumption DEF Late, Step, SessionIds
    <3> QED
      BY <1>1, <1>2, <1>4, <2>1, <3>2 DEF Late, Ended
  <2> QED
    BY <1>1, <1>2, <1>4, <2>1 DEF SeenInv, Seen
<1>5. CASE HandleStarted(u) \/ SendGranted(u) \/ AgentEnds(u) \/ Decided(u)
  BY <1>4, <1>5 DEF HandleStarted, SendGranted, AgentEnds, Decided, Grant, Refuse, Lapse, Supersede, Decide
<1>6. CASE HandleEnded(u) \/ GrantedRuns(u) \/ RefusedEnds(u)
  BY <1>3, <1>6 DEF HandleEnded, GrantedRuns, RefusedEnds, Calm
<1> QED
  BY <1>5, <1>6 DEF Handlers

LEMMA SeenStep ==
    ASSUME Calm, IInv, ChecksInv, faults = 0, KnownInv, PassInv, SeenInv, [Next]_vars
    PROVE  SeenInv'
<1>1. ~Throw /\ ~Restart /\ \A s \in SessionIds : ~StopSession(s) /\ ~LoseAgent(s) /\ ~RecoverLost(s)
  BY CalmSteps
<1>2. CASE UNCHANGED vars
  BY <1>2 DEF vars, SeenInv, Seen, Over, Late, Plan
<1>3. CASE Advance
  BY <1>3, TakeSeen, ReconcileSeen, DispatchSeen, RecordedSeen, StoreSeen DEF Advance
<1>4. CASE Cancel
  BY <1>4, CancelSeen, StoreSeen DEF Cancel
<1>5. ASSUME NEW u \in SessionIds, Handlers(u) \/ AgentEnds(u) \/ Decided(u)
      PROVE  SeenInv'
  BY <1>5, SessionSeen
<1>6. CASE RequestedAdvance \/ TakeCancel
  BY <1>6, TakeSeen
<1> QED
  BY <1>1, <1>2, <1>3, <1>4, <1>5, <1>6 DEF Next, Outside

LEMMA InitSeen == Init => SeenInv
BY DEF Init, SeenInv, Seen

--------------------------------------------------------------------------
(* The theorem *)

\* A run that waits for an advance which nobody queued has a step that runs or
\* waits.
Promising ==
    worker.pc = "idle" /\ run.state \notin DoneRun /\ ~wake =>
       \E i \in DOMAIN run.plan : run.plan[i].state \in {"running", "blocked"}

\* A pass that ends with nothing running or blocked has completed its plan or
\* failed: of what is left, some step waits for nothing that is left, and what
\* it waited for is completed.
LEMMA StorePromises ==
    ASSUME IInv, ChecksInv, PassInv, GroundedInv, StoreRun
    PROVE  Promising'
<1>1. /\ run'.state = RunState(worker.plan, worker.error) /\ run'.plan = worker.plan
      /\ worker.plan \in Seq(Step) /\ worker.at \in Nat /\ worker.pc \in {"store", "dispatch"}
      /\ Ordered(worker.plan) /\ NoneSkipped(worker.plan) /\ Grounded(worker.plan)
      /\ worker.busy \in BOOLEAN
  BY DEF StoreRun, IInv, Turns, WorkerTurns, WorkerType, ChecksInv, WorkerChecks, GroundedInv
<1>2. CASE worker.pc = "store"
  <2>1. worker.error = TRUE
    BY <1>2 DEF PassInv, IInv, TypeOK
  <2>2. run'.state = "failed"
    BY <1>1, <2>1 DEF RunState
  <2> QED
    BY <2>2 DEF Promising, DoneRun
<1>3. CASE worker.pc = "dispatch"
  <2>1. worker.error = FALSE /\ Ready(worker) = {} /\ PassedOver(worker) /\ BusyHas(worker)
    BY <1>3 DEF StoreRun, PassInv, ChecksInv, WorkerChecks, AtWork, IInv, TypeOK
  <2> SUFFICES ASSUME run'.state \notin DoneRun,
                      \A i \in DOMAIN worker.plan : worker.plan[i].state \notin {"running", "blocked"}
               PROVE  FALSE
    BY <1>1 DEF Promising
  <2>2. \A i \in DOMAIN worker.plan : worker.plan[i].state \in {"pending", "completed", "failed"}
    <3>1. \A i \in DOMAIN worker.plan : worker.plan[i] \in Step
      BY <1>1
    <3>2. \A i \in DOMAIN worker.plan : worker.plan[i].state \in StepStates
      BY <3>1 DEF Step
    <3> QED
      BY <1>1, <3>2 DEF NoneSkipped, StepStates
  <2>3. /\ \A i \in DOMAIN worker.plan : worker.plan[i].state # "failed"
        /\ \E i \in DOMAIN worker.plan : worker.plan[i].state # "completed"
    BY <1>1, <2>1 DEF RunState, DoneRun
  <2> DEFINE P == {i \in DOMAIN worker.plan : worker.plan[i].state = "pending"}
  <2>4. P # {} /\ P \in SUBSET DOMAIN worker.plan
    BY <2>2, <2>3
  <2>5. PICK i \in P : worker.plan[i].deps \cap P = {}
    BY <1>1, <2>4 DEF Grounded
  <2>6. DepsCompleted(worker.plan, i)
    <3>1. worker.plan[i].deps \subseteq DOMAIN worker.plan
      BY <1>1 DEF Ordered
    <3> QED
      BY <2>2, <2>3, <2>5, <3>1 DEF DepsCompleted
  <2>7. Occupied(worker.plan) = {}
    BY DEF Occupied
  <2>8. worker.busy = FALSE
    BY <1>1, <1>3, <2>1, <2>7 DEF BusyHas
  <2>9. ~(i < worker.at)
    BY <1>3, <2>1, <2>6, <2>8 DEF PassedOver
  <2>10. i \in Nat
    BY <1>1
  <2>11. i \in Ready(worker)
    BY <1>1, <2>6, <2>8, <2>9, <2>10 DEF Ready
  <2> QED
    BY <2>1, <2>11
<1> QED
  BY <1>1, <1>2, <1>3

LEMMA PromisingStep ==
    ASSUME IInv, ChecksInv, PassInv, GroundedInv, Promising, ~Throw, ~Restart, [Next]_vars
    PROVE  Promising'
<1>1. worker \in WorkerType /\ Idle \in WorkerType
  BY IdleTurns DEF IInv, Turns, WorkerTurns
<1>2. CASE worker'.pc # "idle" \/ wake'
  BY <1>2 DEF Promising
<1>3. CASE run' = run /\ run.state \in DoneRun
  BY <1>3 DEF Promising
<1>4. CASE run' = run /\ worker' = worker /\ (wake => wake')
  BY <1>4 DEF Promising
<1>5. CASE QueuedAdvance \/ RequestedAdvance \/ TakeCancel
  <2>1. run' = run /\ (run.state \notin DoneRun => worker'.pc \in {"reconcile", "cancel"})
    BY <1>1, <1>5 DEF QueuedAdvance, RequestedAdvance, TakeAdvance, TakeCancel, WorkerType
  <2> QED
    BY <1>2, <1>3, <2>1
<1>6. CASE ReconcileOpen \/ ReconcileDone \/ DispatchBlocked \/ DispatchDenied \/ DispatchAsk
           \/ AskRecorded \/ DispatchSend \/ StartRecorded
  <2>1. worker'.pc \in {"reconcile", "dispatch", "ask", "start"}
    BY <1>1, <1>6 DEF ReconcileOpen, ReconcileDone, DispatchBlocked, DispatchDenied, DispatchAsk,
       AskRecorded, DispatchSend, StartRecorded, WorkerType
  <2> QED
    BY <1>2, <2>1
<1>7. CASE ReconcileEnded
  <2> DEFINE i == Least(Dispatched(worker.plan, worker.at))
             s == worker.plan[i].session
  <2>1. PICK result : result = Finished(worker.plan, i, session[s], report[s])
    OBVIOUS
  <2>2. worker'.pc = IF result.error THEN "store" ELSE "reconcile"
    BY <1>1, <1>7, <2>1 DEF ReconcileEnded, WorkerType
  <2> QED
    BY <1>2, <2>2
<1>8. CASE StoreRun
  BY <1>8, StorePromises
<1>9. CASE CancelEnded \/ CancelStop \/ CancelMark
  <2>1. worker'.pc \in {"cancel", "stop"}
    BY <1>1, <1>9 DEF CancelEnded, CancelStop, CancelMark, WorkerType
  <2> QED
    BY <1>2, <2>1
<1>10. CASE StoreCancelled
  <2>1. run'.state = "cancelled"
    BY <1>10 DEF StoreCancelled
  <2> QED
    BY <2>1 DEF Promising, DoneRun
<1>11. ASSUME NEW u \in SessionIds,
              Handlers(u) \/ AgentEnds(u) \/ Decided(u) \/ StopSession(u) \/ LoseAgent(u) \/ RecoverLost(u)
       PROVE  Promising'
  BY <1>4, <1>11 DEF Handlers, HandleStarted, HandleEnded, SendGranted, GrantedRuns, RefusedEnds,
     AgentEnds, Decided, Grant, Refuse, Lapse, Supersede, Decide, StopSession, LoseAgent, RecoverLost
<1>12. CASE UNCHANGED vars
  BY <1>4, <1>12 DEF vars
<1> QED
  BY <1>5, <1>6, <1>7, <1>8, <1>9, <1>10, <1>11, <1>12 DEF Next, Advance, Cancel, Outside

CalmInv ==
    AttendedInv /\ MannedInv /\ GroundedInv /\ PassInv /\ KnownInv /\ SeenInv /\ Promising

LEMMA CalmStep ==
    ASSUME Calm, IInv, ChecksInv, CalmInv, [Next]_vars
    PROVE  CalmInv'
<1>1. ~Throw /\ ~Restart /\ faults = 0
  BY CalmSteps DEF CalmInv, AttendedInv
<1>2. AttendedInv' /\ MannedInv' /\ GroundedInv'
  BY AttendedStep, MannedStep, GroundedStep DEF CalmInv
<1>3. PassInv' /\ KnownInv' /\ SeenInv'
  BY <1>1, PassStep, KnownStep, SeenStep DEF CalmInv
<1>4. Promising'
  BY <1>1, PromisingStep DEF CalmInv
<1> QED
  BY <1>2, <1>3, <1>4 DEF CalmInv

LEMMA InitCalm == Init => CalmInv
<1>1. Init => Promising
  BY DEF Init, Promising
<1> QED
  BY <1>1, InitAttended, InitManned, InitGrounded, InitPass, InitKnown, InitSeen DEF CalmInv

LEMMA CalmNeverStranded ==
    ASSUME IInv, CalmInv
    PROVE  RunNeverStranded
<1> SUFFICES ASSUME run.state \notin DoneRun, worker.pc = "idle", ~wake PROVE RunNeverStranded
  BY DEF RunNeverStranded
<1>1. PICK i \in DOMAIN run.plan : run.plan[i].state \in {"running", "blocked"}
  BY DEF CalmInv, Promising
<1>2. CASE run.plan[i].session = 0
  BY <1>1, <1>2 DEF RunNeverStranded, CalmInv, MannedInv, Manned
<1>3. CASE run.plan[i].session # 0
  <2>1. PICK s : s = run.plan[i].session
    OBVIOUS
  <2>2. run.plan \in Seq(Step)
    BY DEF IInv, Turns, RunTurns
  <2>3. i \in Dispatched(run.plan, 1) /\ s \in Names(run.plan) /\ s \in SessionIds
    BY <1>1, <1>3, <2>1, <2>2, NamesTyped DEF Dispatched, Names
  <2>4. session[s] # "absent"
    BY <2>3 DEF CalmInv, KnownInv
  <2>5. session[s] \notin Ended
    BY <1>1, <1>3, <2>1 DEF CalmInv, SeenInv, Over, Seen, Plan, Late
  <2>6. Engaged(s)
    BY <2>3, <2>4, <2>5 DEF CalmInv, AttendedInv, Attended
  <2>7. Attends(s) \/ approval[s] = "dropped"
    BY <2>6 DEF Attends, Engaged, Working
  <2> QED
    BY <2>1, <2>3, <2>7 DEF RunNeverStranded, Dropped
<1> QED
  BY <1>2, <1>3

\* No wake-up is lost: a run that is not done and that nobody works on has an
\* advance queued, or a step whose session will be heard of, or one that waits
\* for a machine, or one whose approval was settled silently (a decision after
\* its window, a lock) -- as long as no session is stopped from outside, no
\* agent lost and no pass interrupted, what is sent is started, and an answer
\* comes after what it answers is recorded (advanceNow, handleSessionEvent,
\* decideApproval, expireApproval).
THEOREM RunNeverStrandedAlways ==
    ASSUME Calm
    PROVE  Spec => []RunNeverStranded
<1>1. Init => CalmInv
  BY InitCalm
<1>2. IInv /\ ChecksInv /\ CalmInv /\ [Next]_vars => CalmInv'
  BY CalmStep
<1>3. IInv /\ CalmInv => RunNeverStranded
  BY CalmNeverStranded
<1> QED
  BY <1>1, <1>2, <1>3, ChecksInvariance, PTL DEF Spec
=============================================================================
