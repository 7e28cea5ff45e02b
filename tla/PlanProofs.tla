----------------------------- MODULE PlanProofs ------------------------------
(***************************************************************************)
(* More about Orchestration, for every plan, planner, policy and bound:    *)
(* nothing is ever built on a check that failed; a run only completes when *)
(* what failed was fixed and checked again and what was built was tested;  *)
(* its fix loops stop; and, crashes aside, a run keeps the promises of a   *)
(* task board.                                                             *)
(*                                                                         *)
(* The argument about checks: a step starts when all it needs is           *)
(* completed, so nothing that needs a check has started when its verdict   *)
(* comes (Ordered). If it failed, either all of this is rewired to the     *)
(* re-check (Mended, Whole) or the run stops there and then, before        *)
(* anything is dispatched.                                                 *)
(*                                                                         *)
(* The argument about the board: a step is under way from the moment its   *)
(* session is named, which comes before it is said to run or wait; so each *)
(* step of a pass begins one task, ends one, or changes none (AtWork says  *)
(* which). That a rewired plan still runs after all it ran after is        *)
(* RunsKept: the re-check needs the fix, and the fix the failed check.     *)
(*                                                                         *)
(* The argument about fix loops: each fix and each re-check belongs to the *)
(* loop of one original check (Rooted), which has at most one fix and one  *)
(* check for an attempt, so the fixes are no more than the pairs of an     *)
(* original check and an attempt within the limit.                         *)
(***************************************************************************)
EXTENDS OrchestrationProofs, FiniteSetTheorems

--------------------------------------------------------------------------
(* The inductive invariant *)

Begun(step) == step.state \notin {"pending", "skipped"}

\* A step needs steps of its own plan, and begins when they are completed; a
\* step with a verdict is a completed check.
Ordered(plan) ==
    \A i \in DOMAIN plan :
       /\ plan[i].deps \subseteq DOMAIN plan
       /\ plan[i].verdict # "none" => plan[i].state = "completed" /\ plan[i].kind \in Checks
       /\ Begun(plan[i]) => DepsCompleted(plan, i)

\* What needs a failed check is its fix, whether it has begun or not.
Mended(plan) ==
    \A i \in DOMAIN plan : \A d \in plan[i].deps :
       plan[d].verdict = "fail" => IsFixOf(plan, i, d)

\* The part of it that also holds where a run gives up.
Unbuilt(plan) ==
    \A i \in DOMAIN plan : \A d \in plan[i].deps :
       plan[d].verdict = "fail" /\ Begun(plan[i]) => IsFixOf(plan, i, d)

\* Check c has a fix, and the fix a check of the same kind behind it.
Rechecked(plan, c) ==
    \E f, r \in DOMAIN plan : /\ IsFixOf(plan, f, c) /\ plan[r].deps = {f}
                              /\ plan[r].kind = plan[c].kind

Runs(plan, t, u) == Board!RunsAfter([i \in DOMAIN plan |-> plan[i].deps], t, u)

Planned(plan, kind) == {i \in DOMAIN plan : plan[i].kind = kind /\ plan[i].origin = "planner"}

\* Where the planner named no test, every build it planned has one behind it.
Tested(plan) ==
    Planned(plan, "test") = {} =>
       \A b \in Planned(plan, "implementation") :
          \E t \in DOMAIN plan : plan[t].kind = "test" /\ Runs(plan, t, b)

HasVerdict(plan, i) ==
    plan[i].kind \in Checks /\ plan[i].state = "completed" => plan[i].verdict # "none"

\* A plan that is not given up.
Whole(plan) ==
    /\ Mended(plan) /\ Tested(plan)
    /\ \A c \in DOMAIN plan : /\ plan[c].verdict = "fail" => Rechecked(plan, c)
                              /\ HasVerdict(plan, c)

\* The step a pass is about is one that may begin, or that a cancel stops; it
\* has its session by then.
AtWork(w) ==
    /\ w.pc \in {"ask", "start"} => w.plan[w.at].state = "pending" /\ DepsCompleted(w.plan, w.at)
    /\ w.pc = "stop" => w.plan[w.at].state \in {"running", "blocked"}
    /\ w.pc \in {"ask", "start", "stop"} => w.plan[w.at].session # 0
    /\ w.error => w.pc = "store"

NoneSkipped(plan) == \A i \in DOMAIN plan : plan[i].state # "skipped"

WorkerChecks(w) ==
    /\ Ordered(w.plan) /\ Unbuilt(w.plan) /\ AtWork(w)
    /\ w.error = FALSE => Whole(w.plan)
    /\ w.pc \notin {"cancel", "stop"} => NoneSkipped(w.plan)

RunChecks(r) ==
    /\ Ordered(r.plan) /\ Unbuilt(r.plan)
    /\ r.state \notin {"failed", "cancelled"} => Whole(r.plan) /\ NoneSkipped(r.plan)
    /\ r.state = "completed" => \A i \in DOMAIN r.plan : r.plan[i].state = "completed"

ChecksInv == RunChecks(run) /\ WorkerChecks(worker)

--------------------------------------------------------------------------
(* Plans *)

LEMMA WholeIsUnbuilt ==
    ASSUME NEW plan, Whole(plan)
    PROVE  Unbuilt(plan)
BY DEF Whole, Mended, Unbuilt

\* What ran after what still does.
RunsKept(new, old) == \A t, u \in DOMAIN old : Runs(old, t, u) => Runs(new, t, u)

\* Old tests are tests still, no build is new.
LEMMA RunsKeptTested ==
    ASSUME NEW old, NEW new, Tested(old), RunsKept(new, old), DOMAIN old \subseteq DOMAIN new,
           \A j \in DOMAIN old : new[j].kind = old[j].kind /\ new[j].origin = old[j].origin,
           \A j \in DOMAIN new \ DOMAIN old : new[j].origin # "planner"
    PROVE  Tested(new)
BY DEF Tested, Planned, RunsKept

\* The same steps in another state.
SameSteps(new, old) ==
    /\ DOMAIN new = DOMAIN old
    /\ \A j \in DOMAIN old : /\ new[j].deps = old[j].deps /\ new[j].verdict = old[j].verdict
                             /\ new[j].kind = old[j].kind /\ new[j].origin = old[j].origin

\* Who runs after whom is read from the needs alone.
LEMMA SameDepsRun ==
    ASSUME NEW old, NEW new, DOMAIN new = DOMAIN old, \A j \in DOMAIN old : new[j].deps = old[j].deps
    PROVE  RunsKept(new, old)
<1>1. [i \in DOMAIN new |-> new[i].deps] = [i \in DOMAIN old |-> old[i].deps]
  OBVIOUS
<1> QED
  BY <1>1 DEF RunsKept, Runs

\* Steps may begin when what they need is completed, and anything but a
\* completed step may be given up.
LEMMA StatesMove ==
    ASSUME NEW old, NEW new, Ordered(old), SameSteps(new, old),
           \A j \in DOMAIN old : /\ old[j].state = "completed" <=> new[j].state = "completed"
                                 /\ Begun(new[j]) => DepsCompleted(old, j)
    PROVE  /\ Ordered(new)
           /\ Whole(old) => Whole(new)
           /\ \A j \in DOMAIN old : DepsCompleted(old, j) => DepsCompleted(new, j)
<1>1. \A j \in DOMAIN old : DepsCompleted(old, j) => DepsCompleted(new, j)
  BY DEF DepsCompleted, SameSteps, Ordered
<1>2. Ordered(new)
  BY <1>1 DEF Ordered, SameSteps
<1>3. ASSUME Whole(old) PROVE Whole(new)
  <2>1. Mended(new)
    BY <1>3 DEF Whole, Mended, SameSteps, IsFixOf, Ordered
  <2>2. Tested(new)
    BY <1>3, SameDepsRun, RunsKeptTested DEF Whole, SameSteps
  <2>3. \A c \in DOMAIN new : new[c].verdict = "fail" => Rechecked(new, c)
    BY <1>3 DEF Whole, SameSteps, Rechecked, IsFixOf
  <2>4. \A c \in DOMAIN new : HasVerdict(new, c)
    BY <1>3 DEF Whole, SameSteps, HasVerdict
  <2> QED
    BY <2>1, <2>2, <2>3, <2>4 DEF Whole
<1> QED
  BY <1>1, <1>2, <1>3

\* Setting the state of one step.
LEMMA SetStateOrdered ==
    ASSUME NEW plan \in Seq(Step), NEW i \in DOMAIN plan,
           NEW state \in {"running", "blocked", "failed"},
           Ordered(plan), plan[i].state # "completed", DepsCompleted(plan, i)
    PROVE  /\ Ordered(SetState(plan, i, state))
           /\ Whole(plan) => Whole(SetState(plan, i, state))
           /\ NoneSkipped(plan) => NoneSkipped(SetState(plan, i, state))
<1> DEFINE new == SetState(plan, i, state)
<1>1. state \in StepStates
  BY DEF StepStates
<1>2. /\ DOMAIN new = DOMAIN plan
      /\ \A j \in DOMAIN plan : new[j] = IF j = i THEN [plan[j] EXCEPT !.state = state] ELSE plan[j]
  BY <1>1, SetStateType
<1>3. \A j \in DOMAIN plan : plan[j] \in Step
  OBVIOUS
<1> HIDE DEF new
<1>4. \A j \in DOMAIN plan : new[j].state = IF j = i THEN state ELSE plan[j].state
  BY <1>2, <1>3 DEF Step
<1>5. SameSteps(new, plan)
  BY <1>2, <1>3 DEF Step, SameSteps
<1>6. \A j \in DOMAIN plan : Begun(new[j]) => DepsCompleted(plan, j)
  BY <1>4 DEF Begun, Ordered
<1>7. \A j \in DOMAIN plan : plan[j].state = "completed" <=> new[j].state = "completed"
  BY <1>4
<1>8. NoneSkipped(plan) => NoneSkipped(new)
  BY <1>2, <1>4 DEF NoneSkipped
<1> QED
  BY <1>5, <1>6, <1>7, <1>8, StatesMove DEF new

\* Giving a step its session changes nothing else.
LEMMA AssignOrdered ==
    ASSUME NEW plan \in Seq(Step), NEW i \in DOMAIN plan, NEW s \in SessionIds, Ordered(plan)
    PROVE  /\ Ordered(Assign(plan, i, s))
           /\ Whole(plan) => Whole(Assign(plan, i, s))
           /\ NoneSkipped(plan) => NoneSkipped(Assign(plan, i, s))
           /\ DepsCompleted(plan, i) => DepsCompleted(Assign(plan, i, s), i)
           /\ Assign(plan, i, s)[i].state = plan[i].state
<1> DEFINE new == Assign(plan, i, s)
<1>1. /\ DOMAIN new = DOMAIN plan
      /\ \A j \in DOMAIN plan : new[j] = IF j = i THEN [plan[j] EXCEPT !.session = s] ELSE plan[j]
  BY AssignType
<1>2. \A j \in DOMAIN plan : plan[j] \in Step
  OBVIOUS
<1> HIDE DEF new
<1>3. \A j \in DOMAIN plan : new[j].state = plan[j].state
  BY <1>1, <1>2 DEF Step
<1>4. SameSteps(new, plan)
  BY <1>1, <1>2 DEF Step, SameSteps
<1>5. \A j \in DOMAIN plan : Begun(new[j]) => DepsCompleted(plan, j)
  BY <1>3 DEF Begun, Ordered
<1>6. Ordered(new) /\ (Whole(plan) => Whole(new)) /\ (DepsCompleted(plan, i) => DepsCompleted(new, i))
  BY <1>3, <1>4, <1>5, StatesMove
<1>7. NoneSkipped(plan) => NoneSkipped(new)
  BY <1>1, <1>3 DEF NoneSkipped
<1> QED
  BY <1>3, <1>6, <1>7 DEF new

--------------------------------------------------------------------------
(* A plan that grows *)

\* new is old with pending steps behind it, none of which needs a failed check.
Extends(new, old) ==
    /\ new \in Seq(Step) /\ DOMAIN old \subseteq DOMAIN new
    /\ \A j \in DOMAIN old : new[j] = old[j]
    /\ \A j \in DOMAIN new \ DOMAIN old :
          /\ new[j].state = "pending" /\ new[j].verdict = "none"
          /\ \A d \in new[j].deps : d \in DOMAIN old => old[d].verdict # "fail"

LEMMA ExtendsTrans ==
    ASSUME NEW a, NEW b, NEW c, Extends(b, a), Extends(c, b)
    PROVE  Extends(c, a)
BY DEF Extends

LEMMA ExtendsMended ==
    ASSUME NEW new, NEW old, Extends(new, old), Ordered(old), Whole(old), Tested(new),
           \A j \in DOMAIN new : new[j].deps \subseteq DOMAIN new
    PROVE  Ordered(new) /\ Whole(new)
<1>1. Ordered(new)
  BY DEF Extends, Ordered, DepsCompleted, Begun
<1>2. ASSUME NEW i \in DOMAIN new, NEW d \in new[i].deps, new[d].verdict = "fail"
      PROVE  IsFixOf(new, i, d)
  <2>1. d \in DOMAIN old /\ old[d] = new[d]
    BY <1>2 DEF Extends
  <2>2. i \in DOMAIN old /\ old[i] = new[i]
    BY <1>2, <2>1 DEF Extends
  <2> QED
    BY <1>2, <2>1, <2>2 DEF Whole, Mended, IsFixOf
<1>3. ASSUME NEW c \in DOMAIN new
      PROVE  (new[c].verdict = "fail" => Rechecked(new, c)) /\ HasVerdict(new, c)
  <2>1. CASE c \in DOMAIN old
    <3>1. new[c] = old[c] /\ HasVerdict(old, c)
      BY <2>1 DEF Extends, Whole
    <3>2. ASSUME new[c].verdict = "fail" PROVE Rechecked(new, c)
      <4>1. PICK f, r \in DOMAIN old : IsFixOf(old, f, c) /\ old[r].deps = {f} /\ old[r].kind = old[c].kind
        BY <2>1, <3>1, <3>2 DEF Whole, Rechecked
      <4>2. f \in DOMAIN new /\ r \in DOMAIN new /\ new[f] = old[f] /\ new[r] = old[r]
        BY DEF Extends
      <4> QED
        BY <3>1, <4>1, <4>2 DEF Rechecked, IsFixOf
    <3> QED
      BY <3>1, <3>2 DEF HasVerdict
  <2>2. CASE c \notin DOMAIN old
    BY <1>3, <2>2 DEF Extends, HasVerdict
  <2> QED
    BY <2>1, <2>2
<1> QED
  BY <1>1, <1>2, <1>3 DEF Whole, Mended

\* What a step needs it runs after.
LEMMA NeedRuns ==
    ASSUME NEW plan, NEW t \in DOMAIN plan, NEW u \in plan[t].deps
    PROVE  Runs(plan, t, u)
BY DEF Runs, Board!RunsAfter

LEMMA ExtendsRuns ==
    ASSUME NEW new, NEW old, Extends(new, old), Ordered(old)
    PROVE  RunsKept(new, old)
<1> SUFFICES ASSUME NEW t \in DOMAIN old, NEW u \in DOMAIN old, Runs(old, t, u),
                    NEW S \in SUBSET DOMAIN new, t \in S, \A i \in S : new[i].deps \subseteq S
             PROVE  u \in S
  BY DEF RunsKept, Runs, Board!RunsAfter
<1> DEFINE T == S \cap DOMAIN old
<1>1. t \in T /\ T \in SUBSET DOMAIN old
  OBVIOUS
<1>2. \A i \in T : old[i].deps \subseteq T
  BY DEF Extends, Ordered
<1> HIDE DEF T
<1>3. u \in T
  BY <1>1, <1>2 DEF Runs, Board!RunsAfter
<1> QED
  BY <1>3 DEF T

LEMMA PlannedStepsExtend ==
    ASSUME NEW plan \in Seq(Step), NEW p \in DOMAIN plan, NEW reply \in Seq(Inputs),
           plan[p].verdict # "fail"
    PROVE  /\ Extends(PlannedSteps(plan, p, reply), plan)
           /\ \A j \in DOMAIN PlannedSteps(plan, p, reply) \ DOMAIN plan :
                 PlannedSteps(plan, p, reply)[j].origin = "planner"
<1> DEFINE n == Len(plan)
           deps(i) == IF reply[i].deps = {} THEN {p} ELSE {n + d : d \in reply[i].deps}
           added == [i \in DOMAIN reply |-> NewStep(reply[i].kind, deps(i), "planner", 1)]
           new == PlannedSteps(plan, p, reply)
<1>1. n \in Nat /\ DOMAIN plan = 1 .. n /\ Len(reply) \in Nat /\ DOMAIN reply = 1 .. Len(reply)
  OBVIOUS
<1>2. new \in Seq(Step)
  BY PlannedStepsGrow DEF Grown
<1>3. new = plan \o added /\ added \in Seq(Step) /\ Len(added) = Len(reply)
  <2>1. ASSUME NEW i \in DOMAIN reply PROVE added[i] \in Step
    <3>1. reply[i] \in Inputs
      BY <1>1
    <3>2. reply[i].kind \in Kinds /\ deps(i) \in SUBSET (Nat \ {0})
      BY <1>1, <3>1 DEF Inputs
    <3> HIDE DEF deps
    <3>3. "planner" \in Origins /\ 1 \in Nat \ {0}
      BY DEF Origins
    <3> QED
      BY <3>2, <3>3, NewStepType
  <2>2. added \in [1 .. Len(reply) -> Step]
    BY <1>1, <2>1
  <2> QED
    BY <1>1, <2>2, PlanOf DEF PlannedSteps
<1>4. ASSUME NEW j \in DOMAIN new \ DOMAIN plan
      PROVE  /\ new[j].state = "pending" /\ new[j].verdict = "none" /\ new[j].origin = "planner"
             /\ \A d \in new[j].deps : d \in DOMAIN plan => plan[d].verdict # "fail"
  <2>1. j - n \in DOMAIN reply /\ new[j] = added[j - n]
    BY <1>1, <1>3
  <2>2. /\ new[j].state = "pending" /\ new[j].verdict = "none" /\ new[j].origin = "planner"
        /\ new[j].deps = deps(j - n)
    <3> HIDE DEF deps, new
    <3> QED
      BY <2>1 DEF NewStep
  <2>3. reply[j - n].deps \in SUBSET (Nat \ {0})
    <3>1. reply[j - n] \in Inputs
      BY <1>1, <2>1
    <3> QED
      BY <3>1 DEF Inputs
  <2>4. \A d \in deps(j - n) : d \in DOMAIN plan => d = p
    BY <1>1, <2>3
  <2> QED
    BY <2>2, <2>4
<1>5. DOMAIN plan \subseteq DOMAIN new /\ \A j \in DOMAIN plan : new[j] = plan[j]
  <2> HIDE DEF added
  <2> QED
    BY <1>1, <1>3
<1> HIDE DEF new
<1> QED
  BY <1>2, <1>4, <1>5 DEF Extends, new

LEMMA GuaranteeExtends ==
    ASSUME NEW plan \in Seq(Step), NEW first \in Nat \ {0}, NEW kind \in Kinds,
           NEW after \in SUBSET (Nat \ {0}),
           \A d \in after : d \in DOMAIN plan => plan[d].verdict # "fail"
    PROVE  /\ Extends(Guarantee(plan, first, kind, after), plan)
           /\ \A j \in DOMAIN Guarantee(plan, first, kind, after) \ DOMAIN plan :
                 Guarantee(plan, first, kind, after)[j].origin # "planner"
<1> DEFINE step == NewStep(kind, after, "guarantee", 1)
<1>1. step \in Step
  <2>1. "guarantee" \in Origins /\ 1 \in Nat \ {0}
    BY DEF Origins
  <2> QED
    BY <2>1, NewStepType
<1>2. step.state = "pending" /\ step.verdict = "none" /\ step.deps = after
      /\ step.origin = "guarantee"
  BY DEF NewStep
<1> HIDE DEF step
<1>3. Extends(Append(plan, step), plan)
      /\ \A j \in DOMAIN Append(plan, step) \ DOMAIN plan : Append(plan, step)[j].origin # "planner"
  BY <1>1, <1>2 DEF Extends
<1>4. Extends(plan, plan)
  BY DEF Extends
<1>5. Guarantee(plan, first, kind, after) \in {plan, Append(plan, step)}
  BY DEF Guarantee, step
<1> QED
  BY <1>3, <1>4, <1>5

\* The planner's steps and the checks it forgot need the planning step and one
\* another; its builds are tested.
LEMMA ExpandPlanExtends ==
    ASSUME NEW plan \in Seq(Step), NEW p \in DOMAIN plan, NEW reply \in Seq(Inputs),
           plan[p].verdict # "fail", Ordered(plan), Tested(plan)
    PROVE  Extends(ExpandPlan(plan, p, reply), plan) /\ Tested(ExpandPlan(plan, p, reply))
<1> DEFINE first == Len(plan) + 1
           planned == PlannedSteps(plan, p, reply)
           builds == OfKind(planned, first, "implementation")
           tested == Guarantee(planned, first, "test", builds)
           after == builds \cup OfKind(tested, first, "test")
           reviewed == Guarantee(tested, first, "security_review", after)
<1>1. first \in Nat \ {0} /\ "test" \in Kinds /\ "security_review" \in Kinds
      /\ \A d \in DOMAIN plan : ~(d >= first)
  BY DEF Kinds
<1>2. /\ Extends(planned, plan) /\ planned \in Seq(Step)
      /\ \A j \in DOMAIN planned \ DOMAIN plan : planned[j].origin = "planner" /\ j >= first
  <2>1. Extends(planned, plan) /\ \A j \in DOMAIN planned \ DOMAIN plan : planned[j].origin = "planner"
    BY PlannedStepsExtend
  <2>2. planned \in Seq(Step)
    BY <2>1 DEF Extends
  <2> HIDE DEF planned
  <2>3. \A j \in DOMAIN planned \ DOMAIN plan : j >= first
    BY <2>2
  <2> QED
    BY <2>1, <2>2, <2>3
<1>3. ExpandPlan(plan, p, reply) = reviewed
  BY DEF ExpandPlan
<1> HIDE DEF first, planned
<1>4. builds \in SUBSET (Nat \ {0}) /\ \A d \in builds : d >= first
  BY <1>1, <1>2, OfKindPositions DEF OfKind
<1>5. \A d \in builds : d \in DOMAIN planned => planned[d].verdict # "fail"
  <2> HIDE DEF builds
  <2> QED
    BY <1>1, <1>2, <1>4 DEF Extends
<1>6. /\ Extends(tested, planned) /\ tested \in Seq(Step)
      /\ \A j \in DOMAIN tested \ DOMAIN planned : tested[j].origin # "planner"
  <2> HIDE DEF builds
  <2>1. /\ Extends(tested, planned)
        /\ \A j \in DOMAIN tested \ DOMAIN planned : tested[j].origin # "planner"
    BY <1>1, <1>2, <1>4, <1>5, GuaranteeExtends
  <2> QED
    BY <2>1 DEF Extends
<1>7. Extends(tested, plan)
  BY <1>2, <1>6, ExtendsTrans
<1>8. ASSUME OfKind(planned, first, "test") = {}, NEW b \in builds
      PROVE  \E t \in DOMAIN tested : tested[t].kind = "test" /\ b \in tested[t].deps
  <2> DEFINE step == NewStep("test", builds, "guarantee", 1)
  <2>1. tested = Append(planned, step)
    BY <1>8 DEF Guarantee
  <2>2. step.kind = "test" /\ step.deps = builds
    BY DEF NewStep
  <2> HIDE DEF builds, step, tested
  <2>3. Len(planned) + 1 \in DOMAIN tested /\ tested[Len(planned) + 1] = step
    BY <1>2, <2>1
  <2> QED
    BY <1>8, <2>2, <2>3
<1>9. \A b \in DOMAIN planned : planned[b].kind = "implementation" /\ b >= first => b \in builds
  BY <1>2 DEF OfKind
<1>10. \A i \in OfKind(planned, first, "test") :
          i \in DOMAIN planned \ DOMAIN plan /\ planned[i].kind = "test"
  BY <1>1, <1>2 DEF OfKind
<1> HIDE DEF builds, tested
<1>11. after \in SUBSET (Nat \ {0}) /\ \A d \in after : d >= first
  <2>1. OfKind(tested, first, "test") \in SUBSET (Nat \ {0})
    BY <1>1, <1>6, OfKindPositions
  <2>2. \A d \in OfKind(tested, first, "test") : d >= first
    BY <1>1, <1>6 DEF OfKind
  <2> QED
    BY <1>4, <2>1, <2>2
<1> HIDE DEF after
<1>12. \A d \in after : d \in DOMAIN tested => tested[d].verdict # "fail"
  BY <1>1, <1>7, <1>11 DEF Extends
<1>13. /\ Extends(reviewed, tested)
       /\ \A j \in DOMAIN reviewed \ DOMAIN tested : reviewed[j].origin # "planner"
  BY <1>1, <1>6, <1>11, <1>12, GuaranteeExtends
<1> HIDE DEF reviewed
<1>14. Extends(reviewed, plan) /\ Extends(reviewed, planned)
  BY <1>6, <1>7, <1>13, ExtendsTrans
<1>15. ASSUME Planned(reviewed, "test") = {}, NEW b \in Planned(reviewed, "implementation")
       PROVE  \E t \in DOMAIN reviewed : reviewed[t].kind = "test" /\ Runs(reviewed, t, b)
  <2>1. CASE b \in DOMAIN plan
    <3>1. Planned(plan, "test") = {} /\ b \in Planned(plan, "implementation")
      BY <1>14, <1>15, <2>1 DEF Planned, Extends
    <3>2. PICK t \in DOMAIN plan : plan[t].kind = "test" /\ Runs(plan, t, b)
      BY <3>1 DEF Tested
    <3>3. Runs(reviewed, t, b)
      BY <1>14, <2>1, <3>2, ExtendsRuns DEF RunsKept
    <3> QED
      BY <1>14, <3>2, <3>3 DEF Extends
  <2>2. CASE b \notin DOMAIN plan
    <3>1. b \in DOMAIN planned /\ planned[b] = reviewed[b]
      BY <1>6, <1>13, <1>14, <1>15 DEF Planned, Extends
    <3>2. b \in builds
      BY <1>2, <1>9, <1>15, <2>2, <3>1 DEF Planned
    <3>3. OfKind(planned, first, "test") = {}
      <4> SUFFICES ASSUME NEW i \in OfKind(planned, first, "test") PROVE FALSE
        OBVIOUS
      <4>1. i \in DOMAIN planned /\ planned[i].kind = "test" /\ planned[i].origin = "planner"
        BY <1>2, <1>10
      <4>2. i \in DOMAIN reviewed /\ reviewed[i] = planned[i]
        BY <1>14, <4>1 DEF Extends
      <4> QED
        BY <1>15, <4>1, <4>2 DEF Planned
    <3>4. PICK t \in DOMAIN tested : tested[t].kind = "test" /\ b \in tested[t].deps
      BY <1>8, <3>2, <3>3
    <3>5. t \in DOMAIN reviewed /\ reviewed[t].kind = "test" /\ b \in reviewed[t].deps
      BY <1>13, <3>4 DEF Extends
    <3> QED
      BY <3>5, NeedRuns
  <2> QED
    BY <2>1, <2>2
<1> QED
  BY <1>3, <1>14, <1>15 DEF Tested

--------------------------------------------------------------------------
(* A step that ends: finishStep *)

\* Step c is completed with a verdict, and nothing that needs it has begun.
Judged(plan, c) ==
    /\ plan \in Seq(Step) /\ c \in DOMAIN plan /\ Ordered(plan) /\ Tested(plan)
    /\ plan[c].state = "completed"
    /\ \A i \in DOMAIN plan : \A d \in plan[i].deps :
          /\ d = c => ~Begun(plan[i])
          /\ d # c /\ plan[d].verdict = "fail" => IsFixOf(plan, i, d)
    /\ \A i \in DOMAIN plan \ {c} : /\ plan[i].verdict = "fail" => Rechecked(plan, i)
                                    /\ HasVerdict(plan, i)

LEMMA JudgedIsUnbuilt ==
    ASSUME NEW plan, NEW c, Judged(plan, c)
    PROVE  Unbuilt(plan) /\ (plan[c].verdict # "fail" /\ HasVerdict(plan, c) => Whole(plan))
BY DEF Judged, Unbuilt, Whole, Mended

\* What began needs what it needed, and nothing stops running after what it
\* ran after.
Rewires(new, old) ==
    /\ RunsKept(new, old)
    /\ \A j \in DOMAIN old : Begun(old[j]) => new[j].deps = old[j].deps

\* What needed the failed check needs the re-check instead.
LEMMA SendBackMends ==
    ASSUME NEW plan, NEW c, Judged(plan, c), plan[c].kind \in Checks, plan[c].verdict # "none"
    PROVE  /\ Ordered(SendBack(plan, c)) /\ Whole(SendBack(plan, c))
           /\ Rewires(SendBack(plan, c), plan)
<1> DEFINE n == Len(plan)
           Rewired(deps) == IF c \in deps THEN (deps \ {c}) \cup {n + 2} ELSE deps
           fixOrigin == IF plan[c].kind = "test" THEN "test_fix" ELSE "review_fix"
           fix == NewStep("implementation", {c}, fixOrigin, plan[c].attempt)
           recheck == NewStep(plan[c].kind, {n + 1}, fixOrigin, plan[c].attempt + 1)
           new == SendBack(plan, c)
<1>1. n \in Nat /\ DOMAIN plan = 1 .. n /\ \A i \in 1 .. n : plan[i] \in Step
  BY DEF Judged
<1>2. new = [i \in 1 .. n + 2 |->
                IF i <= n THEN [plan[i] EXCEPT !.deps = Rewired(@)]
                ELSE IF i = n + 1 THEN fix ELSE recheck]
  BY DEF SendBack
<1>3. /\ fix.state = "pending" /\ fix.verdict = "none" /\ fix.deps = {c}
      /\ fix.kind = "implementation" /\ fix.origin \in {"test_fix", "review_fix"}
  BY DEF NewStep
<1>4. /\ recheck.state = "pending" /\ recheck.verdict = "none" /\ recheck.deps = {n + 1}
      /\ recheck.kind = plan[c].kind /\ recheck.origin \in {"test_fix", "review_fix"}
  BY DEF NewStep
<1> HIDE DEF fix, recheck, new, Rewired
<1>5. DOMAIN new = 1 .. n + 2 /\ new[n + 1] = fix /\ new[n + 2] = recheck
  BY <1>1, <1>2
<1>6. ASSUME NEW i \in 1 .. n
      PROVE  /\ new[i].state = plan[i].state /\ new[i].verdict = plan[i].verdict
             /\ new[i].kind = plan[i].kind /\ new[i].origin = plan[i].origin
             /\ new[i].deps = Rewired(plan[i].deps)
  <2>1. new[i] = [plan[i] EXCEPT !.deps = Rewired(@)]
    BY <1>1, <1>2
  <2> QED
    BY <1>1, <2>1 DEF Step
<1>7. \A i \in 1 .. n : \A d \in new[i].deps : d = n + 2 \/ (d \in plan[i].deps /\ d # c)
  BY <1>6 DEF Rewired
<1>8. \A i \in 1 .. n : plan[i].deps \subseteq 1 .. n
  BY <1>1 DEF Judged, Ordered
<1>9. \A i \in 1 .. n : c \notin plan[i].deps => new[i].deps = plan[i].deps
  BY <1>6 DEF Rewired
<1>10. c \in 1 .. n
  BY <1>1 DEF Judged
<1>11. ASSUME NEW i \in DOMAIN new
       PROVE  /\ new[i].deps \subseteq DOMAIN new
              /\ new[i].verdict # "none" => new[i].state = "completed" /\ new[i].kind \in Checks
              /\ Begun(new[i]) => DepsCompleted(new, i)
  <2>1. CASE i \in 1 .. n
    <3>1. new[i].deps \subseteq DOMAIN new
      BY <1>1, <1>5, <1>7, <1>8, <2>1
    <3>2. new[i].verdict # "none" => new[i].state = "completed" /\ new[i].kind \in Checks
      BY <1>1, <1>6, <2>1 DEF Judged, Ordered
    <3>3. ASSUME Begun(new[i]) PROVE DepsCompleted(new, i)
      <4>1. Begun(plan[i])
        BY <1>6, <2>1, <3>3 DEF Begun
      <4>2. c \notin plan[i].deps /\ DepsCompleted(plan, i)
        BY <1>1, <2>1, <4>1 DEF Judged, Ordered
      <4> QED
        BY <1>6, <1>8, <1>9, <2>1, <4>2 DEF DepsCompleted
    <3> QED
      BY <3>1, <3>2, <3>3
  <2>2. CASE i = n + 1
    BY <1>1, <1>3, <1>5, <1>10, <2>2 DEF Begun
  <2>3. CASE i = n + 2
    BY <1>1, <1>4, <1>5, <2>3 DEF Begun
  <2> QED
    BY <1>1, <1>5, <2>1, <2>2, <2>3
<1>12. ASSUME NEW i \in DOMAIN new, NEW d \in new[i].deps, new[d].verdict = "fail"
       PROVE  IsFixOf(new, i, d)
  <2>1. CASE i \in 1 .. n
    <3>1. d \in plan[i].deps /\ d # c /\ d \in 1 .. n
      BY <1>4, <1>5, <1>7, <1>8, <1>12, <2>1
    <3>2. IsFixOf(plan, i, d)
      BY <1>1, <1>6, <1>12, <2>1, <3>1 DEF Judged
    <3>3. c \notin plan[i].deps
      BY <3>1, <3>2 DEF IsFixOf
    <3> QED
      BY <1>6, <1>9, <2>1, <3>2, <3>3 DEF IsFixOf
  <2>2. CASE i = n + 1
    <3>1. d = c
      BY <1>3, <1>5, <1>12, <2>2
    <3> QED
      BY <1>3, <1>5, <2>2, <3>1 DEF IsFixOf
  <2>3. CASE i = n + 2
    BY <1>3, <1>4, <1>5, <1>12, <2>3
  <2> QED
    BY <1>1, <1>5, <2>1, <2>2, <2>3
<1>13. RunsKept(new, plan)
  <2> SUFFICES ASSUME NEW t \in DOMAIN plan, NEW u \in DOMAIN plan, Runs(plan, t, u),
                      NEW S \in SUBSET DOMAIN new, t \in S, \A i \in S : new[i].deps \subseteq S
               PROVE  u \in S
    BY DEF RunsKept, Runs, Board!RunsAfter
  <2> DEFINE T == S \cap DOMAIN plan
  <2>1. ASSUME NEW i \in T, c \in plan[i].deps PROVE c \in S
    <3>1. n + 2 \in S
      BY <1>1, <1>6, <2>1 DEF Rewired
    <3>2. n + 1 \in S
      BY <1>4, <1>5, <3>1
    <3> QED
      BY <1>3, <1>5, <3>2
  <2>2. ASSUME NEW i \in T PROVE plan[i].deps \subseteq T
    <3>1. plan[i].deps \subseteq DOMAIN plan
      BY <1>1, <1>8, <2>2
    <3>2. plan[i].deps \ {c} \subseteq new[i].deps
      BY <1>1, <1>6, <2>2 DEF Rewired
    <3> QED
      BY <2>1, <2>2, <3>1, <3>2
  <2>3. t \in T /\ T \in SUBSET DOMAIN plan
    OBVIOUS
  <2> HIDE DEF T
  <2>4. u \in T
    BY <2>2, <2>3 DEF Runs, Board!RunsAfter
  <2> QED
    BY <2>4 DEF T
<1>14. Tested(new)
  <2>1. \A j \in DOMAIN new \ DOMAIN plan : new[j].origin # "planner"
    <3>1. \A j \in DOMAIN new \ DOMAIN plan : j = n + 1 \/ j = n + 2
      BY <1>1, <1>5
    <3> QED
      BY <1>3, <1>4, <1>5, <3>1
  <2>2. DOMAIN plan \subseteq DOMAIN new
    BY <1>1, <1>5
  <2>3. Tested(plan)
    BY DEF Judged
  <2> QED
    BY <1>1, <1>6, <1>13, <2>1, <2>2, <2>3, RunsKeptTested
<1>15. ASSUME NEW i \in DOMAIN new, new[i].verdict = "fail"
       PROVE  Rechecked(new, i)
  <2>1. i \in 1 .. n /\ plan[i].verdict = "fail"
    <3>1. i # n + 1 /\ i # n + 2
      BY <1>3, <1>4, <1>5, <1>15
    <3>2. i \in 1 .. n
      BY <1>1, <1>5, <3>1
    <3> QED
      BY <1>6, <1>15, <3>2
  <2>2. CASE i = c
    <3>1. n + 1 \in DOMAIN new /\ n + 2 \in DOMAIN new
      BY <1>1, <1>5
    <3>2. IsFixOf(new, n + 1, c) /\ new[n + 2].deps = {n + 1} /\ new[n + 2].kind = new[c].kind
      BY <1>3, <1>4, <1>5, <1>6, <1>10 DEF IsFixOf
    <3> QED
      BY <2>2, <3>1, <3>2 DEF Rechecked
  <2>3. CASE i # c
    <3>1. PICK f, r \in 1 .. n : IsFixOf(plan, f, i) /\ plan[r].deps = {f} /\ plan[r].kind = plan[i].kind
      BY <1>1, <2>1, <2>3 DEF Judged, Rechecked
    <3>2. f # c /\ c \notin plan[f].deps /\ c \notin plan[r].deps
      BY <2>3, <3>1 DEF IsFixOf, Checks
    <3>3. IsFixOf(new, f, i) /\ new[r].deps = {f} /\ new[r].kind = new[i].kind
      BY <1>6, <1>9, <2>1, <3>1, <3>2 DEF IsFixOf
    <3>4. f \in DOMAIN new /\ r \in DOMAIN new
      BY <1>1, <1>5
    <3> QED
      BY <3>3, <3>4 DEF Rechecked
  <2> QED
    BY <2>2, <2>3
<1>16. ASSUME NEW i \in DOMAIN new PROVE HasVerdict(new, i)
  <2>1. CASE i \in 1 .. n
    BY <1>1, <1>6, <2>1 DEF Judged, HasVerdict
  <2>2. CASE i \notin 1 .. n
    <3>1. i = n + 1 \/ i = n + 2
      BY <1>1, <1>5, <2>2
    <3> QED
      BY <1>3, <1>4, <1>5, <3>1 DEF HasVerdict
  <2> QED
    BY <2>1, <2>2
<1>17. Rewires(new, plan)
  BY <1>1, <1>9, <1>13 DEF Rewires, Judged
<1>18. Ordered(new) /\ Mended(new)
  BY <1>11, <1>12 DEF Ordered, Mended
<1> QED
  BY <1>14, <1>15, <1>16, <1>17, <1>18 DEF Whole, new

\* A step that was at work is completed: nothing that needs it has begun.
LEMMA ConcludedIsJudged ==
    ASSUME NEW plan \in Seq(Step), NEW i \in DOMAIN plan, NEW verdict \in Verdicts,
           Ordered(plan), Whole(plan), plan[i].state \in {"running", "blocked"}
    PROVE  /\ Judged(Concluded(plan, i, verdict), i)
           /\ DOMAIN Concluded(plan, i, verdict) = DOMAIN plan
           /\ \A j \in DOMAIN plan :
                 /\ j # i => Concluded(plan, i, verdict)[j] = plan[j]
                 /\ Concluded(plan, i, verdict)[j].kind = plan[j].kind
                 /\ Concluded(plan, i, verdict)[j].origin = plan[j].origin
                 /\ Concluded(plan, i, verdict)[j].deps = plan[j].deps
           /\ RunsKept(Concluded(plan, i, verdict), plan)
           /\ Concluded(plan, i, verdict)[i].verdict
                = IF plan[i].kind \in Checks THEN verdict ELSE "none"
<1> DEFINE said == IF plan[i].kind \in Checks THEN verdict ELSE "none"
           done == [plan[i] EXCEPT !.state = "completed", !.verdict = said]
           new == Concluded(plan, i, verdict)
<1>1. plan \in [1 .. Len(plan) -> Step] /\ Len(plan) \in Nat /\ DOMAIN plan = 1 .. Len(plan)
  OBVIOUS
<1>2. /\ done \in Step /\ done.state = "completed" /\ done.verdict = said
      /\ done.kind = plan[i].kind /\ done.deps = plan[i].deps /\ done.origin = plan[i].origin
  <2>1. plan[i] \in Step /\ said \in Verdicts /\ "completed" \in StepStates
    BY <1>1 DEF StepStates, Verdicts
  <2> HIDE DEF said
  <2> QED
    BY ONLY <2>1 DEF Step
<1>3. new = [plan EXCEPT ![i] = done]
  BY <1>1 DEF Step, Concluded
<1> HIDE DEF done, new, said
<1>4. new \in Seq(Step) /\ DOMAIN new = DOMAIN plan
  <2>1. new \in [1 .. Len(plan) -> Step]
    BY <1>1, <1>2, <1>3
  <2> QED
    BY <1>1, <2>1, PlanOf
<1>5. \A j \in DOMAIN plan : new[j] = IF j = i THEN done ELSE plan[j]
  BY <1>1, <1>3
<1>6. \A j \in DOMAIN plan : /\ new[j].kind = plan[j].kind /\ new[j].deps = plan[j].deps
                             /\ new[j].origin = plan[j].origin
  BY <1>2, <1>5
<1>7. \A j \in DOMAIN plan : i \in plan[j].deps => ~Begun(plan[j])
  BY DEF Ordered, DepsCompleted
<1>8. i \notin plan[i].deps
  BY <1>7 DEF Begun
<1>9. Ordered(new)
  <2>1. \A j \in DOMAIN plan : Begun(new[j]) => DepsCompleted(new, j)
    BY <1>2, <1>4, <1>5, <1>6 DEF Begun, Ordered, DepsCompleted
  <2>2. \A j \in DOMAIN plan :
           new[j].verdict # "none" => new[j].state = "completed" /\ new[j].kind \in Checks
    BY <1>2, <1>5 DEF Ordered, said
  <2>3. \A j \in DOMAIN plan : new[j].deps \subseteq DOMAIN new
    BY <1>4, <1>6 DEF Ordered
  <2> QED
    BY <1>4, <2>1, <2>2, <2>3 DEF Ordered
<1>10. ASSUME NEW j \in DOMAIN plan, NEW d \in plan[j].deps
       PROVE  /\ d = i => ~Begun(new[j])
              /\ d # i /\ new[d].verdict = "fail" => IsFixOf(new, j, d)
  <2>1. d = i => ~Begun(new[j])
    BY <1>5, <1>7, <1>8, <1>10
  <2>2. d # i => new[d] = plan[d]
    BY <1>5, <1>10 DEF Ordered
  <2> QED
    BY <1>6, <1>10, <2>1, <2>2 DEF Whole, Mended, IsFixOf
<1>11. RunsKept(new, plan) /\ Tested(new)
  <2>1. RunsKept(new, plan)
    BY <1>4, <1>6, SameDepsRun
  <2> QED
    BY <1>4, <1>6, <2>1, RunsKeptTested DEF Whole
<1>12. ASSUME NEW j \in DOMAIN plan \ {i}
       PROVE  (new[j].verdict = "fail" => Rechecked(new, j)) /\ HasVerdict(new, j)
  <2>1. new[j] = plan[j]
    BY <1>5
  <2>2. HasVerdict(new, j)
    BY <2>1 DEF Whole, HasVerdict
  <2>3. ASSUME new[j].verdict = "fail" PROVE Rechecked(new, j)
    <3>1. PICK f, r \in DOMAIN plan : IsFixOf(plan, f, j) /\ plan[r].deps = {f} /\ plan[r].kind = plan[j].kind
      BY <2>1, <2>3 DEF Whole, Rechecked
    <3>2. IsFixOf(new, f, j) /\ new[r].deps = {f} /\ new[r].kind = new[j].kind
      BY <1>6, <3>1 DEF IsFixOf
    <3> QED
      BY <1>4, <3>2 DEF Rechecked
  <2> QED
    BY <2>2, <2>3
<1>13. Judged(new, i)
  BY <1>2, <1>4, <1>5, <1>6, <1>9, <1>10, <1>11, <1>12 DEF Judged
<1> QED
  BY <1>2, <1>4, <1>5, <1>6, <1>11, <1>13 DEF new, said

\* What a session's end does to a plan leaves nothing that needs a failed
\* check, or ends the run before any of it has begun.
LEMMA FinishedChecks ==
    ASSUME NEW plan \in Seq(Step), NEW i \in DOMAIN plan, NEW state,
           NEW said \in [verdict : Verdicts, reply : PlannerReplies \cup {<<>>}, exit : Ended],
           Ordered(plan), Whole(plan), plan[i].state \in {"running", "blocked"}
    PROVE  /\ Ordered(Finished(plan, i, state, said).plan)
           /\ Unbuilt(Finished(plan, i, state, said).plan)
           /\ Rewires(Finished(plan, i, state, said).plan, plan)
           /\ Finished(plan, i, state, said).plan[i].state \in {"completed", "failed"}
           /\ \/ Whole(Finished(plan, i, state, said).plan)
              \/ Finished(plan, i, state, said).error = TRUE
<1> DEFINE ended == Concluded(plan, i, said.verdict)
           result == Finished(plan, i, state, said)
           Over(new) == new[i].state \in {"completed", "failed"}
           Sound(new) == Ordered(new) /\ Whole(new) /\ Rewires(new, plan) /\ Over(new)
<1>1. said.verdict \in Verdicts /\ said.reply \in Seq(Inputs)
  BY PlansAssumption, EmptySeq
<1>2. /\ Judged(ended, i) /\ DOMAIN ended = DOMAIN plan /\ ended[i].kind = plan[i].kind
      /\ \A j \in DOMAIN plan :
            /\ j # i => ended[j] = plan[j]
            /\ ended[j].kind = plan[j].kind /\ ended[j].origin = plan[j].origin
            /\ ended[j].deps = plan[j].deps
      /\ RunsKept(ended, plan)
      /\ ended[i].verdict = IF plan[i].kind \in Checks THEN said.verdict ELSE "none"
  BY <1>1, ConcludedIsJudged
<1>3. \/ result = Outcome(SetState(plan, i, "failed"), FALSE)
      \/ /\ plan[i].kind = "planning"
         /\ result = Outcome(AfterPlanning(ended, i, said.reply), FALSE)
      \/ ended[i].verdict = "none" /\ result = Outcome(SetState(ended, i, "failed"), FALSE)
      \/ result = Outcome(ended, TRUE)
      \/ ended[i].verdict # "fail" /\ HasVerdict(ended, i) /\ result = Outcome(ended, FALSE)
      \/ /\ plan[i].kind \in Checks /\ ended[i].verdict # "none"
         /\ result = Outcome(SendBack(ended, i), FALSE)
  <2>1. CASE state # "completed" \/ plan[i].kind = "planning"
    BY <2>1 DEF Finished
  <2>2. CASE state = "completed" /\ plan[i].kind \in Checks
    <3>1. result = AfterCheck(ended, i, said.verdict)
      BY <2>2 DEF Finished, Checks
    <3>2. ended[i].verdict = said.verdict
      BY <1>2, <2>2
    <3> HIDE DEF ended, result
    <3> QED
      BY <2>2, <3>1, <3>2 DEF AfterCheck, HasVerdict
  <2>3. CASE state = "completed" /\ plan[i].kind # "planning" /\ plan[i].kind \notin Checks
    <3>1. result = Outcome(ended, FALSE)
      BY <2>3 DEF Finished
    <3> HIDE DEF ended, result
    <3> QED
      BY <1>2, <2>3, <3>1 DEF HasVerdict
  <2> QED
    BY <2>1, <2>2, <2>3
<1> HIDE DEF ended, result
<1>4. ended \in Seq(Step) /\ i \in DOMAIN ended /\ Ordered(ended) /\ Tested(ended) /\ Over(ended)
  BY <1>2 DEF Judged
<1>5. DepsCompleted(plan, i) /\ Begun(plan[i])
  BY DEF Ordered, Begun
<1>6. Rewires(ended, plan) /\ \A j \in DOMAIN plan : Begun(plan[j]) => Begun(ended[j])
  <2>1. Begun(ended[i])
    BY <1>2 DEF Judged, Begun
  <2> QED
    BY <1>2, <2>1 DEF Rewires
<1>7. ASSUME NEW new, Rewires(new, ended) PROVE Rewires(new, plan)
  BY <1>2, <1>6, <1>7 DEF Rewires, RunsKept
<1>8. ASSUME NEW new, SameSteps(new, plan) PROVE Rewires(new, plan)
  BY <1>8, SameDepsRun DEF SameSteps, Rewires
<1>9. ASSUME NEW old \in Seq(Step), DOMAIN old = DOMAIN plan, i \in DOMAIN old,
             \A j \in DOMAIN plan : /\ j # i => old[j] = plan[j]
                                    /\ old[j].kind = plan[j].kind /\ old[j].origin = plan[j].origin
                                    /\ old[j].deps = plan[j].deps,
             old[i].verdict = "none"
      PROVE  Sound(SetState(old, i, "failed"))
  <2> DEFINE new == SetState(old, i, "failed")
  <2>1. "failed" \in StepStates
    BY DEF StepStates
  <2>2. /\ DOMAIN new = DOMAIN old
        /\ \A j \in DOMAIN old : new[j] = IF j = i THEN [old[j] EXCEPT !.state = "failed"] ELSE old[j]
    BY <1>9, <2>1, SetStateType
  <2>3. \A j \in DOMAIN old : old[j] \in Step
    BY <1>9
  <2> HIDE DEF new
  <2>4. \A j \in DOMAIN old : new[j].state = IF j = i THEN "failed" ELSE old[j].state
    BY <2>2, <2>3 DEF Step
  <2>5. SameSteps(new, old)
    <3>1. ASSUME NEW j \in DOMAIN old
          PROVE  /\ new[j].deps = old[j].deps /\ new[j].verdict = old[j].verdict
                 /\ new[j].kind = old[j].kind /\ new[j].origin = old[j].origin
      <4>1. old[j] \in Step /\ (new[j] = old[j] \/ new[j] = [old[j] EXCEPT !.state = "failed"])
        BY <2>2, <2>3
      <4> QED
        BY ONLY <4>1 DEF Step
    <3> QED
      BY <2>2, <3>1 DEF SameSteps
  <2>6. plan[i].verdict = "none"
    BY DEF Ordered
  <2>7. SameSteps(new, plan)
    BY <1>9, <2>5, <2>6 DEF SameSteps
  <2>8. \A j \in DOMAIN plan : /\ plan[j].state = "completed" <=> new[j].state = "completed"
                               /\ Begun(new[j]) => DepsCompleted(plan, j)
    BY <1>5, <1>9, <2>4 DEF Begun, Ordered
  <2>9. Over(new)
    BY <1>9, <2>4
  <2> QED
    BY <1>8, <2>7, <2>8, <2>9, StatesMove DEF new
<1>10. Sound(SetState(plan, i, "failed"))
  <2>1. plan[i].verdict = "none"
    BY DEF Ordered
  <2> QED
    BY <1>9, <2>1
<1>11. ASSUME ended[i].verdict = "none" PROVE Sound(SetState(ended, i, "failed"))
  BY <1>2, <1>4, <1>9, <1>11
<1>12. ASSUME ended[i].verdict # "fail", HasVerdict(ended, i) PROVE Sound(ended)
  BY <1>2, <1>4, <1>6, <1>12, JudgedIsUnbuilt
<1>13. ASSUME plan[i].kind = "planning" PROVE Sound(AfterPlanning(ended, i, said.reply))
  <2>1. ended[i].verdict = "none" /\ HasVerdict(ended, i)
    BY <1>2, <1>13 DEF Checks, HasVerdict
  <2>2. CASE ValidDag(ExpandPlan(ended, i, said.reply))
    <3> DEFINE new == ExpandPlan(ended, i, said.reply)
    <3>1. Extends(new, ended) /\ Tested(new)
      BY <1>1, <1>4, <2>1, ExpandPlanExtends
    <3> HIDE DEF new
    <3>2. \A j \in DOMAIN new : new[j].deps \subseteq DOMAIN new
      BY <2>2 DEF ValidDag, new
    <3>3. Ordered(new) /\ Whole(new)
      BY <1>12, <2>1, <3>1, <3>2, ExtendsMended
    <3>4. Rewires(new, ended) /\ Over(new)
      BY <1>4, <3>1, ExtendsRuns DEF Rewires, Extends
    <3> QED
      BY <1>7, <1>11, <2>1, <3>3, <3>4 DEF AfterPlanning, new
  <2>3. CASE ~ValidDag(ExpandPlan(ended, i, said.reply))
    BY <1>11, <2>1, <2>3 DEF AfterPlanning
  <2> QED
    BY <2>2, <2>3
<1>14. ASSUME plan[i].kind \in Checks, ended[i].verdict # "none" PROVE Sound(SendBack(ended, i))
  <2>1. Grown(SendBack(ended, i), ended)
    BY <1>2, <1>4, <1>14, SendBackGrows
  <2>2. Over(SendBack(ended, i))
    BY <1>4, <2>1 DEF Grown
  <2> QED
    BY <1>2, <1>7, <1>14, <2>2, SendBackMends
<1>15. Unbuilt(ended)
  BY <1>2, JudgedIsUnbuilt
<1>16. CASE result = Outcome(ended, TRUE)
  BY <1>4, <1>6, <1>15, <1>16 DEF Outcome, result
<1>17. CASE result # Outcome(ended, TRUE)
  <2>1. PICK new : Sound(new) /\ result = Outcome(new, FALSE)
    BY <1>3, <1>10, <1>11, <1>12, <1>13, <1>14, <1>17
  <2>2. result.plan = new
    BY <2>1 DEF Outcome
  <2> QED
    BY <2>1, <2>2, WholeIsUnbuilt DEF result
<1> QED
  BY <1>16, <1>17

--------------------------------------------------------------------------
(* The steps of a pass *)

\* The parts of SetState and Assign that matter here.
LEMMA SetStatePhases ==
    ASSUME NEW plan \in Seq(Step), NEW i \in DOMAIN plan, NEW state \in StepStates
    PROVE  /\ DOMAIN SetState(plan, i, state) = DOMAIN plan /\ SetState(plan, i, state) \in Seq(Step)
           /\ Len(SetState(plan, i, state)) = Len(plan)
           /\ \A j \in DOMAIN plan :
                 /\ SetState(plan, i, state)[j].deps = plan[j].deps
                 /\ j # i => SetState(plan, i, state)[j] = plan[j]
           /\ SetState(plan, i, state)[i].state = state
           /\ SetState(plan, i, state)[i].session = plan[i].session
<1> DEFINE new == SetState(plan, i, state)
<1>1. /\ new \in Seq(Step) /\ Len(new) = Len(plan) /\ DOMAIN new = DOMAIN plan
      /\ \A j \in DOMAIN plan : new[j] = IF j = i THEN [plan[j] EXCEPT !.state = state] ELSE plan[j]
  BY SetStateType
<1>2. \A j \in DOMAIN plan : plan[j] \in Step
  OBVIOUS
<1> HIDE DEF new
<1>3. new[i].deps = plan[i].deps /\ new[i].state = state /\ new[i].session = plan[i].session
  BY <1>1, <1>2 DEF Step
<1> QED
  BY <1>1, <1>3 DEF new

LEMMA AssignPhases ==
    ASSUME NEW plan \in Seq(Step), NEW i \in DOMAIN plan, NEW s \in SessionIds
    PROVE  /\ DOMAIN Assign(plan, i, s) = DOMAIN plan /\ Assign(plan, i, s) \in Seq(Step)
           /\ \A j \in DOMAIN plan :
                 /\ Assign(plan, i, s)[j].deps = plan[j].deps
                 /\ j # i => Assign(plan, i, s)[j] = plan[j]
           /\ Assign(plan, i, s)[i].state = plan[i].state
           /\ Assign(plan, i, s)[i].session = s
<1> DEFINE new == Assign(plan, i, s)
<1>1. /\ new \in Seq(Step) /\ DOMAIN new = DOMAIN plan
      /\ \A j \in DOMAIN plan : new[j] = IF j = i THEN [plan[j] EXCEPT !.session = s] ELSE plan[j]
  BY AssignType
<1>2. \A j \in DOMAIN plan : plan[j] \in Step
  OBVIOUS
<1> HIDE DEF new
<1>3. new[i].deps = plan[i].deps /\ new[i].state = plan[i].state /\ new[i].session = s
  BY <1>1, <1>2 DEF Step
<1> QED
  BY <1>1, <1>3 DEF new

LEMMA ReadyMayBegin ==
    ASSUME WorkerTurns(worker), Ready(worker) # {}, NEW i, i = Least(Ready(worker))
    PROVE  i \in DOMAIN worker.plan /\ worker.plan[i].state = "pending" /\ DepsCompleted(worker.plan, i)
<1>1. Ready(worker) \in SUBSET Nat
  BY DEF WorkerTurns, WorkerType, Ready
<1>2. i \in Ready(worker)
  BY <1>1, LeastIn
<1> QED
  BY <1>2 DEF Ready

\* The step whose session a reconcile finds ended.
LEMMA EndedIn ==
    ASSUME WorkerTurns(worker), ReconcileEnded, NEW i, i = Least(Dispatched(worker.plan, worker.at))
    PROVE  /\ i \in DOMAIN worker.plan /\ worker.plan[i].state \in {"running", "blocked"}
           /\ worker.plan[i].session \in SessionIds /\ worker.plan[i].session # 0
           /\ worker.pc = "reconcile"
<1>1. Dispatched(worker.plan, worker.at) # {} /\ worker.pc = "reconcile"
  BY DEF ReconcileEnded
<1>2. /\ i \in DOMAIN worker.plan /\ worker.plan[i].state \in {"running", "blocked"}
      /\ worker.plan[i].session # 0
  BY <1>1, DispatchedIn
<1>3. worker.plan \in Seq(Step)
  BY DEF WorkerTurns, WorkerType
<1>4. worker.plan[i].session \in SessionIds
  <2>1. worker.plan[i] \in Step
    BY <1>2, <1>3
  <2> QED
    BY ONLY <1>2, <2>1, BoundsAssumption DEF Step, SessionIds
<1> QED
  BY ONLY <1>1, <1>2, <1>4

\* A pass that has not given up goes on with a plan in order.
LEMMA GoesOn ==
    ASSUME NEW w, Ordered(w.plan), Whole(w.plan), w.error = FALSE,
           w.pc \notin {"ask", "start", "stop"},
           w.pc = "cancel" \/ NoneSkipped(w.plan)
    PROVE  WorkerChecks(w)
BY WholeIsUnbuilt DEF WorkerChecks, AtWork

LEMMA IdleChecks == WorkerChecks(Idle)
<1>1. Idle.plan = <<>> /\ Idle.pc = "idle" /\ Idle.error = FALSE
  BY DEF Idle
<1>2. DOMAIN Idle.plan = {}
  BY <1>1
<1> QED
  BY <1>1, <1>2, GoesOn DEF Ordered, Whole, Mended, Tested, Planned, NoneSkipped

LEMMA TakeChecks ==
    ASSUME ChecksInv, IInv, TakeAdvance \/ TakeCancel
    PROVE  WorkerChecks(worker')
<1>1. run.plan \in Seq(Step) /\ Ordered(run.plan)
      /\ (run.state \notin DoneRun => Whole(run.plan) /\ NoneSkipped(run.plan))
  BY DEF ChecksInv, RunChecks, IInv, Turns, RunTurns, DoneRun
<1>2. CASE run.state \in DoneRun
  BY <1>2, IdleChecks DEF TakeAdvance, TakeCancel
<1>3. CASE TakeAdvance /\ run.state \notin DoneRun
  <2>1. worker'.pc = "reconcile" /\ worker'.plan = run.plan /\ worker'.error = FALSE
    BY <1>3 DEF TakeAdvance, Idle
  <2> QED
    BY <1>1, <1>3, <2>1, GoesOn
<1>4. CASE TakeCancel /\ run.state \notin DoneRun
  <2> DEFINE new == [i \in DOMAIN run.plan |->
                        IF Unstarted(run.plan[i])
                        THEN [run.plan[i] EXCEPT !.state = "skipped"]
                        ELSE run.plan[i]]
  <2>1. worker'.pc = "cancel" /\ worker'.plan = new /\ worker'.error = FALSE
    BY <1>4 DEF TakeCancel, Idle
  <2>2. \A i \in DOMAIN run.plan : run.plan[i] \in Step
    BY <1>1
  <2>3. SameSteps(new, run.plan)
    BY <2>2 DEF SameSteps, Step
  <2>4. \A i \in DOMAIN run.plan :
           new[i].state = IF Unstarted(run.plan[i]) THEN "skipped" ELSE run.plan[i].state
    BY <2>2 DEF Step
  <2> HIDE DEF new
  <2>5. \A i \in DOMAIN run.plan :
           /\ run.plan[i].state = "completed" <=> new[i].state = "completed"
           /\ Begun(new[i]) => DepsCompleted(run.plan, i)
    BY <1>1, <2>4 DEF Unstarted, Begun, Ordered
  <2>6. Ordered(new) /\ Whole(new)
    BY <1>1, <1>4, <2>3, <2>5, StatesMove
  <2> QED
    BY <2>1, <2>6, GoesOn
<1> QED
  BY <1>2, <1>3, <1>4

LEMMA ReconcileChecks ==
    ASSUME ChecksInv, IInv, ReconcileOpen \/ ReconcileEnded \/ ReconcileDone
    PROVE  WorkerChecks(worker')
<1> DEFINE i == Least(Dispatched(worker.plan, worker.at))
           s == worker.plan[i].session
<1>1. /\ WorkerTurns(worker) /\ worker \in WorkerType /\ worker.plan \in Seq(Step)
      /\ worker.pc = "reconcile" /\ worker.error = FALSE
      /\ Ordered(worker.plan) /\ Whole(worker.plan) /\ NoneSkipped(worker.plan)
  <2>1. WorkerTurns(worker) /\ worker \in WorkerType /\ worker.pc = "reconcile"
    BY DEF IInv, Turns, WorkerTurns, ReconcileOpen, ReconcileEnded, ReconcileDone
  <2> QED
    BY <2>1 DEF WorkerType, ChecksInv, WorkerChecks, AtWork
<1>2. ASSUME Dispatched(worker.plan, worker.at) # {}
      PROVE  /\ i \in DOMAIN worker.plan /\ worker.plan[i].state \in {"running", "blocked"}
             /\ s # 0 /\ worker.plan[i] \in Step
  BY <1>1, <1>2, DispatchedIn
<1>3. CASE ReconcileOpen
  <2>1. i \in DOMAIN worker.plan /\ worker.plan[i].state \in {"running", "blocked"}
    BY <1>2, <1>3 DEF ReconcileOpen
  <2>2. /\ worker'.plan = worker.plan \/ worker'.plan = SetState(worker.plan, i, "running")
        /\ worker'.pc = "reconcile" /\ worker'.error = FALSE
    BY <1>1, <1>3 DEF ReconcileOpen, WorkerType
  <2> HIDE DEF i
  <2>3. DepsCompleted(worker.plan, i)
    BY <1>1, <2>1 DEF Ordered, Begun
  <2>4. Ordered(worker'.plan) /\ Whole(worker'.plan) /\ NoneSkipped(worker'.plan)
    BY <1>1, <2>1, <2>2, <2>3, SetStateOrdered
  <2> QED
    BY <2>2, <2>4, GoesOn
<1>4. CASE ReconcileEnded
  <2> DEFINE result == Finished(worker.plan, i, session[s], report[s])
  <2>1. i \in DOMAIN worker.plan /\ worker.plan[i].state \in {"running", "blocked"} /\ s \in SessionIds
    BY <1>1, <1>4, EndedIn
  <2>2. /\ worker'.plan = result.plan /\ worker'.error = result.error
        /\ worker'.pc = IF result.error THEN "store" ELSE "reconcile"
    BY <1>1, <1>4 DEF ReconcileEnded, WorkerType
  <2>3. report[s] \in [verdict : Verdicts, reply : PlannerReplies \cup {<<>>}, exit : Ended]
    BY <2>1 DEF IInv, TypeOK
  <2> HIDE DEF i, s
  <2>4. result.error \in BOOLEAN
    BY <1>1, <2>1, <2>3, FinishedSettles
  <2>5. Ordered(result.plan) /\ Unbuilt(result.plan) /\ (Whole(result.plan) \/ result.error = TRUE)
    BY <1>1, <2>1, <2>3, FinishedChecks
  <2>6. Settled(result.plan, worker.plan, i)
    BY <1>1, <2>1, <2>3, FinishedSettles
  <2> HIDE DEF result
  <2>7. NoneSkipped(result.plan)
    BY <1>1, <2>6 DEF NoneSkipped, Settled
  <2> QED
    BY <2>2, <2>4, <2>5, <2>7 DEF WorkerChecks, AtWork
<1>5. CASE ReconcileDone
  <2> DEFINE new == Retried(worker.plan)
             Again(j) == worker.plan[j].state = "blocked" /\ worker.plan[j].session = 0
  <2>1. worker'.pc = "dispatch" /\ worker'.plan = new /\ worker'.error = FALSE
    BY <1>1, <1>5 DEF ReconcileDone, WorkerType
  <2>2. \A j \in DOMAIN worker.plan : worker.plan[j] \in Step
    BY <1>1
  <2>3. SameSteps(new, worker.plan)
    BY <2>2 DEF SameSteps, Step, Retried
  <2>4. \A j \in DOMAIN worker.plan : new[j].state = IF Again(j) THEN "pending" ELSE worker.plan[j].state
    BY <2>2 DEF Step, Retried
  <2> HIDE DEF new
  <2>5. \A j \in DOMAIN worker.plan :
           /\ worker.plan[j].state = "completed" <=> new[j].state = "completed"
           /\ Begun(new[j]) => DepsCompleted(worker.plan, j)
    BY <1>1, <2>4 DEF Begun, Ordered
  <2>6. Ordered(new) /\ Whole(new)
    BY <1>1, <2>3, <2>5, StatesMove
  <2>7. NoneSkipped(new)
    BY <1>1, <2>3, <2>4 DEF NoneSkipped, SameSteps
  <2> QED
    BY <2>1, <2>6, <2>7, GoesOn
<1> QED
  BY <1>3, <1>4, <1>5

LEMMA DispatchChecks ==
    ASSUME ChecksInv, IInv, DispatchBlocked \/ DispatchDenied \/ DispatchAsk \/ DispatchSend
    PROVE  WorkerChecks(worker')
<1> DEFINE i == Least(Ready(worker))
           t == Least(Unused)
<1>1. /\ WorkerTurns(worker) /\ worker \in WorkerType /\ worker.plan \in Seq(Step)
      /\ worker.pc = "dispatch" /\ Ready(worker) # {} /\ worker.error = FALSE
      /\ Ordered(worker.plan) /\ Whole(worker.plan) /\ NoneSkipped(worker.plan)
  <2>1. WorkerTurns(worker) /\ worker \in WorkerType /\ worker.pc = "dispatch" /\ Ready(worker) # {}
    BY DEF IInv, Turns, WorkerTurns, DispatchBlocked, DispatchDenied, DispatchAsk, DispatchSend
  <2> QED
    BY <2>1 DEF WorkerType, ChecksInv, WorkerChecks, AtWork
<1>2. i \in DOMAIN worker.plan /\ worker.plan[i].state = "pending" /\ DepsCompleted(worker.plan, i)
  BY <1>1, ReadyMayBegin
<1>3. worker.plan[i].state # "completed"
  BY <1>2
<1>4. CASE DispatchBlocked
  <2>1. worker'.pc = "dispatch" /\ worker'.plan = SetState(worker.plan, i, "blocked") /\ worker'.error = FALSE
    BY <1>1, <1>4 DEF DispatchBlocked, WorkerType
  <2> HIDE DEF i
  <2>2. Ordered(worker'.plan) /\ Whole(worker'.plan) /\ NoneSkipped(worker'.plan)
    BY <1>1, <1>2, <1>3, <2>1, SetStateOrdered
  <2> QED
    BY <2>1, <2>2, GoesOn
<1>5. CASE DispatchDenied \/ DispatchAsk \/ DispatchSend
  <2>1. t \in SessionIds
    <3>1. Unused # {} /\ Unused \in SUBSET Nat
      BY <1>5, BoundsAssumption DEF DispatchDenied, DispatchAsk, DispatchSend, Unused, SessionIds
    <3>2. t \in Unused
      BY <3>1, LeastIn
    <3> QED
      BY ONLY <3>2 DEF Unused
  <2> DEFINE new == Assign(worker.plan, i, t)
  <2>2. \/ worker'.pc = "dispatch" /\ worker'.plan = SetState(new, i, "failed") /\ worker'.error = FALSE
        \/ /\ worker'.pc \in {"ask", "start"} /\ worker'.at = i
           /\ worker'.plan = new /\ worker'.error = FALSE
    <3>1. CASE DispatchDenied
      BY <1>1, <3>1 DEF DispatchDenied, WorkerType
    <3>2. CASE DispatchAsk
      BY <1>1, <3>2 DEF DispatchAsk, WorkerType
    <3>3. CASE DispatchSend
      BY <1>1, <3>3 DEF DispatchSend, WorkerType
    <3> QED
      BY <1>5, <3>1, <3>2, <3>3
  <2> HIDE DEF i, t
  <2>3. /\ Ordered(new) /\ Whole(new) /\ NoneSkipped(new) /\ DepsCompleted(new, i) /\ new[i].state = "pending"
        /\ new \in Seq(Step) /\ i \in DOMAIN new
    BY <1>1, <1>2, <2>1, AssignOrdered, AssignType
  <2>7. new[i].session # 0
    <3>1. new[i].session = t
      BY <1>1, <1>2, <2>1, AssignPhases
    <3> QED
      BY <2>1, <3>1, BoundsAssumption DEF SessionIds
  <2> HIDE DEF new
  <2>4. /\ Ordered(SetState(new, i, "failed")) /\ Whole(SetState(new, i, "failed"))
        /\ NoneSkipped(SetState(new, i, "failed"))
    BY <2>3, SetStateOrdered
  <2>5. CASE worker'.pc = "dispatch"
    BY <2>2, <2>4, <2>5, GoesOn
  <2>6. CASE worker'.pc # "dispatch"
    BY <2>2, <2>3, <2>6, <2>7, WholeIsUnbuilt DEF WorkerChecks, AtWork
  <2> QED
    BY <2>5, <2>6
<1> QED
  BY <1>4, <1>5

LEMMA RecordedChecks ==
    ASSUME ChecksInv, IInv, AskRecorded \/ StartRecorded
    PROVE  WorkerChecks(worker')
<1> DEFINE i == worker.at
<1>1. /\ worker \in WorkerType /\ worker.plan \in Seq(Step) /\ i \in DOMAIN worker.plan
      /\ worker.error = FALSE /\ Ordered(worker.plan) /\ Whole(worker.plan) /\ NoneSkipped(worker.plan)
      /\ worker.plan[i].state = "pending" /\ DepsCompleted(worker.plan, i)
  <2>1. WorkerTurns(worker) /\ worker \in WorkerType /\ worker.pc \in {"ask", "start"}
    BY DEF IInv, Turns, WorkerTurns, AskRecorded, StartRecorded
  <2> QED
    BY <2>1 DEF WorkerTurns, AtStep, WorkerType, ChecksInv, WorkerChecks, AtWork
<1>2. PICK state \in {"running", "blocked"} :
         worker'.pc = "dispatch" /\ worker'.plan = SetState(worker.plan, i, state) /\ worker'.error = FALSE
  BY <1>1 DEF AskRecorded, StartRecorded, WorkerType
<1> HIDE DEF i
<1>3. Ordered(worker'.plan) /\ Whole(worker'.plan) /\ NoneSkipped(worker'.plan)
  BY <1>1, <1>2, SetStateOrdered
<1> QED
  BY <1>2, <1>3, GoesOn

LEMMA CancelChecks ==
    ASSUME ChecksInv, IInv, CancelEnded \/ CancelStop \/ CancelMark
    PROVE  WorkerChecks(worker')
<1>1. /\ WorkerTurns(worker) /\ worker \in WorkerType /\ worker.plan \in Seq(Step)
      /\ worker.error = FALSE /\ Ordered(worker.plan) /\ Whole(worker.plan)
  <2>1. WorkerTurns(worker) /\ worker \in WorkerType /\ worker.pc \in {"cancel", "stop"}
    BY DEF IInv, Turns, WorkerTurns, CancelEnded, CancelStop, CancelMark
  <2> QED
    BY <2>1 DEF WorkerType, ChecksInv, WorkerChecks, AtWork
<1>2. \A i \in DOMAIN worker.plan :
         worker.plan[i].state \in {"running", "blocked"} => DepsCompleted(worker.plan, i)
  BY <1>1 DEF Ordered, Begun
<1>3. ASSUME NEW i \in DOMAIN worker.plan, worker.plan[i].state \in {"running", "blocked"},
             worker'.plan = SetState(worker.plan, i, "failed"), worker'.pc = "cancel",
             worker'.error = FALSE
      PROVE  WorkerChecks(worker')
  <2>1. Ordered(worker'.plan) /\ Whole(worker'.plan)
    BY <1>1, <1>2, <1>3, SetStateOrdered
  <2> QED
    BY <1>3, <2>1, GoesOn
<1>4. CASE CancelEnded
  <2> DEFINE i == Least(Dispatched(worker.plan, worker.at))
  <2>1. i \in DOMAIN worker.plan /\ worker.plan[i].state \in {"running", "blocked"}
    BY <1>1, <1>4, DispatchedIn DEF CancelEnded
  <2>2. worker'.plan = SetState(worker.plan, i, "failed") /\ worker'.pc = "cancel" /\ worker'.error = FALSE
    BY <1>1, <1>4 DEF CancelEnded, WorkerType
  <2> HIDE DEF i
  <2> QED
    BY <1>3, <2>1, <2>2
<1>5. CASE CancelStop
  <2> DEFINE i == Least(Dispatched(worker.plan, worker.at))
  <2>1. /\ i \in DOMAIN worker.plan /\ worker.plan[i].state \in {"running", "blocked"}
        /\ worker.plan[i].session # 0
    BY <1>1, <1>5, DispatchedIn DEF CancelStop
  <2>2. worker'.plan = worker.plan /\ worker'.pc = "stop" /\ worker'.at = i /\ worker'.error = FALSE
    BY <1>1, <1>5 DEF CancelStop, WorkerType
  <2> HIDE DEF i
  <2> QED
    BY <1>1, <2>1, <2>2, WholeIsUnbuilt DEF WorkerChecks, AtWork
<1>6. CASE CancelMark
  <2>1. worker.at \in DOMAIN worker.plan /\ worker.plan[worker.at].state \in {"running", "blocked"}
    BY <1>1, <1>6 DEF CancelMark, WorkerTurns, AtStep, ChecksInv, WorkerChecks, AtWork
  <2>2. /\ worker'.plan = SetState(worker.plan, worker.at, "failed")
        /\ worker'.pc = "cancel" /\ worker'.error = FALSE
    BY <1>1, <1>6 DEF CancelMark, WorkerType
  <2> QED
    BY <1>3, <2>1, <2>2
<1> QED
  BY <1>4, <1>5, <1>6

\* A pass that gave up stores a run that failed.
LEMMA StoreChecks ==
    ASSUME ChecksInv, IInv, StoreRun \/ StoreCancelled
    PROVE  RunChecks(run') /\ worker' = Idle
<1>1. worker' = Idle /\ run'.plan = worker.plan
  BY DEF StoreRun, StoreCancelled
<1>2. Ordered(worker.plan) /\ Unbuilt(worker.plan) /\ worker.error \in BOOLEAN
      /\ (worker.error = FALSE => Whole(worker.plan))
      /\ (worker.pc \notin {"cancel", "stop"} => NoneSkipped(worker.plan))
  BY DEF ChecksInv, WorkerChecks, IInv, TypeOK
<1>3. CASE StoreCancelled
  <2>1. run'.state = "cancelled"
    BY <1>3 DEF StoreCancelled
  <2> QED
    BY <1>1, <1>2, <2>1 DEF RunChecks
<1>4. CASE StoreRun
  <2>1. run'.state = RunState(worker.plan, worker.error) /\ NoneSkipped(worker.plan)
    BY <1>2, <1>4 DEF StoreRun
  <2>2. worker.error = TRUE => run'.state = "failed"
    BY <2>1 DEF RunState
  <2>3. run'.state = "completed" => \A i \in DOMAIN worker.plan : worker.plan[i].state = "completed"
    BY <1>2, <2>1 DEF RunState, NoneSkipped
  <2> QED
    BY <1>1, <1>2, <2>1, <2>2, <2>3 DEF RunChecks
<1> QED
  BY <1>1, <1>3, <1>4

--------------------------------------------------------------------------
(* The theorems *)

LEMMA InitChecks == Init => ChecksInv
<1> SUFFICES ASSUME Init PROVE ChecksInv
  OBVIOUS
<1>1. PICK inputs \in UserPlans :
         ValidDag(AsPlan(inputs)) /\ run = [state |-> "planned", plan |-> AsPlan(inputs)]
  BY DEF Init
<1> DEFINE plan == AsPlan(inputs)
<1>2. \A i \in DOMAIN plan : plan[i].state = "pending" /\ plan[i].verdict = "none"
  BY DEF AsPlan, NewStep
<1>3. \A i \in DOMAIN plan : plan[i].deps \subseteq DOMAIN plan
  BY <1>1 DEF ValidDag
<1> HIDE DEF plan
<1>4. Ordered(plan)
  BY <1>2, <1>3 DEF Ordered, Begun
<1>5. Whole(plan) /\ NoneSkipped(plan)
  <2>1. \A i \in DOMAIN plan : plan[i].origin = "user"
    BY DEF plan, AsPlan, NewStep
  <2>2. Tested(plan)
    BY <2>1 DEF Tested, Planned
  <2> QED
    BY <1>2, <1>3, <2>2 DEF Whole, Mended, HasVerdict, NoneSkipped
<1>6. worker = Idle /\ run.plan = plan /\ run.state = "planned"
  BY <1>1 DEF Init, plan
<1> QED
  BY <1>4, <1>5, <1>6, IdleChecks, WholeIsUnbuilt DEF ChecksInv, RunChecks

LEMMA StepChecks == IInv /\ ChecksInv /\ [Next]_vars => ChecksInv'
<1> SUFFICES ASSUME IInv, ChecksInv, [Next]_vars PROVE ChecksInv'
  OBVIOUS
<1>1. ASSUME run' = run, WorkerChecks(worker')
      PROVE  ChecksInv'
  BY <1>1 DEF ChecksInv
<1>2. ASSUME run' = run, worker' = worker \/ worker' = Idle
      PROVE  ChecksInv'
  BY <1>1, <1>2, IdleChecks DEF ChecksInv
<1>3. CASE TakeAdvance \/ TakeCancel
  BY <1>1, <1>3, TakeChecks DEF TakeAdvance, TakeCancel
<1>4. CASE ReconcileOpen \/ ReconcileEnded \/ ReconcileDone
  BY <1>1, <1>4, ReconcileChecks DEF ReconcileOpen, ReconcileEnded, ReconcileDone
<1>5. CASE DispatchBlocked \/ DispatchDenied \/ DispatchAsk \/ DispatchSend
  BY <1>1, <1>5, DispatchChecks DEF DispatchBlocked, DispatchDenied, DispatchAsk, DispatchSend
<1>6. CASE AskRecorded \/ StartRecorded
  BY <1>1, <1>6, RecordedChecks DEF AskRecorded, StartRecorded
<1>7. CASE StoreRun \/ StoreCancelled
  BY <1>7, StoreChecks, IdleChecks DEF ChecksInv
<1>8. CASE CancelEnded \/ CancelStop \/ CancelMark
  BY <1>1, <1>8, CancelChecks DEF CancelEnded, CancelStop, CancelMark
<1>9. CASE Throw \/ Restart
  BY <1>2, <1>9 DEF Throw, Restart
<1>10. ASSUME NEW s \in SessionIds, Handlers(s) PROVE ChecksInv'
  BY <1>2, <1>10 DEF Handlers, HandleStarted, HandleEnded, SendGranted, GrantedRuns, RefusedEnds
<1>11. ASSUME NEW s \in SessionIds,
              AgentEnds(s) \/ Decided(s) \/ StopSession(s) \/ LoseAgent(s) \/ RecoverLost(s)
       PROVE  ChecksInv'
  BY <1>2, <1>11 DEF AgentEnds, Decided, Grant, Refuse, Lapse, Supersede, Decide, StopSession, LoseAgent, RecoverLost
<1>12. CASE UNCHANGED vars
  BY <1>2, <1>12 DEF vars
<1> QED
  BY <1>3, <1>4, <1>5, <1>6, <1>7, <1>8, <1>9, <1>10, <1>11, <1>12
     DEF Next, Advance, Cancel, Outside, QueuedAdvance, RequestedAdvance

LEMMA ChecksInvariance == Spec => [](IInv /\ ChecksInv)
<1>1. Init => IInv /\ ChecksInv
  BY InitInv, InitChecks
<1>2. IInv /\ ChecksInv /\ [Next]_vars => (IInv /\ ChecksInv)'
  BY StepInv, StepChecks
<1> QED
  BY <1>1, <1>2, PTL DEF Spec

\* Whatever has started after a check that failed is the fix of that check, in
\* the stored plan and in the copy at work (sendBack rewires before anything is
\* dispatched, and a run out of attempts stops), for every plan and reply.
THEOREM NothingBuildsOnAFailedCheckAlways == Spec => []NothingBuildsOnAFailedCheck
<1>1. ChecksInv => NothingBuildsOnAFailedCheck
  BY DEF ChecksInv, RunChecks, WorkerChecks, Unbuilt, Begun, NothingBuildsOnAFailedCheck
<1> QED
  BY <1>1, ChecksInvariance, PTL

\* A run only completes when every check that failed was fixed and checked
\* again, with a verdict, and every build of a planner that named no test was
\* tested (sendBack, the guarantee of expandPlan), however its plan grew.
THEOREM CompletedRunIsCheckedAlways == Spec => []CompletedRunIsChecked
<1>1. ChecksInv => CompletedRunIsChecked
  <2> SUFFICES ASSUME ChecksInv, run.state = "completed" PROVE FailuresRechecked /\ BuildsTested
    BY DEF CompletedRunIsChecked
  <2> DEFINE plan == run.plan
  <2>1. Whole(plan) /\ \A i \in DOMAIN plan : plan[i].state = "completed"
    BY DEF ChecksInv, RunChecks
  <2>2. \A i \in DOMAIN plan : plan[i].kind \in Checks => plan[i].verdict # "none"
    BY <2>1 DEF Whole, HasVerdict
  <2>3. Ordered(plan)
    BY DEF ChecksInv, RunChecks
  <2> HIDE DEF plan
  <2>4. ASSUME NEW c \in DOMAIN plan, plan[c].verdict = "fail"
        PROVE  \E f, r \in DOMAIN plan :
                  /\ IsFixOf(plan, f, c) /\ plan[r].deps = {f}
                  /\ plan[r].kind = plan[c].kind /\ plan[r].verdict # "none"
    <3>1. PICK f, r \in DOMAIN plan : IsFixOf(plan, f, c) /\ plan[r].deps = {f} /\ plan[r].kind = plan[c].kind
      BY <2>1, <2>4 DEF Whole, Rechecked
    <3>2. plan[c].kind \in Checks
      BY <2>3, <2>4 DEF Ordered
    <3> QED
      BY <2>2, <3>1, <3>2
  <2>5. BuildsTested
    BY <2>1, <2>2 DEF BuildsTested, Whole, Tested, Planned, Runs, Checks, plan
  <2> QED
    BY <2>4, <2>5 DEF FailuresRechecked, plan
<1> QED
  BY <1>1, ChecksInvariance, PTL

--------------------------------------------------------------------------
(* The run as a board of tasks *)

\* What the board shows of a plan.
BoardOf(plan) == [i \in DOMAIN plan |-> [needs |-> plan[i].deps, phase |-> Phase(plan[i])]]

BoardStep == [Board!Next]_(BoardOf(Plan))

\* A step of the pass that the board does not show.
LEMMA BoardStays ==
    ASSUME DOMAIN Plan' = DOMAIN Plan,
           \A j \in DOMAIN Plan : Plan'[j].deps = Plan[j].deps /\ Phase(Plan'[j]) = Phase(Plan[j])
    PROVE  BoardStep
<1>1. BoardOf(Plan)' = BoardOf(Plan)
  BY DEF BoardOf
<1> QED
  BY <1>1 DEF BoardStep

\* A step that may begin gets its session, or is turned down.
LEMMA BoardBegins ==
    ASSUME NEW i \in DOMAIN Plan, Ordered(Plan), DepsCompleted(Plan, i), Phase(Plan[i]) = "open",
           DOMAIN Plan' = DOMAIN Plan,
           \A j \in DOMAIN Plan : /\ Plan'[j].deps = Plan[j].deps
                                  /\ j # i => Phase(Plan'[j]) = Phase(Plan[j]),
           Phase(Plan'[i]) \in {"started", "dropped"}
    PROVE  BoardStep
<1> DEFINE b == BoardOf(Plan)
<1>1. \A d \in Plan[i].deps : d \in DOMAIN Plan /\ Phase(Plan[d]) = "done"
  BY DEF Ordered, DepsCompleted, Phase
<1>2. BoardOf(Plan)' = [b EXCEPT ![i].phase = Phase(Plan'[i])]
  BY DEF BoardOf
<1>3. Board!Begin(i)
  BY <1>1, <1>2 DEF Board!Begin, BoardOf
<1> QED
  BY <1>3 DEF BoardStep, Board!Next, BoardOf

\* A step under way ends; steps behind the plan are new.
LEMMA BoardEnds ==
    ASSUME NEW i \in DOMAIN Plan, Plan \in Seq(Step), Plan' \in Seq(Step), Len(Plan') >= Len(Plan),
           Phase(Plan[i]) = "started", Phase(Plan'[i]) \in {"done", "dropped"},
           \A j \in DOMAIN Plan' \ {i} :
              Phase(Plan'[j]) = IF j \in DOMAIN Plan THEN Phase(Plan[j]) ELSE "open",
           \A j \in DOMAIN Plan : Phase(Plan[j]) # "open" => Plan'[j].deps = Plan[j].deps,
           RunsKept(Plan', Plan)
    PROVE  BoardStep
<1> DEFINE old == BoardOf(Plan)
           new == BoardOf(Plan')
<1>1. /\ DOMAIN new = DOMAIN Plan' /\ DOMAIN old = DOMAIN Plan
      /\ \A j \in DOMAIN Plan' : new[j].needs = Plan'[j].deps /\ new[j].phase = Phase(Plan'[j])
      /\ \A j \in DOMAIN Plan : old[j].needs = Plan[j].deps /\ old[j].phase = Phase(Plan[j])
  BY DEF BoardOf
<1>2. DOMAIN Plan = 1 .. Len(Plan) /\ DOMAIN Plan' = 1 .. Len(Plan') /\ Len(Plan) \in Nat /\ Len(Plan') \in Nat
  OBVIOUS
<1>3. \A t : Phase(t) \in {"open", "started", "done", "dropped"}
  BY DEF Phase
<1>4. new \in Seq(Board!Task) /\ Len(new) >= Len(old)
  <2>1. ASSUME NEW j \in DOMAIN Plan' PROVE new[j] \in Board!Task
    <3>1. Plan'[j] \in Step
      BY <1>2, <2>1
    <3>2. Plan'[j].deps \in SUBSET (Nat \ {0}) /\ Phase(Plan'[j]) \in Board!Phases
      BY <1>3, <3>1 DEF Step, Board!Phases
    <3>3. new[j] = [needs |-> Plan'[j].deps, phase |-> Phase(Plan'[j])]
      BY DEF BoardOf
    <3> QED
      BY ONLY <3>2, <3>3 DEF Board!Task
  <2>2. new \in [1 .. Len(Plan') -> Board!Task]
    BY <1>1, <1>2, <2>1 DEF BoardOf
  <2>3. new \in Seq(Board!Task) /\ Len(new) = Len(Plan')
    BY <1>2, <2>2, SeqDef
  <2>4. Len(old) = Len(Plan)
    BY <1>1, <1>2
  <2> QED
    BY <2>3, <2>4
<1>5. \A t, u \in DOMAIN Plan :
         Board!RunsAfter(Board!Needs(old), t, u) => Board!RunsAfter(Board!Needs(new), t, u)
  BY DEF RunsKept, Runs, Board!Needs, BoardOf
<1>6. /\ old[i].phase = "started" /\ new[i].phase \in {"done", "dropped"}
      /\ \A u \in DOMAIN new \ {i} : new[u].phase = IF u \in DOMAIN old THEN old[u].phase ELSE "open"
      /\ \A u \in DOMAIN old : old[u].phase # "open" => new[u].needs = old[u].needs
      /\ i \in DOMAIN new
  BY <1>1, <1>2
<1>7. \A u, v \in DOMAIN old :
         Board!RunsAfter(Board!Needs(old), u, v) => Board!RunsAfter(Board!Needs(new), u, v)
  BY <1>1, <1>5
<1>8. Board!End(i)
  <2> SUFFICES ASSUME NEW b, NEW c, b = old, c = new
               PROVE  /\ b[i].phase = "started"
                      /\ c \in Seq(Board!Task) /\ Len(c) >= Len(b)
                      /\ c[i].phase \in {"done", "dropped"}
                      /\ \A u \in DOMAIN c \ {i} : c[u].phase = IF u \in DOMAIN b THEN b[u].phase ELSE "open"
                      /\ \A u \in DOMAIN b : b[u].phase # "open" => c[u].needs = b[u].needs
                      /\ \A u, v \in DOMAIN b :
                            Board!RunsAfter(Board!Needs(b), u, v) => Board!RunsAfter(Board!Needs(c), u, v)
    BY DEF Board!End, BoardOf
  <2> HIDE DEF old, new
  <2> QED
    BY <1>4, <1>6, <1>7
<1> QED
  BY <1>1, <1>8 DEF BoardStep, Board!Next, BoardOf

\* What has not begun is given up.
LEMMA BoardGivenUp ==
    ASSUME DOMAIN Plan' = DOMAIN Plan,
           \A j \in DOMAIN Plan : /\ Plan'[j].deps = Plan[j].deps
                                  /\ Phase(Plan'[j]) = IF Phase(Plan[j]) = "open" THEN "dropped"
                                                       ELSE Phase(Plan[j])
    PROVE  BoardStep
<1>1. BoardOf(Plan)' = [t \in DOMAIN BoardOf(Plan) |->
                          IF BoardOf(Plan)[t].phase = "open"
                          THEN [BoardOf(Plan)[t] EXCEPT !.phase = "dropped"] ELSE BoardOf(Plan)[t]]
  BY DEF BoardOf
<1> QED
  BY <1>1 DEF BoardStep, Board!Next, Board!GiveUp, BoardOf

\* A step with a session is under way until it ends; a pending one has none.
LEMMA PhaseOf ==
    ASSUME NEW step
    PROVE  /\ step.state \in {"running", "blocked", "pending"} =>
                 Phase(step) = IF step.session # 0 THEN "started" ELSE "open"
           /\ step.state = "completed" => Phase(step) = "done"
           /\ step.state \in {"failed", "skipped"} => Phase(step) = "dropped"
BY DEF Phase

\* A step that runs has a session.
Manned(plan) == \A i \in DOMAIN plan : plan[i].state = "running" => plan[i].session # 0

\* A cancel skips what has not started and stops what has a session: a step
\* that ran without one would be neither.
MannedInv == Manned(run.plan) /\ Manned(worker.plan)

LEMMA SetStateManned ==
    ASSUME NEW plan \in Seq(Step), NEW i \in DOMAIN plan, NEW state \in StepStates,
           Manned(plan), state = "running" => plan[i].session # 0
    PROVE  Manned(SetState(plan, i, state))
BY SetStatePhases DEF Manned

LEMMA MannedStep == IInv /\ ChecksInv /\ MannedInv /\ [Next]_vars => MannedInv'
<1> SUFFICES ASSUME IInv, ChecksInv, MannedInv, [Next]_vars PROVE MannedInv'
  OBVIOUS
<1> DEFINE i == Least(Dispatched(worker.plan, worker.at))
           r == Least(Ready(worker))
           t == Least(Unused)
<1>1. Manned(run.plan) /\ Manned(worker.plan) /\ Manned(Idle.plan)
  <2>1. DOMAIN Idle.plan = {}
    BY DEF Idle
  <2> QED
    BY <2>1 DEF MannedInv, Manned
<1>2. ASSUME run' = run, Manned(worker'.plan) PROVE MannedInv'
  BY <1>1, <1>2 DEF MannedInv
<1>3. ASSUME run' = run, worker' = worker \/ worker' = Idle PROVE MannedInv'
  BY <1>1, <1>2, <1>3
<1>4. WorkerTurns(worker) /\ run.plan \in Seq(Step) /\ worker \in WorkerType /\ worker.plan \in Seq(Step)
  BY DEF IInv, Turns, RunTurns, WorkerTurns, WorkerType
<1>5. {"running", "blocked", "failed"} \subseteq StepStates
  BY DEF StepStates
<1>6. Dispatched(worker.plan, worker.at) # {} =>
         /\ i \in DOMAIN worker.plan /\ worker.plan[i].state \in {"running", "blocked"}
         /\ worker.plan[i].session # 0
  BY <1>4, DispatchedIn
<1>7. CASE TakeAdvance
  BY <1>1, <1>3, <1>2, <1>7 DEF TakeAdvance
<1>8. CASE TakeCancel
  <2>1. CASE worker' = Idle
    BY <1>3, <1>8, <2>1 DEF TakeCancel
  <2>2. CASE worker' # Idle
    <3>1. worker'.plan = [j \in DOMAIN run.plan |->
                             IF Unstarted(run.plan[j]) THEN [run.plan[j] EXCEPT !.state = "skipped"]
                             ELSE run.plan[j]]
      BY <1>8, <2>2 DEF TakeCancel, Idle
    <3>2. \A j \in DOMAIN run.plan : run.plan[j] \in Step
      BY <1>4
    <3>3. \A j \in DOMAIN run.plan : worker'.plan[j].state = "running" => worker'.plan[j] = run.plan[j]
      BY <3>1, <3>2 DEF Step
    <3> QED
      BY <1>1, <1>2, <1>8, <3>1, <3>3 DEF Manned, TakeCancel
  <2> QED
    BY <2>1, <2>2
<1>9. CASE ReconcileOpen
  <2>1. worker'.plan = worker.plan \/ worker'.plan = SetState(worker.plan, i, "running")
    BY <1>4, <1>9 DEF ReconcileOpen, WorkerType
  <2>2. i \in DOMAIN worker.plan /\ worker.plan[i].session # 0
    BY <1>6, <1>9 DEF ReconcileOpen
  <2>3. run' = run
    BY <1>9 DEF ReconcileOpen
  <2> HIDE DEF i
  <2> QED
    BY <1>1, <1>2, <1>4, <1>5, <2>1, <2>2, <2>3, SetStateManned
<1>10. CASE ReconcileEnded
  <2> DEFINE s == worker.plan[i].session
             new == Finished(worker.plan, i, session[s], report[s]).plan
  <2>1. /\ i \in DOMAIN worker.plan /\ worker.plan[i].state \in {"running", "blocked"}
        /\ s \in SessionIds /\ worker.pc = "reconcile"
    BY <1>4, <1>10, EndedIn
  <2>2. worker'.plan = new /\ run' = run
    BY <1>4, <1>10 DEF ReconcileEnded, WorkerType
  <2>3. report[s] \in [verdict : Verdicts, reply : PlannerReplies \cup {<<>>}, exit : Ended]
    BY <2>1 DEF IInv, TypeOK
  <2>4. Ordered(worker.plan) /\ Whole(worker.plan) /\ NoneSkipped(worker.plan)
    BY <1>4, <2>1 DEF ChecksInv, WorkerChecks, AtWork, WorkerType
  <2> HIDE DEF i, s
  <2>5. new[i].state \in {"completed", "failed"}
    BY <1>4, <2>1, <2>3, <2>4, FinishedChecks
  <2>6. Settled(new, worker.plan, i)
    BY <1>4, <2>1, <2>3, FinishedSettles
  <2> HIDE DEF new
  <2>7. Manned(new)
    BY <1>1, <2>5, <2>6 DEF Manned, Settled
  <2> QED
    BY <1>2, <2>2, <2>7
<1>11. CASE ReconcileDone
  <2>1. worker'.plan = Retried(worker.plan) /\ run' = run
    BY <1>4, <1>11 DEF ReconcileDone, WorkerType
  <2>2. \A j \in DOMAIN worker.plan : worker.plan[j] \in Step
    BY <1>4
  <2>3. /\ DOMAIN Retried(worker.plan) = DOMAIN worker.plan
        /\ \A j \in DOMAIN worker.plan :
              Retried(worker.plan)[j].state = "running" => Retried(worker.plan)[j] = worker.plan[j]
    BY <2>2 DEF Step, Retried
  <2> QED
    BY <1>1, <1>2, <2>1, <2>3 DEF Manned
<1>12. CASE DispatchBlocked \/ DispatchDenied \/ DispatchAsk \/ DispatchSend
  <2>1. r \in DOMAIN worker.plan /\ worker.plan[r].state = "pending" /\ run' = run
    BY <1>4, <1>12, ReadyMayBegin DEF DispatchBlocked, DispatchDenied, DispatchAsk, DispatchSend
  <2>2. CASE DispatchBlocked
    <3>1. worker'.plan = SetState(worker.plan, r, "blocked")
      BY <1>4, <2>2 DEF DispatchBlocked, WorkerType
    <3> HIDE DEF r
    <3> QED
      BY <1>1, <1>2, <1>4, <1>5, <2>1, <3>1, SetStateManned
  <2>3. CASE DispatchDenied \/ DispatchAsk \/ DispatchSend
    <3> DEFINE given == Assign(worker.plan, r, t)
    <3>1. t \in SessionIds
      <4>1. Unused # {} /\ Unused \in SUBSET Nat
        BY <2>3, BoundsAssumption DEF DispatchDenied, DispatchAsk, DispatchSend, Unused, SessionIds
      <4>2. t \in Unused
        BY <4>1, LeastIn
      <4> QED
        BY ONLY <4>2 DEF Unused
    <3>2. worker'.plan = given \/ worker'.plan = SetState(given, r, "failed")
      BY <1>4, <2>3 DEF DispatchDenied, DispatchAsk, DispatchSend, WorkerType
    <3> HIDE DEF r, t
    <3>5. /\ given \in Seq(Step) /\ r \in DOMAIN given /\ DOMAIN given = DOMAIN worker.plan
          /\ \A j \in DOMAIN worker.plan : j # r => given[j] = worker.plan[j]
          /\ given[r].state = "pending"
      BY <1>4, <2>1, <3>1, AssignPhases
    <3> HIDE DEF given
    <3>3. given \in Seq(Step) /\ r \in DOMAIN given /\ Manned(given)
      BY <1>1, <3>5 DEF Manned
    <3>4. Manned(SetState(given, r, "failed"))
      BY <1>5, <3>3, SetStateManned
    <3> QED
      BY <1>2, <2>1, <3>2, <3>3, <3>4
  <2> QED
    BY <1>12, <2>2, <2>3
<1>13. CASE AskRecorded \/ StartRecorded
  <2>1. worker.at \in DOMAIN worker.plan /\ worker.plan[worker.at].session # 0
    BY <1>4, <1>13 DEF AskRecorded, StartRecorded, WorkerTurns, AtStep, ChecksInv, WorkerChecks, AtWork
  <2>2. PICK state \in {"running", "blocked"} : worker'.plan = SetState(worker.plan, worker.at, state)
    BY <1>4, <1>13 DEF AskRecorded, StartRecorded, WorkerType
  <2>3. run' = run
    BY <1>13 DEF AskRecorded, StartRecorded
  <2> QED
    BY <1>1, <1>2, <1>4, <1>5, <2>1, <2>2, <2>3, SetStateManned
<1>14. CASE CancelEnded
  <2>1. i \in DOMAIN worker.plan /\ worker'.plan = SetState(worker.plan, i, "failed") /\ run' = run
    BY <1>4, <1>6, <1>14 DEF CancelEnded, WorkerType
  <2> HIDE DEF i
  <2> QED
    BY <1>1, <1>2, <1>4, <1>5, <2>1, SetStateManned
<1>15. CASE CancelStop
  <2>1. worker'.plan = worker.plan /\ run' = run
    BY <1>4, <1>15 DEF CancelStop, WorkerType
  <2> QED
    BY <1>1, <1>2, <2>1
<1>16. CASE CancelMark
  <2>1. /\ worker.at \in DOMAIN worker.plan /\ run' = run
        /\ worker'.plan = SetState(worker.plan, worker.at, "failed")
    BY <1>4, <1>16 DEF CancelMark, WorkerType, WorkerTurns, AtStep
  <2> QED
    BY <1>1, <1>2, <1>4, <1>5, <2>1, SetStateManned
<1>17. CASE StoreRun \/ StoreCancelled
  <2>1. run'.plan = worker.plan /\ worker' = Idle
    BY <1>17 DEF StoreRun, StoreCancelled
  <2> QED
    BY <1>1, <2>1 DEF MannedInv
<1>18. CASE Throw \/ Restart
  BY <1>3, <1>18 DEF Throw, Restart
<1>19. ASSUME NEW s \in SessionIds, Handlers(s) PROVE MannedInv'
  BY <1>3, <1>19 DEF Handlers, HandleStarted, HandleEnded, SendGranted, GrantedRuns, RefusedEnds
<1>20. ASSUME NEW s \in SessionIds,
              AgentEnds(s) \/ Decided(s) \/ StopSession(s) \/ LoseAgent(s) \/ RecoverLost(s)
       PROVE  MannedInv'
  BY <1>3, <1>20 DEF AgentEnds, Decided, Grant, Refuse, Lapse, Supersede, Decide, StopSession, LoseAgent, RecoverLost
<1>21. CASE UNCHANGED vars
  BY <1>3, <1>21 DEF vars
<1> QED
  BY <1>7, <1>8, <1>9, <1>10, <1>11, <1>12, <1>13, <1>14, <1>15, <1>16, <1>17, <1>18, <1>19, <1>20, <1>21
     DEF Next, Advance, Cancel, Outside, QueuedAdvance, RequestedAdvance

LEMMA InitManned == Init => MannedInv
<1> SUFFICES ASSUME Init PROVE MannedInv
  OBVIOUS
<1>1. PICK inputs \in UserPlans : run.plan = AsPlan(inputs)
  BY DEF Init
<1>2. \A i \in DOMAIN run.plan : run.plan[i].state = "pending"
  BY <1>1 DEF AsPlan, NewStep
<1>3. DOMAIN worker.plan = {}
  BY DEF Init, Idle
<1> QED
  BY <1>2, <1>3 DEF MannedInv, Manned

\* Taking the lock changes nothing; a cancel gives up what has not started.
LEMMA TakeBoard ==
    ASSUME IInv, MannedInv, TakeAdvance \/ TakeCancel
    PROVE  BoardStep
<1>1. /\ worker.pc = "idle" /\ run' = run /\ Plan = run.plan
      /\ run.plan \in Seq(Step) /\ Fresh(run.plan) /\ Idle.pc = "idle"
  BY IdleTurns DEF TakeAdvance, TakeCancel, Plan, IInv, Turns, RunTurns
<1>2. CASE worker' = Idle \/ TakeAdvance
  <2>1. Plan' = Plan
    BY <1>1, <1>2 DEF Plan, TakeAdvance, Idle
  <2> QED
    BY <2>1, BoardStays
<1>3. CASE TakeCancel /\ worker' # Idle
  <2> DEFINE new == [i \in DOMAIN run.plan |->
                        IF Unstarted(run.plan[i])
                        THEN [run.plan[i] EXCEPT !.state = "skipped"]
                        ELSE run.plan[i]]
  <2>1. worker'.pc = "cancel" /\ worker'.plan = new
    BY <1>3 DEF TakeCancel, Idle
  <2>2. Plan' = new
    BY <2>1 DEF Plan
  <2>3. \A j \in DOMAIN run.plan : run.plan[j] \in Step
    BY <1>1
  <2>4. \A j \in DOMAIN run.plan :
           /\ new[j].deps = run.plan[j].deps
           /\ Unstarted(run.plan[j]) => new[j].state = "skipped"
           /\ ~Unstarted(run.plan[j]) => new[j] = run.plan[j]
    BY <2>3 DEF Step
  <2>5. DOMAIN new = DOMAIN run.plan
    OBVIOUS
  <2> HIDE DEF new
  <2>6. \A j \in DOMAIN run.plan : Phase(run.plan[j]) = "open" <=> Unstarted(run.plan[j])
    <3> SUFFICES ASSUME NEW j \in DOMAIN run.plan
                 PROVE  Phase(run.plan[j]) = "open" <=> Unstarted(run.plan[j])
      OBVIOUS
    <3> DEFINE step == run.plan[j]
    <3>1. /\ step.state \in StepStates
          /\ step.state = "pending" => step.session = 0
          /\ step.state = "running" => step.session # 0
      BY <1>1, <2>3 DEF Fresh, Step, MannedInv, Manned
    <3> HIDE DEF step
    <3>2. ASSUME step.state = "pending" PROVE Phase(step) = "open" <=> Unstarted(step)
      BY <3>1, <3>2 DEF Phase, Unstarted
    <3>3. ASSUME step.state \in {"blocked", "running"} PROVE Phase(step) = "open" <=> Unstarted(step)
      BY <3>1, <3>3 DEF Phase, Unstarted
    <3>4. ASSUME step.state \in {"completed", "failed", "skipped"} PROVE Phase(step) = "open" <=> Unstarted(step)
      BY <3>4 DEF Phase, Unstarted
    <3>5. Phase(step) = "open" <=> Unstarted(step)
      BY <3>1, <3>2, <3>3, <3>4 DEF StepStates
    <3> QED
      BY <3>5 DEF step
  <2>7. \A j \in DOMAIN run.plan :
           Phase(new[j]) = IF Phase(run.plan[j]) = "open" THEN "dropped" ELSE Phase(run.plan[j])
    BY <2>4, <2>6 DEF Phase
  <2> QED
    BY <1>1, <2>2, <2>4, <2>5, <2>7, BoardGivenUp
<1> QED
  BY <1>2, <1>3

\* A step whose session ended ends, whatever it does to the plan.
LEMMA ReconcileBoard ==
    ASSUME IInv, ChecksInv, ReconcileOpen \/ ReconcileEnded \/ ReconcileDone
    PROVE  BoardStep
<1> DEFINE i == Least(Dispatched(worker.plan, worker.at))
           s == worker.plan[i].session
<1>1. /\ WorkerTurns(worker) /\ worker \in WorkerType /\ worker.plan \in Seq(Step)
      /\ worker.pc = "reconcile" /\ worker'.pc \in {"reconcile", "dispatch", "store"}
      /\ Ordered(worker.plan) /\ Whole(worker.plan) /\ NoneSkipped(worker.plan)
  <2>1. WorkerTurns(worker) /\ worker \in WorkerType /\ worker.pc = "reconcile"
    BY DEF IInv, Turns, WorkerTurns, ReconcileOpen, ReconcileEnded, ReconcileDone
  <2> QED
    BY <2>1 DEF WorkerType, ChecksInv, WorkerChecks, AtWork, ReconcileOpen, ReconcileEnded, ReconcileDone
<1>2. Plan = worker.plan /\ Plan' = worker'.plan
  BY <1>1 DEF Plan
<1>3. ASSUME Dispatched(worker.plan, worker.at) # {}
      PROVE  /\ i \in DOMAIN worker.plan /\ worker.plan[i].state \in {"running", "blocked"}
             /\ s # 0 /\ worker.plan[i] \in Step
  BY <1>1, <1>3, DispatchedIn
<1>4. CASE ReconcileOpen
  <2>1. i \in DOMAIN worker.plan /\ worker.plan[i].state \in {"running", "blocked"} /\ "running" \in StepStates
    BY <1>3, <1>4 DEF ReconcileOpen, StepStates
  <2>2. worker'.plan = worker.plan \/ worker'.plan = SetState(worker.plan, i, "running")
    BY <1>1, <1>4 DEF ReconcileOpen, WorkerType
  <2> HIDE DEF i
  <2>3. \A j \in DOMAIN worker.plan :
           Phase(SetState(worker.plan, i, "running")[j]) = Phase(worker.plan[j])
    <3>1. ASSUME NEW j \in DOMAIN worker.plan
          PROVE  Phase(SetState(worker.plan, i, "running")[j]) = Phase(worker.plan[j])
      <4>1. CASE j = i
        <5>1. /\ SetState(worker.plan, i, "running")[i].state = "running"
              /\ SetState(worker.plan, i, "running")[i].session = worker.plan[i].session
          BY <1>1, <2>1, SetStatePhases
        <5> QED
          BY <2>1, <4>1, <5>1, PhaseOf
      <4>2. CASE j # i
        BY <1>1, <2>1, <4>2, SetStatePhases
      <4> QED
        BY <4>1, <4>2
    <3> QED
      BY <3>1
  <2> QED
    BY <1>1, <1>2, <2>1, <2>2, <2>3, SetStatePhases, BoardStays
<1>5. CASE ReconcileEnded
  <2> DEFINE new == Finished(worker.plan, i, session[s], report[s]).plan
  <2>1. i \in DOMAIN worker.plan /\ worker.plan[i].state \in {"running", "blocked"} /\ s # 0 /\ s \in SessionIds
    BY <1>1, <1>5, EndedIn
  <2>2. worker'.plan = new
    BY <1>1, <1>5 DEF ReconcileEnded, WorkerType
  <2>3. report[s] \in [verdict : Verdicts, reply : PlannerReplies \cup {<<>>}, exit : Ended]
    BY <2>1 DEF IInv, TypeOK
  <2>4. Phase(worker.plan[i]) = "started"
    BY <2>1, PhaseOf
  <2>5. new[i].state \in {"completed", "failed"}
    BY <1>1, <2>1, <2>3, FinishedChecks
  <2> HIDE DEF i, s
  <2>6. Rewires(new, worker.plan)
    BY <1>1, <2>1, <2>3, FinishedChecks
  <2>7. Settled(new, worker.plan, i)
    BY <1>1, <2>1, <2>3, FinishedSettles
  <2> HIDE DEF new
  <2>8. Phase(new[i]) \in {"done", "dropped"}
    BY <2>5, PhaseOf
  <2>9. \A j \in DOMAIN new \ {i} :
           Phase(new[j]) = IF j \in DOMAIN worker.plan THEN Phase(worker.plan[j]) ELSE "open"
    BY <2>7, PhaseOf DEF Settled, Phase
  <2>10. \A j \in DOMAIN worker.plan : Phase(worker.plan[j]) # "open" => new[j].deps = worker.plan[j].deps
    <3>1. ASSUME NEW j \in DOMAIN worker.plan, Phase(worker.plan[j]) # "open"
          PROVE  Begun(worker.plan[j])
      <4>1. Fresh(worker.plan)
        BY <1>1, WorkerFresh
      <4> QED
        BY <1>1, <3>1, <4>1 DEF Phase, Begun, Fresh, NoneSkipped
    <3> QED
      BY <2>6, <3>1 DEF Rewires
  <2> QED
    BY <1>1, <1>2, <2>1, <2>2, <2>4, <2>6, <2>7, <2>8, <2>9, <2>10, BoardEnds DEF Rewires, Settled
<1>6. CASE ReconcileDone
  <2> DEFINE new == Retried(worker.plan)
             Again(j) == worker.plan[j].state = "blocked" /\ worker.plan[j].session = 0
  <2>1. worker'.plan = new
    BY <1>1, <1>6 DEF ReconcileDone, WorkerType
  <2>2. \A j \in DOMAIN worker.plan : worker.plan[j] \in Step
    BY <1>1
  <2>3. /\ DOMAIN new = DOMAIN worker.plan
        /\ \A j \in DOMAIN worker.plan :
              /\ new[j].deps = worker.plan[j].deps /\ new[j].session = worker.plan[j].session
              /\ new[j].state = IF Again(j) THEN "pending" ELSE worker.plan[j].state
    BY <2>2 DEF Step, Retried
  <2> HIDE DEF new
  <2>4. \A j \in DOMAIN worker.plan : Phase(new[j]) = Phase(worker.plan[j])
    BY <2>3 DEF Phase
  <2> QED
    BY <1>2, <2>1, <2>3, <2>4, BoardStays
<1> QED
  BY <1>4, <1>5, <1>6

\* A step that is given a session begins; one that is blocked does not.
LEMMA DispatchBoard ==
    ASSUME IInv, ChecksInv, DispatchBlocked \/ DispatchDenied \/ DispatchAsk \/ DispatchSend
    PROVE  BoardStep
<1> DEFINE i == Least(Ready(worker))
           t == Least(Unused)
<1>1. /\ WorkerTurns(worker) /\ worker \in WorkerType /\ worker.plan \in Seq(Step)
      /\ worker.pc = "dispatch" /\ Ready(worker) # {} /\ Ordered(worker.plan)
  <2>1. WorkerTurns(worker) /\ worker \in WorkerType /\ worker.pc = "dispatch" /\ Ready(worker) # {}
    BY DEF IInv, Turns, WorkerTurns, DispatchBlocked, DispatchDenied, DispatchAsk, DispatchSend
  <2> QED
    BY <2>1 DEF WorkerType, ChecksInv, WorkerChecks
<1>2. i \in DOMAIN worker.plan /\ worker.plan[i].state = "pending" /\ DepsCompleted(worker.plan, i)
  BY <1>1, ReadyMayBegin
<1>3. worker.plan[i].session = 0 /\ Phase(worker.plan[i]) = "open"
  <2>1. Fresh(worker.plan)
    BY <1>1, WorkerFresh
  <2> QED
    BY <1>2, <2>1, PhaseOf DEF Fresh
<1>4. "blocked" \in StepStates /\ "failed" \in StepStates
  BY DEF StepStates
<1>5. CASE DispatchBlocked
  <2> DEFINE new == SetState(worker.plan, i, "blocked")
  <2>1. worker'.pc = "dispatch" /\ worker'.plan = new
    BY <1>1, <1>5 DEF DispatchBlocked, WorkerType
  <2>2. Plan = worker.plan /\ Plan' = new
    BY <1>1, <2>1 DEF Plan
  <2> HIDE DEF i
  <2>3. /\ DOMAIN new = DOMAIN worker.plan
        /\ \A j \in DOMAIN worker.plan : new[j].deps = worker.plan[j].deps /\ (j # i => new[j] = worker.plan[j])
        /\ new[i].state = "blocked" /\ new[i].session = 0
    BY <1>1, <1>2, <1>3, <1>4, SetStatePhases
  <2> HIDE DEF new
  <2>4. Phase(new[i]) = "open"
    BY <2>3, PhaseOf
  <2> QED
    BY <1>3, <2>2, <2>3, <2>4, BoardStays
<1>6. CASE DispatchDenied \/ DispatchAsk \/ DispatchSend
  <2>1. t \in SessionIds /\ t # 0
    <3>1. Unused # {} /\ Unused \in SUBSET Nat
      BY <1>6, BoundsAssumption DEF DispatchDenied, DispatchAsk, DispatchSend, Unused, SessionIds
    <3>2. t \in Unused
      BY <3>1, LeastIn
    <3>3. t \in SessionIds
      BY ONLY <3>2 DEF Unused
    <3> HIDE DEF t
    <3> QED
      BY <3>3, BoundsAssumption DEF SessionIds
  <2> DEFINE given == Assign(worker.plan, i, t)
             new == worker'.plan
  <2>2. worker'.pc \in {"dispatch", "ask", "start"} /\ (new = given \/ new = SetState(given, i, "failed"))
    BY <1>1, <1>6 DEF DispatchDenied, DispatchAsk, DispatchSend, WorkerType
  <2>3. Plan = worker.plan /\ Plan' = new
    BY <1>1, <2>2 DEF Plan
  <2> HIDE DEF i, t
  <2>4. /\ DOMAIN given = DOMAIN worker.plan /\ given \in Seq(Step)
        /\ \A j \in DOMAIN worker.plan : given[j].deps = worker.plan[j].deps /\ (j # i => given[j] = worker.plan[j])
        /\ given[i].state = "pending" /\ given[i].session = t
    BY <1>1, <1>2, <2>1, AssignPhases
  <2> HIDE DEF given
  <2>5. /\ DOMAIN new = DOMAIN worker.plan
        /\ \A j \in DOMAIN worker.plan : new[j].deps = worker.plan[j].deps /\ (j # i => new[j] = worker.plan[j])
        /\ (new[i].state = "pending" /\ new[i].session = t) \/ new[i].state = "failed"
    <3>1. CASE new = given
      BY <2>4, <3>1
    <3>2. CASE new = SetState(given, i, "failed")
      BY <1>2, <1>4, <2>4, <3>2, SetStatePhases
    <3> QED
      BY <2>2, <3>1, <3>2
  <2> HIDE DEF new
  <2>6. Phase(new[i]) \in {"started", "dropped"}
    BY <2>1, <2>5, PhaseOf
  <2> QED
    BY <1>1, <1>2, <1>3, <2>3, <2>5, <2>6, BoardBegins
<1> QED
  BY <1>5, <1>6

\* The step has begun when its session was named.
LEMMA RecordedBoard ==
    ASSUME IInv, ChecksInv, AskRecorded \/ StartRecorded
    PROVE  BoardStep
<1> DEFINE i == worker.at
<1>1. /\ worker \in WorkerType /\ worker.plan \in Seq(Step) /\ i \in DOMAIN worker.plan
      /\ worker.pc \in {"ask", "start"} /\ worker.plan[i].state = "pending" /\ worker.plan[i].session # 0
  <2>1. WorkerTurns(worker) /\ worker \in WorkerType /\ worker.pc \in {"ask", "start"}
    BY DEF IInv, Turns, WorkerTurns, AskRecorded, StartRecorded
  <2> QED
    BY <2>1 DEF WorkerTurns, AtStep, WorkerType, ChecksInv, WorkerChecks, AtWork
<1>2. PICK state \in {"running", "blocked"} :
         worker'.pc = "dispatch" /\ worker'.plan = SetState(worker.plan, i, state)
  BY <1>1 DEF AskRecorded, StartRecorded, WorkerType
<1>3. Plan = worker.plan /\ Plan' = SetState(worker.plan, i, state) /\ state \in StepStates
  BY <1>1, <1>2 DEF Plan, StepStates
<1> HIDE DEF i
<1> DEFINE new == SetState(worker.plan, i, state)
<1>4. /\ DOMAIN new = DOMAIN worker.plan
      /\ \A j \in DOMAIN worker.plan : new[j].deps = worker.plan[j].deps /\ (j # i => new[j] = worker.plan[j])
      /\ new[i].state = state /\ new[i].session = worker.plan[i].session
  BY <1>1, <1>3, SetStatePhases
<1> HIDE DEF new
<1>5. Phase(new[i]) = "started" /\ Phase(worker.plan[i]) = "started"
  BY <1>1, <1>2, <1>4, PhaseOf
<1> QED
  BY <1>3, <1>4, <1>5, BoardStays DEF new

\* A step that a cancel ends had begun.
LEMMA CancelBoard ==
    ASSUME IInv, ChecksInv, CancelEnded \/ CancelStop \/ CancelMark
    PROVE  BoardStep
<1>1. /\ WorkerTurns(worker) /\ worker \in WorkerType /\ worker.plan \in Seq(Step)
      /\ worker.pc \in {"cancel", "stop"} /\ "failed" \in StepStates
  <2>1. WorkerTurns(worker) /\ worker \in WorkerType /\ worker.pc \in {"cancel", "stop"}
    BY DEF IInv, Turns, WorkerTurns, CancelEnded, CancelStop, CancelMark
  <2> QED
    BY <2>1 DEF WorkerType, StepStates
<1>2. Plan = worker.plan
  BY <1>1 DEF Plan
<1>3. ASSUME NEW i \in DOMAIN worker.plan, worker.plan[i].state \in {"running", "blocked"},
             worker.plan[i].session # 0,
             worker'.plan = SetState(worker.plan, i, "failed"), worker'.pc = "cancel"
      PROVE  BoardStep
  <2> DEFINE new == SetState(worker.plan, i, "failed")
  <2>1. Plan' = new
    BY <1>3 DEF Plan
  <2>2. /\ DOMAIN new = DOMAIN worker.plan /\ new \in Seq(Step) /\ Len(new) = Len(worker.plan)
        /\ \A j \in DOMAIN worker.plan : new[j].deps = worker.plan[j].deps /\ (j # i => new[j] = worker.plan[j])
        /\ new[i].state = "failed"
    BY <1>1, SetStatePhases
  <2> HIDE DEF new
  <2>3. Phase(new[i]) = "dropped" /\ Phase(worker.plan[i]) = "started"
    BY <1>3, <2>2, PhaseOf
  <2>4. RunsKept(new, worker.plan)
    BY <2>2, SameDepsRun
  <2>5. Len(new) >= Len(worker.plan)
    BY <1>1, <2>2
  <2> QED
    BY <1>1, <1>2, <2>1, <2>2, <2>3, <2>4, <2>5, BoardEnds
<1>4. CASE CancelEnded
  <2> DEFINE i == Least(Dispatched(worker.plan, worker.at))
  <2>1. /\ i \in DOMAIN worker.plan /\ worker.plan[i].state \in {"running", "blocked"}
        /\ worker.plan[i].session # 0
    BY <1>1, <1>4, DispatchedIn DEF CancelEnded
  <2>2. worker'.plan = SetState(worker.plan, i, "failed") /\ worker'.pc = "cancel"
    BY <1>1, <1>4 DEF CancelEnded, WorkerType
  <2> HIDE DEF i
  <2> QED
    BY <1>3, <2>1, <2>2
<1>5. CASE CancelStop
  <2>1. worker'.plan = worker.plan /\ worker'.pc = "stop"
    BY <1>1, <1>5 DEF CancelStop, WorkerType
  <2>2. Plan' = worker.plan
    BY <2>1 DEF Plan
  <2> QED
    BY <1>2, <2>2, BoardStays
<1>6. CASE CancelMark
  <2>1. /\ worker.at \in DOMAIN worker.plan /\ worker.plan[worker.at].state \in {"running", "blocked"}
        /\ worker.plan[worker.at].session # 0
    BY <1>1, <1>6 DEF CancelMark, WorkerTurns, AtStep, ChecksInv, WorkerChecks, AtWork
  <2>2. worker'.plan = SetState(worker.plan, worker.at, "failed") /\ worker'.pc = "cancel"
    BY <1>1, <1>6 DEF CancelMark, WorkerType
  <2> QED
    BY <1>3, <2>1, <2>2
<1> QED
  BY <1>4, <1>5, <1>6

\* Storing the working copy changes the run and not its board.
LEMMA StoreBoard ==
    ASSUME StoreRun \/ StoreCancelled
    PROVE  BoardStep
<1>1. Plan = worker.plan
  BY DEF Plan, StoreRun, StoreCancelled
<1>2. worker' = Idle /\ run'.plan = worker.plan
  BY DEF StoreRun, StoreCancelled
<1>3. Plan' = worker.plan
  BY <1>2 DEF Plan, Idle
<1> QED
  BY <1>1, <1>3, BoardStays

\* Without a crash, nothing but a pass changes the working copy.
LEMMA StepBoard ==
    ASSUME "crash" \notin Disturbances, IInv, ChecksInv, MannedInv, [Next]_vars
    PROVE  BoardStep
<1>1. ASSUME run' = run, worker' = worker
      PROVE  BoardStep
  BY <1>1, BoardStays DEF Plan
<1>2. CASE TakeAdvance \/ TakeCancel
  BY <1>2, TakeBoard
<1>3. CASE ReconcileOpen \/ ReconcileEnded \/ ReconcileDone
  BY <1>3, ReconcileBoard
<1>4. CASE DispatchBlocked \/ DispatchDenied \/ DispatchAsk \/ DispatchSend
  BY <1>4, DispatchBoard
<1>5. CASE AskRecorded \/ StartRecorded
  BY <1>5, RecordedBoard
<1>6. CASE StoreRun \/ StoreCancelled
  BY <1>6, StoreBoard
<1>7. CASE CancelEnded \/ CancelStop \/ CancelMark
  BY <1>7, CancelBoard
<1>8. ~Throw /\ ~Restart
  BY DEF Throw, Restart
<1>9. ASSUME NEW s \in SessionIds, Handlers(s) PROVE BoardStep
  BY <1>1, <1>9 DEF Handlers, HandleStarted, HandleEnded, SendGranted, GrantedRuns, RefusedEnds
<1>10. ASSUME NEW s \in SessionIds,
              AgentEnds(s) \/ Decided(s) \/ StopSession(s) \/ LoseAgent(s) \/ RecoverLost(s)
       PROVE  BoardStep
  BY <1>1, <1>10 DEF AgentEnds, Decided, Grant, Refuse, Lapse, Supersede, Decide, StopSession, LoseAgent, RecoverLost
<1>11. CASE UNCHANGED vars
  BY <1>1, <1>11 DEF vars
<1> QED
  BY <1>2, <1>3, <1>4, <1>5, <1>6, <1>7, <1>8, <1>9, <1>10, <1>11
     DEF Next, Advance, Cancel, Outside, QueuedAdvance, RequestedAdvance

LEMMA InitBoard == Init => Board!Init
<1> SUFFICES ASSUME Init PROVE Board!Init
  OBVIOUS
<1>1. PICK inputs \in UserPlans :
         ValidDag(AsPlan(inputs)) /\ run = [state |-> "planned", plan |-> AsPlan(inputs)]
  BY DEF Init
<1>2. Plan = AsPlan(inputs)
  BY <1>1 DEF Init, Plan, Idle
<1>3. /\ DOMAIN AsPlan(inputs) = DOMAIN inputs
      /\ \A i \in DOMAIN inputs : AsPlan(inputs)[i].deps = inputs[i].deps /\ Phase(AsPlan(inputs)[i]) = "open"
  BY DEF AsPlan, NewStep, Phase
<1>4. BoardOf(Plan) = [i \in DOMAIN inputs |-> [needs |-> inputs[i].deps, phase |-> "open"]]
  BY <1>2, <1>3 DEF BoardOf
<1> QED
  BY <1>1, <1>4 DEF Board!Init, BoardOf

\* Without crashes, a run keeps the promises of a task board, for every plan,
\* planner, policy and bound (reconcile, expandPlan, sendBack, dispatchReady,
\* cancelNow): a crash or a throw would drop a copy the board has seen.
THEOREM RunsInOrder ==
    ASSUME "crash" \notin Disturbances
    PROVE  Spec => ImplementsTaskBoard
<1>1. Init => Board!Init
  BY InitBoard
<1>2. IInv /\ ChecksInv /\ MannedInv /\ [Next]_vars
        => [Board!Next]_([i \in DOMAIN Plan |-> [needs |-> Plan[i].deps, phase |-> Phase(Plan[i])]])
  BY StepBoard DEF BoardStep, BoardOf
<1> QED
  BY <1>1, <1>2, InitManned, MannedStep, ChecksInvariance, PTL DEF Spec, ImplementsTaskBoard, Board!Spec

--------------------------------------------------------------------------
(* Fix loops *)

FixOrigins == {"test_fix", "review_fix"}
CheckSteps(plan) == {i \in DOMAIN plan : plan[i].kind \in Checks}
Originals(plan) == {i \in DOMAIN plan : plan[i].kind \in Checks /\ plan[i].origin \notin FixOrigins}
Fixes(plan) == {i \in DOMAIN plan : plan[i].kind = "implementation" /\ plan[i].origin \in FixOrigins}

\* The n-th check of the loop of r failed.
FailedCheck(plan, root, r, n) ==
    \E d \in CheckSteps(plan) : root[d] = r /\ plan[d].attempt = n /\ plan[d].verdict = "fail"

\* The steps of S differ in their loop or in their attempt.
Once(plan, root, S) ==
    \A a, b \in S : root[a] = root[b] /\ plan[a].attempt = plan[b].attempt => a = b

\* root tells of each check and fix the original check whose loop it is of:
\* each loop has one check and at most one fix for an attempt, and a fix or a
\* further check only after a check of the loop failed.
Rooted(plan, root) ==
    /\ \A c \in CheckSteps(plan) :
          /\ root[c] \in Originals(plan)
          /\ \/ root[c] = c /\ plan[c].attempt = 1
             \/ plan[c].attempt > 1 /\ FailedCheck(plan, root, root[c], plan[c].attempt - 1)
    /\ \A f \in Fixes(plan) :
          /\ root[f] \in Originals(plan) /\ plan[f].attempt \in 1 .. MaxFix
          /\ FailedCheck(plan, root, root[f], plan[f].attempt)
    /\ Once(plan, root, CheckSteps(plan)) /\ Once(plan, root, Fixes(plan))

Looped(plan) == \E root \in [DOMAIN plan -> DOMAIN plan] : Rooted(plan, root)

LoopsInv == Looped(run.plan) /\ Looped(worker.plan)

LEMMA EmptyLooped == Looped(<<>>)
<1>1. DOMAIN <<>> = {}
  OBVIOUS
<1>2. CheckSteps(<<>>) = {} /\ Fixes(<<>>) = {}
  BY <1>1 DEF CheckSteps, Fixes
<1>3. <<>> \in [DOMAIN <<>> -> DOMAIN <<>>] /\ Rooted(<<>>, <<>>)
  BY <1>1, <1>2 DEF Rooted, Once
<1> QED
  BY <1>3 DEF Looped

\* The same steps at the same attempts, with the same needs: a failed check
\* stays failed.
SameAttempts(new, old) ==
    /\ DOMAIN new = DOMAIN old
    /\ \A j \in DOMAIN old : /\ new[j].kind = old[j].kind /\ new[j].origin = old[j].origin
                             /\ new[j].attempt = old[j].attempt /\ new[j].deps = old[j].deps
                             /\ old[j].verdict = "fail" => new[j].verdict = "fail"

LEMMA SameAttemptsLooped ==
    ASSUME NEW old, NEW new, SameAttempts(new, old), Looped(old)
    PROVE  Looped(new)
<1>1. PICK root \in [DOMAIN old -> DOMAIN old] : Rooted(old, root)
  BY DEF Looped
<1>2. /\ CheckSteps(new) = CheckSteps(old) /\ Originals(new) = Originals(old)
      /\ Fixes(new) = Fixes(old)
  BY DEF SameAttempts, CheckSteps, Originals, Fixes
<1>3. \A r, n : FailedCheck(old, root, r, n) => FailedCheck(new, root, r, n)
  BY <1>2 DEF FailedCheck, SameAttempts, CheckSteps
<1>4. /\ \A c \in CheckSteps(old) : new[c].attempt = old[c].attempt
      /\ \A f \in Fixes(old) : new[f].attempt = old[f].attempt
  BY DEF SameAttempts, CheckSteps, Fixes
<1>5. Once(new, root, CheckSteps(new)) /\ Once(new, root, Fixes(new))
  BY <1>1, <1>2, <1>4 DEF Rooted, Once
<1>6. Rooted(new, root)
  BY <1>1, <1>2, <1>3, <1>4, <1>5 DEF Rooted
<1> QED
  BY <1>1, <1>6 DEF Looped, SameAttempts

\* new is old with steps behind it that are nobody's fix, at their first attempt.
Adds(new, old) ==
    /\ DOMAIN old \subseteq DOMAIN new /\ \A j \in DOMAIN old : new[j] = old[j]
    /\ \A j \in DOMAIN new \ DOMAIN old : new[j].origin \notin FixOrigins /\ new[j].attempt = 1

LEMMA AddsLooped ==
    ASSUME NEW old, NEW new, Adds(new, old), Looped(old)
    PROVE  Looped(new)
<1>1. PICK root \in [DOMAIN old -> DOMAIN old] : Rooted(old, root)
  BY DEF Looped
<1> DEFINE up == [j \in DOMAIN new |-> IF j \in DOMAIN old THEN root[j] ELSE j]
<1>2. up \in [DOMAIN new -> DOMAIN new] /\ (\A j \in DOMAIN old : up[j] = root[j])
      /\ (\A j \in DOMAIN new \ DOMAIN old : up[j] = j)
  BY <1>1 DEF Adds
<1> HIDE DEF up
<1>3. /\ CheckSteps(old) = CheckSteps(new) \cap DOMAIN old
      /\ Originals(old) \subseteq Originals(new)
      /\ Fixes(new) = Fixes(old)
      /\ Originals(old) \subseteq DOMAIN old /\ Fixes(old) \subseteq DOMAIN old
      /\ CheckSteps(new) \subseteq DOMAIN new
      /\ \A c \in CheckSteps(new) : c \notin DOMAIN old => c \in Originals(new)
  BY DEF Adds, CheckSteps, Originals, Fixes
<1>4. \A r, n : FailedCheck(old, root, r, n) => FailedCheck(new, up, r, n)
  BY <1>2, <1>3 DEF FailedCheck, Adds
<1>5. ASSUME NEW c \in CheckSteps(new)
      PROVE  /\ up[c] \in Originals(new)
             /\ \/ up[c] = c /\ new[c].attempt = 1
                \/ new[c].attempt > 1 /\ FailedCheck(new, up, up[c], new[c].attempt - 1)
  <2>1. CASE c \in DOMAIN old
    <3>1. c \in CheckSteps(old) /\ new[c] = old[c] /\ up[c] = root[c]
      BY <1>2, <1>3, <2>1 DEF Adds
    <3> QED
      BY <1>1, <1>3, <1>4, <3>1 DEF Rooted
  <2>2. CASE c \notin DOMAIN old
    BY <1>2, <1>3, <2>2 DEF Adds
  <2> QED
    BY <2>1, <2>2
<1>6. ASSUME NEW f \in Fixes(new)
      PROVE  /\ up[f] \in Originals(new) /\ new[f].attempt \in 1 .. MaxFix
             /\ FailedCheck(new, up, up[f], new[f].attempt)
  <2>1. f \in Fixes(old) /\ new[f] = old[f] /\ up[f] = root[f]
    BY <1>2, <1>3 DEF Adds
  <2> QED
    BY <1>1, <1>3, <1>4, <2>1 DEF Rooted
<1>7. ASSUME NEW a \in CheckSteps(new), NEW b \in CheckSteps(new),
             up[a] = up[b], new[a].attempt = new[b].attempt
      PROVE  a = b
  <2>1. \A c \in CheckSteps(old) : root[c] \in DOMAIN old
    BY <1>1, <1>3 DEF Rooted
  <2>2. CASE a \in DOMAIN old /\ b \in DOMAIN old
    <3>1. /\ a \in CheckSteps(old) /\ b \in CheckSteps(old)
          /\ root[a] = root[b] /\ old[a].attempt = old[b].attempt
      BY <1>2, <1>3, <1>7, <2>2 DEF Adds
    <3> QED
      BY <1>1, <3>1 DEF Rooted, Once
  <2>3. CASE a \in DOMAIN old /\ b \notin DOMAIN old
    BY <1>2, <1>3, <1>7, <2>1, <2>3
  <2>4. CASE a \notin DOMAIN old /\ b \in DOMAIN old
    BY <1>2, <1>3, <1>7, <2>1, <2>4
  <2>5. CASE a \notin DOMAIN old /\ b \notin DOMAIN old
    BY <1>2, <1>3, <1>7, <2>5
  <2> QED
    BY <2>2, <2>3, <2>4, <2>5
<1>8. Once(new, up, Fixes(new))
  <2>1. \A f \in Fixes(new) : f \in Fixes(old) /\ new[f] = old[f] /\ up[f] = root[f]
    BY <1>2, <1>3 DEF Adds
  <2> QED
    BY <1>1, <2>1 DEF Rooted, Once
<1>9. Rooted(new, up)
  BY <1>5, <1>6, <1>7, <1>8 DEF Rooted, Once
<1> QED
  BY <1>2, <1>9 DEF Looped

LEMMA NextAttempt ==
    ASSUME NEW m \in Nat, NEW k, m >= 1, k = m + 1
    PROVE  k > 1 /\ k - 1 = m
OBVIOUS

\* A check that failed and has attempts left gets its fix and its re-check.
LEMMA SendBackLooped ==
    ASSUME NEW plan \in Seq(Step), NEW c \in DOMAIN plan, plan[c].kind \in Checks,
           plan[c].verdict = "fail", plan[c].attempt <= MaxFix,
           NEW root \in [DOMAIN plan -> DOMAIN plan], Rooted(plan, root),
           \A d \in CheckSteps(plan) : root[d] = root[c] => plan[d].attempt # plan[c].attempt + 1,
           \A f \in Fixes(plan) : root[f] = root[c] => plan[f].attempt # plan[c].attempt
    PROVE  Looped(SendBack(plan, c))
<1> DEFINE n == Len(plan)
           Rewired(deps) == IF c \in deps THEN (deps \ {c}) \cup {n + 2} ELSE deps
           fixOrigin == IF plan[c].kind = "test" THEN "test_fix" ELSE "review_fix"
           fix == NewStep("implementation", {c}, fixOrigin, plan[c].attempt)
           recheck == NewStep(plan[c].kind, {n + 1}, fixOrigin, plan[c].attempt + 1)
           new == SendBack(plan, c)
           up == [i \in 1 .. n + 2 |-> IF i <= n THEN root[i] ELSE root[c]]
<1>1. n \in Nat /\ DOMAIN plan = 1 .. n /\ \A i \in 1 .. n : plan[i] \in Step
  OBVIOUS
<1>2. new = [i \in 1 .. n + 2 |->
                IF i <= n THEN [plan[i] EXCEPT !.deps = Rewired(@)]
                ELSE IF i = n + 1 THEN fix ELSE recheck]
  BY DEF SendBack
<1>3. /\ fix.kind = "implementation" /\ fix.origin \in FixOrigins /\ fix.verdict = "none"
      /\ fix.attempt = plan[c].attempt
      /\ recheck.kind = plan[c].kind /\ recheck.origin \in FixOrigins /\ recheck.verdict = "none"
      /\ recheck.attempt = plan[c].attempt + 1
  BY DEF NewStep, FixOrigins
<1>4. /\ up \in [1 .. n + 2 -> 1 .. n + 2] /\ (\A i \in 1 .. n : up[i] = root[i])
      /\ up[n + 1] = root[c] /\ up[n + 2] = root[c]
  BY <1>1
<1> HIDE DEF fix, recheck, new, Rewired, up
<1>5. DOMAIN new = 1 .. n + 2 /\ new[n + 1] = fix /\ new[n + 2] = recheck
  BY <1>1, <1>2
<1>6. ASSUME NEW i \in 1 .. n
      PROVE  /\ new[i].verdict = plan[i].verdict /\ new[i].attempt = plan[i].attempt
             /\ new[i].kind = plan[i].kind /\ new[i].origin = plan[i].origin
  <2>1. new[i] = [plan[i] EXCEPT !.deps = Rewired(@)]
    BY <1>1, <1>2
  <2> QED
    BY <1>1, <2>1 DEF Step
<1>7. \A i \in DOMAIN new : i \in 1 .. n \/ i = n + 1 \/ i = n + 2
  <2>1. n \in Nat /\ DOMAIN new = 1 .. n + 2
    BY <1>1, <1>5
  <2> HIDE DEF n
  <2> QED
    BY ONLY <2>1
<1>8. /\ n + 1 \notin 1 .. n /\ n + 2 \notin 1 .. n /\ 1 .. n \subseteq DOMAIN new
      /\ n + 1 \in DOMAIN new /\ n + 2 \in DOMAIN new /\ n + 1 # n + 2
  BY <1>1, <1>5
<1>9. plan[c].kind # "implementation" /\ "implementation" \notin Checks
  BY DEF Checks
<1>10. CheckSteps(new) = CheckSteps(plan) \cup {n + 2} /\ CheckSteps(plan) \subseteq 1 .. n
  BY <1>1, <1>3, <1>5, <1>6, <1>7, <1>8, <1>9 DEF CheckSteps
<1>11. Fixes(new) = Fixes(plan) \cup {n + 1} /\ Fixes(plan) \subseteq 1 .. n
  BY <1>1, <1>3, <1>5, <1>6, <1>7, <1>8, <1>9 DEF Fixes
<1>12. Originals(plan) \subseteq Originals(new)
  BY <1>1, <1>6, <1>8 DEF Originals
<1>13. \A r, m : FailedCheck(plan, root, r, m) => FailedCheck(new, up, r, m)
  BY <1>4, <1>6, <1>10 DEF FailedCheck
<1>14. /\ c \in CheckSteps(plan) /\ root[c] \in Originals(plan)
       /\ plan[c].attempt \in Nat /\ plan[c].attempt >= 1
       /\ FailedCheck(new, up, root[c], plan[c].attempt)
  <2>1. c \in CheckSteps(plan) /\ plan[c].attempt \in Nat /\ plan[c].attempt >= 1
    BY <1>1 DEF CheckSteps, Step
  <2>2. FailedCheck(plan, root, root[c], plan[c].attempt)
    BY <2>1 DEF FailedCheck
  <2> QED
    BY <1>13, <2>1, <2>2 DEF Rooted
<1>15. ASSUME NEW d \in CheckSteps(new)
       PROVE  /\ up[d] \in Originals(new)
              /\ \/ up[d] = d /\ new[d].attempt = 1
                 \/ new[d].attempt > 1 /\ FailedCheck(new, up, up[d], new[d].attempt - 1)
  <2>1. CASE d \in CheckSteps(plan)
    <3>1. up[d] = root[d] /\ new[d].attempt = plan[d].attempt
      BY <1>4, <1>6, <1>10, <2>1
    <3> QED
      BY <1>12, <1>13, <2>1, <3>1 DEF Rooted
  <2>2. CASE d = n + 2
    <3>1. up[d] = root[c] /\ new[d].attempt = plan[c].attempt + 1
      BY <1>3, <1>4, <1>5, <2>2
    <3>2. plan[c].attempt \in Nat /\ plan[c].attempt >= 1
      BY <1>14
    <3>3. new[d].attempt > 1 /\ new[d].attempt - 1 = plan[c].attempt
      BY <3>1, <3>2, NextAttempt
    <3> QED
      BY <1>12, <1>14, <3>1, <3>3
  <2> QED
    BY <1>10, <2>1, <2>2
<1>16. ASSUME NEW f \in Fixes(new)
       PROVE  /\ up[f] \in Originals(new) /\ new[f].attempt \in 1 .. MaxFix
              /\ FailedCheck(new, up, up[f], new[f].attempt)
  <2>1. CASE f \in Fixes(plan)
    <3>1. up[f] = root[f] /\ new[f].attempt = plan[f].attempt
      BY <1>4, <1>6, <1>11, <2>1
    <3> QED
      BY <1>12, <1>13, <2>1, <3>1 DEF Rooted
  <2>2. CASE f = n + 1
    <3>1. up[f] = root[c] /\ new[f].attempt = plan[c].attempt
      BY <1>3, <1>4, <1>5, <2>2
    <3>2. plan[c].attempt \in 1 .. MaxFix
      BY <1>14, BoundsAssumption
    <3> QED
      BY <1>12, <1>14, <3>1, <3>2
  <2> QED
    BY <1>11, <2>1, <2>2
<1>17. Once(new, up, CheckSteps(new))
  <2> SUFFICES ASSUME NEW a \in CheckSteps(new), NEW b \in CheckSteps(new),
                      up[a] = up[b], new[a].attempt = new[b].attempt
               PROVE  a = b
    BY DEF Once
  <2>1. ASSUME NEW d \in CheckSteps(plan), up[d] = up[n + 2], new[d].attempt = new[n + 2].attempt
        PROVE  FALSE
    <3>1. root[d] = root[c] /\ plan[d].attempt = plan[c].attempt + 1
      BY <1>3, <1>4, <1>5, <1>6, <1>10, <2>1
    <3> QED
      BY <1>14, <3>1
  <2>2. CASE a \in CheckSteps(plan) /\ b \in CheckSteps(plan)
    <3>1. root[a] = root[b] /\ plan[a].attempt = plan[b].attempt
      BY <1>4, <1>6, <1>10, <2>2
    <3> QED
      BY <2>2, <3>1 DEF Rooted, Once
  <2> QED
    BY <1>10, <2>1, <2>2
<1>18. Once(new, up, Fixes(new))
  <2> SUFFICES ASSUME NEW a \in Fixes(new), NEW b \in Fixes(new),
                      up[a] = up[b], new[a].attempt = new[b].attempt
               PROVE  a = b
    BY DEF Once
  <2>1. ASSUME NEW f \in Fixes(plan), up[f] = up[n + 1], new[f].attempt = new[n + 1].attempt
        PROVE  FALSE
    BY <1>3, <1>4, <1>5, <1>6, <1>11, <2>1
  <2>2. CASE a \in Fixes(plan) /\ b \in Fixes(plan)
    <3>1. root[a] = root[b] /\ plan[a].attempt = plan[b].attempt
      BY <1>4, <1>6, <1>11, <2>2
    <3> QED
      BY <2>2, <3>1 DEF Rooted, Once
  <2> QED
    BY <1>11, <2>1, <2>2
<1>19. Rooted(new, up)
  BY <1>15, <1>16, <1>17, <1>18 DEF Rooted
<1> QED
  BY <1>4, <1>5, <1>19 DEF Looped, new

\* What a planner's reply adds is at its first attempt.
LEMMA PlannedStepsAdd ==
    ASSUME NEW plan \in Seq(Step), NEW p \in DOMAIN plan, NEW reply \in Seq(Inputs),
           plan[p].verdict # "fail"
    PROVE  Adds(PlannedSteps(plan, p, reply), plan)
<1> DEFINE n == Len(plan)
           deps(i) == IF reply[i].deps = {} THEN {p} ELSE {n + d : d \in reply[i].deps}
           added == [i \in DOMAIN reply |-> NewStep(reply[i].kind, deps(i), "planner", 1)]
           new == PlannedSteps(plan, p, reply)
<1>1. Extends(new, plan) /\ \A j \in DOMAIN new \ DOMAIN plan : new[j].origin = "planner"
  BY PlannedStepsExtend
<1>2. n \in Nat /\ DOMAIN plan = 1 .. n /\ Len(reply) \in Nat /\ DOMAIN reply = 1 .. Len(reply)
  OBVIOUS
<1>3. new = plan \o added
  BY DEF PlannedSteps
<1>4. \A i \in DOMAIN reply : added[i].attempt = 1
  BY DEF NewStep
<1>5. DOMAIN added = DOMAIN reply
  OBVIOUS
<1> HIDE DEF deps, added, new
<1>6. Len(added) = Len(reply)
  BY <1>2, <1>5 DEF added
<1>7. ASSUME NEW j \in DOMAIN new \ DOMAIN plan PROVE new[j].attempt = 1
  <2>1. j - n \in DOMAIN reply /\ new[j] = added[j - n]
    BY <1>2, <1>3, <1>6, <1>7
  <2> QED
    BY <1>4, <2>1
<1> QED
  BY <1>1, <1>7 DEF Adds, Extends, FixOrigins, new

LEMMA GuaranteeAdds ==
    ASSUME NEW plan \in Seq(Step), NEW first, NEW kind, NEW after
    PROVE  Adds(Guarantee(plan, first, kind, after), plan)
<1> DEFINE step == NewStep(kind, after, "guarantee", 1)
<1>1. step.origin \notin FixOrigins /\ step.attempt = 1
  BY DEF NewStep, FixOrigins
<1> HIDE DEF step
<1>2. Adds(Append(plan, step), plan) /\ Adds(plan, plan)
  BY <1>1 DEF Adds
<1>3. Guarantee(plan, first, kind, after) \in {plan, Append(plan, step)}
  BY DEF Guarantee, step
<1> QED
  BY <1>2, <1>3

LEMMA ExpandPlanAdds ==
    ASSUME NEW plan \in Seq(Step), NEW p \in DOMAIN plan, NEW reply \in Seq(Inputs),
           plan[p].verdict # "fail"
    PROVE  Adds(ExpandPlan(plan, p, reply), plan)
<1> DEFINE first == Len(plan) + 1
           planned == PlannedSteps(plan, p, reply)
           builds == OfKind(planned, first, "implementation")
           tested == Guarantee(planned, first, "test", builds)
           after == builds \cup OfKind(tested, first, "test")
           reviewed == Guarantee(tested, first, "security_review", after)
<1>1. Adds(planned, plan) /\ planned \in Seq(Step)
  BY PlannedStepsAdd, PlannedStepsExtend DEF Extends
<1>2. ExpandPlan(plan, p, reply) = reviewed
  BY DEF ExpandPlan
<1>3. first \in Nat \ {0} /\ "test" \in Kinds
  BY DEF Kinds
<1> HIDE DEF first, planned
<1>4. builds \in SUBSET (Nat \ {0})
  BY <1>1, <1>3, OfKindPositions
<1> HIDE DEF builds
<1>5. Adds(tested, planned) /\ tested \in Seq(Step)
  BY <1>1, <1>3, <1>4, GuaranteeAdds, GuaranteeGrows DEF Grown
<1> HIDE DEF tested, after
<1>6. Adds(reviewed, tested)
  BY <1>5, GuaranteeAdds
<1> HIDE DEF reviewed
<1> QED
  BY <1>1, <1>2, <1>5, <1>6 DEF Adds

\* One step in another state.
LEMMA SetStateAttempts ==
    ASSUME NEW plan \in Seq(Step), NEW i \in DOMAIN plan, NEW state \in StepStates
    PROVE  SameAttempts(SetState(plan, i, state), plan)
<1>1. /\ DOMAIN SetState(plan, i, state) = DOMAIN plan
      /\ \A j \in DOMAIN plan :
            SetState(plan, i, state)[j] = IF j = i THEN [plan[j] EXCEPT !.state = state] ELSE plan[j]
  BY SetStateType
<1>2. \A j \in DOMAIN plan : plan[j] \in Step
  OBVIOUS
<1> QED
  BY <1>1, <1>2 DEF SameAttempts, Step

LEMMA AssignAttempts ==
    ASSUME NEW plan \in Seq(Step), NEW i \in DOMAIN plan, NEW s \in SessionIds
    PROVE  SameAttempts(Assign(plan, i, s), plan)
<1>1. /\ DOMAIN Assign(plan, i, s) = DOMAIN plan
      /\ \A j \in DOMAIN plan :
            Assign(plan, i, s)[j] = IF j = i THEN [plan[j] EXCEPT !.session = s] ELSE plan[j]
  BY AssignType
<1>2. \A j \in DOMAIN plan : plan[j] \in Step
  OBVIOUS
<1> QED
  BY <1>1, <1>2 DEF SameAttempts, Step

LEMMA ConcludedAttempts ==
    ASSUME NEW plan \in Seq(Step), NEW i \in DOMAIN plan, NEW verdict \in Verdicts,
           plan[i].verdict # "fail"
    PROVE  /\ SameAttempts(Concluded(plan, i, verdict), plan)
           /\ Concluded(plan, i, verdict) \in Seq(Step)
           /\ Concluded(plan, i, verdict)[i].verdict
                = IF plan[i].kind \in Checks THEN verdict ELSE "none"
<1> DEFINE said == IF plan[i].kind \in Checks THEN verdict ELSE "none"
           done == [plan[i] EXCEPT !.state = "completed", !.verdict = said]
           new == Concluded(plan, i, verdict)
<1>1. plan \in [1 .. Len(plan) -> Step] /\ Len(plan) \in Nat /\ DOMAIN plan = 1 .. Len(plan)
  OBVIOUS
<1>2. /\ done \in Step /\ done.verdict = said /\ done.kind = plan[i].kind
      /\ done.origin = plan[i].origin /\ done.attempt = plan[i].attempt
      /\ done.deps = plan[i].deps
  <2>1. plan[i] \in Step /\ said \in Verdicts /\ "completed" \in StepStates
    BY <1>1 DEF StepStates, Verdicts
  <2> HIDE DEF said
  <2> QED
    BY ONLY <2>1 DEF Step
<1>3. new = [plan EXCEPT ![i] = done]
  BY <1>1 DEF Step, Concluded
<1> HIDE DEF done, new, said
<1>4. new \in [1 .. Len(plan) -> Step]
  BY <1>1, <1>2, <1>3
<1>5. new \in Seq(Step) /\ DOMAIN new = DOMAIN plan
  BY <1>1, <1>4, PlanOf
<1>6. \A j \in DOMAIN plan : new[j] = IF j = i THEN done ELSE plan[j]
  BY <1>1, <1>3
<1>7. SameAttempts(new, plan)
  BY <1>2, <1>5, <1>6 DEF SameAttempts
<1> QED
  BY <1>2, <1>5, <1>6, <1>7 DEF new, said

\* What the end of a session makes of the plan.
LEMMA FinishedCases ==
    ASSUME NEW plan, NEW i, NEW state, NEW said, said.verdict \in Verdicts
    PROVE  LET ended == Concluded(plan, i, said.verdict)
               result == Finished(plan, i, state, said)
           IN \/ result.plan = SetState(plan, i, "failed")
              \/ plan[i].kind = "planning" /\ result.plan = AfterPlanning(ended, i, said.reply)
              \/ result.plan = SetState(ended, i, "failed")
              \/ result.plan = ended
              \/ /\ plan[i].kind \in Checks /\ said.verdict = "fail" /\ ~OutOfAttempts(ended[i])
                 /\ result.plan = SendBack(ended, i)
<1> DEFINE ended == Concluded(plan, i, said.verdict)
           result == Finished(plan, i, state, said)
<1>1. \/ result = Outcome(SetState(plan, i, "failed"), FALSE)
      \/ plan[i].kind = "planning" /\ result = Outcome(AfterPlanning(ended, i, said.reply), FALSE)
      \/ plan[i].kind \in Checks /\ result = AfterCheck(ended, i, said.verdict)
      \/ result = Outcome(ended, FALSE)
  <2> HIDE DEF ended
  <2> QED
    BY DEF Finished, ended
<1> HIDE DEF ended, result
<1>2. ASSUME plan[i].kind \in Checks, result = AfterCheck(ended, i, said.verdict)
      PROVE  \/ result = Outcome(SetState(ended, i, "failed"), FALSE)
             \/ result \in {Outcome(ended, FALSE), Outcome(ended, TRUE)}
             \/ /\ said.verdict = "fail" /\ ~OutOfAttempts(ended[i])
                /\ result = Outcome(SendBack(ended, i), FALSE)
  BY <1>2 DEF AfterCheck, Verdicts
<1> QED
  BY <1>1, <1>2 DEF Outcome, ended, result

\* A check whose verdict has just come failed for the first time: its loop has
\* neither a fix for its attempt nor a check after it.
LEMMA FinishedLooped ==
    ASSUME NEW plan \in Seq(Step), NEW i \in DOMAIN plan, NEW state,
           NEW said \in [verdict : Verdicts, reply : PlannerReplies \cup {<<>>}, exit : Ended],
           Looped(plan), plan[i].verdict = "none"
    PROVE  Looped(Finished(plan, i, state, said).plan)
<1> DEFINE ended == Concluded(plan, i, said.verdict)
           result == Finished(plan, i, state, said)
<1>1. said.verdict \in Verdicts /\ said.reply \in Seq(Inputs)
  BY PlansAssumption, EmptySeq
<1>2. /\ SameAttempts(ended, plan) /\ ended \in Seq(Step) /\ i \in DOMAIN ended
      /\ ended[i].verdict = IF plan[i].kind \in Checks THEN said.verdict ELSE "none"
  BY <1>1, ConcludedAttempts DEF SameAttempts
<1>3. \/ result.plan = SetState(plan, i, "failed")
      \/ plan[i].kind = "planning" /\ result.plan = AfterPlanning(ended, i, said.reply)
      \/ result.plan = SetState(ended, i, "failed")
      \/ result.plan = ended
      \/ /\ plan[i].kind \in Checks /\ said.verdict = "fail" /\ ~OutOfAttempts(ended[i])
         /\ result.plan = SendBack(ended, i)
  BY <1>1, FinishedCases
<1> HIDE DEF ended, result
<1>4. "failed" \in StepStates
  BY DEF StepStates
<1>5. Looped(ended)
  BY <1>2, SameAttemptsLooped
<1>6. Looped(SetState(plan, i, "failed")) /\ Looped(SetState(ended, i, "failed"))
  BY <1>2, <1>4, <1>5, SetStateAttempts, SameAttemptsLooped
<1>7. ASSUME plan[i].kind = "planning" PROVE Looped(AfterPlanning(ended, i, said.reply))
  <2>1. ended[i].verdict # "fail"
    BY <1>2, <1>7 DEF Checks
  <2>2. Looped(ExpandPlan(ended, i, said.reply))
    BY <1>1, <1>2, <1>5, <2>1, ExpandPlanAdds, AddsLooped
  <2> QED
    BY <1>6, <2>2 DEF AfterPlanning
<1>8. ASSUME plan[i].kind \in Checks, said.verdict = "fail", ~OutOfAttempts(ended[i])
      PROVE  Looped(SendBack(ended, i))
  <2>1. PICK root \in [DOMAIN plan -> DOMAIN plan] : Rooted(plan, root)
    BY DEF Looped
  <2>2. /\ DOMAIN ended = DOMAIN plan /\ i \in CheckSteps(plan)
        /\ CheckSteps(ended) = CheckSteps(plan) /\ Fixes(ended) = Fixes(plan)
        /\ \A j \in DOMAIN plan : ended[j].attempt = plan[j].attempt
    BY <1>2, <1>8 DEF SameAttempts, CheckSteps, Fixes
  <2>3. ~FailedCheck(plan, root, root[i], plan[i].attempt)
    BY <2>1, <2>2 DEF FailedCheck, Rooted, Once
  <2>4. ASSUME NEW d \in CheckSteps(ended), root[d] = root[i]
        PROVE  ended[d].attempt # ended[i].attempt + 1
    <3>1. d \in CheckSteps(plan) /\ d \in DOMAIN plan /\ plan[d] \in Step /\ plan[i] \in Step
      BY <2>2, <2>4 DEF CheckSteps
    <3>2. plan[d].attempt \in Nat \ {0} /\ plan[i].attempt \in Nat \ {0}
      BY <3>1 DEF Step
    <3>3. plan[d].attempt # plan[i].attempt + 1
      <4>1. \/ plan[d].attempt = 1
            \/ FailedCheck(plan, root, root[i], plan[d].attempt - 1)
        BY <2>1, <2>4, <3>1 DEF Rooted
      <4>2. plan[d].attempt = plan[i].attempt + 1 => plan[d].attempt - 1 = plan[i].attempt
        BY <3>2
      <4> QED
        BY <2>3, <3>2, <4>1, <4>2
    <3> QED
      BY <2>2, <3>1, <3>3
  <2>5. ASSUME NEW f \in Fixes(ended), root[f] = root[i]
        PROVE  ended[f].attempt # ended[i].attempt
    <3>1. f \in Fixes(plan) /\ f \in DOMAIN plan
      BY <2>2, <2>5 DEF Fixes
    <3>2. FailedCheck(plan, root, root[i], plan[f].attempt)
      BY <2>1, <2>5, <3>1 DEF Rooted
    <3> QED
      BY <2>2, <2>3, <3>1, <3>2
  <2>6. Rooted(ended, root)
    <3>1. /\ Originals(ended) = Originals(plan)
          /\ \A r, m : FailedCheck(plan, root, r, m) => FailedCheck(ended, root, r, m)
      BY <1>2, <2>2 DEF SameAttempts, Originals, FailedCheck, CheckSteps
    <3>2. /\ \A j \in CheckSteps(plan) : ended[j].attempt = plan[j].attempt
          /\ \A j \in Fixes(plan) : ended[j].attempt = plan[j].attempt
      BY <2>2 DEF CheckSteps, Fixes
    <3>3. Once(ended, root, CheckSteps(ended)) /\ Once(ended, root, Fixes(ended))
      BY <2>1, <2>2, <3>2 DEF Rooted, Once
    <3> QED
      BY <2>1, <2>2, <3>1, <3>2, <3>3 DEF Rooted
  <2>7. ended[i].kind \in Checks /\ ended[i].verdict = "fail" /\ ended[i].attempt <= MaxFix
    <3>1. ended[i] \in Step
      BY <1>2
    <3>2. ended[i].attempt \in Nat
      BY <3>1 DEF Step
    <3> QED
      BY <1>2, <1>8, <3>2, BoundsAssumption DEF SameAttempts, OutOfAttempts
  <2> QED
    BY <1>2, <2>1, <2>2, <2>4, <2>5, <2>6, <2>7, SendBackLooped
<1> QED
  BY <1>3, <1>5, <1>6, <1>7, <1>8 DEF result

\* A step works on a copy with the same steps, or on none, or stores the copy.
Copied ==
    /\ run' = run
    /\ \/ SameAttempts(worker'.plan, worker.plan)
       \/ SameAttempts(worker'.plan, run.plan)
       \/ worker'.plan = <<>>

Stored == run'.plan = worker.plan /\ worker'.plan = <<>>

\* Only a session that ended adds to a plan or rewires it.
LEMMA PlanMoves ==
    ASSUME IInv, [Next]_vars
    PROVE  Copied \/ ReconcileEnded \/ Stored
<1> DEFINE i == Least(Dispatched(worker.plan, worker.at))
           r == Least(Ready(worker))
           t == Least(Unused)
<1>1. /\ WorkerTurns(worker) /\ worker \in WorkerType /\ worker.plan \in Seq(Step)
      /\ run.plan \in Seq(Step)
  <2>1. WorkerTurns(worker) /\ worker \in WorkerType
    BY DEF IInv, Turns, WorkerTurns
  <2> QED
    BY <2>1 DEF WorkerType, IInv, Turns, RunTurns
<1>3. ASSUME run' = run, SameAttempts(worker'.plan, worker.plan) \/ SameAttempts(worker'.plan, run.plan)
      PROVE  Copied
  BY <1>3 DEF Copied
<1>4. \A plan : SameAttempts(plan, plan)
  BY DEF SameAttempts
<1>5. Idle.plan = <<>>
  BY DEF Idle
<1>6. ASSUME run' = run, worker' = worker \/ worker' = Idle PROVE Copied
  BY <1>4, <1>5, <1>6 DEF Copied
<1>7. ASSUME Dispatched(worker.plan, worker.at) # {} PROVE i \in DOMAIN worker.plan
  BY <1>1, <1>7, DispatchedIn
<1>8. ASSUME NEW state \in {"running", "blocked", "failed"} PROVE state \in StepStates
  BY <1>8 DEF StepStates
<1>9. CASE TakeAdvance
  <2>1. run' = run /\ (worker' = Idle \/ worker'.plan = run.plan)
    BY <1>9 DEF TakeAdvance, Idle
  <2> QED
    BY <1>3, <1>4, <1>6, <2>1
<1>10. CASE TakeCancel
  <2> DEFINE new == [j \in DOMAIN run.plan |->
                        IF Unstarted(run.plan[j])
                        THEN [run.plan[j] EXCEPT !.state = "skipped"]
                        ELSE run.plan[j]]
  <2>1. run' = run /\ (worker' = Idle \/ worker'.plan = new)
    BY <1>10 DEF TakeCancel, Idle
  <2>2. \A j \in DOMAIN run.plan : run.plan[j] \in Step
    BY <1>1
  <2>3. SameAttempts(new, run.plan)
    BY <2>2 DEF SameAttempts, Step
  <2> QED
    BY <1>3, <1>6, <2>1, <2>3
<1>11. CASE ReconcileOpen
  <2>1. i \in DOMAIN worker.plan
    BY <1>7, <1>11 DEF ReconcileOpen
  <2>2. /\ worker'.plan = worker.plan \/ worker'.plan = SetState(worker.plan, i, "running")
        /\ run' = run
    BY <1>1, <1>11 DEF ReconcileOpen, WorkerType
  <2> HIDE DEF i
  <2> QED
    BY <1>1, <1>3, <1>4, <1>8, <2>1, <2>2, SetStateAttempts
<1>13. CASE ReconcileDone
  <2>1. worker'.plan = Retried(worker.plan) /\ run' = run
    BY <1>1, <1>13 DEF ReconcileDone, WorkerType
  <2>2. \A j \in DOMAIN worker.plan : worker.plan[j] \in Step
    BY <1>1
  <2>3. SameAttempts(Retried(worker.plan), worker.plan)
    BY <2>2 DEF SameAttempts, Retried, Step
  <2> QED
    BY <1>3, <2>1, <2>3
<1>14. CASE DispatchBlocked
  <2>1. r \in DOMAIN worker.plan
    BY <1>1, <1>14, ReadyMayBegin DEF DispatchBlocked
  <2>2. worker'.plan = SetState(worker.plan, r, "blocked") /\ run' = run
    BY <1>1, <1>14 DEF DispatchBlocked, WorkerType
  <2> HIDE DEF r
  <2> QED
    BY <1>1, <1>3, <1>8, <2>1, <2>2, SetStateAttempts
<1>15. CASE DispatchDenied \/ DispatchAsk \/ DispatchSend
  <2>1. r \in DOMAIN worker.plan
    BY <1>1, <1>15, ReadyMayBegin DEF DispatchDenied, DispatchAsk, DispatchSend
  <2>2. t \in SessionIds
    <3>1. Unused # {} /\ Unused \in SUBSET Nat
      BY <1>15, BoundsAssumption DEF DispatchDenied, DispatchAsk, DispatchSend, Unused, SessionIds
    <3>2. t \in Unused
      BY <3>1, LeastIn
    <3> QED
      BY ONLY <3>2 DEF Unused
  <2> DEFINE new == Assign(worker.plan, r, t)
  <2>3. (worker'.plan = new \/ worker'.plan = SetState(new, r, "failed")) /\ run' = run
    BY <1>1, <1>15 DEF DispatchDenied, DispatchAsk, DispatchSend, WorkerType
  <2> HIDE DEF r, t
  <2>4. new \in Seq(Step) /\ r \in DOMAIN new /\ SameAttempts(new, worker.plan)
    BY <1>1, <2>1, <2>2, AssignType, AssignAttempts
  <2>5. SameAttempts(SetState(new, r, "failed"), new)
    BY <1>8, <2>4, SetStateAttempts
  <2>6. SameAttempts(SetState(new, r, "failed"), worker.plan)
    BY <2>4, <2>5 DEF SameAttempts
  <2> QED
    BY <1>3, <2>3, <2>4, <2>6
<1>16. CASE AskRecorded \/ StartRecorded
  <2>1. worker.at \in DOMAIN worker.plan
    BY <1>1, <1>16 DEF AskRecorded, StartRecorded, WorkerTurns, AtStep
  <2>2. PICK state \in {"running", "blocked"} :
           worker'.plan = SetState(worker.plan, worker.at, state) /\ run' = run
    BY <1>1, <1>16 DEF AskRecorded, StartRecorded, WorkerType
  <2> QED
    BY <1>1, <1>3, <1>8, <2>1, <2>2, SetStateAttempts
<1>17. CASE StoreRun \/ StoreCancelled
  <2>1. run'.plan = worker.plan /\ worker' = Idle
    BY <1>17 DEF StoreRun, StoreCancelled
  <2> QED
    BY <1>5, <2>1 DEF Stored
<1>18. CASE CancelEnded \/ CancelMark
  <2>1. PICK j \in DOMAIN worker.plan : worker'.plan = SetState(worker.plan, j, "failed") /\ run' = run
    <3>1. CASE CancelEnded
      <4>1. i \in DOMAIN worker.plan
        BY <1>7, <3>1 DEF CancelEnded
      <4> QED
        BY <1>1, <3>1, <4>1 DEF CancelEnded, WorkerType
    <3>2. CASE CancelMark
      <4>1. worker.at \in DOMAIN worker.plan
        BY <1>1, <3>2 DEF CancelMark, WorkerTurns, AtStep
      <4> QED
        BY <1>1, <3>2, <4>1 DEF CancelMark, WorkerType
    <3> QED
      BY <1>18, <3>1, <3>2
  <2> QED
    BY <1>1, <1>3, <1>8, <2>1, SetStateAttempts
<1>19. CASE CancelStop
  <2>1. worker'.plan = worker.plan /\ run' = run
    BY <1>1, <1>19 DEF CancelStop, WorkerType
  <2> QED
    BY <1>3, <1>4, <2>1
<1>20. CASE Throw \/ Restart
  BY <1>6, <1>20 DEF Throw, Restart
<1>21. ASSUME NEW s \in SessionIds, Handlers(s) PROVE Copied
  BY <1>6, <1>21 DEF Handlers, HandleStarted, HandleEnded, SendGranted, GrantedRuns, RefusedEnds
<1>22. ASSUME NEW s \in SessionIds,
              AgentEnds(s) \/ Decided(s) \/ StopSession(s) \/ LoseAgent(s) \/ RecoverLost(s)
       PROVE  Copied
  BY <1>6, <1>22 DEF AgentEnds, Decided, Grant, Refuse, Lapse, Supersede, Decide, StopSession, LoseAgent, RecoverLost
<1>23. CASE UNCHANGED vars
  BY <1>6, <1>23 DEF vars
<1> QED
  BY <1>9, <1>10, <1>11, <1>13, <1>14, <1>15, <1>16, <1>17, <1>18, <1>19, <1>20, <1>21, <1>22, <1>23
     DEF Next, Advance, Cancel, Outside, QueuedAdvance, RequestedAdvance

\* A session that ended is that of a step which ran, and has no verdict yet.
LEMMA EndedFinishes ==
    ASSUME IInv, ChecksInv, ReconcileEnded
    PROVE  /\ run' = run
           /\ \E i \in DOMAIN worker.plan, state \in SessionStates, said \in Reports :
                 /\ worker'.plan = Finished(worker.plan, i, state, said).plan
                 /\ worker.plan[i].state \in {"running", "blocked"}
                 /\ worker.plan[i].verdict = "none"
<1> DEFINE i == Least(Dispatched(worker.plan, worker.at))
           s == worker.plan[i].session
<1>1. WorkerTurns(worker) /\ worker \in WorkerType
  BY DEF IInv, Turns, WorkerTurns
<1>2. i \in DOMAIN worker.plan /\ worker.plan[i].state \in {"running", "blocked"} /\ s \in SessionIds
  BY <1>1, EndedIn
<1>3. worker'.plan = Finished(worker.plan, i, session[s], report[s]).plan /\ run' = run
  BY <1>1 DEF ReconcileEnded, WorkerType
<1> HIDE DEF i, s
<1>4. session[s] \in SessionStates /\ report[s] \in Reports
  BY <1>2 DEF IInv, TypeOK, Reports
<1>5. worker.plan[i].verdict = "none"
  BY <1>2 DEF ChecksInv, WorkerChecks, Ordered
<1> QED
  BY <1>2, <1>3, <1>4, <1>5 DEF s

\* Every copy of a plan that a step makes keeps to the loops.
LEMMA StepLoops == IInv /\ ChecksInv /\ LoopsInv /\ [Next]_vars => LoopsInv'
<1> SUFFICES ASSUME IInv, ChecksInv, LoopsInv, [Next]_vars PROVE LoopsInv'
  OBVIOUS
<1>1. worker.plan \in Seq(Step)
  BY DEF IInv, Turns, WorkerTurns, WorkerType
<1>2. CASE Copied
  BY <1>2, SameAttemptsLooped, EmptyLooped DEF Copied, LoopsInv
<1>3. CASE ReconcileEnded
  <2>1. PICK i \in DOMAIN worker.plan, state \in SessionStates, said \in Reports :
           /\ worker'.plan = Finished(worker.plan, i, state, said).plan
           /\ worker.plan[i].verdict = "none"
    BY <1>3, EndedFinishes
  <2>2. said \in [verdict : Verdicts, reply : PlannerReplies \cup {<<>>}, exit : Ended]
    BY <2>1 DEF Reports
  <2>3. Looped(Finished(worker.plan, i, state, said).plan)
    BY <1>1, <2>1, <2>2, FinishedLooped DEF LoopsInv
  <2> QED
    BY <1>3, <2>1, <2>3, EndedFinishes DEF LoopsInv
<1>4. CASE Stored
  BY <1>4, EmptyLooped DEF Stored, LoopsInv
<1> QED
  BY <1>2, <1>3, <1>4, PlanMoves

\* A plan as the user submits it has no fix and no check tried twice.
LEMMA InitLoops == Init => LoopsInv
<1> SUFFICES ASSUME Init PROVE LoopsInv
  OBVIOUS
<1>1. PICK inputs \in UserPlans : run.plan = AsPlan(inputs)
  BY DEF Init
<1>2. \A j \in DOMAIN run.plan : run.plan[j].origin = "user" /\ run.plan[j].attempt = 1
  BY <1>1 DEF AsPlan, NewStep
<1>3. Adds(run.plan, <<>>)
  BY <1>2 DEF Adds, FixOrigins
<1>4. worker.plan = <<>>
  BY DEF Init, Idle
<1> QED
  BY <1>3, <1>4, EmptyLooped, AddsLooped DEF LoopsInv

\* The fixes of a plan are pairs of a check and an attempt.
LEMMA LoopedBounds ==
    ASSUME NEW plan \in Seq(Step), Looped(plan)
    PROVE  Cardinality(Fixes(plan)) <= MaxFix * Cardinality(Originals(plan))
<1>1. PICK root \in [DOMAIN plan -> DOMAIN plan] : Rooted(plan, root)
  BY DEF Looped
<1> DEFINE Pairs == Originals(plan) \X (1 .. MaxFix)
           place == [f \in Fixes(plan) |-> <<root[f], plan[f].attempt>>]
<1>2. place \in Injection(Fixes(plan), Pairs)
  <2>1. place \in [Fixes(plan) -> Pairs]
    BY <1>1 DEF Rooted
  <2>2. \A a, b \in Fixes(plan) : place[a] = place[b] => a = b
    BY <1>1 DEF Rooted, Once
  <2> HIDE DEF place, Pairs
  <2> QED
    BY <2>1, <2>2 DEF Injection, IsInjective
<1>3. IsFiniteSet(Originals(plan))
  <2>1. Len(plan) \in Nat /\ DOMAIN plan = 1 .. Len(plan)
    OBVIOUS
  <2>2. IsFiniteSet(DOMAIN plan)
    BY <2>1, FS_Interval
  <2>3. Originals(plan) \in SUBSET DOMAIN plan
    BY DEF Originals
  <2> QED
    BY <2>2, <2>3, FS_Subset
<1>4. MaxFix \in Nat /\ IsFiniteSet(1 .. MaxFix) /\ Cardinality(1 .. MaxFix) = MaxFix
  <2>1. MaxFix \in Nat
    BY BoundsAssumption
  <2> QED
    BY <2>1, FS_Interval
<1>5. IsFiniteSet(Pairs) /\ Cardinality(Pairs) = Cardinality(Originals(plan)) * MaxFix
  BY <1>3, <1>4, FS_Product
<1> HIDE DEF place, Pairs
<1>6. Cardinality(Fixes(plan)) <= Cardinality(Pairs)
  BY <1>2, <1>5, FS_Injection
<1>7. Cardinality(Originals(plan)) \in Nat
  BY <1>3, FS_CardinalityType
<1> QED
  BY <1>4, <1>5, <1>6, <1>7

\* A run never holds more fixes than maxFixAttempts allows for each check its
\* user, planner or guarantee put in it (sendBack gives the re-check the next
\* attempt and stops at the limit), for every plan, reply and limit.
THEOREM FixLoopsStopAlways == Spec => []FixLoopsStop
<1>1. Init => IInv /\ ChecksInv /\ LoopsInv
  BY InitInv, InitChecks, InitLoops
<1>2. (IInv /\ ChecksInv /\ LoopsInv) /\ [Next]_vars => (IInv /\ ChecksInv /\ LoopsInv)'
  BY StepInv, StepChecks, StepLoops
<1>3. IInv /\ LoopsInv => FixLoopsStop
  <2> SUFFICES ASSUME IInv, LoopsInv, NEW plan \in {run.plan, worker.plan}
               PROVE  Cardinality(Fixes(plan)) <= MaxFix * Cardinality(Originals(plan))
    BY DEF FixLoopsStop, Fixes, Originals, FixOrigins
  <2>1. plan \in Seq(Step) /\ Looped(plan)
    BY DEF LoopsInv, IInv, TypeOK
  <2> QED
    BY <2>1, LoopedBounds
<1> QED
  BY <1>1, <1>2, <1>3, PTL DEF Spec
=============================================================================
