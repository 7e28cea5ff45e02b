------------------------- MODULE OrchestrationProofs -------------------------
(***************************************************************************)
(* Proofs about Orchestration, for every plan, planner, bound and          *)
(* disturbance: its types, that builder steps take turns, and that a run   *)
(* that is done stays as it is.                                            *)
(*                                                                         *)
(* The argument about turns: `busy`, computed once when dispatching starts *)
(* and kept up to date from then on, is true whenever a builder step of    *)
(* the working copy holds the tree.  It rests on one fact about plans: a   *)
(* step that is pending has no session, so that blocking it again does not *)
(* make it hold the tree.                                                  *)
(***************************************************************************)
EXTENDS Orchestration, SequenceTheorems, WellFoundedInduction, TLAPS

--------------------------------------------------------------------------
(* Plans *)

\* A pending step has no session (dispatch deletes step.sessionId when the
\* start was not delivered).
Fresh(plan) == \A i \in DOMAIN plan : plan[i].state = "pending" => plan[i].session = 0

\* new is old with its steps in place, and new pending steps behind them.
Grown(new, old) ==
    /\ new \in Seq(Step) /\ Len(new) >= Len(old)
    /\ \A i \in DOMAIN new :
          IF i \in DOMAIN old
          THEN /\ new[i].kind = old[i].kind
               /\ new[i].state = old[i].state
               /\ new[i].session = old[i].session
          ELSE new[i].state = "pending" /\ new[i].session = 0

\* A function on an initial segment of the numbers is a plan.
LEMMA PlanOf ==
    ASSUME NEW n \in Nat, NEW f \in [1 .. n -> Step]
    PROVE  f \in Seq(Step) /\ Len(f) = n /\ DOMAIN f = 1 .. n
<1>1. f \in Seq(Step)
  BY SeqDef
<1>2. QED
  BY <1>1

LEMMA NewStepType ==
    ASSUME NEW kind \in Kinds, NEW deps \in SUBSET (Nat \ {0}),
           NEW origin \in Origins, NEW attempt \in Nat \ {0}
    PROVE  /\ NewStep(kind, deps, origin, attempt) \in Step
           /\ NewStep(kind, deps, origin, attempt).state = "pending"
           /\ NewStep(kind, deps, origin, attempt).session = 0
BY BoundsAssumption DEF NewStep, Step, StepStates, Verdicts

\* Changing the state of one step leaves a plan a plan.
LEMMA SetStateType ==
    ASSUME NEW plan \in Seq(Step), NEW i \in DOMAIN plan, NEW state \in StepStates
    PROVE  /\ SetState(plan, i, state) \in Seq(Step)
           /\ Len(SetState(plan, i, state)) = Len(plan)
           /\ DOMAIN SetState(plan, i, state) = DOMAIN plan
           /\ \A j \in DOMAIN plan :
                 SetState(plan, i, state)[j]
                   = IF j = i THEN [plan[j] EXCEPT !.state = state] ELSE plan[j]
<1>1. plan \in [1 .. Len(plan) -> Step] /\ Len(plan) \in Nat /\ DOMAIN plan = 1 .. Len(plan)
  OBVIOUS
<1>2. [plan[i] EXCEPT !.state = state] \in Step
  BY <1>1 DEF Step
<1>3. SetState(plan, i, state) \in [1 .. Len(plan) -> Step]
  BY <1>1, <1>2 DEF SetState
<1>4. QED
  BY <1>1, <1>3, PlanOf DEF SetState

LEMMA GrownRefl ==
    ASSUME NEW plan \in Seq(Step)
    PROVE  Grown(plan, plan)
BY DEF Grown

LEMMA GrownTrans ==
    ASSUME NEW a \in Seq(Step), NEW b \in Seq(Step), NEW c \in Seq(Step),
           Grown(a, b), Grown(b, c)
    PROVE  Grown(a, c)
BY DEF Grown

LEMMA SendBackGrows ==
    ASSUME NEW plan \in Seq(Step), NEW c \in DOMAIN plan, plan[c].kind \in Checks
    PROVE  Grown(SendBack(plan, c), plan)
<1> DEFINE n == Len(plan)
           Rewired(deps) == IF c \in deps THEN (deps \ {c}) \cup {n + 2} ELSE deps
           fixOrigin == IF plan[c].kind = "test" THEN "test_fix" ELSE "review_fix"
           fix == NewStep("implementation", {c}, fixOrigin, plan[c].attempt)
           recheck == NewStep(plan[c].kind, {n + 1}, fixOrigin, plan[c].attempt + 1)
           new == SendBack(plan, c)
<1>1. n \in Nat /\ DOMAIN plan = 1 .. n /\ \A i \in 1 .. n : plan[i] \in Step
  OBVIOUS
<1>2. plan[c].attempt \in Nat \ {0} /\ plan[c].kind \in Kinds /\ c \in Nat \ {0}
  BY <1>1 DEF Step
<1>3. fix \in Step /\ fix.state = "pending" /\ fix.session = 0
  <2>1. {c} \in SUBSET (Nat \ {0}) /\ "implementation" \in Kinds /\ fixOrigin \in Origins
    BY <1>2 DEF Kinds, Origins
  <2>2. QED
    BY <2>1, <1>2, NewStepType
<1>4. recheck \in Step /\ recheck.state = "pending" /\ recheck.session = 0
  <2>1. {n + 1} \in SUBSET (Nat \ {0}) /\ plan[c].attempt + 1 \in Nat \ {0} /\ fixOrigin \in Origins
    BY <1>1, <1>2 DEF Origins
  <2>2. QED
    BY <2>1, <1>2, NewStepType
<1>5. ASSUME NEW i \in 1 .. n
      PROVE  /\ [plan[i] EXCEPT !.deps = Rewired(@)] \in Step
             /\ [plan[i] EXCEPT !.deps = Rewired(@)].kind = plan[i].kind
             /\ [plan[i] EXCEPT !.deps = Rewired(@)].state = plan[i].state
             /\ [plan[i] EXCEPT !.deps = Rewired(@)].session = plan[i].session
  <2>1. Rewired(plan[i].deps) \in SUBSET (Nat \ {0})
    BY <1>1 DEF Step
  <2> HIDE DEF Rewired
  <2>2. QED
    BY <1>1, <2>1 DEF Step
<1>6. new = [i \in 1 .. n + 2 |->
                IF i <= n THEN [plan[i] EXCEPT !.deps = Rewired(@)]
                ELSE IF i = n + 1 THEN fix ELSE recheck]
  BY DEF SendBack
<1> HIDE DEF fix, recheck, new, Rewired
<1>7. new \in [1 .. n + 2 -> Step]
  BY <1>1, <1>3, <1>4, <1>5, <1>6
<1>8. new \in Seq(Step) /\ Len(new) = n + 2 /\ DOMAIN new = 1 .. n + 2
  BY <1>1, <1>7, PlanOf, n + 2 \in Nat
<1>9. ASSUME NEW i \in DOMAIN new
      PROVE  IF i \in DOMAIN plan
             THEN /\ new[i].kind = plan[i].kind
                  /\ new[i].state = plan[i].state
                  /\ new[i].session = plan[i].session
             ELSE new[i].state = "pending" /\ new[i].session = 0
  <2>1. CASE i \in 1 .. n
    <3>1. new[i] = [plan[i] EXCEPT !.deps = Rewired(@)]
      BY <1>1, <1>6, <1>8, <2>1
    <3>2. QED
      BY <1>1, <1>5, <2>1, <3>1
  <2>2. CASE i = n + 1
    BY <1>1, <1>3, <1>6, <1>8, <2>2
  <2>3. CASE i = n + 2
    BY <1>1, <1>4, <1>6, <1>8, <2>3
  <2>4. QED
    BY <1>1, <1>8, <2>1, <2>2, <2>3
<1>10. QED
  BY <1>1, <1>8, <1>9 DEF Grown, new

LEMMA PlannedStepsGrow ==
    ASSUME NEW plan \in Seq(Step), NEW p \in DOMAIN plan, NEW reply \in Seq(Inputs)
    PROVE  Grown(PlannedSteps(plan, p, reply), plan)
<1> DEFINE n == Len(plan)
           deps(i) == IF reply[i].deps = {} THEN {p} ELSE {n + d : d \in reply[i].deps}
           added == [i \in DOMAIN reply |-> NewStep(reply[i].kind, deps(i), "planner", 1)]
<1>1. n \in Nat /\ DOMAIN plan = 1 .. n /\ Len(reply) \in Nat /\ DOMAIN reply = 1 .. Len(reply)
  OBVIOUS
<1>2. ASSUME NEW i \in DOMAIN reply
      PROVE  added[i] \in Step /\ added[i].state = "pending" /\ added[i].session = 0
  <2>1. reply[i].kind \in Kinds /\ reply[i].deps \in SUBSET (Nat \ {0})
    <3>1. reply[i] \in Inputs
      BY <1>1
    <3>2. QED
      BY <3>1 DEF Inputs
  <2>2. deps(i) \in SUBSET (Nat \ {0})
    BY <1>1, <2>1
  <2> HIDE DEF deps
  <2>3. "planner" \in Origins /\ 1 \in Nat \ {0}
    BY DEF Origins
  <2>4. QED
    BY <2>1, <2>2, <2>3, NewStepType
<1>3. PlannedSteps(plan, p, reply) = plan \o added
  BY DEF PlannedSteps
<1> HIDE DEF deps, added
<1>4. added \in [1 .. Len(reply) -> Step]
  BY <1>1, <1>2 DEF added
<1>5. added \in Seq(Step) /\ Len(added) = Len(reply) /\ DOMAIN added = DOMAIN reply
  BY <1>1, <1>4, PlanOf
<1>6. QED
  BY <1>1, <1>2, <1>3, <1>5 DEF Grown

LEMMA OfKindPositions ==
    ASSUME NEW plan \in Seq(Step), NEW first \in Nat \ {0}, NEW kind
    PROVE  OfKind(plan, first, kind) \in SUBSET (Nat \ {0})
BY DEF OfKind

LEMMA GuaranteeGrows ==
    ASSUME NEW plan \in Seq(Step), NEW first \in Nat \ {0}, NEW kind \in Kinds,
           NEW after \in SUBSET (Nat \ {0})
    PROVE  Grown(Guarantee(plan, first, kind, after), plan)
<1> DEFINE new == NewStep(kind, after, "guarantee", 1)
<1>1. new \in Step /\ new.state = "pending" /\ new.session = 0
  <2>1. "guarantee" \in Origins /\ 1 \in Nat \ {0}
    BY DEF Origins
  <2>2. QED
    BY <2>1, NewStepType
<1> HIDE DEF new
<1>2. Grown(Append(plan, new), plan)
  BY <1>1 DEF Grown
<1>3. Guarantee(plan, first, kind, after) \in {plan, Append(plan, new)}
  BY DEF Guarantee, new
<1>4. QED
  BY <1>2, <1>3, GrownRefl

LEMMA ExpandPlanGrows ==
    ASSUME NEW plan \in Seq(Step), NEW p \in DOMAIN plan, NEW reply \in Seq(Inputs)
    PROVE  Grown(ExpandPlan(plan, p, reply), plan)
<1> DEFINE first == Len(plan) + 1
           planned == PlannedSteps(plan, p, reply)
           builds == OfKind(planned, first, "implementation")
           tested == Guarantee(planned, first, "test", builds)
           after == builds \cup OfKind(tested, first, "test")
           reviewed == Guarantee(tested, first, "security_review", after)
<1>1. first \in Nat \ {0} /\ "test" \in Kinds /\ "security_review" \in Kinds
  BY DEF Kinds
<1>2. Grown(planned, plan) /\ planned \in Seq(Step)
  BY PlannedStepsGrow DEF Grown
<1>3. ExpandPlan(plan, p, reply) = reviewed
  BY DEF ExpandPlan
<1> HIDE DEF first, planned
<1>4. builds \in SUBSET (Nat \ {0})
  BY <1>1, <1>2, OfKindPositions
<1> HIDE DEF builds
<1>5. Grown(tested, planned) /\ tested \in Seq(Step)
  BY <1>1, <1>2, <1>4, GuaranteeGrows DEF Grown
<1> HIDE DEF tested
<1>6. after \in SUBSET (Nat \ {0})
  BY <1>1, <1>4, <1>5, OfKindPositions
<1> HIDE DEF after
<1>7. Grown(reviewed, tested) /\ reviewed \in Seq(Step)
  BY <1>1, <1>5, <1>6, GuaranteeGrows DEF Grown
<1>8. Grown(tested, plan)
  BY <1>2, <1>5, GrownTrans
<1>9. QED
  BY <1>3, <1>5, <1>7, <1>8, GrownTrans

\* new is old after its step i ended: step i settled or as it was, the others
\* as they were, and new pending steps behind them.
Settled(new, old, i) ==
    /\ new \in Seq(Step) /\ Len(new) >= Len(old)
    /\ \A j \in DOMAIN new :
          IF j \in DOMAIN old
          THEN /\ new[j].kind = old[j].kind
               /\ new[j].session = old[j].session
               /\ new[j].state = old[j].state \/ (j = i /\ new[j].state \in {"completed", "failed"})
          ELSE new[j].state = "pending" /\ new[j].session = 0

LEMMA SettledThenGrown ==
    ASSUME NEW a \in Seq(Step), NEW b \in Seq(Step), NEW c \in Seq(Step), NEW i \in DOMAIN a,
           Settled(b, a, i), Grown(c, b)
    PROVE  Settled(c, a, i)
BY DEF Settled, Grown

LEMMA SettledThenFailed ==
    ASSUME NEW a \in Seq(Step), NEW b \in Seq(Step), NEW i \in DOMAIN a, Settled(b, a, i)
    PROVE  Settled(SetState(b, i, "failed"), a, i)
<1>1. i \in DOMAIN b /\ "failed" \in StepStates
  BY DEF Settled, StepStates
<1>2. \A j \in DOMAIN b : b[j] \in Step
  OBVIOUS
<1>3. \A j \in DOMAIN b : /\ [b[j] EXCEPT !.state = "failed"].kind = b[j].kind
                          /\ [b[j] EXCEPT !.state = "failed"].session = b[j].session
                          /\ [b[j] EXCEPT !.state = "failed"].state = "failed"
  BY <1>2 DEF Step
<1>4. /\ SetState(b, i, "failed") \in Seq(Step)
      /\ Len(SetState(b, i, "failed")) = Len(b) /\ DOMAIN SetState(b, i, "failed") = DOMAIN b
      /\ \A j \in DOMAIN b : SetState(b, i, "failed")[j]
                              = IF j = i THEN [b[j] EXCEPT !.state = "failed"] ELSE b[j]
  BY <1>1, SetStateType
<1> DEFINE new == SetState(b, i, "failed")
<1> HIDE DEF new
<1>5. /\ new \in Seq(Step) /\ Len(new) = Len(b) /\ DOMAIN new = DOMAIN b
      /\ \A j \in DOMAIN b : new[j] = IF j = i THEN [b[j] EXCEPT !.state = "failed"] ELSE b[j]
  BY <1>4 DEF new
<1>6. ASSUME NEW j \in DOMAIN new
      PROVE  IF j \in DOMAIN a
             THEN /\ new[j].kind = a[j].kind
                  /\ new[j].session = a[j].session
                  /\ new[j].state = a[j].state \/ (j = i /\ new[j].state \in {"completed", "failed"})
             ELSE new[j].state = "pending" /\ new[j].session = 0
  <2>1. CASE j = i
    <3>1. /\ new[j].kind = b[j].kind /\ new[j].session = b[j].session
          /\ new[j].state = "failed" /\ j \in DOMAIN a /\ j \in DOMAIN b
      BY <1>1, <1>3, <1>5, <2>1
    <3>2. QED
      BY <2>1, <3>1 DEF Settled
  <2>2. CASE j # i
    BY <1>5, <2>2 DEF Settled
  <2>3. QED
    BY <2>1, <2>2
<1>7. new \in Seq(Step) /\ Len(new) >= Len(a)
  BY <1>5 DEF Settled
<1>8. QED
  BY <1>6, <1>7 DEF Settled, new

\* A session's end settles its own step and changes no other.
LEMMA FinishedSettles ==
    ASSUME NEW plan \in Seq(Step), NEW i \in DOMAIN plan, NEW state,
           NEW said \in [verdict : Verdicts, reply : PlannerReplies \cup {<<>>}, exit : Ended]
    PROVE  /\ Settled(Finished(plan, i, state, said).plan, plan, i)
           /\ Finished(plan, i, state, said).error \in BOOLEAN
<1> DEFINE verdict == IF plan[i].kind \in Checks THEN said.verdict ELSE "none"
           done == [plan[i] EXCEPT !.state = "completed", !.verdict = verdict]
           ended == Concluded(plan, i, said.verdict)
           result == Finished(plan, i, state, said)
<1>1. plan \in [1 .. Len(plan) -> Step] /\ Len(plan) \in Nat /\ DOMAIN plan = 1 .. Len(plan)
  OBVIOUS
<1>2. said.verdict \in Verdicts /\ said.reply \in Seq(Inputs)
  BY PlansAssumption, EmptySeq
<1>3. /\ done \in Step /\ done.state = "completed"
      /\ done.kind = plan[i].kind /\ done.session = plan[i].session
  <2>1. plan[i] \in Step /\ verdict \in Verdicts /\ "completed" \in StepStates
    BY <1>1, <1>2 DEF StepStates, Verdicts
  <2> HIDE DEF verdict
  <2>2. QED
    BY ONLY <2>1 DEF Step
<1>4. ended = [plan EXCEPT ![i] = done]
  BY <1>1 DEF Step, Concluded
<1> HIDE DEF done, verdict, ended
<1>5. ended \in [1 .. Len(plan) -> Step]
  BY <1>1, <1>3, <1>4
<1>6. ended \in Seq(Step) /\ Len(ended) = Len(plan) /\ DOMAIN ended = DOMAIN plan
  BY <1>1, <1>5, PlanOf
<1>7. Settled(ended, plan, i)
  BY <1>1, <1>3, <1>4, <1>6 DEF Settled
<1>8. ended[i].kind = plan[i].kind
  BY <1>1, <1>3, <1>4
<1>9. \/ result = Outcome(SetState(plan, i, "failed"), FALSE)
      \/ result = Outcome(AfterPlanning(ended, i, said.reply), FALSE)
      \/ result = Outcome(SetState(ended, i, "failed"), FALSE)
      \/ result = Outcome(ended, TRUE)
      \/ result = Outcome(ended, FALSE)
      \/ plan[i].kind \in Checks /\ result = Outcome(SendBack(ended, i), FALSE)
  BY DEF Finished, AfterCheck, ended
<1> HIDE DEF result
<1>10. Settled(plan, plan, i)
  BY DEF Settled
<1>11. Settled(SetState(plan, i, "failed"), plan, i) /\ Settled(SetState(ended, i, "failed"), plan, i)
  BY <1>6, <1>7, <1>10, SettledThenFailed
<1>12. Settled(AfterPlanning(ended, i, said.reply), plan, i)
  <2>1. Grown(ExpandPlan(ended, i, said.reply), ended)
    BY <1>2, <1>6, ExpandPlanGrows
  <2>2. Settled(ExpandPlan(ended, i, said.reply), plan, i)
    BY <1>6, <1>7, <2>1, SettledThenGrown DEF Grown
  <2>3. QED
    BY <1>11, <2>2 DEF AfterPlanning
<1>13. ASSUME plan[i].kind \in Checks PROVE Settled(SendBack(ended, i), plan, i)
  <2>1. Grown(SendBack(ended, i), ended)
    BY <1>6, <1>8, <1>13, SendBackGrows
  <2>2. QED
    BY <1>6, <1>7, <2>1, SettledThenGrown DEF Grown
<1>14. Settled(result.plan, plan, i) /\ result.error \in BOOLEAN
  <2>1. \E new : Settled(new, plan, i) /\ (result = Outcome(new, FALSE) \/ result = Outcome(new, TRUE))
    BY <1>7, <1>9, <1>11, <1>12, <1>13
  <2>2. PICK new : Settled(new, plan, i) /\ (result = Outcome(new, FALSE) \/ result = Outcome(new, TRUE))
    BY <2>1
  <2>3. CASE result = Outcome(new, FALSE)
    BY <2>2, <2>3 DEF Outcome
  <2>4. CASE result = Outcome(new, TRUE)
    BY <2>2, <2>4 DEF Outcome
  <2>5. QED
    BY <2>2, <2>3, <2>4
<1>15. QED
  BY <1>14 DEF result

--------------------------------------------------------------------------
(* The tree: which steps hold it *)

LEMMA SettledShrinks ==
    ASSUME NEW plan \in Seq(Step), NEW new, NEW i \in DOMAIN plan, Settled(new, plan, i)
    PROVE  /\ new \in Seq(Step) /\ DOMAIN plan \subseteq DOMAIN new
           /\ Occupied(new) \subseteq Occupied(plan)
           /\ Fresh(plan) => Fresh(new)
<1>1. new \in Seq(Step) /\ DOMAIN plan \subseteq DOMAIN new
  BY DEF Settled
<1>2. Occupied(new) \subseteq Occupied(plan)
  BY DEF Settled, Occupied
<1>3. Fresh(plan) => Fresh(new)
  BY DEF Settled, Fresh
<1>4. QED
  BY <1>1, <1>2, <1>3

LEMMA AssignType ==
    ASSUME NEW plan \in Seq(Step), NEW i \in DOMAIN plan, NEW s \in SessionIds
    PROVE  /\ Assign(plan, i, s) \in Seq(Step)
           /\ DOMAIN Assign(plan, i, s) = DOMAIN plan
           /\ \A j \in DOMAIN plan :
                 Assign(plan, i, s)[j] = IF j = i THEN [plan[j] EXCEPT !.session = s] ELSE plan[j]
<1>1. plan \in [1 .. Len(plan) -> Step] /\ Len(plan) \in Nat /\ DOMAIN plan = 1 .. Len(plan)
  OBVIOUS
<1>2. [plan[i] EXCEPT !.session = s] \in Step
  <2>1. s \in 0 .. MaxSessions
    BY BoundsAssumption DEF SessionIds
  <2>2. plan[i] \in Step
    OBVIOUS
  <2>3. QED
    BY <2>1, <2>2 DEF Step
<1>3. Assign(plan, i, s) \in [1 .. Len(plan) -> Step]
  BY <1>1, <1>2 DEF Assign
<1>4. QED
  BY <1>1, <1>3, PlanOf DEF Assign

\* A pending step that is given a session does not hold the tree yet.
LEMMA AssignOccupies ==
    ASSUME NEW plan \in Seq(Step), NEW i \in DOMAIN plan, NEW s \in SessionIds,
           plan[i].state = "pending"
    PROVE  /\ Occupied(Assign(plan, i, s)) = Occupied(plan)
           /\ \A j \in DOMAIN plan : /\ Assign(plan, i, s)[j].kind = plan[j].kind
                                     /\ Assign(plan, i, s)[j].state = plan[j].state
                                     /\ j # i => Assign(plan, i, s)[j].session = plan[j].session
<1>1. plan[i] \in Step
  OBVIOUS
<1>2. /\ [plan[i] EXCEPT !.session = s].kind = plan[i].kind
      /\ [plan[i] EXCEPT !.session = s].state = plan[i].state
  BY <1>1 DEF Step
<1> DEFINE new == Assign(plan, i, s)
<1>3. /\ DOMAIN new = DOMAIN plan
      /\ \A j \in DOMAIN plan : new[j] = IF j = i THEN [plan[j] EXCEPT !.session = s] ELSE plan[j]
  BY AssignType
<1> HIDE DEF new
<1>4. ASSUME NEW j \in DOMAIN plan
      PROVE  /\ new[j].kind = plan[j].kind
             /\ new[j].state = plan[j].state
             /\ j # i => new[j].session = plan[j].session
  <2>1. CASE j = i
    BY <1>2, <1>3, <2>1
  <2>2. CASE j # i
    BY <1>3, <2>2
  <2>3. QED
    BY <2>1, <2>2
<1>5. Occupied(new) = Occupied(plan)
  BY <1>3, <1>4 DEF Occupied
<1>6. QED
  BY <1>4, <1>5 DEF new

\* Only the step whose state changes may come to hold the tree, if it builds
\* and either runs or is blocked with a session.
LEMMA SetStateOccupies ==
    ASSUME NEW plan \in Seq(Step), NEW i \in DOMAIN plan, NEW state \in StepStates
    PROVE  /\ \A j \in DOMAIN plan : /\ SetState(plan, i, state)[j].kind = plan[j].kind
                                     /\ SetState(plan, i, state)[j].session = plan[j].session
                                     /\ SetState(plan, i, state)[j].state
                                         = IF j = i THEN state ELSE plan[j].state
           /\ Occupied(SetState(plan, i, state)) \subseteq
                 Occupied(plan) \cup
                 {j \in {i} : /\ plan[i].kind \in Writers
                              /\ state = "running" \/ (state = "blocked" /\ plan[i].session # 0)}
<1>1. plan[i] \in Step
  OBVIOUS
<1>2. /\ [plan[i] EXCEPT !.state = state].kind = plan[i].kind
      /\ [plan[i] EXCEPT !.state = state].session = plan[i].session
      /\ [plan[i] EXCEPT !.state = state].state = state
  BY <1>1 DEF Step
<1> DEFINE new == SetState(plan, i, state)
<1>3. /\ DOMAIN new = DOMAIN plan
      /\ \A j \in DOMAIN plan : new[j] = IF j = i THEN [plan[j] EXCEPT !.state = state] ELSE plan[j]
  BY SetStateType
<1> HIDE DEF new
<1>4. ASSUME NEW j \in DOMAIN plan
      PROVE  /\ new[j].kind = plan[j].kind
             /\ new[j].session = plan[j].session
             /\ new[j].state = IF j = i THEN state ELSE plan[j].state
  <2>1. CASE j = i
    BY <1>2, <1>3, <2>1
  <2>2. CASE j # i
    BY <1>3, <2>2
  <2>3. QED
    BY <2>1, <2>2
<1>5. Occupied(new) \subseteq
         Occupied(plan) \cup
         {j \in {i} : /\ plan[i].kind \in Writers
                      /\ state = "running" \/ (state = "blocked" /\ plan[i].session # 0)}
  BY <1>3, <1>4 DEF Occupied
<1>6. QED
  BY <1>4, <1>5 DEF new

LEMMA RetriedKeeps ==
    ASSUME NEW plan \in Seq(Step)
    PROVE  /\ Retried(plan) \in Seq(Step) /\ DOMAIN Retried(plan) = DOMAIN plan
           /\ Occupied(Retried(plan)) = Occupied(plan)
           /\ Fresh(plan) => Fresh(Retried(plan))
<1> DEFINE new == Retried(plan)
           Again(i) == plan[i].state = "blocked" /\ plan[i].session = 0
<1>1. plan \in [1 .. Len(plan) -> Step] /\ Len(plan) \in Nat /\ DOMAIN plan = 1 .. Len(plan)
  OBVIOUS
<1>2. ASSUME NEW i \in DOMAIN plan
      PROVE  /\ [plan[i] EXCEPT !.state = "pending"] \in Step
             /\ [plan[i] EXCEPT !.state = "pending"].kind = plan[i].kind
             /\ [plan[i] EXCEPT !.state = "pending"].session = plan[i].session
             /\ [plan[i] EXCEPT !.state = "pending"].state = "pending"
  BY <1>1 DEF Step, StepStates
<1>3. new = [i \in 1 .. Len(plan) |->
                IF Again(i) THEN [plan[i] EXCEPT !.state = "pending"] ELSE plan[i]]
  BY <1>1 DEF Retried
<1> HIDE DEF new
<1>4. new \in [1 .. Len(plan) -> Step]
  BY <1>1, <1>2, <1>3
<1>5. new \in Seq(Step) /\ DOMAIN new = DOMAIN plan
  BY <1>1, <1>4, PlanOf
<1>6. \A i \in DOMAIN plan : /\ new[i].kind = plan[i].kind
                             /\ new[i].session = plan[i].session
                             /\ new[i].state = IF Again(i) THEN "pending" ELSE plan[i].state
  BY <1>1, <1>2, <1>3
<1>7. Occupied(new) = Occupied(plan)
  BY <1>5, <1>6 DEF Occupied
<1>8. Fresh(plan) => Fresh(new)
  BY <1>5, <1>6 DEF Fresh
<1>9. QED
  BY <1>5, <1>7, <1>8 DEF new

\* The first of some positions is one of them.
LEMMA LeastIn ==
    ASSUME NEW S \in SUBSET Nat, S # {}
    PROVE  Least(S) \in S /\ \A j \in S : Least(S) <= j
<1>1. \E i \in S : \A j \in S : <<j, i>> \notin OpToRel(<, Nat)
  BY NatLessThanWellFounded, WFMin
<1>2. PICK i \in S : \A j \in S : <<j, i>> \notin OpToRel(<, Nat)
  BY <1>1
<1>3. \A j \in S : i <= j
  <2>1. ASSUME NEW j \in S, j < i PROVE FALSE
    <3>1. <<j, i>> \in OpToRel(<, Nat)
      BY <2>1 DEF OpToRel
    <3>2. QED
      BY <1>2, <3>1
  <2>2. QED
    BY <2>1
<1>4. \E k \in S : \A j \in S : k <= j
  BY <1>3
<1>5. QED
  BY <1>4 DEF Least

--------------------------------------------------------------------------
(* The working copy: what an update of the worker's fields leaves *)

Pcs == {"idle", "reconcile", "dispatch", "ask", "start", "store", "cancel", "stop"}
WorkerType == [pc : Pcs, at : Nat \ {0}, plan : Seq(Step), error : BOOLEAN, busy : BOOLEAN]

Take(w, pc, plan) == [w EXCEPT !.pc = pc, !.plan = plan]
Move(w, at, plan) == [w EXCEPT !.at = at, !.plan = plan]
MoveOn(w, pc, at, plan) == [w EXCEPT !.pc = pc, !.at = at, !.plan = plan]
MoveBusy(w, pc, at, plan, busy) ==
    [w EXCEPT !.pc = pc, !.at = at, !.plan = plan, !.busy = busy]
MoveError(w, pc, at, plan, error) ==
    [w EXCEPT !.at = at, !.plan = plan, !.error = error, !.pc = pc]
Stop(w, pc, at) == [w EXCEPT !.pc = pc, !.at = at]

LEMMA Taken ==
    ASSUME NEW w \in WorkerType, NEW pc \in Pcs, NEW plan \in Seq(Step)
    PROVE  /\ Take(w, pc, plan) \in WorkerType
           /\ Take(w, pc, plan).pc = pc /\ Take(w, pc, plan).plan = plan
BY DEF WorkerType, Take

LEMMA Moved ==
    ASSUME NEW w \in WorkerType, NEW at \in Nat \ {0}, NEW plan \in Seq(Step)
    PROVE  /\ Move(w, at, plan) \in WorkerType
           /\ Move(w, at, plan).pc = w.pc /\ Move(w, at, plan).plan = plan
           /\ Move(w, at, plan).at = at /\ Move(w, at, plan).busy = w.busy
BY DEF WorkerType, Move

LEMMA MovedOn ==
    ASSUME NEW w \in WorkerType, NEW pc \in Pcs, NEW at \in Nat \ {0}, NEW plan \in Seq(Step)
    PROVE  /\ MoveOn(w, pc, at, plan) \in WorkerType
           /\ MoveOn(w, pc, at, plan).pc = pc /\ MoveOn(w, pc, at, plan).plan = plan
           /\ MoveOn(w, pc, at, plan).at = at /\ MoveOn(w, pc, at, plan).busy = w.busy
BY DEF WorkerType, MoveOn

LEMMA MovedBusy ==
    ASSUME NEW w \in WorkerType, NEW pc \in Pcs, NEW at \in Nat \ {0}, NEW plan \in Seq(Step),
           NEW busy \in BOOLEAN
    PROVE  /\ MoveBusy(w, pc, at, plan, busy) \in WorkerType
           /\ MoveBusy(w, pc, at, plan, busy).pc = pc /\ MoveBusy(w, pc, at, plan, busy).plan = plan
           /\ MoveBusy(w, pc, at, plan, busy).at = at /\ MoveBusy(w, pc, at, plan, busy).busy = busy
BY DEF WorkerType, MoveBusy

LEMMA MovedError ==
    ASSUME NEW w \in WorkerType, NEW pc \in Pcs, NEW at \in Nat \ {0}, NEW plan \in Seq(Step),
           NEW error \in BOOLEAN
    PROVE  /\ MoveError(w, pc, at, plan, error) \in WorkerType
           /\ MoveError(w, pc, at, plan, error).pc = pc
           /\ MoveError(w, pc, at, plan, error).plan = plan
BY DEF WorkerType, MoveError

LEMMA Stopped ==
    ASSUME NEW w \in WorkerType, NEW pc \in Pcs, NEW at \in Nat \ {0}
    PROVE  /\ Stop(w, pc, at) \in WorkerType
           /\ Stop(w, pc, at).pc = pc /\ Stop(w, pc, at).at = at
           /\ Stop(w, pc, at).plan = w.plan /\ Stop(w, pc, at).busy = w.busy
BY DEF WorkerType, Stop

--------------------------------------------------------------------------
(* The inductive invariant *)

\* Nobody works on a run that is done.
DoneIsIdle == run.state \in DoneRun => worker.pc = "idle"

\* A step that is being started or stopped is a step of the working copy.
AtStep(w) == w.pc \in {"ask", "start", "stop"} => w.at \in DOMAIN w.plan

\* A pending step of the working copy has no session, except the one that is
\* being started.
PendingFresh(w) ==
    \A i \in DOMAIN w.plan :
        w.plan[i].state = "pending" =>
            w.plan[i].session = 0 \/ (w.pc \in {"ask", "start"} /\ i = w.at)

\* What `busy` promises while steps are dispatched.
BusyKnows(w) ==
    /\ w.pc \in {"dispatch", "ask", "start"} /\ w.busy = FALSE => Occupied(w.plan) = {}
    /\ w.pc \in {"ask", "start"} /\ w.plan[w.at].kind \in Writers =>
          w.busy = TRUE /\ Occupied(w.plan) = {}

WorkerTurns(w) ==
    /\ w \in WorkerType /\ AtMostOne(Occupied(w.plan))
    /\ AtStep(w) /\ PendingFresh(w) /\ BusyKnows(w)

RunTurns(r) ==
    /\ r \in [state : RunStates, plan : Seq(Step)]
    /\ AtMostOne(Occupied(r.plan)) /\ Fresh(r.plan)

Turns == RunTurns(run) /\ WorkerTurns(worker) /\ DoneIsIdle

IInv == TypeOK /\ Turns

LEMMA IdleTurns == WorkerTurns(Idle) /\ Idle.pc = "idle" /\ Idle.plan = <<>>
<1>1. Idle \in WorkerType /\ Idle.pc = "idle" /\ Idle.at = 1 /\ Idle.plan = <<>>
  BY EmptySeq DEF Idle, WorkerType, Pcs
<1>2. DOMAIN Idle.plan = {}
  BY <1>1
<1>3. QED
  BY <1>1, <1>2 DEF WorkerTurns, AtMostOne, Occupied, AtStep, PendingFresh, BusyKnows

LEMMA AtMostOneShrinks ==
    ASSUME NEW S, NEW T, T \subseteq S, AtMostOne(S)
    PROVE  AtMostOne(T)
BY DEF AtMostOne

\* Outside a start, the working copy has no pending step with a session.
LEMMA WorkerFresh ==
    ASSUME WorkerTurns(worker), worker.pc \notin {"ask", "start"}
    PROVE  Fresh(worker.plan)
BY DEF WorkerTurns, PendingFresh, Fresh

\* A worker whose copy changed, and that starts or stops nothing.
LEMMA WorkerGoesOn ==
    ASSUME NEW w \in WorkerType, w.pc \notin {"ask", "start", "stop"},
           AtMostOne(Occupied(w.plan)), Fresh(w.plan),
           w.pc = "dispatch" /\ w.busy = FALSE => Occupied(w.plan) = {}
    PROVE  WorkerTurns(w)
BY DEF WorkerTurns, AtStep, PendingFresh, BusyKnows, Fresh

\* The working copy starts as the stored plan.
LEMMA TakeTurns ==
    ASSUME RunTurns(run), NEW pc \in {"reconcile", "cancel"}, NEW plan \in Seq(Step),
           Occupied(plan) \subseteq Occupied(run.plan), Fresh(plan)
    PROVE  WorkerTurns(Take(Idle, pc, plan))
<1> DEFINE w == Take(Idle, pc, plan)
<1>1. Idle \in WorkerType /\ pc \in Pcs
  <2>1. Idle \in WorkerType
    BY IdleTurns DEF WorkerTurns
  <2>2. QED
    BY <2>1 DEF Pcs
<1>2. w \in WorkerType /\ w.pc = pc /\ w.plan = plan
  BY <1>1, Taken
<1> HIDE DEF w
<1>3. AtMostOne(Occupied(w.plan))
  BY <1>2, AtMostOneShrinks DEF RunTurns
<1>4. WorkerTurns(w)
  BY <1>2, <1>3, WorkerGoesOn
<1>5. QED
  BY <1>4 DEF w

\* The position reconcile and cancel work on is a step with a session.
LEMMA DispatchedIn ==
    ASSUME WorkerTurns(worker), Dispatched(worker.plan, worker.at) # {},
           NEW i, i = Least(Dispatched(worker.plan, worker.at))
    PROVE  /\ i \in DOMAIN worker.plan /\ i \in Nat \ {0} /\ i + 1 \in Nat \ {0}
           /\ worker.plan[i].session # 0 /\ worker.plan[i].state \in {"running", "blocked"}
<1>1. worker.plan \in Seq(Step)
  BY DEF WorkerTurns, WorkerType
<1>2. Dispatched(worker.plan, worker.at) \in SUBSET Nat
  BY <1>1 DEF Dispatched
<1>3. i \in Dispatched(worker.plan, worker.at)
  BY <1>2, LeastIn
<1>4. QED
  BY ONLY <1>1, <1>3 DEF Dispatched

\* The position dispatch works on is a pending step; if it builds, nobody does.
LEMMA ReadyIn ==
    ASSUME WorkerTurns(worker), Ready(worker) # {}, NEW i, i = Least(Ready(worker))
    PROVE  /\ i \in DOMAIN worker.plan /\ i \in Nat \ {0} /\ i + 1 \in Nat \ {0}
           /\ worker.plan[i].state = "pending"
           /\ worker.plan[i].kind \in Writers => worker.busy = FALSE
<1>1. worker.plan \in Seq(Step) /\ worker.busy \in BOOLEAN
  BY DEF WorkerTurns, WorkerType
<1>2. Ready(worker) \in SUBSET Nat
  BY <1>1 DEF Ready
<1>3. i \in Ready(worker)
  BY <1>2, LeastIn
<1>4. QED
  BY ONLY <1>1, <1>3 DEF Ready

LEMMA UnusedIn ==
    ASSUME Unused # {}
    PROVE  Least(Unused) \in SessionIds
<1>1. Unused \in SUBSET SessionIds /\ SessionIds \subseteq Nat
  BY BoundsAssumption DEF Unused, SessionIds
<1>2. QED
  BY <1>1, LeastIn

\* A dispatched step that is set to a state that is no claim it did not have.
LEMMA DispatchedSet ==
    ASSUME WorkerTurns(worker), Fresh(worker.plan), NEW i \in DOMAIN worker.plan,
           NEW state \in StepStates \ {"pending"},
           state \in {"running", "blocked"} /\ worker.plan[i].kind \in Writers
              => i \in Occupied(worker.plan)
    PROVE  /\ SetState(worker.plan, i, state) \in Seq(Step)
           /\ Occupied(SetState(worker.plan, i, state)) \subseteq Occupied(worker.plan)
           /\ Fresh(SetState(worker.plan, i, state))
<1> DEFINE plan == SetState(worker.plan, i, state)
<1>1. worker.plan \in Seq(Step)
  BY DEF WorkerTurns, WorkerType
<1>2. plan \in Seq(Step) /\ DOMAIN plan = DOMAIN worker.plan
  BY <1>1, SetStateType
<1>3. \A j \in DOMAIN worker.plan : /\ plan[j].session = worker.plan[j].session
                                    /\ plan[j].state = IF j = i THEN state ELSE worker.plan[j].state
  BY <1>1, SetStateOccupies
<1>4. Occupied(plan) \subseteq
          Occupied(worker.plan) \cup
          {j \in {i} : /\ worker.plan[i].kind \in Writers
                       /\ state = "running" \/ (state = "blocked" /\ worker.plan[i].session # 0)}
  BY <1>1, SetStateOccupies
<1> HIDE DEF plan
<1>5. Occupied(plan) \subseteq Occupied(worker.plan)
  BY <1>4
<1>6. Fresh(plan)
  BY <1>2, <1>3 DEF Fresh
<1>7. QED
  BY <1>2, <1>5, <1>6 DEF plan

\* Reconcile claims nothing: what it settles or finds running held the tree.
LEMMA ReconcileTurns ==
    ASSUME WorkerTurns(worker), TypeOK, ReconcileOpen \/ ReconcileEnded \/ ReconcileDone
    PROVE  WorkerTurns(worker')
<1>1. /\ worker \in WorkerType /\ worker.pc = "reconcile" /\ worker.plan \in Seq(Step)
      /\ AtMostOne(Occupied(worker.plan))
  BY DEF WorkerTurns, WorkerType, ReconcileOpen, ReconcileEnded, ReconcileDone
<1>2. Fresh(worker.plan) /\ "reconcile" \in Pcs /\ "dispatch" \in Pcs /\ "store" \in Pcs
  BY <1>1, WorkerFresh DEF Pcs
<1> DEFINE i == Least(Dispatched(worker.plan, worker.at))
           s == worker.plan[i].session
<1>3. CASE ReconcileOpen
  <2>1. /\ i \in DOMAIN worker.plan /\ i + 1 \in Nat \ {0} /\ worker.plan[i].session # 0
        /\ worker.plan[i].state \in {"running", "blocked"}
    BY <1>3, DispatchedIn DEF ReconcileOpen
  <2> DEFINE plan == IF session[s] = "running" THEN SetState(worker.plan, i, "running") ELSE worker.plan
  <2>2. worker' = Move(worker, i + 1, plan)
    BY <1>3 DEF ReconcileOpen, Move
  <2>3. plan \in Seq(Step) /\ Occupied(plan) \subseteq Occupied(worker.plan) /\ Fresh(plan)
    <3>1. "running" \in StepStates \ {"pending"}
      BY DEF StepStates
    <3>2. worker.plan[i].kind \in Writers => i \in Occupied(worker.plan)
      BY <2>1 DEF Occupied
    <3>3. /\ SetState(worker.plan, i, "running") \in Seq(Step)
          /\ Occupied(SetState(worker.plan, i, "running")) \subseteq Occupied(worker.plan)
          /\ Fresh(SetState(worker.plan, i, "running"))
      BY <1>2, <2>1, <3>1, <3>2, DispatchedSet
    <3>4. QED
      BY <1>1, <1>2, <3>3
  <2> HIDE DEF plan, i
  <2>4. worker' \in WorkerType /\ worker'.plan = plan /\ worker'.pc = "reconcile"
    <3> DEFINE at == i + 1
               moved == Move(worker, at, plan)
    <3>1. worker \in WorkerType /\ at \in Nat \ {0} /\ plan \in Seq(Step) /\ worker' = moved
      BY <1>1, <2>1, <2>2, <2>3
    <3> HIDE DEF at
    <3>2. moved \in WorkerType /\ moved.pc = worker.pc /\ moved.plan = plan
      BY ONLY <3>1, Moved
    <3> HIDE DEF moved
    <3>3. QED
      BY <1>1, <3>1, <3>2
  <2>5. QED
    BY <1>1, <2>3, <2>4, AtMostOneShrinks, WorkerGoesOn
<1>4. CASE ReconcileEnded
  <2>1. i \in DOMAIN worker.plan /\ i + 1 \in Nat \ {0} /\ worker.plan[i].session # 0
    BY <1>4, DispatchedIn DEF ReconcileEnded
  <2>2. worker.plan[i] \in Step
    BY <1>1, <2>1
  <2>3. s \in SessionIds
    BY <2>1, <2>2, BoundsAssumption DEF Step, SessionIds
  <2> DEFINE result == Finished(worker.plan, i, session[s], report[s])
             pc == IF result.error THEN "store" ELSE worker.pc
  <2>4. worker' = MoveError(worker, pc, i + 1, result.plan, result.error)
    BY <1>4 DEF ReconcileEnded, MoveError
  <2>5. report[s] \in [verdict : Verdicts, reply : PlannerReplies \cup {<<>>}, exit : Ended]
    BY <2>3 DEF TypeOK
  <2>6. Settled(result.plan, worker.plan, i) /\ result.error \in BOOLEAN
    BY <1>1, <2>1, <2>5, FinishedSettles
  <2> HIDE DEF result, i
  <2>7. /\ result.plan \in Seq(Step) /\ Occupied(result.plan) \subseteq Occupied(worker.plan)
        /\ Fresh(result.plan)
    BY <1>1, <1>2, <2>1, <2>6, SettledShrinks
  <2>8. pc \in {"reconcile", "store"} /\ pc \in Pcs
    BY <1>1, <1>2
  <2> HIDE DEF pc
  <2>9. worker' \in WorkerType /\ worker'.plan = result.plan /\ worker'.pc = pc
    <3>1. /\ worker \in WorkerType /\ i + 1 \in Nat \ {0} /\ pc \in Pcs
          /\ result.plan \in Seq(Step) /\ result.error \in BOOLEAN
      BY ONLY <1>1, <2>1, <2>6, <2>7, <2>8
    <3>2. QED
      BY ONLY <2>4, <3>1, MovedError
  <2>10. QED
    BY <1>1, <2>7, <2>8, <2>9, AtMostOneShrinks, WorkerGoesOn
<1>5. CASE ReconcileDone
  <2> DEFINE plan == Retried(worker.plan)
             busy == (Occupied(plan) # {})
  <2>1. plan \in Seq(Step) /\ Occupied(plan) = Occupied(worker.plan) /\ Fresh(plan)
    BY <1>1, <1>2, RetriedKeeps
  <2>2. worker' = MoveBusy(worker, "dispatch", 1, plan, busy)
    BY <1>5 DEF ReconcileDone, MoveBusy
  <2> HIDE DEF plan
  <2>3. busy \in BOOLEAN /\ 1 \in Nat \ {0} /\ (busy = FALSE => Occupied(plan) = {})
    OBVIOUS
  <2> HIDE DEF busy
  <2>4. /\ worker' \in WorkerType /\ worker'.plan = plan /\ worker'.pc = "dispatch"
        /\ worker'.busy = busy
    BY <1>1, <1>2, <2>1, <2>2, <2>3, MovedBusy
  <2>5. QED
    BY <1>1, <2>1, <2>3, <2>4, WorkerGoesOn
<1>6. QED
  BY <1>3, <1>4, <1>5

\* A builder step that could not start, or may not, does not hold the tree.
LEMMA NotStartedTurns ==
    ASSUME WorkerTurns(worker), TypeOK, DispatchBlocked \/ DispatchDenied
    PROVE  WorkerTurns(worker')
<1>1. /\ worker \in WorkerType /\ worker.pc = "dispatch" /\ worker.plan \in Seq(Step)
      /\ AtMostOne(Occupied(worker.plan)) /\ BusyKnows(worker)
  BY DEF WorkerTurns, WorkerType, DispatchBlocked, DispatchDenied
<1>2. Fresh(worker.plan)
  BY <1>1, WorkerFresh
<1>3. worker.busy = FALSE => Occupied(worker.plan) = {}
  BY <1>1 DEF BusyKnows
<1> DEFINE i == Least(Ready(worker))
           s == Least(Unused)
<1>4. /\ i \in DOMAIN worker.plan /\ i + 1 \in Nat \ {0}
      /\ worker.plan[i].state = "pending" /\ worker.plan[i].session = 0
  BY <1>2, ReadyIn DEF DispatchBlocked, DispatchDenied, Fresh
<1>5. CASE DispatchBlocked
  <2> DEFINE plan == SetState(worker.plan, i, "blocked")
  <2>1. worker' = Move(worker, i + 1, plan)
    BY <1>5 DEF DispatchBlocked, Move
  <2>2. "blocked" \in StepStates
    BY DEF StepStates
  <2> HIDE DEF i, s
  <2>3. plan \in Seq(Step) /\ DOMAIN plan = DOMAIN worker.plan
    BY <1>1, <1>4, <2>2, SetStateType
  <2>4. /\ \A j \in DOMAIN worker.plan :
              /\ plan[j].session = worker.plan[j].session
              /\ plan[j].state = IF j = i THEN "blocked" ELSE worker.plan[j].state
        /\ Occupied(plan) \subseteq
              Occupied(worker.plan) \cup
              {j \in {i} : /\ worker.plan[i].kind \in Writers
                           /\ "blocked" = "running" \/ ("blocked" = "blocked" /\ worker.plan[i].session # 0)}
    BY <1>1, <1>4, <2>2, SetStateOccupies
  <2> HIDE DEF plan
  <2>5. Occupied(plan) \subseteq Occupied(worker.plan) /\ Fresh(plan)
    BY <1>2, <1>4, <2>3, <2>4 DEF Fresh
  <2>6. /\ worker' \in WorkerType /\ worker'.plan = plan /\ worker'.pc = "dispatch"
        /\ worker'.busy = worker.busy
    <3> DEFINE moved == Move(worker, i + 1, plan)
    <3>1. worker \in WorkerType /\ i + 1 \in Nat \ {0} /\ plan \in Seq(Step)
      BY <1>1, <1>4, <2>3
    <3>2. /\ moved \in WorkerType /\ moved.pc = worker.pc /\ moved.plan = plan
          /\ moved.at = i + 1 /\ moved.busy = worker.busy
      BY <3>1, Moved
    <3> HIDE DEF moved
    <3>3. QED
      BY <1>1, <2>1, <3>2 DEF moved
  <2>7. QED
    BY <1>1, <1>3, <2>5, <2>6, AtMostOneShrinks, WorkerGoesOn
<1>6. CASE DispatchDenied
  <2> DEFINE assigned == Assign(worker.plan, i, s)
             plan == SetState(assigned, i, "failed")
  <2>1. worker' = Move(worker, i + 1, plan)
    BY <1>6 DEF DispatchDenied, Move
  <2>2. "failed" \in StepStates /\ s \in SessionIds
    BY <1>6, UnusedIn DEF StepStates, DispatchDenied
  <2> HIDE DEF i, s
  <2>3. /\ assigned \in Seq(Step) /\ DOMAIN assigned = DOMAIN worker.plan
        /\ Occupied(assigned) = Occupied(worker.plan)
        /\ \A j \in DOMAIN worker.plan : /\ assigned[j].state = worker.plan[j].state
                                         /\ j # i => assigned[j].session = worker.plan[j].session
    <3>1. assigned \in Seq(Step) /\ DOMAIN assigned = DOMAIN worker.plan
      BY <1>1, <1>4, <2>2, AssignType
    <3>2. /\ Occupied(assigned) = Occupied(worker.plan)
          /\ \A j \in DOMAIN worker.plan : /\ assigned[j].kind = worker.plan[j].kind
                                           /\ assigned[j].state = worker.plan[j].state
                                           /\ j # i => assigned[j].session = worker.plan[j].session
      BY <1>1, <1>4, <2>2, AssignOccupies
    <3>3. QED
      BY <3>1, <3>2
  <2> HIDE DEF assigned
  <2>4. plan \in Seq(Step) /\ DOMAIN plan = DOMAIN assigned
    BY <1>4, <2>2, <2>3, SetStateType
  <2>5. /\ \A j \in DOMAIN assigned :
              /\ plan[j].session = assigned[j].session
              /\ plan[j].state = IF j = i THEN "failed" ELSE assigned[j].state
        /\ Occupied(plan) \subseteq
              Occupied(assigned) \cup
              {j \in {i} : /\ assigned[i].kind \in Writers
                           /\ "failed" = "running" \/ ("failed" = "blocked" /\ assigned[i].session # 0)}
    BY <1>4, <2>2, <2>3, SetStateOccupies
  <2> HIDE DEF plan
  <2>6. Occupied(plan) \subseteq Occupied(worker.plan) /\ Fresh(plan)
    <3>1. Occupied(plan) \subseteq Occupied(worker.plan)
      BY <2>3, <2>5
    <3>2. Fresh(plan)
      BY <1>2, <1>4, <2>3, <2>4, <2>5 DEF Fresh
    <3>3. QED
      BY <3>1, <3>2
  <2>7. /\ worker' \in WorkerType /\ worker'.plan = plan /\ worker'.pc = "dispatch"
        /\ worker'.busy = worker.busy
    <3> DEFINE moved == Move(worker, i + 1, plan)
    <3>1. worker \in WorkerType /\ i + 1 \in Nat \ {0} /\ plan \in Seq(Step)
      BY <1>1, <1>4, <2>4
    <3>2. /\ moved \in WorkerType /\ moved.pc = worker.pc /\ moved.plan = plan
          /\ moved.at = i + 1 /\ moved.busy = worker.busy
      BY <3>1, Moved
    <3> HIDE DEF moved
    <3>3. QED
      BY <1>1, <2>1, <3>2 DEF moved
  <2>8. QED
    BY <1>1, <1>3, <2>6, <2>7, AtMostOneShrinks, WorkerGoesOn
<1>7. QED
  BY <1>5, <1>6

\* A builder is given a session only when nobody builds, and `busy` says so.
LEMMA StartingTurns ==
    ASSUME WorkerTurns(worker), TypeOK, DispatchAsk \/ DispatchSend
    PROVE  WorkerTurns(worker')
<1>1. /\ worker \in WorkerType /\ worker.pc = "dispatch" /\ worker.plan \in Seq(Step)
      /\ worker.busy \in BOOLEAN /\ AtMostOne(Occupied(worker.plan)) /\ BusyKnows(worker)
  BY DEF WorkerTurns, WorkerType, DispatchAsk, DispatchSend
<1>2. Fresh(worker.plan)
  BY <1>1, WorkerFresh
<1>3. worker.busy = FALSE => Occupied(worker.plan) = {}
  BY <1>1 DEF BusyKnows
<1> DEFINE i == Least(Ready(worker))
           s == Least(Unused)
           plan == Assign(worker.plan, i, s)
           busy == Holds(worker, i)
           pc == IF DispatchAsk THEN "ask" ELSE "start"
<1>4. /\ i \in DOMAIN worker.plan /\ i \in Nat \ {0} /\ worker.plan[i].state = "pending"
      /\ worker.plan[i].kind \in Writers => worker.busy = FALSE
  BY ReadyIn DEF DispatchAsk, DispatchSend
<1>5. s \in SessionIds
  BY UnusedIn DEF DispatchAsk, DispatchSend
<1>6. worker' = MoveBusy(worker, pc, i, plan, busy)
  BY DEF DispatchAsk, DispatchSend, MoveBusy
<1>7. pc \in {"ask", "start"} /\ pc \in Pcs
  BY DEF Pcs
<1>8. /\ plan \in Seq(Step) /\ DOMAIN plan = DOMAIN worker.plan
      /\ Occupied(plan) = Occupied(worker.plan)
      /\ \A j \in DOMAIN worker.plan : /\ plan[j].kind = worker.plan[j].kind
                                       /\ plan[j].state = worker.plan[j].state
                                       /\ j # i => plan[j].session = worker.plan[j].session
  <2>1. plan \in Seq(Step) /\ DOMAIN plan = DOMAIN worker.plan
    BY <1>1, <1>4, <1>5, AssignType
  <2>2. /\ Occupied(plan) = Occupied(worker.plan)
        /\ \A j \in DOMAIN worker.plan : /\ plan[j].kind = worker.plan[j].kind
                                         /\ plan[j].state = worker.plan[j].state
                                         /\ j # i => plan[j].session = worker.plan[j].session
    BY <1>1, <1>4, <1>5, AssignOccupies
  <2>3. QED
    BY <2>1, <2>2
<1>9. /\ busy \in BOOLEAN /\ (busy = FALSE => worker.busy = FALSE)
      /\ worker.plan[i].kind \in Writers => busy = TRUE
  BY <1>1 DEF Holds
<1> HIDE DEF i, s, plan, busy, pc
<1>10. /\ worker' \in WorkerType /\ worker'.plan = plan /\ worker'.pc = pc
       /\ worker'.at = i /\ worker'.busy = busy
  BY <1>1, <1>4, <1>6, <1>7, <1>8, <1>9, MovedBusy
<1>11. \A j \in DOMAIN plan : plan[j].state = "pending" => plan[j].session = 0 \/ j = i
  BY <1>2, <1>8 DEF Fresh
<1>12. /\ busy = FALSE => Occupied(plan) = {}
       /\ plan[i].kind \in Writers => busy = TRUE /\ Occupied(plan) = {}
  BY <1>3, <1>4, <1>8, <1>9
<1>13. AtMostOne(Occupied(worker'.plan)) /\ AtStep(worker')
  BY <1>1, <1>4, <1>8, <1>10 DEF AtStep
<1>14. PendingFresh(worker')
  BY <1>7, <1>10, <1>11 DEF PendingFresh
<1>15. BusyKnows(worker')
  BY <1>7, <1>10, <1>12 DEF BusyKnows
<1>16. QED
  BY <1>10, <1>13, <1>14, <1>15 DEF WorkerTurns

\* The step that was started takes the tree, which `busy` kept for it.
LEMMA RecordedTurns ==
    ASSUME WorkerTurns(worker), TypeOK, AskRecorded \/ StartRecorded
    PROVE  WorkerTurns(worker')
<1> DEFINE i == worker.at
           state == IF AskRecorded THEN "blocked" ELSE "running"
           plan == SetState(worker.plan, i, state)
<1>1. /\ worker \in WorkerType /\ worker.pc \in {"ask", "start"} /\ worker.plan \in Seq(Step)
      /\ worker.busy \in BOOLEAN /\ AtMostOne(Occupied(worker.plan))
      /\ BusyKnows(worker) /\ PendingFresh(worker) /\ i + 1 \in Nat \ {0}
  BY DEF WorkerTurns, WorkerType, AskRecorded, StartRecorded
<1>2. i \in DOMAIN worker.plan
  BY <1>1 DEF WorkerTurns, AtStep
<1>3. state \in StepStates /\ state # "pending" /\ "dispatch" \in Pcs
  BY DEF StepStates, Pcs
<1>4. worker' = MoveOn(worker, "dispatch", i + 1, plan)
  BY <1>1 DEF AskRecorded, StartRecorded, MoveOn
<1> HIDE DEF state
<1>5. plan \in Seq(Step) /\ DOMAIN plan = DOMAIN worker.plan
  BY <1>1, <1>2, <1>3, SetStateType
<1>6. /\ \A j \in DOMAIN worker.plan :
            /\ plan[j].session = worker.plan[j].session
            /\ plan[j].state = IF j = i THEN state ELSE worker.plan[j].state
      /\ Occupied(plan) \subseteq
            Occupied(worker.plan) \cup {j \in {i} : worker.plan[i].kind \in Writers}
  BY <1>1, <1>2, <1>3, SetStateOccupies
<1> HIDE DEF plan, i
<1>7. Fresh(plan)
  BY <1>1, <1>3, <1>5, <1>6 DEF PendingFresh, Fresh, i
<1>8. worker.plan[i].kind \in Writers => worker.busy = TRUE /\ Occupied(worker.plan) = {}
  BY <1>1 DEF BusyKnows, i
<1>9. AtMostOne(Occupied(plan)) /\ (worker.busy = FALSE => Occupied(plan) = {})
  <2>1. CASE worker.plan[i].kind \in Writers
    BY <1>6, <1>8, <2>1 DEF AtMostOne
  <2>2. CASE worker.plan[i].kind \notin Writers
    <3>1. Occupied(plan) \subseteq Occupied(worker.plan)
      BY <1>6, <2>2
    <3>2. QED
      BY <1>1, <3>1, AtMostOneShrinks DEF BusyKnows
  <2>3. QED
    BY <2>1, <2>2
<1>10. /\ worker' \in WorkerType /\ worker'.plan = plan /\ worker'.pc = "dispatch"
       /\ worker'.busy = worker.busy
  BY <1>1, <1>3, <1>4, <1>5, MovedOn
<1>11. QED
  BY <1>7, <1>9, <1>10, WorkerGoesOn

\* An advance starts from the stored plan, or finds the run done.
LEMMA TakeAdvanceTurns ==
    ASSUME Turns, worker.pc = "idle",
           worker' = IF run.state \in DoneRun THEN Idle
                     ELSE [Idle EXCEPT !.pc = "reconcile", !.plan = run.plan]
    PROVE  WorkerTurns(worker') /\ (run.state \in DoneRun => worker'.pc = "idle")
<1>1. RunTurns(run) /\ run.plan \in Seq(Step) /\ Fresh(run.plan)
  BY DEF Turns, RunTurns
<1>2. CASE run.state \in DoneRun
  BY <1>2, IdleTurns
<1>3. CASE run.state \notin DoneRun
  <2>1. worker' = Take(Idle, "reconcile", run.plan)
    BY <1>3 DEF Take
  <2>2. WorkerTurns(Take(Idle, "reconcile", run.plan))
    BY <1>1, TakeTurns
  <2>3. QED
    BY <1>3, <2>1, <2>2
<1>4. QED
  BY <1>2, <1>3

\* Skipping what has not started claims nothing.
LEMMA TakeCancelTurns ==
    ASSUME Turns, TakeCancel
    PROVE  WorkerTurns(worker') /\ (run.state \in DoneRun => worker'.pc = "idle")
<1> DEFINE plan == [i \in DOMAIN run.plan |->
                       IF Unstarted(run.plan[i])
                       THEN [run.plan[i] EXCEPT !.state = "skipped"]
                       ELSE run.plan[i]]
<1>1. RunTurns(run) /\ run.plan \in Seq(Step) /\ Fresh(run.plan)
  BY DEF Turns, RunTurns
<1>2. /\ run.plan \in [1 .. Len(run.plan) -> Step] /\ Len(run.plan) \in Nat
      /\ DOMAIN run.plan = 1 .. Len(run.plan)
  BY <1>1
<1>3. ASSUME NEW i \in DOMAIN run.plan
      PROVE  /\ [run.plan[i] EXCEPT !.state = "skipped"] \in Step
             /\ [run.plan[i] EXCEPT !.state = "skipped"].state = "skipped"
  BY <1>2 DEF Step, StepStates
<1>4. plan \in [1 .. Len(run.plan) -> Step]
  BY <1>2, <1>3
<1>5. plan \in Seq(Step) /\ DOMAIN plan = DOMAIN run.plan
  BY <1>2, <1>4, PlanOf
<1>6. \A i \in DOMAIN run.plan : plan[i] = run.plan[i] \/ plan[i].state = "skipped"
  BY <1>3
<1>7. CASE run.state \in DoneRun
  BY <1>7, IdleTurns DEF TakeCancel
<1>8. CASE run.state \notin DoneRun
  <2>1. worker' = Take(Idle, "cancel", plan)
    BY <1>8 DEF TakeCancel, Take
  <2> HIDE DEF plan
  <2>2. Occupied(plan) \subseteq Occupied(run.plan)
    <3>1. ASSUME NEW i \in Occupied(plan) PROVE i \in Occupied(run.plan)
      <4>1. i \in DOMAIN run.plan /\ plan[i].state \in {"running", "blocked"}
        BY <1>5 DEF Occupied
      <4>2. plan[i] = run.plan[i]
        BY <1>6, <4>1
      <4>3. QED
        BY <4>1, <4>2 DEF Occupied
    <3>2. QED
      BY <3>1
  <2>3. Fresh(plan)
    BY <1>1, <1>5, <1>6 DEF Fresh
  <2>4. WorkerTurns(Take(Idle, "cancel", plan))
    BY <1>1, <1>5, <2>2, <2>3, TakeTurns
  <2>5. QED
    BY <1>8, <2>1, <2>4
<1>9. QED
  BY <1>7, <1>8

\* Cancelling gives the tree back.
LEMMA CancelTurns ==
    ASSUME WorkerTurns(worker), TypeOK, CancelEnded \/ CancelStop \/ CancelMark
    PROVE  WorkerTurns(worker')
<1>1. /\ worker \in WorkerType /\ worker.pc \in {"cancel", "stop"} /\ worker.plan \in Seq(Step)
      /\ worker.at \in Nat /\ AtMostOne(Occupied(worker.plan)) /\ AtStep(worker)
  BY DEF WorkerTurns, WorkerType, CancelEnded, CancelStop, CancelMark
<1>2. Fresh(worker.plan) /\ "cancel" \in Pcs /\ "stop" \in Pcs
  BY <1>1, WorkerFresh DEF Pcs
<1>3. "failed" \in StepStates \ {"pending"}
  BY DEF StepStates
<1>4. CASE CancelStop
  <2> DEFINE i == Least(Dispatched(worker.plan, worker.at))
  <2>1. i \in DOMAIN worker.plan /\ i \in Nat \ {0}
    BY <1>4, DispatchedIn DEF CancelStop
  <2>2. worker' = Stop(worker, "stop", i)
    BY <1>4 DEF CancelStop, Stop
  <2> HIDE DEF i
  <2>3. /\ Stop(worker, "stop", i) \in WorkerType
        /\ Stop(worker, "stop", i).pc = "stop" /\ Stop(worker, "stop", i).at = i
        /\ Stop(worker, "stop", i).plan = worker.plan
        /\ Stop(worker, "stop", i).busy = worker.busy
    <3>1. worker \in WorkerType /\ "stop" \in Pcs /\ i \in Nat \ {0}
      BY ONLY <1>1, <1>2, <2>1
    <3>2. QED
      BY ONLY <3>1, Stopped
  <2>4. /\ worker' \in WorkerType /\ worker'.pc = "stop" /\ worker'.at = i
        /\ worker'.plan = worker.plan
    BY <2>2, <2>3
  <2>5. worker' \in WorkerType /\ AtMostOne(Occupied(worker'.plan))
    BY ONLY <1>1, <2>4
  <2>6. AtStep(worker') /\ BusyKnows(worker')
    BY ONLY <2>1, <2>4 DEF AtStep, BusyKnows
  <2>7. PendingFresh(worker')
    BY ONLY <1>2, <2>4 DEF PendingFresh, Fresh
  <2>8. QED
    BY <2>5, <2>6, <2>7 DEF WorkerTurns
<1>5. CASE CancelEnded \/ CancelMark
  <2> DEFINE i == IF worker.pc = "stop" THEN worker.at
                  ELSE Least(Dispatched(worker.plan, worker.at))
             plan == SetState(worker.plan, i, "failed")
  <2>1. i \in DOMAIN worker.plan
    BY <1>1, <1>5, DispatchedIn DEF CancelEnded, CancelMark, AtStep
  <2>2. i + 1 \in Nat \ {0}
    BY <1>1, <2>1
  <2>3. CASE CancelEnded
    <3>1. worker' = Move(worker, i + 1, plan) /\ worker.pc = "cancel"
      BY <2>3 DEF CancelEnded, Move
    <3> HIDE DEF i
    <3>2. /\ plan \in Seq(Step) /\ Occupied(plan) \subseteq Occupied(worker.plan) /\ Fresh(plan)
      BY <1>2, <1>3, <2>1, DispatchedSet
    <3> HIDE DEF plan
    <3>3. /\ Move(worker, i + 1, plan) \in WorkerType
          /\ Move(worker, i + 1, plan).pc = worker.pc /\ Move(worker, i + 1, plan).plan = plan
          /\ Move(worker, i + 1, plan).at = i + 1 /\ Move(worker, i + 1, plan).busy = worker.busy
      <4>1. worker \in WorkerType /\ i + 1 \in Nat \ {0} /\ plan \in Seq(Step)
        BY ONLY <1>1, <2>2, <3>2
      <4>2. QED
        BY ONLY <4>1, Moved
    <3>4. worker' \in WorkerType /\ worker'.pc = "cancel" /\ worker'.plan = plan
      BY <3>1, <3>3
    <3>5. QED
      BY <1>1, <3>2, <3>4, AtMostOneShrinks, WorkerGoesOn
  <2>4. CASE CancelMark
    <3>1. worker' = MoveOn(worker, "cancel", i + 1, plan)
      BY <2>4 DEF CancelMark, MoveOn
    <3> HIDE DEF i
    <3>2. /\ plan \in Seq(Step) /\ Occupied(plan) \subseteq Occupied(worker.plan) /\ Fresh(plan)
      BY <1>2, <1>3, <2>1, DispatchedSet
    <3> HIDE DEF plan
    <3>3. /\ MoveOn(worker, "cancel", i + 1, plan) \in WorkerType
          /\ MoveOn(worker, "cancel", i + 1, plan).pc = "cancel"
          /\ MoveOn(worker, "cancel", i + 1, plan).plan = plan
          /\ MoveOn(worker, "cancel", i + 1, plan).at = i + 1
          /\ MoveOn(worker, "cancel", i + 1, plan).busy = worker.busy
      <4>1. /\ worker \in WorkerType /\ "cancel" \in Pcs /\ i + 1 \in Nat \ {0}
            /\ plan \in Seq(Step)
        BY <1>1, <1>2, <2>2, <3>2
      <4>2. QED
        BY ONLY <4>1, MovedOn
    <3>4. worker' \in WorkerType /\ worker'.pc = "cancel" /\ worker'.plan = plan
      BY <3>1, <3>3
    <3>5. QED
      BY <1>1, <3>2, <3>4, AtMostOneShrinks, WorkerGoesOn
  <2>5. QED
    BY <1>5, <2>3, <2>4
<1>6. QED
  BY <1>4, <1>5

LEMMA RunStateType ==
    ASSUME NEW plan, NEW error \in BOOLEAN
    PROVE  RunState(plan, error) \in RunStates
<1>1. CASE error = TRUE
  BY <1>1 DEF RunState, RunStates
<1>2. CASE error = FALSE
  BY <1>2 DEF RunState, RunStates
<1>3. QED
  BY <1>1, <1>2

\* What is stored is the working copy, and the lock is free again.
LEMMA StoreTurns ==
    ASSUME Turns, StoreRun \/ StoreCancelled
    PROVE  RunTurns(run') /\ worker' = Idle
<1>1. /\ worker.plan \in Seq(Step) /\ worker.error \in BOOLEAN
      /\ AtMostOne(Occupied(worker.plan)) /\ WorkerTurns(worker)
  BY DEF Turns, WorkerTurns, WorkerType
<1>2. worker.pc \notin {"ask", "start"} /\ worker' = Idle
  BY DEF StoreRun, StoreCancelled
<1>3. Fresh(worker.plan)
  BY <1>1, <1>2, WorkerFresh
<1>4. \E state \in RunStates : run' = [state |-> state, plan |-> worker.plan]
  <2>1. RunState(worker.plan, worker.error) \in RunStates /\ "cancelled" \in RunStates
    BY <1>1, RunStateType DEF RunStates
  <2>2. QED
    BY <2>1 DEF StoreRun, StoreCancelled
<1>5. PICK state \in RunStates : run' = [state |-> state, plan |-> worker.plan]
  BY <1>4
<1>6. run' \in [state : RunStates, plan : Seq(Step)] /\ run'.plan = worker.plan
  BY <1>1, <1>5
<1>7. QED
  BY <1>1, <1>2, <1>3, <1>6 DEF RunTurns

\* The inductive step for Turns.
LEMMA TurnsStep ==
    ASSUME Turns, TypeOK, [Next]_vars
    PROVE  Turns'
<1>1. RunTurns(run) /\ WorkerTurns(worker) /\ DoneIsIdle
  BY DEF Turns
<1>2. ASSUME run' = run, WorkerTurns(worker'), run.state \in DoneRun => worker'.pc = "idle"
      PROVE  Turns'
  BY <1>1, <1>2 DEF Turns, DoneIsIdle
<1>3. ASSUME run' = run, WorkerTurns(worker'), worker.pc # "idle"
      PROVE  Turns'
  BY <1>1, <1>2, <1>3 DEF DoneIsIdle
<1>4. ASSUME run' = run, worker' = worker
      PROVE  Turns'
  BY <1>1, <1>2, <1>4 DEF DoneIsIdle
<1>5. ASSUME run' = run, worker' = Idle
      PROVE  Turns'
  BY <1>2, <1>5, IdleTurns
<1>6. CASE TakeAdvance
  <2>1. WorkerTurns(worker') /\ (run.state \in DoneRun => worker'.pc = "idle")
    BY <1>6, TakeAdvanceTurns DEF TakeAdvance
  <2>2. QED
    BY <1>2, <1>6, <2>1 DEF TakeAdvance
<1>7. CASE ReconcileOpen \/ ReconcileEnded \/ ReconcileDone
  <2>1. run' = run /\ worker.pc # "idle"
    BY <1>7 DEF ReconcileOpen, ReconcileEnded, ReconcileDone
  <2>2. QED
    BY <1>1, <1>3, <1>7, <2>1, ReconcileTurns
<1>8. CASE DispatchBlocked \/ DispatchDenied
  <2>1. run' = run /\ worker.pc # "idle"
    BY <1>8 DEF DispatchBlocked, DispatchDenied
  <2>2. QED
    BY <1>1, <1>3, <1>8, <2>1, NotStartedTurns
<1>9. CASE DispatchAsk \/ DispatchSend
  <2>1. run' = run /\ worker.pc # "idle"
    BY <1>9 DEF DispatchAsk, DispatchSend
  <2>2. QED
    BY <1>1, <1>3, <1>9, <2>1, StartingTurns
<1>10. CASE AskRecorded \/ StartRecorded
  <2>1. run' = run /\ worker.pc # "idle"
    BY <1>10 DEF AskRecorded, StartRecorded
  <2>2. QED
    BY <1>1, <1>3, <1>10, <2>1, RecordedTurns
<1>11. CASE StoreRun \/ StoreCancelled
  <2>1. RunTurns(run') /\ worker' = Idle
    BY <1>11, StoreTurns
  <2>2. QED
    BY <2>1, IdleTurns DEF Turns, DoneIsIdle
<1>12. CASE CancelEnded \/ CancelStop \/ CancelMark
  <2>1. run' = run /\ worker.pc # "idle"
    BY <1>12 DEF CancelEnded, CancelStop, CancelMark
  <2>2. QED
    BY <1>1, <1>3, <1>12, <2>1, CancelTurns
<1>13. CASE TakeCancel
  <2>1. WorkerTurns(worker') /\ (run.state \in DoneRun => worker'.pc = "idle")
    BY <1>13, TakeCancelTurns
  <2>2. QED
    BY <1>2, <1>13, <2>1 DEF TakeCancel
<1>14. CASE Throw \/ Restart
  BY <1>5, <1>14 DEF Throw, Restart
<1>15. ASSUME NEW s \in SessionIds, Handlers(s) PROVE Turns'
  BY <1>4, <1>15 DEF Handlers, HandleStarted, HandleEnded, SendGranted, GrantedRuns, RefusedEnds
<1>16. ASSUME NEW s \in SessionIds,
              AgentEnds(s) \/ Decided(s) \/ StopSession(s) \/ LoseAgent(s) \/ RecoverLost(s)
       PROVE  Turns'
  BY <1>4, <1>16 DEF AgentEnds, Decided, Grant, Refuse, Lapse, Supersede, Decide, StopSession, LoseAgent, RecoverLost
<1>17. CASE UNCHANGED vars
  BY <1>4, <1>17 DEF vars
<1>18. QED
  BY <1>6, <1>7, <1>8, <1>9, <1>10, <1>11, <1>12, <1>13, <1>14, <1>15, <1>16, <1>17
     DEF Next, Advance, Cancel, Outside, QueuedAdvance, RequestedAdvance

--------------------------------------------------------------------------
(* Types *)

Reports == [verdict : Verdicts, reply : PlannerReplies \cup {<<>>}, exit : Ended]

\* The variables that no part of Turns speaks of.
OthersTyped ==
    /\ wake \in BOOLEAN
    /\ session \in [SessionIds -> SessionStates]
    /\ role \in [SessionIds -> Kinds]
    /\ approval \in [SessionIds -> Decisions]
    /\ followUp \in [SessionIds -> {"none", "send", "run", "end"}]
    /\ agent \in [SessionIds -> {"none", "live", "gone"}]
    /\ inbox \in [SessionIds -> SUBSET {"started", "ended"}]
    /\ report \in [SessionIds -> Reports]
    /\ faults \in 0 .. MaxFaults

LEMMA TypeOKParts == Turns /\ OthersTyped => TypeOK
BY DEF Turns, RunTurns, WorkerTurns, WorkerType, Pcs, OthersTyped, Reports, TypeOK

LEMMA TypeOKOthers == TypeOK => OthersTyped
BY DEF OthersTyped, Reports, TypeOK

LEMMA SilentType == Silent \in Reports /\ [Silent EXCEPT !.exit = "cancelled"] \in Reports
<1>1. Silent = [verdict |-> "none", reply |-> <<>>, exit |-> "failed"]
  BY DEF Silent
<1>2. [Silent EXCEPT !.exit = "cancelled"] = [verdict |-> "none", reply |-> <<>>, exit |-> "cancelled"]
  BY DEF Silent
<1>3. QED
  BY <1>1, <1>2 DEF Reports, Verdicts, Ended

LEMMA SaidType ==
    ASSUME NEW kind \in Kinds, NEW said \in Said(kind) \cup {Silent}
    PROVE  said \in Reports
<1>1. CASE kind = "planning"
  BY <1>1, SilentType DEF Said, Reports, Verdicts, Ended
<1>2. CASE kind \in Checks
  BY <1>2, SilentType DEF Said, Reports, Verdicts, Ended, Checks
<1>3. CASE kind \notin Checks \cup {"planning"}
  BY <1>3, SilentType DEF Said, Reports, Verdicts, Ended
<1>4. QED
  BY <1>1, <1>2, <1>3

LEMMA StartAgentTyped ==
    ASSUME OthersTyped, NEW s \in SessionIds, StartAgent(s)
    PROVE  /\ agent' \in [SessionIds -> {"none", "live", "gone"}]
           /\ inbox' \in [SessionIds -> SUBSET {"started", "ended"}]
           /\ report' = report
BY DEF OthersTyped, StartAgent, envVars

LEMMA StopAgentTyped ==
    ASSUME OthersTyped, NEW s \in SessionIds, StopAgent(s)
    PROVE  /\ agent' \in [SessionIds -> {"none", "live", "gone"}]
           /\ inbox' \in [SessionIds -> SUBSET {"started", "ended"}]
           /\ report' \in [SessionIds -> Reports]
BY SilentType DEF OthersTyped, StopAgent, envVars

\* The steps of the lock holder.
LEMMA WorkersStepTyped ==
    ASSUME OthersTyped, Turns, Advance \/ RequestedAdvance \/ TakeCancel \/ Cancel
    PROVE  OthersTyped'
<1>1. CASE TakeAdvance \/ TakeCancel
  BY <1>1 DEF OthersTyped, TakeAdvance, TakeCancel, gateVars, envVars
<1>2. CASE ReconcileOpen \/ ReconcileEnded \/ ReconcileDone \/ DispatchBlocked \/ CancelEnded
  BY <1>2 DEF OthersTyped, ReconcileOpen, ReconcileEnded, ReconcileDone, DispatchBlocked,
              CancelEnded, gateVars, envVars
<1>3. CASE StoreRun \/ StoreCancelled
  BY <1>3 DEF OthersTyped, StoreRun, StoreCancelled, gateVars, envVars
<1>4. CASE AskRecorded \/ StartRecorded \/ CancelMark
  BY <1>4 DEF OthersTyped, AskRecorded, StartRecorded, CancelMark, gateVars, envVars,
              SessionStates, Ended
<1>5. CASE CancelStop
  <2> DEFINE i == Least(Dispatched(worker.plan, worker.at))
             s == worker.plan[i].session
  <2>1. worker.plan \in Seq(Step) /\ i \in DOMAIN worker.plan /\ s # 0
    BY <1>5, DispatchedIn DEF CancelStop, Turns, WorkerTurns, WorkerType
  <2>2. worker.plan[i] \in Step
    BY <2>1
  <2>3. s \in SessionIds
    BY <2>1, <2>2, BoundsAssumption DEF Step, SessionIds
  <2>4. StopAgent(s) /\ UNCHANGED <<run, wake, session, role, gateVars, faults>>
    BY <1>5 DEF CancelStop
  <2> HIDE DEF i, s
  <2>5. QED
    BY <2>3, <2>4, StopAgentTyped DEF OthersTyped, gateVars
<1>6. CASE DispatchDenied \/ DispatchAsk \/ DispatchSend
  <2> DEFINE i == Least(Ready(worker))
             s == Least(Unused)
  <2>1. worker.plan \in Seq(Step) /\ i \in DOMAIN worker.plan /\ s \in SessionIds
    BY <1>6, ReadyIn, UnusedIn
       DEF DispatchDenied, DispatchAsk, DispatchSend, Turns, WorkerTurns, WorkerType
  <2>2. worker.plan[i].kind \in Kinds
    <3>1. worker.plan[i] \in Step
      BY <2>1
    <3>2. QED
      BY <3>1 DEF Step
  <2>3. /\ \/ session' = [session EXCEPT ![s] = "failed"]
           \/ session' = [session EXCEPT ![s] = "initializing"]
        /\ role' = [role EXCEPT ![s] = worker.plan[i].kind]
        /\ approval' = approval \/ approval' = [approval EXCEPT ![s] = "pending"]
        /\ UNCHANGED envVars \/ StartAgent(s)
        /\ UNCHANGED <<wake, followUp, faults>>
    BY <1>6 DEF DispatchDenied, DispatchAsk, DispatchSend, gateVars
  <2> HIDE DEF i, s
  <2>4. /\ agent' \in [SessionIds -> {"none", "live", "gone"}]
        /\ inbox' \in [SessionIds -> SUBSET {"started", "ended"}]
        /\ report' = report
    BY <2>1, <2>3, StartAgentTyped DEF OthersTyped, envVars
  <2>5. QED
    BY <2>2, <2>3, <2>4 DEF OthersTyped, SessionStates, Ended, Decisions
<1>7. QED
  BY <1>1, <1>2, <1>3, <1>4, <1>5, <1>6 DEF Advance, Cancel, QueuedAdvance, RequestedAdvance

\* The steps of one session and its agent.
LEMMA SessionsStepTyped ==
    ASSUME OthersTyped, NEW s \in SessionIds,
           \/ Handlers(s) \/ AgentEnds(s) \/ Decided(s)
           \/ StopSession(s) \/ LoseAgent(s) \/ RecoverLost(s)
    PROVE  OthersTyped'
<1>1. CASE HandleStarted(s)
  BY <1>1 DEF OthersTyped, HandleStarted, gateVars, SessionStates
<1>2. CASE HandleEnded(s)
  <2>1. report[s].exit \in SessionStates
    BY DEF OthersTyped, Reports, SessionStates
  <2>2. wake' \in BOOLEAN
    BY <1>2, IdsAssumption DEF HandleEnded, OthersTyped
  <2>3. QED
    BY <1>2, <2>1, <2>2 DEF OthersTyped, HandleEnded, gateVars
<1>3. CASE SendGranted(s)
  <2>1. /\ agent' \in [SessionIds -> {"none", "live", "gone"}]
        /\ inbox' \in [SessionIds -> SUBSET {"started", "ended"}]
        /\ report' = report
    BY <1>3, StartAgentTyped DEF OthersTyped, SendGranted, envVars
  <2>2. QED
    BY <1>3, <2>1 DEF OthersTyped, SendGranted
<1>4. CASE GrantedRuns(s) \/ RefusedEnds(s)
  BY <1>4 DEF OthersTyped, GrantedRuns, RefusedEnds, envVars, SessionStates, Ended
<1>5. CASE AgentEnds(s)
  <2>1. PICK said \in Said(role[s]) \cup {Silent} : report' = [report EXCEPT ![s] = said]
    BY <1>5 DEF AgentEnds
  <2>2. role[s] \in Kinds
    BY DEF OthersTyped
  <2>3. said \in Reports
    BY <2>2, SaidType
  <2>4. QED
    BY <1>5, <2>1, <2>3 DEF OthersTyped, AgentEnds, gateVars
<1>6. CASE Decided(s)
  BY <1>6 DEF OthersTyped, Decided, Grant, Refuse, Lapse, Supersede, Decide, envVars, Decisions
<1>7. CASE StopSession(s)
  BY <1>7, StopAgentTyped, BoundsAssumption DEF OthersTyped, StopSession, gateVars, SessionStates, Ended
<1>8. CASE LoseAgent(s)
  BY <1>8 DEF OthersTyped, LoseAgent, gateVars
<1>9. CASE RecoverLost(s)
  BY <1>9, BoundsAssumption DEF OthersTyped, RecoverLost, gateVars, envVars, SessionStates, Ended
<1>10. QED
  BY <1>1, <1>2, <1>3, <1>4, <1>5, <1>6, <1>7, <1>8, <1>9 DEF Handlers

LEMMA OthersStep ==
    ASSUME OthersTyped, Turns, [Next]_vars
    PROVE  OthersTyped'
<1>1. CASE Throw
  BY <1>1, BoundsAssumption DEF Throw, OthersTyped, gateVars, envVars
<1>2. CASE Restart
  <2>1. faults' \in 0 .. MaxFaults
    BY <1>2, BoundsAssumption DEF Restart, OthersTyped
  <2>2. followUp' \in [SessionIds -> {"none", "send", "run", "end"}]
    BY <1>2 DEF Restart
  <2>3. wake' \in BOOLEAN /\ UNCHANGED <<session, role, approval, agent, inbox, report>>
    BY <1>2 DEF Restart, envVars
  <2>4. QED
    BY <2>1, <2>2, <2>3 DEF OthersTyped
<1>3. CASE UNCHANGED vars
  BY <1>3 DEF vars, OthersTyped, gateVars, envVars
<1>4. QED
  BY <1>1, <1>2, <1>3, WorkersStepTyped, SessionsStepTyped DEF Next, Outside

LEMMA InitInv == Init => IInv
<1> SUFFICES ASSUME Init PROVE IInv
  OBVIOUS
<1>1. PICK inputs \in {u \in UserPlans : ValidDag(AsPlan(u))} :
         run = [state |-> "planned", plan |-> AsPlan(inputs)]
  BY DEF Init
<1> DEFINE plan == AsPlan(inputs)
<1>2. inputs \in Seq(Inputs) /\ Len(inputs) \in Nat /\ DOMAIN inputs = 1 .. Len(inputs)
  BY PlansAssumption
<1>3. ASSUME NEW i \in DOMAIN inputs
      PROVE  plan[i] \in Step /\ plan[i].state = "pending" /\ plan[i].session = 0
  <2>1. inputs[i] \in Inputs
    BY <1>2
  <2>2. inputs[i].kind \in Kinds /\ inputs[i].deps \in SUBSET (Nat \ {0})
    BY <2>1 DEF Inputs
  <2>3. "user" \in Origins /\ 1 \in Nat \ {0}
    BY DEF Origins
  <2>4. plan[i] = NewStep(inputs[i].kind, inputs[i].deps, "user", 1)
    BY DEF AsPlan
  <2>5. QED
    BY <2>2, <2>3, <2>4, NewStepType
<1>4. plan = [i \in 1 .. Len(inputs) |-> plan[i]]
  BY <1>2 DEF AsPlan
<1> HIDE DEF plan
<1>5. plan \in [1 .. Len(inputs) -> Step]
  BY <1>2, <1>3, <1>4
<1>6. plan \in Seq(Step) /\ DOMAIN plan = DOMAIN inputs
  BY <1>2, <1>5, PlanOf
<1>7. Occupied(plan) = {} /\ Fresh(plan)
  BY <1>3, <1>6 DEF Occupied, Fresh
<1>8. run.plan = plan /\ run.state = "planned"
  BY <1>1 DEF plan
<1>9. RunTurns(run)
  <2>1. run \in [state : RunStates, plan : Seq(Step)]
    BY <1>1, <1>6 DEF RunStates, plan
  <2>2. QED
    BY <1>7, <1>8, <2>1 DEF RunTurns, AtMostOne
<1>10. worker = Idle /\ WorkerTurns(worker) /\ DoneIsIdle
  BY IdleTurns DEF Init, DoneIsIdle
<1>11. Turns
  BY <1>9, <1>10 DEF Turns
<1>12. OthersTyped
  BY SilentType, BoundsAssumption DEF Init, OthersTyped, SessionStates, Kinds, Decisions
<1>13. QED
  BY <1>11, <1>12, TypeOKParts DEF IInv

LEMMA StepInv == IInv /\ [Next]_vars => IInv'
<1> SUFFICES ASSUME IInv, [Next]_vars PROVE IInv'
  OBVIOUS
<1>1. Turns'
  BY TurnsStep DEF IInv
<1>2. OthersTyped'
  BY TypeOKOthers, OthersStep DEF IInv
<1>3. (Turns /\ OthersTyped => TypeOK)'
  BY TypeOKParts, PTL
<1>4. QED
  BY <1>1, <1>2, <1>3 DEF IInv

--------------------------------------------------------------------------
(* Theorems *)

\* The invariant that is inductive: the types, and how `busy`, the sessions of
\* pending steps and the lock fit together.
THEOREM Invariance == Spec => []IInv
<1>1. Init => IInv
  BY InitInv
<1>2. IInv /\ [Next]_vars => IInv'
  BY StepInv
<1>3. QED
  BY <1>1, <1>2, PTL DEF Spec

\* The run, the copy at work and the sessions stay within their types, for
\* every plan a user submits, every reply of a planner and every disturbance.
THEOREM TypeCorrect == Spec => []TypeOK
<1>1. IInv => TypeOK
  BY DEF IInv
<1>2. QED
  BY <1>1, Invariance, PTL

\* Builder steps take turns (dispatchReady's builderBusy), whatever a planner
\* adds, a check sends back, an approval delays or a crash interrupts.
THEOREM TurnsAreTaken == Spec => []BuildersTakeTurns
<1>1. IInv => BuildersTakeTurns
  BY DEF IInv, Turns, RunTurns, WorkerTurns, BuildersTakeTurns
<1>2. QED
  BY <1>1, Invariance, PTL

\* A run that is done is never changed again (the DONE_RUN returns of
\* advanceNow and cancelNow, and the lock that makes them enough).
THEOREM DoneStays == Spec => DoneRunIsFinal
<1>1. IInv /\ [Next]_vars => [run.state \in DoneRun => run' = run]_vars
  <2> SUFFICES ASSUME IInv, [Next]_vars, run.state \in DoneRun PROVE run' = run
    OBVIOUS
  <2>1. worker.pc = "idle"
    BY DEF IInv, Turns, DoneIsIdle
  <2>2. CASE Advance
    BY <2>1, <2>2 DEF Advance, QueuedAdvance, TakeAdvance, ReconcileOpen, ReconcileEnded,
          ReconcileDone, DispatchBlocked, DispatchDenied, DispatchAsk, AskRecorded,
          DispatchSend, StartRecorded, StoreRun
  <2>3. CASE Cancel
    BY <2>1, <2>3 DEF Cancel, CancelEnded, CancelStop, CancelMark, StoreCancelled
  <2>4. ASSUME NEW s \in SessionIds, Handlers(s) PROVE run' = run
    BY <2>4 DEF Handlers, HandleStarted, HandleEnded, SendGranted, GrantedRuns, RefusedEnds
  <2>5. CASE Outside
    BY <2>5 DEF Outside, AgentEnds, Decided, Grant, Refuse, Lapse, Supersede, Decide, StopSession, LoseAgent, RecoverLost,
          RequestedAdvance, TakeAdvance, TakeCancel, Throw, Restart
  <2>6. CASE UNCHANGED vars
    BY <2>6 DEF vars
  <2>7. QED
    BY <2>2, <2>3, <2>4, <2>5, <2>6 DEF Next
<1>2. QED
  BY <1>1, Invariance, PTL DEF Spec, DoneRunIsFinal
=============================================================================
