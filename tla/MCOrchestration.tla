-------------------------- MODULE MCOrchestration --------------------------
(***************************************************************************)
(* Small instances of Orchestration: the step lists a user submits and the *)
(* lists a planner replies with.                                           *)
(***************************************************************************)
EXTENDS Orchestration

Build(deps) == [kind |-> "implementation", deps |-> deps]
Test(deps) == [kind |-> "test", deps |-> deps]
Review(deps) == [kind |-> "security_review", deps |-> deps]
General(deps) == [kind |-> "general", deps |-> deps]
Planning == [kind |-> "planning", deps |-> {}]

\* A build with its checks in a chain: the fix loops.
ChainPlans == {<<Build({}), Test({1}), Review({1, 2})>>}

\* Two independent builders that must take turns.
TurnPlans == {<<Build({}), General({})>>}

\* A goal only: the planner's reply becomes the run.
GoalPlans == {<<Planning>>}

\* A builder without the checks it needs, a cycle, and a plan that has a test.
Replies == {<<Build({})>>, <<General({2}), General({1})>>, <<Build({}), Test({1})>>}

AllPlans == ChainPlans \cup TurnPlans \cup GoalPlans

\* The shortest plan.
OneBuild == {<<Build({})>>}
NoReplies == {}
=============================================================================
