---------------------------- MODULE PolicyEngine ----------------------------
(***************************************************************************)
(* The decision that policy makes about one action, as a function of the   *)
(* action, the session that asks and the rules in force                    *)
(* (packages/policy-engine/src: evaluate.ts, deny-floor.ts, specificity.ts,*)
(* risk-defaults.ts).                                                      *)
(*                                                                         *)
(* A path is the sequence of names between the slashes it is spelled with, *)
(* backslashes counted as slashes: a name may be empty or a dot.  Nothing  *)
(* resolves "..", here or in the code.  A segment of a pattern is the set  *)
(* of names it matches, or Rest, written ** in the code.  An action has a  *)
(* capability, a risk, the path of what it touches, its command if it has  *)
(* one, and the paths of the files that its command writes.  How an action *)
(* is scored and how a command is read (action-risk.ts) is an input.       *)
(***************************************************************************)
EXTENDS Integers, Sequences, FiniteSets

CONSTANTS
    Rest,     \* the segment ** of a pattern
    Any,      \* what a rule leaves open, what an action has not
    Lower,    \* names in lower case
    Floor     \* the deny-override floor: a set of entries

RiskClasses == {"low", "medium", "high", "critical"}
Effects == {"allow", "deny", "require_approval"}
Statuses == {"trusted", "lost"}  \* "lost": revoked or suspended
RiskOrder == [r \in RiskClasses |->
    CASE r = "low" -> 0 [] r = "medium" -> 1 [] r = "high" -> 2 [] r = "critical" -> 3]

Decision(effect, by) == [effect |-> effect, by |-> by]

--------------------------------------------------------------------------
(* Patterns *)

\* Mutant: ** stands for one segment at least.
GlobMatchesSome(path, pattern) ==
    LET m[i \in 1..Len(pattern) + 1] ==
          [j \in 1..Len(path) + 1 |->
             IF i > Len(pattern) THEN j > Len(path)
             ELSE IF pattern[i] = Rest
             THEN i = Len(pattern) \/ \E k \in j + 1..Len(path) + 1 : m[i + 1][k]
             ELSE j <= Len(path) /\ path[j] \in pattern[i] /\ m[i + 1][j + 1]]
    IN m[1][1]

\* m[i][j]: the pattern from i on matches the path from j on.  ** stands for
\* any number of segments; at the end of a pattern it matches whatever is left.
GlobMatches(path, pattern) ==
    LET m[i \in 1..Len(pattern) + 1] ==
          [j \in 1..Len(path) + 1 |->
             IF i > Len(pattern) THEN j > Len(path)
             ELSE IF pattern[i] = Rest
             THEN i = Len(pattern) \/ \E k \in j..Len(path) + 1 : m[i + 1][k]
             ELSE j <= Len(path) /\ path[j] \in pattern[i] /\ m[i + 1][j + 1]]
    IN /\ Len(path) >= Cardinality({i \in DOMAIN pattern : pattern[i] # Rest})
       /\ m[1][1]

\* normaliseResource drops empty names and dots, but for the empty name that a
\* path from the root begins with and a dot that a path ends with.
Kept(raw) ==
    {i \in DOMAIN raw : \/ raw[i] \notin {"", "."}
                        \/ raw[i] = "" /\ i = 1
                        \/ raw[i] = "." /\ i = Len(raw)}

\* The nth of a set of numbers.
Nth(S, n) == CHOOSE i \in S : Cardinality({j \in S : j <= i}) = n

\* normaliseResource
Normalised(raw) ==
    [n \in 1..Cardinality(Kept(raw)) |-> Lower[raw[Nth(Kept(raw), n)]]]

\* An entry of the floor without a pattern denies its capability; one that has
\* a pattern says nothing of an action without a resource.
FloorMatches(capability, raw, force) ==
    \E e \in Floor :
       /\ e.capability = capability
       /\ e.force \in {Any, force}
       /\ \/ e.pattern = Any
          \/ /\ raw # Any /\ Normalised(raw) \notin {<<>>, <<"">>}
             /\ GlobMatches(Normalised(raw), e.pattern)

\* A command that writes a protected file is that write.
Floored(a) ==
    \/ FloorMatches(a.capability, a.raw, a.force)
    \/ \E target \in a.writes : FloorMatches("filesystem.write", target, Any)

--------------------------------------------------------------------------
(* Rules *)

RuleMatches(a, s, rule) ==
    /\ rule.capability \in {Any, a.capability}
    /\ rule.riskClass \in {Any, a.risk}
    /\ rule.pattern = Any \/ (a.raw # Any /\ GlobMatches(a.raw, rule.pattern))
    /\ rule.project \in {Any, s.project}
    /\ rule.profile \in {Any, s.profile}

RuleSpecificity(rule) ==
    Cardinality({f \in {"capability", "riskClass", "pattern", "project", "profile"} : rule[f] # Any})

\* Rule i comes before rule j: by priority, then by specificity; the sort is
\* stable.
Before(rules, i, j) ==
    LET p == rules[i].priority - rules[j].priority
        d == RuleSpecificity(rules[i]) - RuleSpecificity(rules[j])
    IN p > 0 \/ (p = 0 /\ (d > 0 \/ (d = 0 /\ i < j)))

Matching(a, s, rules) == {i \in DOMAIN rules : RuleMatches(a, s, rules[i])}

\* The first matching rule in that order.
First(a, s, rules) ==
    CHOOSE i \in Matching(a, s, rules) :
       \A j \in Matching(a, s, rules) \ {i} : Before(rules, i, j)

--------------------------------------------------------------------------
(* Defaults *)

RiskClassDefaults(risk, profile) ==
    IF profile = "locked" THEN "deny"
    ELSE IF profile = "read-only" THEN (IF risk = "low" THEN "allow" ELSE "deny")
    ELSE CASE risk = "low" -> "allow"
           [] risk = "medium" -> IF profile = "supervised" THEN "require_approval" ELSE "allow"
           [] risk \in {"high", "critical"} -> "require_approval"

--------------------------------------------------------------------------
(* The pipeline *)

\* Mutant: the rules are asked before the floor.
EvaluateRulesFirst(a, s, status, rules) ==
    IF Matching(a, s, rules) # {}
    THEN Decision(rules[First(a, s, rules)].effect, "rule")
    ELSE IF Floored(a) THEN Decision("deny", "floor")
    ELSE IF status # "trusted" THEN Decision("deny", "device")
    ELSE Decision(RiskClassDefaults(a.risk, s.profile), "default")

\* Floor, device, rules, defaults: the order is fixed.
Evaluate(a, s, status, rules) ==
    IF Floored(a) THEN Decision("deny", "floor")
    ELSE IF status # "trusted" THEN Decision("deny", "device")
    ELSE IF Matching(a, s, rules) # {}
    THEN Decision(rules[First(a, s, rules)].effect, "rule")
    ELSE Decision(RiskClassDefaults(a.risk, s.profile), "default")
=============================================================================
