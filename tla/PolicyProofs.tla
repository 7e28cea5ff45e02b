---------------------------- MODULE PolicyProofs ----------------------------
(***************************************************************************)
(* What policy decides, for any floor, rules, requests and number of calls:*)
(* the floor holds, rules stand, remembered approvals stay narrow, what is *)
(* revoked stays revoked, the last activated version is in force and the   *)
(* audit chain verifies; and what patterns match and the floor denies.     *)
(*                                                                         *)
(* A finite set with a total order has a first element: that is what makes *)
(* "the first matching rule" mean something.  The rest is induction over   *)
(* steps: a call alone moves itself, and each history says when the        *)
(* invariant that it excuses may be given up.                              *)
(***************************************************************************)
EXTENDS MCPolicyService, FiniteSetTheorems, SequenceTheorems, WellFoundedInduction, TLAPS

(***************************************************************************)
(* The first rule                                                          *)
(***************************************************************************)

\* A finite, nonempty set has a first element in any total, transitive order.
LEMMA FirstExists ==
    ASSUME NEW D, IsFiniteSet(D), D # {}, NEW R,
           \A x, y \in D : x # y => <<x, y>> \in R \/ <<y, x>> \in R,
           \A x, y, z \in D : <<x, y>> \in R /\ <<y, z>> \in R => <<x, z>> \in R
    PROVE  \E x \in D : \A y \in D \ {x} : <<x, y>> \in R
  <1> DEFINE Firsts(M) == {x \in M : \A y \in M \ {x} : <<x, y>> \in R}
             Bad == {M \in FiniteSubsetsOf(D) : M # {} /\ Firsts(M) = {}}
             Less == StrictSubsetOrdering(D)
  <1>1. SUFFICES Bad = {}
    <2>1. D \in FiniteSubsetsOf(D)
      BY DEF FiniteSubsetsOf
    <2> QED  BY <2>1
  <1>2. SUFFICES ASSUME Bad # {} PROVE FALSE
    OBVIOUS
  <1>3. PICK M \in Bad : \A N \in Bad : <<N, M>> \notin Less
    <2> HIDE DEF Bad, Less
    <2>1. IsWellFoundedOn(Less, FiniteSubsetsOf(D))
      BY FS_StrictSubsetOrderingWellFounded DEF Less
    <2>2. Bad \subseteq FiniteSubsetsOf(D)
      BY DEF Bad
    <2> QED  BY <1>2, <2>1, <2>2, WFMin
  <1>4. M \subseteq D /\ IsFiniteSet(M)
    BY <1>3 DEF FiniteSubsetsOf
  <1>5. PICK x \in M : TRUE
    BY <1>3
  <1>6. M \ {x} \notin Bad
    <2> HIDE DEF Bad
    <2>1. M \ {x} \subseteq D /\ M \ {x} # M
      BY <1>4, <1>5
    <2>2. <<M \ {x}, M>> \in Less
      BY <2>1, <1>4 DEF StrictSubsetOrdering
    <2> QED  BY <1>3, <2>2
  <1>7. M \ {x} \in FiniteSubsetsOf(D)
    BY <1>4, FS_Subset DEF FiniteSubsetsOf
  <1>8. CASE M \ {x} = {}
    BY <1>3, <1>5, <1>8
  <1>9. CASE M \ {x} # {}
    <2>1. PICK y \in M \ {x} : \A z \in M \ {x, y} : <<y, z>> \in R
      BY <1>6, <1>7, <1>9
    <2>2. CASE <<y, x>> \in R
      <3>1. y \in Firsts(M)
        BY <2>1, <2>2
      <3> QED  BY <3>1, <1>3
    <2>3. CASE <<x, y>> \in R
      <3>1. \A z \in M \ {x, y} : <<x, z>> \in R
        BY <2>1, <2>3, <1>4, <1>5
      <3>2. x \in Firsts(M)
        BY <3>1, <2>3, <1>5
      <3> QED  BY <3>2, <1>3
    <2> QED  BY <2>1, <2>2, <2>3, <1>4, <1>5
  <1> QED  BY <1>8, <1>9

LEMMA SpecificityType == \A rule : RuleSpecificity(rule) \in Nat
  <1> TAKE rule
  <1> DEFINE Fields == {"capability", "riskClass", "pattern", "project", "profile"}
             Named == {f \in Fields : rule[f] # Any}
  <1>1. IsFiniteSet(Fields)
    <2>1. IsFiniteSet({"capability"}) /\ IsFiniteSet({"riskClass"}) /\ IsFiniteSet({"pattern"})
          /\ IsFiniteSet({"project"}) /\ IsFiniteSet({"profile"})
      BY FS_Singleton
    <2>2. IsFiniteSet({"capability"} \cup {"riskClass"}) /\ IsFiniteSet({"pattern"} \cup {"project"})
      BY <2>1, FS_Union
    <2>3. IsFiniteSet(({"capability"} \cup {"riskClass"}) \cup ({"pattern"} \cup {"project"}))
      BY <2>2, FS_Union
    <2>4. IsFiniteSet((({"capability"} \cup {"riskClass"}) \cup ({"pattern"} \cup {"project"})) \cup {"profile"})
      BY <2>1, <2>3, FS_Union
    <2>5. Fields = (({"capability"} \cup {"riskClass"}) \cup ({"pattern"} \cup {"project"})) \cup {"profile"}
      OBVIOUS
    <2> QED  BY <2>4, <2>5
  <1>2. IsFiniteSet(Named)
    <2> HIDE DEF Fields
    <2> QED  BY <1>1, FS_Subset
  <1>3. Cardinality(Named) \in Nat
    BY <1>2, FS_CardinalityType
  <1> QED  BY <1>3 DEF RuleSpecificity

Book(rules) ==
    /\ rules \in Seq({rules[i] : i \in DOMAIN rules})
    /\ \A i \in DOMAIN rules : rules[i].effect \in Effects /\ rules[i].priority \in Int

\* Of the rules that match there is a first one, and it comes before the others.
LEMMA FirstMatches ==
    ASSUME NEW a, NEW s, NEW rules, Book(rules), Matching(a, s, rules) # {}
    PROVE  /\ First(a, s, rules) \in Matching(a, s, rules)
           /\ \A j \in Matching(a, s, rules) \ {First(a, s, rules)} : Before(rules, First(a, s, rules), j)
  <1> DEFINE D == Matching(a, s, rules)
             R == {p \in D \X D : Before(rules, p[1], p[2])}
  <1>1. D \subseteq 1..Len(rules) /\ Len(rules) \in Nat
    BY LenProperties DEF Matching, Book
  <1>2. IsFiniteSet(D)
    <2> HIDE DEF D
    <2>1. IsFiniteSet(1..Len(rules))
      BY <1>1, FS_Interval
    <2> QED  BY <1>1, <2>1, FS_Subset
  <1>3. \A i \in D : rules[i].priority \in Int /\ RuleSpecificity(rules[i]) \in Nat /\ i \in Int
    BY <1>1, SpecificityType DEF Matching, Book
  <1>4. \A i, j \in D : i # j => Before(rules, i, j) \/ Before(rules, j, i)
    BY <1>3 DEF Before
  <1>5. \A i, j, k \in D : Before(rules, i, j) /\ Before(rules, j, k) => Before(rules, i, k)
    BY <1>3 DEF Before
  <1>6. \A i, j \in D : <<i, j>> \in R <=> Before(rules, i, j)
    OBVIOUS
  <1>7. \E i \in D : \A j \in D \ {i} : <<i, j>> \in R
    <2> HIDE DEF D, R
    <2>1. \A i, j \in D : i # j => <<i, j>> \in R \/ <<j, i>> \in R
      BY <1>4, <1>6
    <2>2. \A i, j, k \in D : <<i, j>> \in R /\ <<j, k>> \in R => <<i, k>> \in R
      BY <1>5, <1>6
    <2>3. D # {}
      BY DEF D
    <2> QED  BY <1>2, <2>1, <2>2, <2>3, FirstExists
  <1>8. \E i \in D : \A j \in D \ {i} : Before(rules, i, j)
    BY <1>6, <1>7
  <1> HIDE DEF D, R
  <1>9. First(a, s, rules) = CHOOSE i \in D : \A j \in D \ {i} : Before(rules, i, j)
    BY DEF First, D
  <1> QED  BY <1>8, <1>9 DEF D

--------------------------------------------------------------------------
(* One step *)

Step(k) == Evaluation(k) \/ Memory(k) \/ Version(k) \/ Audit(k)

\* A step moves one call, or none when the device or time does something.
LEMMA NextSteps ==
    [Next]_vars => \/ \E k \in Calls : Step(k)
                   \/ LoseDevice
                   \/ \E r \in remembered : Expire(r)
                   \/ UNCHANGED vars
  BY DEF Next, Step

\* A call that was not used is as it was at first, and what a call evaluates was requested.
CallShape ==
    \A k \in Calls :
       /\ call[k].op = "none" => call[k] = Idle
       /\ call[k].op = "evaluate" => <<call[k].a, call[k].s>> \in Requests
       /\ call[k].at \in {"device", "list", "put"} => call[k].op = "evaluate"
       /\ call[k].at \in {"list", "put"} => call[k].d = Decision("require_approval", "default")
       /\ call[k].at = "put" => call[k].rule \in RememberedRules
       /\ call[k].at = "write" => call[k].op = "activate"
       /\ call[k].version \in 0..Len(books)

TInv == TypeOK /\ CallShape

LEMMA IdleType == Idle \in CallRecords /\ Idle.op = "none" /\ Idle.at = "idle"
  BY ServiceAssumption DEF Idle, CallRecords, Decisions, Decision

\* Policy's decision is a decision.
LEMMA EvaluateType ==
    ASSUME NEW q \in Requests, NEW status, NEW rules, Book(rules)
    PROVE  Evaluate(q[1], q[2], status, rules) \in Decisions
  <1>1. q[1].risk \in RiskClasses
    BY RequestsAssumption
  <1>2. RiskClassDefaults(q[1].risk, q[2].profile) \in Effects
    BY <1>1 DEF RiskClassDefaults, RiskClasses, Effects
  <1>3. Matching(q[1], q[2], rules) # {} =>
           rules[First(q[1], q[2], rules)].effect \in Effects
    BY FirstMatches DEF Matching, Book
  <1> QED  BY <1>2, <1>3 DEF Evaluate, Decision, Decisions, Effects

\* The rules of a version there is, or of none, are a book.
LEMMA RulesAreABook ==
    ASSUME TypeOK, NEW v \in 0..Len(books)
    PROVE  Book(Rules(v))
  <1>1. CASE v = 0
    <2>1. <<>> \in Seq({<<>>[i] : i \in DOMAIN <<>>})
      BY EmptySeq
    <2> QED  BY <1>1, <2>1 DEF Rules, Book
  <1>2. CASE v # 0
    <2>1. books[v] \in RuleBooks
      BY <1>2, ElementOfSeq DEF TypeOK
    <2> QED  BY <1>2, <2>1, RulesAssumption DEF Rules, Book
  <1> QED  BY <1>1, <1>2

LEMMA TypeInit == Init => TInv
  <1> SUFFICES ASSUME Init PROVE TInv
    OBVIOUS
  <1>1. call \in [Calls -> CallRecords] /\ CallShape
    BY IdleType, ServiceAssumption, LenProperties DEF Init, CallShape, Idle
  <1>2. books \in Seq(RuleBooks) /\ Len(books) <= MaxVersions /\ Len(books) \in Nat
    BY ServiceAssumption, LenProperties DEF Init
  <1>3. active \subseteq DOMAIN books /\ settled \in 0..MaxVersions
    BY ServiceAssumption, <1>2, LenProperties DEF Init
  <1>4. FirstRules \subseteq RememberedRules
    BY ServiceAssumption DEF FirstRules, RememberedRules
  <1>5. log \in Seq([seq : Nat, prev : Nat])
    BY DEF Init
  <1> QED  BY <1>1, <1>2, <1>3, <1>4, <1>5, ServiceAssumption DEF Init, TInv, TypeOK, Statuses

\* What a call that moves must keep for its type and shape.
LEMMA OneCall ==
    ASSUME TInv, NEW k \in Calls, NEW c \in CallRecords,
           call' = [call EXCEPT ![k] = c],
           c.op # "none",
           c.op = "evaluate" => <<c.a, c.s>> \in Requests,
           c.at \in {"device", "list", "put"} => c.op = "evaluate",
           c.at \in {"list", "put"} => c.d = Decision("require_approval", "default"),
           c.at = "put" => c.rule \in RememberedRules,
           c.at = "write" => c.op = "activate",
           c.version \in 0..Len(books'), 0..Len(books) \subseteq 0..Len(books')
    PROVE  call' \in [Calls -> CallRecords] /\ CallShape'
  <1>1. call' \in [Calls -> CallRecords] /\ call'[k] = c /\ \A j \in Calls \ {k} : call'[j] = call[j]
    BY DEF TInv, TypeOK
  <1>2. CallShape
    BY DEF TInv
  <1> QED  BY <1>1, <1>2 DEF CallShape

LEMMA EvaluationType ==
    ASSUME TInv, NEW k \in Calls, Evaluation(k)
    PROVE  TInv'
  <1> USE DEF TInv
  <1>0. /\ call[k] \in CallRecords /\ call[k].version \in 0..Len(books)
        /\ Decision("require_approval", "default") \in Decisions
        /\ Decision("allow", "remembered") \in Decisions
    BY LenProperties DEF TypeOK, CallShape, Decision, Decisions, Effects
  <1>1. ASSUME StartEvaluate(k) PROVE TInv'
    <2>1. PICK q \in Requests, v \in IF active = {} THEN {0} ELSE active :
             call' = [call EXCEPT ![k] = [Idle EXCEPT !.op = "evaluate", !.at = "device",
                                             !.a = q[1], !.s = q[2], !.version = v]]
      BY <1>1 DEF StartEvaluate
    <2> DEFINE c == [Idle EXCEPT !.op = "evaluate", !.at = "device", !.a = q[1], !.s = q[2], !.version = v]
    <2>2. v \in 0..MaxVersions /\ v \in 0..Len(books)
      BY LenProperties, ServiceAssumption DEF TypeOK
    <2>3. c \in CallRecords
      BY <2>2, IdleType DEF CallRecords, Actions, Sessions
    <2>4. c.op = "evaluate" /\ c.at = "device" /\ <<c.a, c.s>> \in Requests /\ c.version = v
      BY RequestsAssumption DEF Idle
    <2>5. books' = books
      BY <1>1 DEF StartEvaluate
    <2> HIDE DEF c
    <2>6. call' \in [Calls -> CallRecords] /\ CallShape'
      BY <1>0, <2>1, <2>2, <2>3, <2>4, <2>5, OneCall DEF c
    <2> QED  BY <1>1, <2>6 DEF StartEvaluate, TypeOK
  <1>2. ASSUME ReadDevice(k) PROVE TInv'
    <2> DEFINE d == Evaluate(call[k].a, call[k].s, device, Rules(call[k].version))
               c == [call[k] EXCEPT !.d = d,
                       !.at = IF d = Decision("require_approval", "default") THEN "list" ELSE "log"]
    <2>1. /\ call[k].op = "evaluate" /\ <<call[k].a, call[k].s>> \in Requests
          /\ call' = [call EXCEPT ![k] = c]
      BY <1>0, <1>2 DEF ReadDevice, CallShape, TypeOK
    <2>2. d \in Decisions
      <3>1. Book(Rules(call[k].version))
        BY <1>0, RulesAreABook
      <3>2. PICK q \in Requests : q[1] = call[k].a /\ q[2] = call[k].s
        BY <2>1
      <3> QED  BY <3>1, <3>2, EvaluateType
    <2> HIDE DEF d
    <2>3. c \in CallRecords /\ c.op = "evaluate" /\ <<c.a, c.s>> \in Requests /\ c.at \in {"list", "log"}
          /\ (c.at = "list" => c.d = Decision("require_approval", "default")) /\ c.version = call[k].version
      BY <1>0, <2>1, <2>2 DEF CallRecords
    <2>4. books' = books
      BY <1>2 DEF ReadDevice
    <2> HIDE DEF c
    <2>5. call' \in [Calls -> CallRecords] /\ CallShape'
      BY <1>0, <2>1, <2>3, <2>4, OneCall
    <2> QED  BY <1>2, <2>5 DEF ReadDevice, TypeOK, history
  <1>3. ASSUME ListRules(k) PROVE TInv'
    <2> DEFINE Moved(at, r) == [call[k] EXCEPT !.at = at, !.rule = r]
    <2>0. Moved("log", call[k].rule) = [call[k] EXCEPT !.at = "log"]
      BY <1>0 DEF CallRecords
    <2>1. PICK r \in remembered \cup {call[k].rule}, at \in {"log", "put"} :
             /\ call' = [call EXCEPT ![k] = Moved(at, r)]
             /\ at = "put" => r \in remembered
      <3> DEFINE found == {r \in remembered \ expired : Answers(r, call[k].a, call[k].s)}
      <3>1. CASE found = {}
        <4>1. call' = [call EXCEPT ![k] = Moved("log", call[k].rule)]
          BY <1>3, <2>0, <3>1 DEF ListRules, Now
        <4> QED  BY <4>1
      <3>2. CASE found # {}
        <4>1. PICK r \in found : call' = [call EXCEPT ![k] = Moved("put", r)]
          BY <1>3, <3>2 DEF ListRules
        <4> QED  BY <4>1
      <3> QED  BY <3>1, <3>2
    <2> DEFINE c == Moved(at, r)
    <2>2. call[k].at = "list" /\ books' = books
      BY <1>3 DEF ListRules
    <2>3. c \in CallRecords /\ c.op = "evaluate" /\ <<c.a, c.s>> \in Requests /\ c.at = at /\ c.rule = r
          /\ c.d = Decision("require_approval", "default") /\ c.version = call[k].version
      BY <1>0, <2>1, <2>2 DEF CallRecords, CallShape, TypeOK
    <2>4. at = "put" => r \in RememberedRules
      BY <2>1 DEF TypeOK
    <2> HIDE DEF c
    <2>5. call' \in [Calls -> CallRecords] /\ CallShape'
      BY <1>0, <2>1, <2>2, <2>3, <2>4, OneCall DEF c
    <2> QED  BY <1>3, <2>5 DEF ListRules, TypeOK, history
  <1>4. ASSUME PutBack(k) PROVE TInv'
    <2> DEFINE c == [call[k] EXCEPT !.at = "log", !.d = Decision("allow", "remembered")]
    <2>1. call' = [call EXCEPT ![k] = c] /\ call[k].at = "put" /\ books' = books
      BY <1>0, <1>4 DEF PutBack
    <2>2. c \in CallRecords /\ c.op = "evaluate" /\ <<c.a, c.s>> \in Requests /\ c.at = "log"
          /\ c.version = call[k].version
      BY <1>0, <2>1 DEF CallRecords, CallShape, TypeOK
    <2> HIDE DEF c
    <2>3. call' \in [Calls -> CallRecords] /\ CallShape'
      BY <1>0, <2>1, <2>2, OneCall
    <2>4. remembered' \subseteq RememberedRules
      BY <1>4, <2>1 DEF PutBack, TypeOK, CallShape
    <2> QED  BY <1>4, <2>3, <2>4 DEF PutBack, TypeOK, history
  <1> QED  BY <1>1, <1>2, <1>3, <1>4 DEF Evaluation

LEMMA MemoryType ==
    ASSUME TInv, NEW k \in Calls, Memory(k)
    PROVE  TInv'
  <1> USE DEF TInv
  <1> DEFINE c(op) == [call[k] EXCEPT !.op = op, !.at = "log"]
  <1>0. call[k] \in CallRecords /\ call[k].version \in 0..Len(books)
    BY DEF TypeOK, CallShape
  <1>1. \A op \in {"remember", "revoke"} :
           c(op) \in CallRecords /\ c(op).op = op /\ c(op).at = "log" /\ c(op).version = call[k].version
    BY <1>0 DEF CallRecords
  <1>2. ASSUME NEW op \in {"remember", "revoke"}, call' = [call EXCEPT ![k] = c(op)], books' = books
        PROVE  call' \in [Calls -> CallRecords] /\ CallShape'
    <2> HIDE DEF c
    <2> QED  BY <1>0, <1>1, <1>2, OneCall
  <1>3. ASSUME Remember(k) PROVE TInv'
    <2>1. call' = [call EXCEPT ![k] = c("remember")] /\ books' = books
      BY <1>0, <1>3 DEF Remember
    <2>2. PICK j \in Calls, scope \in {"session", "project"} :
             /\ call[j].op = "evaluate"
             /\ remembered' = remembered \cup {RuleFor(call[j].a, call[j].s, scope)}
             /\ expired' = expired \ {RuleFor(call[j].a, call[j].s, scope)}
             /\ revoked' = revoked \ {RuleFor(call[j].a, call[j].s, scope)}
             /\ raced' = raced \ {RuleFor(call[j].a, call[j].s, scope)}
             /\ granted' = granted \cup {<<call[j].a, call[j].s>>}
      BY <1>3 DEF Remember
    <2>3. <<call[j].a, call[j].s>> \in Requests
      BY <2>2 DEF CallShape
    <2>4. RuleFor(call[j].a, call[j].s, scope) \in RememberedRules
      <3>1. PICK q \in Requests : q[1] = call[j].a /\ q[2] = call[j].s
        BY <2>3
      <3> QED  BY <3>1 DEF RememberedRules
    <2> QED  BY <1>2, <1>3, <2>1, <2>2, <2>3, <2>4 DEF Remember, TypeOK
  <1>4. ASSUME Revoke(k) PROVE TInv'
    <2>1. call' = [call EXCEPT ![k] = c("revoke")] /\ books' = books
      BY <1>0, <1>4 DEF Revoke
    <2>2. PICK r \in remembered :
             /\ remembered' = remembered \ {r} /\ revoked' = revoked \cup {r}
             /\ raced' \in {raced, raced \cup {r}}
      BY <1>4 DEF Revoke
    <2> QED  BY <1>2, <1>4, <2>1, <2>2 DEF Revoke, TypeOK
  <1> QED  BY <1>3, <1>4 DEF Memory

LEMMA VersionType ==
    ASSUME TInv, NEW k \in Calls, Version(k)
    PROVE  TInv'
  <1> USE DEF TInv
  <1>0. /\ call[k] \in CallRecords /\ call[k].version \in 0..Len(books)
        /\ Len(books) \in Nat /\ DOMAIN books = 1..Len(books) /\ MaxVersions \in Nat
    BY LenProperties, ServiceAssumption DEF TypeOK, CallShape
  <1>1. ASSUME CreateVersion(k) PROVE TInv'
    <2> DEFINE c == [call[k] EXCEPT !.op = "create", !.at = "log"]
    <2>1. PICK b \in RuleBooks : books' = Append(books, b)
      BY <1>1 DEF CreateVersion
    <2>2. books' \in Seq(RuleBooks) /\ Len(books') = Len(books) + 1 /\ DOMAIN books' = 1..Len(books')
      BY <2>1, AppendProperties, LenProperties DEF TypeOK
    <2>3. call' = [call EXCEPT ![k] = c]
      BY <1>0, <1>1 DEF CreateVersion
    <2>4. c \in CallRecords /\ c.op = "create" /\ c.at = "log" /\ c.version = call[k].version
      BY <1>0 DEF CallRecords
    <2> HIDE DEF c
    <2>5. call' \in [Calls -> CallRecords] /\ CallShape'
      <3>1. 0..Len(books) \subseteq 0..Len(books')
        BY <1>0, <2>2
      <3> QED  BY <1>0, <2>3, <2>4, <3>1, OneCall
    <2>6. active \subseteq DOMAIN books' /\ Len(books') <= MaxVersions
      BY <1>0, <1>1, <2>2 DEF CreateVersion, TypeOK
    <2> QED  BY <1>1, <2>2, <2>5, <2>6 DEF CreateVersion, TypeOK, history
  <1>2. ASSUME StartActivate(k) PROVE TInv'
    <2> DEFINE c(v) == [Idle EXCEPT !.op = "activate", !.version = v,
                          !.at = IF books = <<>> THEN "done" ELSE "write", !.todo = DOMAIN books]
    <2>1. PICK v \in 0..Len(books) : call' = [call EXCEPT ![k] = c(v)]
      BY <1>2 DEF StartActivate
    <2>2. c(v) \in CallRecords /\ c(v).op = "activate" /\ c(v).at \in {"done", "write"} /\ c(v).version = v
      <3>1. DOMAIN books \subseteq 1..MaxVersions /\ v \in 0..MaxVersions
        BY <1>0, <2>1 DEF TypeOK
      <3> DEFINE at == IF books = <<>> THEN "done" ELSE "write"
                 todo == DOMAIN books
      <3>2. at \in {"done", "write"}
        OBVIOUS
      <3> HIDE DEF at, todo
      <3>3. c(v) = [Idle EXCEPT !.op = "activate", !.version = v, !.at = at, !.todo = todo]
        BY DEF at, todo
      <3>4. todo \in SUBSET (1..MaxVersions)
        BY <3>1 DEF todo
      <3> QED  BY <3>1, <3>2, <3>3, <3>4, IdleType DEF CallRecords
    <2>3. books' = books
      BY <1>2 DEF StartActivate
    <2> HIDE DEF c
    <2>4. call' \in [Calls -> CallRecords] /\ CallShape'
      BY <2>1, <2>2, <2>3, OneCall
    <2>5. muddled' \subseteq Calls
      BY <1>2 DEF StartActivate, Activating, TypeOK
    <2> QED  BY <1>2, <2>4, <2>5 DEF StartActivate, TypeOK
  <1>3. ASSUME WriteActive(k) PROVE TInv'
    <2> DEFINE Moved(v) == [call[k] EXCEPT !.todo = @ \ {v}]
               Ended == [call[k] EXCEPT !.todo = {}, !.at = IF call[k].version = 0 THEN "done" ELSE "log"]
    <2>1. PICK v \in call[k].todo :
             /\ active' \in {active \ {v}} \cup (IF v = call[k].version THEN {active \cup {v}} ELSE {})
             /\ \/ call' = [call EXCEPT ![k] = Moved(v)] /\ UNCHANGED settled
                \/ call' = [call EXCEPT ![k] = Ended] /\ settled' \in {0, call[k].version}
      BY <1>0, <1>3 DEF WriteActive
    <2>2. call[k].op = "activate" /\ books' = books
      BY <1>3 DEF WriteActive, CallShape
    <2>3. ASSUME NEW c \in {Moved(v), Ended} 
          PROVE  /\ c \in CallRecords /\ c.op = "activate" /\ c.version = call[k].version
                 /\ c.at \in {"write", "log", "done"}
      <3>1. call[k].at = "write"
        BY <1>3 DEF WriteActive
      <3>2. CASE c = Moved(v)
        BY <1>0, <2>2, <3>1, <3>2 DEF CallRecords
      <3>3. CASE c = Ended
        BY <1>0, <2>2, <3>3 DEF CallRecords
      <3> QED  BY <2>3, <3>2, <3>3
    <2>4. PICK c \in {Moved(v), Ended} : call' = [call EXCEPT ![k] = c]
      BY <2>1
    <2> HIDE DEF Moved, Ended
    <2>5. call' \in [Calls -> CallRecords] /\ CallShape'
      BY <1>0, <2>2, <2>3, <2>4, OneCall
    <2>6. call[k].version \in 0..MaxVersions
      BY <1>0 DEF CallRecords
    <2>7. settled' \in 0..MaxVersions
      BY <2>1, <2>6, <1>0 DEF TypeOK
    <2>8. active' \subseteq DOMAIN books
      <3>1. v = call[k].version => v \in DOMAIN books \/ v = 0
        BY <1>0
      <3>2. v # 0
        BY <1>0 DEF CallRecords
      <3> QED  BY <2>1, <3>1, <3>2 DEF TypeOK
    <2> QED  BY <1>3, <2>5, <2>7, <2>8 DEF WriteActive, TypeOK
  <1> QED  BY <1>1, <1>2, <1>3 DEF Version

LEMMA LogType ==
    ASSUME TypeOK
    PROVE  /\ \A i \in DOMAIN log : log[i] \in [seq : Nat, prev : Nat]
           /\ DOMAIN log = 1..Len(log) /\ Len(log) \in Nat
  BY ElementOfSeq, LenProperties DEF TypeOK

\* There is a highest sequence.
LEMMA HighestType ==
    ASSUME TypeOK
    PROVE  /\ Highest \in Nat
           /\ \A i \in DOMAIN log : log[i].seq <= Highest
           /\ log # <<>> => \E i \in DOMAIN log : log[i].seq = Highest
  <1>1. CASE log = <<>>
    BY <1>1 DEF Highest
  <1>2. CASE log # <<>>
    <2> DEFINE R == {p \in (DOMAIN log) \X (DOMAIN log) : log[p[1]].seq >= log[p[2]].seq}
    <2>1. \A i \in DOMAIN log : log[i].seq \in Nat
      BY LogType
    <2>2. IsFiniteSet(DOMAIN log) /\ DOMAIN log # {}
      <3>1. DOMAIN log = 1..Len(log) /\ Len(log) \in Nat
        BY LogType
      <3>2. IsFiniteSet(1..Len(log))
        BY <3>1, FS_Interval
      <3>3. Len(log) # 0
        BY <1>2, EmptySeq DEF TypeOK
      <3> QED  BY <3>1, <3>2, <3>3
    <2>3. \A i, j \in DOMAIN log : <<i, j>> \in R <=> log[i].seq >= log[j].seq
      OBVIOUS
    <2>4. \E i \in DOMAIN log : \A j \in DOMAIN log \ {i} : <<i, j>> \in R
      <3>1. \A i, j \in DOMAIN log : i # j => <<i, j>> \in R \/ <<j, i>> \in R
        BY <2>1, <2>3
      <3>2. \A i, j, k \in DOMAIN log : <<i, j>> \in R /\ <<j, k>> \in R => <<i, k>> \in R
        BY <2>1, <2>3
      <3> HIDE DEF R
      <3> QED  BY <2>2, <3>1, <3>2, FirstExists
    <2>5. PICK i \in DOMAIN log : \A j \in DOMAIN log : log[j].seq <= log[i].seq
      <3>1. PICK i \in DOMAIN log : \A j \in DOMAIN log \ {i} : <<i, j>> \in R
        BY <2>4
      <3>2. \A j \in DOMAIN log \ {i} : log[i].seq >= log[j].seq
        BY <2>3, <3>1
      <3>3. \A j \in DOMAIN log : log[j].seq <= log[i].seq
        BY <2>1, <3>2
      <3> QED  BY <3>3
    <2>6. \E n \in {log[j].seq : j \in DOMAIN log} : \A j \in DOMAIN log : log[j].seq <= n
      BY <2>5
    <2>7. /\ Highest \in {log[j].seq : j \in DOMAIN log}
          /\ \A j \in DOMAIN log : log[j].seq <= Highest
      BY <1>2, <2>6 DEF Highest
    <2> QED  BY <2>1, <2>7
  <1> QED  BY <1>1, <1>2

LEMMA AuditType ==
    ASSUME TInv, NEW k \in Calls, Audit(k)
    PROVE  TInv'
  <1> USE DEF TInv
  <1>0. call[k] \in CallRecords /\ call[k].version \in 0..Len(books)
    BY DEF TypeOK, CallShape
  <1>1. ASSUME ReadSeq(k) PROVE TInv'
    <2> DEFINE c == [call[k] EXCEPT !.seq = Highest + 1, !.at = "prev"]
    <2>1. call' = [call EXCEPT ![k] = c] /\ books' = books /\ call[k].at = "log" /\ call[k].op # "none"
      BY <1>0, <1>1, IdleType DEF ReadSeq, CallShape
    <2>2. c \in CallRecords /\ c.op = call[k].op /\ c.at = "prev" /\ c.version = call[k].version
          /\ c.a = call[k].a /\ c.s = call[k].s
      <3>1. Highest + 1 \in Nat
        BY HighestType
      <3> HIDE DEF c
      <3>2. PICK n \in Nat : n = Highest + 1
        BY <3>1
      <3>3. c = [call[k] EXCEPT !.seq = n, !.at = "prev"]
        BY <3>2 DEF c
      <3> QED  BY <1>0, <3>3 DEF CallRecords
    <2> HIDE DEF c
    <2>3. c.op = "evaluate" => <<c.a, c.s>> \in Requests
      BY <2>2 DEF CallShape
    <2>4. call' \in [Calls -> CallRecords] /\ CallShape'
      BY <1>0, <2>1, <2>2, <2>3, OneCall
    <2> QED  BY <1>1, <2>4 DEF ReadSeq, TypeOK
  <1>2. ASSUME ReadPrev(k) PROVE TInv'
    <2>1. PICK i \in Top : call' = [call EXCEPT ![k] = [call[k] EXCEPT !.prev = i, !.at = "store"]]
      BY <1>0, <1>2 DEF ReadPrev
    <2> DEFINE c == [call[k] EXCEPT !.prev = i, !.at = "store"]
    <2>2. books' = books /\ call[k].at = "prev" /\ call[k].op # "none"
      BY <1>2, IdleType DEF ReadPrev, CallShape
    <2>3. i \in Nat
      BY LogType DEF Top
    <2>4. c \in CallRecords /\ c.op = call[k].op /\ c.at = "store" /\ c.version = call[k].version
          /\ c.a = call[k].a /\ c.s = call[k].s
      BY <1>0, <2>3 DEF CallRecords
    <2> HIDE DEF c
    <2>5. c.op = "evaluate" => <<c.a, c.s>> \in Requests
      BY <2>4 DEF CallShape
    <2>6. call' \in [Calls -> CallRecords] /\ CallShape'
      BY <1>0, <2>1, <2>2, <2>4, <2>5, OneCall DEF c
    <2> QED  BY <1>2, <2>6 DEF ReadPrev, TypeOK, history
  <1>3. ASSUME StoreEntry(k) PROVE TInv'
    <2> DEFINE c == [call[k] EXCEPT !.at = "done"]
               e == [seq |-> call[k].seq, prev |-> call[k].prev]
    <2>1. call' = [call EXCEPT ![k] = c] /\ books' = books /\ call[k].at = "store" /\ call[k].op # "none"
          /\ log' = Append(log, e)
      BY <1>0, <1>3, IdleType DEF StoreEntry, Now, CallShape
    <2>2. c \in CallRecords /\ c.op = call[k].op /\ c.at = "done" /\ c.version = call[k].version
          /\ c.a = call[k].a /\ c.s = call[k].s /\ e \in [seq : Nat, prev : Nat]
      BY <1>0 DEF CallRecords
    <2> HIDE DEF c, e
    <2>3. c.op = "evaluate" => <<c.a, c.s>> \in Requests
      BY <2>2 DEF CallShape
    <2>4. call' \in [Calls -> CallRecords] /\ CallShape'
      BY <1>0, <2>1, <2>2, <2>3, OneCall
    <2>5. log' \in Seq([seq : Nat, prev : Nat])
      BY <2>1, <2>2, AppendProperties DEF TypeOK
    <2> QED  BY <1>3, <2>4, <2>5 DEF StoreEntry, TypeOK, history
  <1> QED  BY <1>1, <1>2, <1>3 DEF Audit

LEMMA TypeStep == TInv /\ [Next]_vars => TInv'
  <1> SUFFICES ASSUME TInv, [Next]_vars PROVE TInv'
    OBVIOUS
  <1> USE DEF TInv
  <1>1. CASE \E k \in Calls : Step(k)
    BY <1>1, EvaluationType, MemoryType, VersionType, AuditType DEF Step
  <1>2. CASE LoseDevice
    BY <1>2 DEF LoseDevice, TypeOK, CallShape, Statuses, history
  <1>3. CASE \E r \in remembered : Expire(r)
    BY <1>3 DEF Expire, TypeOK, CallShape, history
  <1>4. CASE UNCHANGED vars
    BY <1>4 DEF vars, history, TypeOK, CallShape
  <1> QED  BY <1>1, <1>2, <1>3, <1>4, NextSteps

\* Every variable keeps its type.
THEOREM TypeCorrect == Spec => []TypeOK
  <1>1. Spec => []TInv
    BY TypeInit, TypeStep, PTL DEF Spec
  <1> QED  BY <1>1, PTL DEF TInv

--------------------------------------------------------------------------
(* Decisions *)

Alike(c, d) == c.op = d.op /\ c.a = d.a /\ c.s = d.s /\ c.d = d.d /\ c.version = d.version

\* How one call moves, whoever takes the step.
LEMMA CallMoves ==
    ASSUME TInv, [Next]_vars, NEW k \in Calls
    PROVE  \/ call'[k] = call[k]
           \/ StartEvaluate(k) \/ ReadDevice(k) \/ ListRules(k) \/ PutBack(k)
           \/ call'[k].op \in {"create", "activate", "remember", "revoke"} /\ call'[k].at # "put"
           \/ /\ Alike(call'[k], call[k]) /\ call'[k].at # "put"
              /\ call[k].at \in {"log", "prev", "store"}
  <1>0. call \in [Calls -> CallRecords] /\ CallShape
    BY DEF TInv, TypeOK
  <1>1. ASSUME NEW j \in Calls, j # k, Step(j) PROVE call'[k] = call[k]
    BY <1>0, <1>1 DEF Step, Evaluation, Memory, Version, Audit, StartEvaluate, ReadDevice, ListRules,
       PutBack, Remember, Revoke, CreateVersion, StartActivate, WriteActive, ReadSeq, ReadPrev, StoreEntry, Now
  <1>2. ASSUME Memory(k) \/ CreateVersion(k)
        PROVE  call'[k].op \in {"create", "remember", "revoke"} /\ call'[k].at # "put"
    BY <1>0, <1>2 DEF Memory, Remember, Revoke, CreateVersion, CallRecords
  <1>3. ASSUME StartActivate(k)
        PROVE  call'[k].op = "activate" /\ call'[k].at # "put"
    BY <1>0, <1>3 DEF StartActivate, Idle
  <1>4. ASSUME WriteActive(k)
        PROVE  call'[k].op = "activate" /\ call'[k].at # "put"
    <2>1. call[k].at = "write" /\ call[k].op = "activate"
      BY <1>0, <1>4 DEF WriteActive, CallShape
    <2>2. PICK v \in call[k].todo, at \in {"write", "done", "log"} :
             call' = [call EXCEPT ![k] = [call[k] EXCEPT !.todo = call[k].todo \ {v}, !.at = at]]
      <3>1. PICK v \in call[k].todo :
               IF call[k].todo # {v}
               THEN call' = [call EXCEPT ![k].todo = @ \ {v}]
               ELSE call' = [call EXCEPT ![k].todo = {}, ![k].at = IF call[k].version = 0 THEN "done" ELSE "log"]
        BY <1>4 DEF WriteActive
      <3>2. CASE call[k].todo # {v}
        <4>1. [call[k] EXCEPT !.todo = call[k].todo \ {v}, !.at = "write"] = [call[k] EXCEPT !.todo = call[k].todo \ {v}]
          BY <1>0, <2>1 DEF CallRecords
        <4> QED  BY <3>1, <3>2, <4>1, <1>0
      <3>3. CASE call[k].todo = {v}
        <4>1. call[k].todo \ {v} = {}
          BY <3>3
        <4>2. call' = [call EXCEPT ![k] = [call[k] EXCEPT !.todo = {}, !.at = IF call[k].version = 0 THEN "done" ELSE "log"]]
          BY <3>1, <3>3, <1>0
        <4> QED  BY <4>1, <4>2, <3>1
      <3> QED  BY <3>2, <3>3
    <2> QED  BY <1>0, <2>1, <2>2 DEF CallRecords
  <1>5. ASSUME Audit(k)
        PROVE  /\ Alike(call'[k], call[k]) /\ call'[k].at # "put"
               /\ call[k].at \in {"log", "prev", "store"}
    <2>1. ASSUME ReadSeq(k) PROVE Alike(call'[k], call[k]) /\ call'[k].at # "put"
      <3>1. PICK n : call' = [call EXCEPT ![k] = [call[k] EXCEPT !.seq = n, !.at = "prev"]]
        BY <1>0, <2>1 DEF ReadSeq
      <3> QED  BY <1>0, <3>1 DEF Alike, CallRecords
    <2>2. ASSUME ReadPrev(k) PROVE Alike(call'[k], call[k]) /\ call'[k].at # "put"
      <3>1. PICK n : call' = [call EXCEPT ![k] = [call[k] EXCEPT !.prev = n, !.at = "store"]]
        BY <1>0, <2>2 DEF ReadPrev
      <3> QED  BY <1>0, <3>1 DEF Alike, CallRecords
    <2>3. ASSUME StoreEntry(k) PROVE Alike(call'[k], call[k]) /\ call'[k].at # "put"
      BY <1>0, <2>3 DEF StoreEntry, Now, Alike, CallRecords
    <2> QED  BY <1>5, <2>1, <2>2, <2>3 DEF Audit, ReadSeq, ReadPrev, StoreEntry
  <1>6. CASE \E j \in Calls : Step(j)
    BY <1>1, <1>2, <1>3, <1>4, <1>5, <1>6 DEF Step, Evaluation, Version
  <1>7. CASE LoseDevice \/ (\E r \in remembered : Expire(r)) \/ UNCHANGED vars
    BY <1>7 DEF LoseDevice, Expire, vars
  <1> QED  BY <1>6, <1>7, NextSteps

\* What was decided past the floor and the device.
Decided(k) == call[k].d.by \in {"rule", "default", "remembered"}

FloorInv ==
    /\ \A k \in Evaluations :
          /\ Decided(k) => ~Floored(call[k].a) /\ k \notin late
          /\ call[k].d.effect = "allow" => Decided(k)
    /\ late # {} => device = "lost"

LEMMA FloorInit == Init => FloorInv
  BY DEF Init, FloorInv, Evaluations, Idle

LEMMA LateSteps ==
    ASSUME TInv, [Next]_vars, NEW k \in Calls
    PROVE  /\ late # {} /\ device = "lost" => device' = "lost"
           /\ StartEvaluate(k) \/ (k \in late' <=> k \in late)
           /\ late' # {} => late # {} \/ device' = "lost"
  <1>1. CASE \E j \in Calls : Step(j)
    <2>1. PICK j \in Calls : Step(j)
      BY <1>1
    <2>2. CASE StartEvaluate(j)
      BY <2>2 DEF StartEvaluate, TInv, TypeOK, Statuses
    <2>3. CASE ~StartEvaluate(j)
      BY <2>1, <2>3 DEF Step, Evaluation, Memory, Version, Audit, ReadDevice, ListRules, PutBack, Remember,
         Revoke, CreateVersion, StartActivate, WriteActive, ReadSeq, ReadPrev, StoreEntry, history
    <2> QED  BY <2>2, <2>3
  <1>2. CASE LoseDevice \/ (\E r \in remembered : Expire(r)) \/ UNCHANGED vars
    BY <1>2 DEF LoseDevice, Expire, vars, history
  <1> QED  BY <1>1, <1>2, NextSteps

LEMMA FloorStep == TInv /\ FloorInv /\ [Next]_vars => FloorInv'
  <1> SUFFICES ASSUME TInv, FloorInv, [Next]_vars PROVE FloorInv'
    OBVIOUS
  <1>0. call \in [Calls -> CallRecords] /\ CallShape /\ (late # {} => device = "lost")
    BY DEF TInv, TypeOK, FloorInv
  <1>1. ASSUME NEW k \in Calls, call'[k].op = "evaluate"
        PROVE  /\ Decided(k)' => ~Floored(call'[k].a) /\ k \notin late'
               /\ call'[k].d.effect = "allow" => Decided(k)'
    <2>1. StartEvaluate(k) \/ (k \in late' <=> k \in late)
      BY LateSteps
    <2>2. CASE call'[k] = call[k]
      <3>1. StartEvaluate(k) => call[k].op = "none"
        BY DEF StartEvaluate, Fresh
      <3> QED  BY <1>1, <2>1, <2>2, <3>1 DEF FloorInv, Evaluations, Decided
    <2>3. CASE StartEvaluate(k)
      BY <1>0, <2>3 DEF StartEvaluate, Decided, Idle, Decision
    <2>4. CASE ReadDevice(k)
      <3>1. /\ call'[k].d = Evaluate(call[k].a, call[k].s, device, Rules(call[k].version))
            /\ call'[k].a = call[k].a
        BY <1>0, <2>4 DEF ReadDevice, CallRecords
      <3>2. k \in late => device # "trusted"
        BY <1>0
      <3>3. UNCHANGED late
        BY <2>4 DEF ReadDevice, history
      <3> QED  BY <3>1, <3>2, <3>3 DEF Evaluate, Decision, Decided
    <2>5. CASE ListRules(k)
      <3>1. Alike(call'[k], call[k]) /\ UNCHANGED late
        BY <1>0, <2>5 DEF ListRules, Now, Alike, CallRecords, history
      <3> QED  BY <1>1, <3>1 DEF Alike, FloorInv, Evaluations, Decided
    <2>6. CASE PutBack(k)
      <3>1. call[k].op = "evaluate" /\ call[k].d = Decision("require_approval", "default")
        BY <2>6 DEF PutBack, TInv, CallShape
      <3>2. Decided(k) /\ k \in Evaluations
        BY <3>1 DEF Decided, Decision, Evaluations
      <3>3. call'[k].d = Decision("allow", "remembered") /\ call'[k].a = call[k].a /\ UNCHANGED late
        BY <1>0, <2>6 DEF PutBack, CallRecords, history
      <3> QED  BY <3>2, <3>3 DEF FloorInv, Decided, Decision
    <2>7. CASE Alike(call'[k], call[k])
      <3>1. StartEvaluate(k) => call[k].op = "none"
        BY DEF StartEvaluate, Fresh
      <3> QED  BY <1>1, <2>1, <2>7, <3>1 DEF Alike, FloorInv, Evaluations, Decided
    <2> QED  BY <1>1, <2>2, <2>3, <2>4, <2>5, <2>6, <2>7, CallMoves
  <1>2. late' # {} => device' = "lost"
    <2>1. CASE Calls = {}
      BY <2>1, <1>0, NextSteps DEF TInv, TypeOK, LoseDevice, Expire, vars, history
    <2> QED  BY <1>0, <2>1, LateSteps
  <1> QED  BY <1>1, <1>2 DEF FloorInv, Evaluations

\* What the floor denies is never allowed, nor anything to a device that was
\* not trusted when it asked.
THEOREM FloorHoldsAlways == Spec => []FloorHolds
  <1>1. Spec => [](TInv /\ FloorInv)
    BY TypeInit, TypeStep, FloorInit, FloorStep, PTL DEF Spec
  <1>2. FloorInv => FloorHolds
    BY DEF FloorInv, FloorHolds, Allowed
  <1> QED  BY <1>1, <1>2, PTL

Matched(k) == Matching(call[k].a, call[k].s, Rules(call[k].version))
FirstRule(k) == Rules(call[k].version)[First(call[k].a, call[k].s, Rules(call[k].version))]

RulesInv ==
    \A k \in Evaluations :
       /\ call[k].d.effect = "allow" => call[k].d.by \in {"rule", "default", "remembered"}
       /\ call[k].d.by \in {"default", "remembered"} => Matched(k) = {}
       /\ call[k].d.effect = "allow" /\ call[k].d.by = "rule" =>
             Matched(k) # {} /\ FirstRule(k).effect = "allow"

LEMMA RulesInit == Init => RulesInv
  BY DEF Init, RulesInv, Evaluations, Idle

\* A version that is there keeps its rules.
LEMMA VersionsStay ==
    ASSUME TInv, [Next]_vars, NEW v \in 0..Len(books)
    PROVE  Rules(v)' = Rules(v)
  <1>1. CASE \E j \in Calls : CreateVersion(j)
    <2>1. PICK b \in RuleBooks : books' = Append(books, b)
      BY <1>1 DEF CreateVersion
    <2>2. Len(books) \in Nat /\ \A i \in 1..Len(books) : books'[i] = books[i]
      BY <2>1, AppendProperties, LenProperties DEF TInv, TypeOK
    <2> QED  BY <2>2 DEF Rules
  <1>2. CASE ~\E j \in Calls : CreateVersion(j)
    <2>1. books' = books
      BY <1>2, NextSteps DEF Step, Evaluation, Memory, Version, Audit, StartEvaluate, ReadDevice, ListRules,
         PutBack, Remember, Revoke, StartActivate, WriteActive, ReadSeq, ReadPrev, StoreEntry,
         LoseDevice, Expire, vars
    <2> QED  BY <2>1 DEF Rules
  <1> QED  BY <1>1, <1>2

LEMMA RulesStep == TInv /\ RulesInv /\ [Next]_vars => RulesInv'
  <1> SUFFICES ASSUME TInv, RulesInv, [Next]_vars, NEW k \in Calls, call'[k].op = "evaluate"
               PROVE  /\ call'[k].d.effect = "allow" => call'[k].d.by \in {"rule", "default", "remembered"}
                      /\ call'[k].d.by \in {"default", "remembered"} => Matched(k)' = {}
                      /\ call'[k].d.effect = "allow" /\ call'[k].d.by = "rule" =>
                            Matched(k)' # {} /\ FirstRule(k)'.effect = "allow"
    BY DEF RulesInv, Evaluations
  <1>0. call \in [Calls -> CallRecords] /\ CallShape /\ call[k].version \in 0..Len(books)
    BY DEF TInv, TypeOK, CallShape
  <1>2. ASSUME call'[k].a = call[k].a, call'[k].s = call[k].s, call'[k].version = call[k].version
        PROVE  Matched(k)' = Matched(k) /\ FirstRule(k)' = FirstRule(k)
    <2>2. \A w \in 0..Len(books) : Rules(w)' = Rules(w)
      BY VersionsStay
    <2>3. (Rules(call[k].version))' = Rules(call[k].version)
      BY <1>0, <1>2, <2>2 DEF Rules
    <2>4. Matching(call'[k].a, call'[k].s, Rules(call[k].version)') = Matching(call[k].a, call[k].s, Rules(call[k].version))
      BY <1>2, <2>3
    <2>5. First(call'[k].a, call'[k].s, Rules(call[k].version)') = First(call[k].a, call[k].s, Rules(call[k].version))
      BY <1>2, <2>3
    <2> QED  BY <2>3, <2>4, <2>5 DEF Matched, FirstRule
  <1>3. CASE Alike(call'[k], call[k]) \/ call'[k] = call[k]
    BY <1>2, <1>3 DEF Alike, RulesInv, Evaluations
  <1>4. CASE StartEvaluate(k)
    BY <1>0, <1>4 DEF StartEvaluate, Idle, Decision
  <1>5. CASE ReadDevice(k)
    <2>1. /\ call'[k].d = Evaluate(call[k].a, call[k].s, device, Rules(call[k].version))
          /\ call'[k].a = call[k].a /\ call'[k].s = call[k].s /\ call'[k].version = call[k].version
      BY <1>0, <1>5 DEF ReadDevice, CallRecords
    <2>2. Matched(k)' = Matched(k) /\ FirstRule(k)' = FirstRule(k)
      BY <1>2, <2>1
    <2>3. call'[k].d \in {Decision("deny", "floor"), Decision("deny", "device")}
          \/ (Matched(k) # {} /\ call'[k].d = Decision(FirstRule(k).effect, "rule"))
          \/ (Matched(k) = {} /\ call'[k].d = Decision(RiskClassDefaults(call[k].a.risk, call[k].s.profile), "default"))
      BY <2>1 DEF Evaluate, Matched, FirstRule
    <2> QED  BY <2>2, <2>3 DEF Decision
  <1>6. CASE ListRules(k)
    <2>1. Alike(call'[k], call[k])
      BY <1>0, <1>6 DEF ListRules, Now, Alike, CallRecords
    <2> QED  BY <1>3, <2>1
  <1>7. CASE PutBack(k)
    <2>1. call[k].op = "evaluate" /\ call[k].d = Decision("require_approval", "default")
      BY <1>7 DEF PutBack, TInv, CallShape
    <2>2. /\ call'[k].d = Decision("allow", "remembered")
          /\ call'[k].a = call[k].a /\ call'[k].s = call[k].s /\ call'[k].version = call[k].version
      BY <1>0, <1>7 DEF PutBack, CallRecords
    <2>3. Matched(k) = {}
      BY <2>1 DEF RulesInv, Evaluations, Decision
    <2> QED  BY <1>2, <2>2, <2>3 DEF Decision
  <1> QED  BY <1>3, <1>4, <1>5, <1>6, <1>7, CallMoves

\* No rule is overruled by one of lower priority, by a default or by a
\* remembered approval.
THEOREM RulesStandAlways == Spec => []RulesStand
  <1>1. Spec => [](TInv /\ RulesInv)
    BY TypeInit, TypeStep, RulesInit, RulesStep, PTL DEF Spec
  <1>2. TInv /\ RulesInv => RulesStand
    <2> SUFFICES ASSUME TInv, RulesInv, NEW k \in Allowed, NEW i \in Matched(k),
                        Rules(call[k].version)[i].effect # "allow"
                 PROVE  \E j \in Matched(k) :
                           /\ Rules(call[k].version)[j].effect = "allow"
                           /\ Rules(call[k].version)[j].priority >= Rules(call[k].version)[i].priority
      BY DEF RulesStand, Matched
    <2> DEFINE rules == Rules(call[k].version)
               j == First(call[k].a, call[k].s, rules)
    <2>1. k \in Evaluations /\ call[k].d.effect = "allow" /\ Matched(k) # {}
      BY DEF Allowed, Evaluations
    <2>2. rules[j].effect = "allow"
      BY <2>1 DEF RulesInv, FirstRule
    <2>3. Book(rules)
      <3>1. call[k].version \in 0..Len(books)
        BY <2>1 DEF TInv, CallShape, Evaluations
      <3> QED  BY <3>1, RulesAreABook DEF TInv
    <2> HIDE DEF rules
    <2>4. j \in Matched(k) /\ (i # j => Before(rules, j, i))
      BY <2>1, <2>3, FirstMatches DEF Matched, rules
    <2>5. rules[i].priority \in Int /\ rules[j].priority \in Int /\ i # j
      BY <2>2, <2>3, <2>4 DEF Book, Matched, Matching, rules
    <2>6. rules[j].priority - rules[i].priority >= 0
      BY <2>4, <2>5, SpecificityType DEF Before
    <2> QED  BY <2>2, <2>4, <2>5, <2>6 DEF rules
  <1> QED  BY <1>1, <1>2, PTL

--------------------------------------------------------------------------
(* Remembered approvals *)

\* A rule was made of an approval that was granted.
Made(r, G) == \E g \in G, scope \in {"session", "project"} :
                 Rememberable(g[1]) /\ r = RuleFor(g[1], g[2], scope)

GrantInv ==
    /\ \A r \in remembered : Made(r, granted)
    /\ \A k \in Calls :
          /\ call[k].at = "put" => Made(call[k].rule, granted) /\ Answers(call[k].rule, call[k].a, call[k].s)
          /\ call[k].op = "evaluate" /\ call[k].d.by = "remembered" =>
                \E r \in RememberedRules : Made(r, granted) /\ Answers(r, call[k].a, call[k].s)

LEMMA GrantInit == Init => GrantInv
  <1> SUFFICES ASSUME Init PROVE GrantInv
    OBVIOUS
  <1>1. \A r \in remembered : Made(r, granted)
    BY DEF Init, FirstRules, Made
  <1> QED  BY <1>1 DEF Init, GrantInv, Idle

LEMMA GrantSteps ==
    ASSUME TInv, GrantInv, [Next]_vars
    PROVE  /\ granted \subseteq granted'
           /\ \A r \in remembered' : Made(r, granted')
  <1>1. ASSUME granted \subseteq granted', NEW r, Made(r, granted) PROVE Made(r, granted')
    BY <1>1 DEF Made
  <1>2. ASSUME NEW k \in Calls, PutBack(k)
        PROVE  granted' = granted /\ \A r \in remembered' : Made(r, granted)
    BY <1>2 DEF PutBack, GrantInv, history
  <1>3. ASSUME NEW k \in Calls, Remember(k)
        PROVE  granted \subseteq granted' /\ \A r \in remembered' \ remembered : Made(r, granted')
    <2>1. PICK j \in Calls, scope \in {"session", "project"} :
             /\ Rememberable(call[j].a)
             /\ remembered' = remembered \cup {RuleFor(call[j].a, call[j].s, scope)}
             /\ granted' = granted \cup {<<call[j].a, call[j].s>>}
      BY <1>3 DEF Remember
    <2> DEFINE g == <<call[j].a, call[j].s>>
    <2>2. g \in granted' /\ g[1] = call[j].a /\ g[2] = call[j].s
      BY <2>1
    <2> HIDE DEF g
    <2>3. \A r \in remembered' \ remembered : r = RuleFor(g[1], g[2], scope) /\ Rememberable(g[1])
      BY <2>1, <2>2
    <2> QED  BY <2>1, <2>2, <2>3 DEF Made
  <1>4. CASE \E k \in Calls : PutBack(k) \/ Remember(k)
    BY <1>1, <1>2, <1>3, <1>4 DEF GrantInv
  <1>5. CASE ~\E k \in Calls : PutBack(k) \/ Remember(k)
    <2>1. granted' = granted /\ remembered' \subseteq remembered
      BY <1>5, NextSteps DEF Step, Evaluation, Memory, Version, Audit, StartEvaluate, ReadDevice, ListRules,
         Revoke, CreateVersion, StartActivate, WriteActive, ReadSeq, ReadPrev, StoreEntry,
         LoseDevice, Expire, vars, history
    <2> QED  BY <1>1, <2>1 DEF GrantInv
  <1> QED  BY <1>4, <1>5

LEMMA GrantStep == TInv /\ GrantInv /\ [Next]_vars => GrantInv'
  <1> SUFFICES ASSUME TInv, GrantInv, [Next]_vars, NEW k \in Calls
               PROVE  /\ call'[k].at = "put" => Made(call'[k].rule, granted') /\ Answers(call'[k].rule, call'[k].a, call'[k].s)
                      /\ call'[k].op = "evaluate" /\ call'[k].d.by = "remembered" =>
                            \E r \in RememberedRules : Made(r, granted') /\ Answers(r, call'[k].a, call'[k].s)
    <2>1. CASE Calls = {}
      BY <2>1, GrantSteps DEF GrantInv
    <2> QED  BY <2>1, GrantSteps DEF GrantInv
  <1>0. call \in [Calls -> CallRecords] /\ CallShape /\ remembered \subseteq RememberedRules
    BY DEF TInv, TypeOK
  <1>1. \A r : Made(r, granted) => Made(r, granted')
    BY GrantSteps DEF Made
  <1>2. CASE call'[k] = call[k]
    <2>1. call[k].at = "put" => Made(call[k].rule, granted')
      BY <1>1 DEF GrantInv
    <2> QED  BY <1>1, <1>2, <2>1 DEF GrantInv
  <1>3. CASE Alike(call'[k], call[k]) /\ call'[k].at # "put"
    BY <1>1, <1>3 DEF Alike, GrantInv
  <1>4. CASE StartEvaluate(k)
    BY <1>0, <1>4 DEF StartEvaluate, Idle, Decision
  <1>5. CASE ReadDevice(k)
    <2>1. call'[k].d = Evaluate(call[k].a, call[k].s, device, Rules(call[k].version)) /\ call'[k].at # "put"
      BY <1>0, <1>5 DEF ReadDevice, CallRecords
    <2>2. call'[k].d.by # "remembered"
      BY <2>1 DEF Evaluate, Decision
    <2> QED  BY <2>1, <2>2
  <1>6. CASE ListRules(k)
    <2>1. Alike(call'[k], call[k]) /\ call[k].d.by # "remembered"
      <3>1. call[k].d = Decision("require_approval", "default")
        BY <1>0, <1>6 DEF ListRules, CallShape
      <3>2. Alike(call'[k], call[k])
        BY <1>0, <1>6 DEF ListRules, Now, Alike, CallRecords
      <3> QED  BY <3>1, <3>2 DEF Decision
    <2>2. call'[k].at = "put" => call'[k].rule \in remembered /\ Answers(call'[k].rule, call[k].a, call[k].s)
      BY <1>0, <1>6 DEF ListRules, Now, CallRecords
    <2>3. call'[k].at = "put" => Made(call'[k].rule, granted')
      <3>1. \A r \in remembered : Made(r, granted')
        BY <1>1 DEF GrantInv
      <3> QED  BY <2>2, <3>1 DEF Made
    <2> QED  BY <2>1, <2>2, <2>3 DEF Alike
  <1>7. CASE PutBack(k)
    <2>1. call[k].at = "put" /\ call[k].rule \in RememberedRules
      BY <1>7 DEF PutBack, TInv, CallShape
    <2>2. Made(call[k].rule, granted) /\ Answers(call[k].rule, call[k].a, call[k].s)
      BY <2>1 DEF GrantInv
    <2>3. call'[k].at # "put" /\ call'[k].a = call[k].a /\ call'[k].s = call[k].s
      BY <1>0, <1>7 DEF PutBack, CallRecords
    <2>4. PICK r \in RememberedRules : Made(r, granted) /\ Answers(r, call[k].a, call[k].s)
      BY <2>1, <2>2
    <2> QED  BY <1>1, <2>3, <2>4
  <1>8. CASE call'[k].op \in {"create", "activate", "remember", "revoke"} /\ call'[k].at # "put"
    BY <1>8
  <1> QED  BY <1>2, <1>3, <1>4, <1>5, <1>6, <1>7, <1>8, CallMoves

\* What a rule made of one request answers is no more than that request.
LEMMA MadeIsNarrow ==
    ASSUME NEW g \in Requests, NEW q \in Requests, NEW scope, Rememberable(g[1]),
           Answers(RuleFor(g[1], g[2], scope), q[1], q[2])
    PROVE  /\ g[1].capability = q[1].capability
           /\ IF g[1].command # Any THEN g[1].command = q[1].command ELSE g[1].raw = q[1].raw
           /\ RiskOrder[q[1].risk] <= RiskOrder[g[1].risk] /\ q[1].risk # "critical"
           /\ g[2].agent = q[2].agent
           /\ g[2].id = q[2].id \/ (g[2].project = q[2].project /\ g[2].project # Any)
  <1> DEFINE r == RuleFor(g[1], g[2], scope)
  <1>1. g[1].risk \in RiskClasses /\ q[1].risk \in RiskClasses /\ g[2].agent # Any /\ g[2].id # Any
    BY RequestsAssumption
  <1>2. /\ r.capability = q[1].capability /\ RiskOrder[q[1].risk] <= RiskOrder[r.max]
        /\ IF r.command # Any THEN r.command = q[1].command ELSE r.raw = q[1].raw
        /\ r.agent \in {Any, q[2].agent} /\ r.project \in {Any, q[2].project} /\ r.session \in {Any, q[2].id}
    BY DEF Answers
  <1>3. /\ r.capability = g[1].capability /\ r.max = g[1].risk /\ r.command = g[1].command /\ r.agent = g[2].agent
        /\ g[1].command = Any => r.raw = g[1].raw
        /\ \/ r.project = g[2].project /\ g[2].project # Any
           \/ r.project = Any /\ r.session = g[2].id
    BY DEF RuleFor
  <1>4. q[1].risk # "critical"
    BY <1>1, <1>2, <1>3 DEF RiskOrder, RiskClasses, Rememberable
  <1> HIDE DEF r
  <1> QED  BY <1>1, <1>2, <1>3, <1>4

\* What a remembered approval allows is what a person granted.
THEOREM RememberedIsNarrowAlways == Spec => []RememberedIsNarrow
  <1>1. Spec => [](TInv /\ GrantInv)
    BY TypeInit, TypeStep, GrantInit, GrantStep, PTL DEF Spec
  <1>2. TInv /\ GrantInv => RememberedIsNarrow
    <2> SUFFICES ASSUME TInv, GrantInv, NEW k \in Allowed, call[k].d.by = "remembered"
                 PROVE  \E g \in granted :
                           /\ g[1].capability = call[k].a.capability
                           /\ IF g[1].command # Any THEN g[1].command = call[k].a.command ELSE g[1].raw = call[k].a.raw
                           /\ RiskOrder[call[k].a.risk] <= RiskOrder[g[1].risk] /\ call[k].a.risk # "critical"
                           /\ g[2].agent = call[k].s.agent
                           /\ g[2].id = call[k].s.id \/ (g[2].project = call[k].s.project /\ g[2].project # Any)
      BY DEF RememberedIsNarrow
    <2>1. k \in Calls /\ call[k].op = "evaluate"
      BY DEF Allowed, Evaluations
    <2>2. PICK r \in RememberedRules : Made(r, granted) /\ Answers(r, call[k].a, call[k].s)
      BY <2>1 DEF GrantInv
    <2>3. PICK g \in granted, scope \in {"session", "project"} : Rememberable(g[1]) /\ r = RuleFor(g[1], g[2], scope)
      BY <2>2 DEF Made
    <2>4. PICK q \in Requests : q[1] = call[k].a /\ q[2] = call[k].s
      BY <2>1 DEF TInv, CallShape
    <2>5. g \in Requests
      BY DEF TInv, TypeOK
    <2> QED  BY <2>2, <2>3, <2>4, <2>5, MadeIsNarrow
  <1> QED  BY <1>1, <1>2, PTL

\* A rule that was revoked is neither stored nor about to be.
RevokedInv ==
    \A r \in revoked \ raced :
       /\ r \notin remembered
       /\ \A k \in Calls : call[k].at = "put" => call[k].rule # r

LEMMA RevokedStep == TInv /\ RevokedInv /\ [Next]_vars => RevokedInv'
  <1> SUFFICES ASSUME TInv, RevokedInv, [Next]_vars PROVE RevokedInv'
    OBVIOUS
  <1>0. call \in [Calls -> CallRecords]
    BY DEF TInv, TypeOK
  <1>1. ASSUME NEW k \in Calls, Revoke(k) PROVE RevokedInv'
    <2>1. PICK r \in remembered :
             /\ remembered' = remembered \ {r} /\ revoked' = revoked \cup {r}
             /\ raced' = IF \E j \in Calls : call[j].at = "put" /\ call[j].rule = r
                         THEN raced \cup {r} ELSE raced
      BY <1>1 DEF Revoke
    <2>2. \A j \in Calls : call'[j].at = "put" => call[j].at = "put" /\ call'[j].rule = call[j].rule
      BY <1>0, <1>1 DEF Revoke, CallRecords
    <2> QED  BY <2>1, <2>2 DEF RevokedInv
  <1>2. ASSUME NEW k \in Calls, Remember(k) PROVE RevokedInv'
    <2>1. PICK r : /\ remembered' = remembered \cup {r}
                   /\ revoked' = revoked \ {r} /\ raced' = raced \ {r}
      BY <1>2 DEF Remember
    <2>2. \A j \in Calls : call'[j].at = "put" => call[j].at = "put" /\ call'[j].rule = call[j].rule
      BY <1>0, <1>2 DEF Remember, CallRecords
    <2> QED  BY <2>1, <2>2 DEF RevokedInv
  <1>3. ASSUME NEW k \in Calls, PutBack(k) PROVE RevokedInv'
    <2>1. /\ remembered' = remembered \cup {call[k].rule} /\ call[k].at = "put"
          /\ UNCHANGED <<revoked, raced>>
      BY <1>3 DEF PutBack, history
    <2>2. \A j \in Calls : call'[j].at = "put" => call[j].at = "put" /\ call'[j].rule = call[j].rule
      BY <1>0, <1>3 DEF PutBack, CallRecords
    <2> QED  BY <2>1, <2>2 DEF RevokedInv
  <1>4. ASSUME NEW k \in Calls, ListRules(k) PROVE RevokedInv'
    <2>1. UNCHANGED <<remembered, revoked, raced>>
      BY <1>4 DEF ListRules, history
    <2>2. \A j \in Calls : call'[j].at = "put" =>
             \/ call[j].at = "put" /\ call'[j].rule = call[j].rule
             \/ call'[j].rule \in remembered
      BY <1>0, <1>4 DEF ListRules, Now, CallRecords
    <2> QED  BY <2>1, <2>2 DEF RevokedInv
  <1>5. ASSUME NEW k \in Calls, Step(k), ~Revoke(k), ~Remember(k), ~PutBack(k), ~ListRules(k) PROVE RevokedInv'
    <2>1. UNCHANGED <<remembered, revoked, raced>>
      BY <1>5 DEF Step, Evaluation, Memory, Version, Audit, StartEvaluate, ReadDevice,
         CreateVersion, StartActivate, WriteActive, ReadSeq, ReadPrev, StoreEntry, history
    <2>2. ASSUME NEW j \in Calls, call'[j].at = "put" PROVE call'[j] = call[j]
      <3>1. CASE j = k
        <4>1. ~(Alike(call'[j], call[j]) /\ call'[j].at # "put")
          BY <2>2
        <4>2. ~StartEvaluate(j)
          BY <1>0, <2>2 DEF StartEvaluate, Idle
        <4>3. ~ReadDevice(j)
          BY <1>0, <2>2 DEF ReadDevice, CallRecords
        <4> QED  BY <1>5, <2>2, <3>1, <4>2, <4>3, CallMoves
      <3>2. CASE j # k
        BY <1>0, <1>5, <3>2 DEF Step, Evaluation, Memory, Version, Audit, StartEvaluate, ReadDevice,
           CreateVersion, StartActivate, WriteActive, ReadSeq, ReadPrev, StoreEntry, Now
      <3> QED  BY <3>1, <3>2
    <2> QED  BY <2>1, <2>2 DEF RevokedInv
  <1>6. CASE LoseDevice \/ (\E r \in remembered : Expire(r)) \/ UNCHANGED vars
    BY <1>6 DEF LoseDevice, Expire, vars, history, RevokedInv
  <1> QED  BY <1>1, <1>2, <1>3, <1>4, <1>5, <1>6, NextSteps

\* A rule that was revoked is gone, unless a match was about to put it back.
THEOREM RevokedStaysRevokedAlways == Spec => []RevokedStaysRevoked
  <1>1. Init => RevokedInv
    BY DEF Init, RevokedInv
  <1>2. Spec => [](TInv /\ RevokedInv)
    BY <1>1, TypeInit, TypeStep, RevokedStep, PTL DEF Spec
  <1>3. RevokedInv => RevokedStaysRevoked
    BY DEF RevokedInv, RevokedStaysRevoked
  <1> QED  BY <1>2, <1>3, PTL

--------------------------------------------------------------------------
(* Activation *)

Steady == call' \in [Calls -> CallRecords] /\ Activating' = Activating
          /\ \A k \in Activating : call'[k].todo = call[k].todo /\ call'[k].version = call[k].version

ForceInv ==
    /\ \A j, k \in Activating : j # k => j \in muddled
    /\ \A k \in Activating \ muddled :
          \A v \in Nat \ {0} : v \notin call[k].todo => (v \in active <=> v = call[k].version)
    /\ Activating = {} /\ settled # 0 => active = {settled}

\* Steps that are not part of an activation leave the activations alone.
LEMMA OthersKeepActivations ==
    ASSUME TInv, [Next]_vars, \A k \in Calls : ~StartActivate(k) /\ ~WriteActive(k)
    PROVE  Steady /\ UNCHANGED <<active, settled, muddled>>
  <1>0. call \in [Calls -> CallRecords]
    BY DEF TInv, TypeOK
  <1>1. call' \in [Calls -> CallRecords]
    BY TypeStep DEF TInv, TypeOK
  <1>2. UNCHANGED <<active, settled, muddled>>
    BY NextSteps DEF Step, Evaluation, Memory, Version, Audit, StartEvaluate, ReadDevice, ListRules,
       PutBack, Remember, Revoke, CreateVersion, ReadSeq, ReadPrev, StoreEntry,
       LoseDevice, Expire, vars, history
  <1>3. ASSUME NEW k \in Calls, Step(k)
        PROVE  /\ call[k].at # "write" /\ call'[k].at # "write"
               /\ \A j \in Calls \ {k} : call'[j] = call[j]
    <2>1. call[k].op = "none" => call[k].at = "idle"
      BY IdleType DEF TInv, CallShape
    <2>2. CASE Evaluation(k)
      <3>1. CASE StartEvaluate(k)
        BY <1>0, <2>1, <3>1 DEF StartEvaluate, Fresh, Idle
      <3>2. CASE ReadDevice(k)
        BY <1>0, <3>2 DEF ReadDevice, CallRecords
      <3>3. CASE ListRules(k) \/ PutBack(k)
        BY <1>0, <3>3 DEF ListRules, PutBack, Now, CallRecords
      <3> QED  BY <2>2, <3>1, <3>2, <3>3 DEF Evaluation
    <2>3. CASE Memory(k) \/ CreateVersion(k)
      BY <1>0, <2>1, <2>3 DEF Memory, Remember, Revoke, CreateVersion, Fresh, CallRecords
    <2>4. CASE Audit(k)
      <3>1. CASE ReadSeq(k)
        <4>1. PICK n : call' = [call EXCEPT ![k] = [call[k] EXCEPT !.seq = n, !.at = "prev"]]
          BY <1>0, <3>1 DEF ReadSeq
        <4> QED  BY <1>0, <3>1, <4>1 DEF ReadSeq, CallRecords
      <3>2. CASE ReadPrev(k)
        <4>1. PICK n : call' = [call EXCEPT ![k] = [call[k] EXCEPT !.prev = n, !.at = "store"]]
          BY <1>0, <3>2 DEF ReadPrev
        <4> QED  BY <1>0, <3>2, <4>1 DEF ReadPrev, CallRecords
      <3>3. CASE StoreEntry(k)
        BY <1>0, <3>3 DEF StoreEntry, Now, CallRecords
      <3> QED  BY <2>4, <3>1, <3>2, <3>3 DEF Audit
    <2> QED  BY <1>3, <2>2, <2>3, <2>4 DEF Step, Version
  <1>4. CASE \E k \in Calls : Step(k)
    BY <1>1, <1>2, <1>3, <1>4 DEF Steady, Activating
  <1>5. CASE LoseDevice \/ (\E r \in remembered : Expire(r)) \/ UNCHANGED vars
    BY <1>1, <1>2, <1>5 DEF LoseDevice, Expire, vars, Steady, Activating
  <1> QED  BY <1>4, <1>5, NextSteps

LEMMA ForceInit == Init => ForceInv
  <1> SUFFICES ASSUME Init PROVE ForceInv
    OBVIOUS
  <1>1. Activating = {}
    BY DEF Init, Activating, Idle
  <1> QED  BY <1>1 DEF Init, ForceInv

LEMMA ForceStep == TInv /\ ForceInv /\ [Next]_vars => ForceInv'
  <1> SUFFICES ASSUME TInv, ForceInv, [Next]_vars PROVE ForceInv'
    OBVIOUS
  <1>0. call \in [Calls -> CallRecords] /\ active \subseteq 1..Len(books) /\ DOMAIN books = 1..Len(books)
        /\ Len(books) \in Nat
    BY LenProperties DEF TInv, TypeOK
  <1>1. ASSUME NEW k \in Calls, StartActivate(k) PROVE ForceInv'
    <2> DEFINE c(v) == [Idle EXCEPT !.op = "activate", !.version = v,
                          !.at = IF books = <<>> THEN "done" ELSE "write", !.todo = DOMAIN books]
    <2>1. PICK v \in 0..Len(books) : call' = [call EXCEPT ![k] = c(v)]
      BY <1>1 DEF StartActivate
    <2>2. /\ c(v).todo = 1..Len(books) /\ c(v).version = v
          /\ c(v).at = IF books = <<>> THEN "done" ELSE "write"
      BY <1>0 DEF Idle
    <2>3. call[k].at # "write" /\ k \notin Activating /\ UNCHANGED <<active, settled>>
      BY <1>1 DEF StartActivate, Fresh, TInv, CallShape, Idle, Activating
    <2>4. muddled' = IF Activating = {} THEN muddled ELSE muddled \cup Activating \cup {k}
      BY <1>1 DEF StartActivate
    <2> HIDE DEF c
    <2>5. /\ call'[k].todo = 1..Len(books) /\ call'[k].version = v
          /\ \A j \in Calls \ {k} : call'[j] = call[j]
          /\ Activating' = IF books = <<>> THEN Activating ELSE Activating \cup {k}
      BY <1>0, <2>1, <2>2, <2>3 DEF Activating
    <2>6. \A i, j \in Activating' : i # j => i \in muddled'
      BY <2>4, <2>5 DEF ForceInv
    <2>7. ASSUME NEW j \in Activating' \ muddled', NEW w \in Nat \ {0}, w \notin call'[j].todo
          PROVE  w \in active <=> w = call'[j].version
      <3>1. CASE j = k
        <4>1. w \notin 1..Len(books)
          BY <2>5, <2>7, <3>1
        <4> QED  BY <1>0, <2>1, <2>5, <3>1, <4>1
      <3>2. CASE j # k
        BY <2>3, <2>4, <2>5, <2>7, <3>2 DEF ForceInv, Activating
      <3> QED  BY <3>1, <3>2
    <2>8. Activating' = {} => Activating = {}
      BY <2>5
    <2> QED  BY <2>3, <2>6, <2>7, <2>8 DEF ForceInv
  <1>2. ASSUME NEW k \in Calls, WriteActive(k) PROVE ForceInv'
    <2>1. call[k].at = "write" /\ k \in Activating /\ muddled' = muddled /\ call[k].todo \subseteq Nat \ {0}
          /\ call[k].version \in Nat
      BY <1>0, <1>2, ServiceAssumption DEF WriteActive, Activating, CallRecords
    <2>2. PICK v \in call[k].todo :
             /\ active' = IF v = call[k].version THEN active \cup {v} ELSE active \ {v}
             /\ IF call[k].todo # {v}
                THEN call' = [call EXCEPT ![k].todo = @ \ {v}] /\ UNCHANGED settled
                ELSE /\ call' = [call EXCEPT ![k].todo = {},
                                   ![k].at = IF call[k].version = 0 THEN "done" ELSE "log"]
                     /\ settled' = IF k \in muddled THEN 0 ELSE call[k].version
      BY <1>2 DEF WriteActive
    <2>3. \A j \in Calls \ {k} : call'[j] = call[j]
      BY <1>0, <2>2
    <2>4. ASSUME k \notin muddled, NEW w \in Nat \ {0}, w \notin call[k].todo \ {v}
          PROVE  w \in active' <=> w = call[k].version
      <3>1. CASE w = v
        BY <2>2, <3>1
      <3>2. CASE w # v
        <4>1. w \in active <=> w = call[k].version
          BY <2>1, <2>4, <3>2 DEF ForceInv
        <4> QED  BY <2>2, <3>2, <4>1
      <3> QED  BY <3>1, <3>2
    <2>5. \A j \in Activating \ muddled : j = k
      BY <2>1 DEF ForceInv
    <2>6. CASE call[k].todo # {v}
      <3>1. call'[k].at = "write" /\ call'[k].todo = call[k].todo \ {v} /\ call'[k].version = call[k].version
        BY <1>0, <2>1, <2>2, <2>6 DEF CallRecords
      <3>2. Activating' = Activating
        BY <2>1, <2>3, <3>1 DEF Activating
      <3>3. \A i, j \in Activating' : i # j => i \in muddled'
        BY <2>1, <3>2 DEF ForceInv
      <3>4. \A j \in Activating' \ muddled' : \A w \in Nat \ {0} :
               w \notin call'[j].todo => (w \in active' <=> w = call'[j].version)
        BY <2>1, <2>4, <2>5, <3>1, <3>2
      <3> QED  BY <2>1, <3>2, <3>3, <3>4 DEF ForceInv
    <2>7. CASE call[k].todo = {v}
      <3>1. call'[k].at # "write"
        BY <1>0, <2>1, <2>2, <2>7 DEF CallRecords
      <3>2. Activating' = Activating \ {k}
        BY <2>3, <3>1 DEF Activating
      <3>3. \A i, j \in Activating' : i # j => i \in muddled'
        BY <2>1, <3>2 DEF ForceInv
      <3>4. Activating' \ muddled' = {}
        BY <2>1, <2>5, <3>2
      <3>5. settled' # 0 => active' = {settled'}
        <4>1. SUFFICES ASSUME settled' # 0 PROVE active' = {settled'}
          OBVIOUS
        <4>2. k \notin muddled /\ settled' = call[k].version
          BY <2>2, <2>7, <4>1
        <4>3. \A w \in Nat \ {0} : w \in active' <=> w = settled'
          BY <2>4, <2>7, <4>2
        <4>4. active' \subseteq Nat \ {0}
          BY <1>0, <2>1, <2>2
        <4>5. settled' \in Nat \ {0}
          BY <2>1, <4>1, <4>2
        <4> QED  BY <4>3, <4>4, <4>5
      <3> QED  BY <3>3, <3>4, <3>5 DEF ForceInv
    <2> QED  BY <2>6, <2>7
  <1>3. CASE \A k \in Calls : ~StartActivate(k) /\ ~WriteActive(k)
    <2>1. Steady /\ UNCHANGED <<active, settled, muddled>>
      BY <1>3, OthersKeepActivations
    <2> QED  BY <2>1 DEF Steady, ForceInv
  <1> QED  BY <1>1, <1>2, <1>3

\* Once activations are over, the last is in force and no other.
THEOREM LastActivatedIsInForceAlways == Spec => []LastActivatedIsInForce
  <1>1. Spec => [](TInv /\ ForceInv)
    BY TypeInit, TypeStep, ForceInit, ForceStep, PTL DEF Spec
  <1>2. ForceInv => LastActivatedIsInForce
    BY DEF ForceInv, LastActivatedIsInForce
  <1> QED  BY <1>1, <1>2, PTL

--------------------------------------------------------------------------
(* The audit log *)

ChainInv ==
    ~overlapped =>
       /\ \A i \in DOMAIN log : log[i].seq = i /\ log[i].prev = i - 1
       /\ \A j, k \in Logging : j = k
       /\ \A k \in Calls : call[k].at \in {"prev", "store"} => call[k].seq = Len(log) + 1
       /\ \A k \in Calls : call[k].at = "store" => call[k].prev = Len(log)

LEMMA ChainInit == Init => ChainInv
  BY DEF Init, ChainInv, Logging, Idle

\* As long as nothing overlapped the highest entry is the last.
LEMMA LastIsHighest ==
    ASSUME TypeOK, \A i \in DOMAIN log : log[i].seq = i
    PROVE  Highest = Len(log) /\ Top = {Len(log)}
  <1>1. CASE log = <<>>
    BY <1>1 DEF Highest, Top
  <1>2. CASE log # <<>>
    <2>1. DOMAIN log = 1..Len(log) /\ Len(log) \in Nat /\ Len(log) # 0
      BY <1>2, LogType, EmptySeq DEF TypeOK
    <2>2. Highest \in Nat /\ Highest \in DOMAIN log /\ \A i \in DOMAIN log : i <= Highest
      BY <1>2, HighestType
    <2>3. Highest = Len(log)
      <3>1. Len(log) \in DOMAIN log
        BY <2>1
      <3>2. Len(log) <= Highest /\ Highest <= Len(log)
        BY <2>1, <2>2, <3>1
      <3>3. \A m, n \in Nat : m <= n /\ n <= m => m = n
        OBVIOUS
      <3>4. Highest \in Nat /\ Len(log) \in Nat
        BY <2>1, <2>2
      <3> QED  BY <3>2, <3>3, <3>4
    <2>4. Top = {Len(log)}
      BY <1>2, <2>1, <2>3 DEF Top
    <2> QED  BY <2>3, <2>4
  <1> QED  BY <1>1, <1>2

\* Steps that do not write the log leave the calls that do alone.
LEMMA OthersKeepLogging ==
    ASSUME TInv, [Next]_vars, \A k \in Calls : ~Audit(k)
    PROVE  /\ UNCHANGED <<log, overlapped>>
           /\ \A k \in Calls : call'[k].at \in {"prev", "store"} => call'[k] = call[k]
  <1>0. call \in [Calls -> CallRecords]
    BY DEF TInv, TypeOK
  <1>1. UNCHANGED <<log, overlapped>>
    BY NextSteps DEF Step, Evaluation, Memory, Version, StartEvaluate, ReadDevice, ListRules,
       PutBack, Remember, Revoke, CreateVersion, StartActivate, WriteActive, LoseDevice, Expire, vars, history
  <1>2. ASSUME NEW k \in Calls, Step(k)
        PROVE  /\ call'[k].at \notin {"prev", "store"}
               /\ \A j \in Calls \ {k} : call'[j] = call[j]
    <2>1. CASE Evaluation(k)
      <3>1. CASE StartEvaluate(k)
        BY <1>0, <3>1 DEF StartEvaluate, Idle
      <3>2. CASE ReadDevice(k)
        BY <1>0, <3>2 DEF ReadDevice, CallRecords
      <3>3. CASE ListRules(k) \/ PutBack(k)
        BY <1>0, <3>3 DEF ListRules, PutBack, Now, CallRecords
      <3> QED  BY <2>1, <3>1, <3>2, <3>3 DEF Evaluation
    <2>2. CASE Memory(k) \/ CreateVersion(k)
      BY <1>0, <2>2 DEF Memory, Remember, Revoke, CreateVersion, CallRecords
    <2>3. CASE StartActivate(k)
      BY <1>0, <2>3 DEF StartActivate, Idle
    <2>4. CASE WriteActive(k)
      BY <1>0, <2>4 DEF WriteActive, CallRecords
    <2> QED  BY <1>2, <2>1, <2>2, <2>3, <2>4 DEF Step, Version
  <1>3. CASE \E k \in Calls : Step(k)
    BY <1>1, <1>2, <1>3
  <1>4. CASE LoseDevice \/ (\E r \in remembered : Expire(r)) \/ UNCHANGED vars
    BY <1>1, <1>4 DEF LoseDevice, Expire, vars
  <1> QED  BY <1>3, <1>4, NextSteps

LEMMA ChainStep == TInv /\ ChainInv /\ [Next]_vars => ChainInv'
  <1> SUFFICES ASSUME TInv, ChainInv, [Next]_vars, ~overlapped' PROVE ChainInv'
    BY DEF ChainInv
  <1>0. /\ call \in [Calls -> CallRecords] /\ log \in Seq([seq : Nat, prev : Nat])
        /\ DOMAIN log = 1..Len(log) /\ Len(log) \in Nat
    BY LogType DEF TInv, TypeOK
  <1>1. ASSUME NEW k \in Calls, ReadSeq(k) PROVE ChainInv'
    <2>1. ~overlapped /\ Logging = {} /\ UNCHANGED log /\ call[k].at = "log"
          /\ call' = [call EXCEPT ![k] = [call[k] EXCEPT !.seq = Highest + 1, !.at = "prev"]]
      BY <1>0, <1>1 DEF ReadSeq
    <2>2. Highest = Len(log)
      BY <2>1, LastIsHighest DEF ChainInv, TInv
    <2>3. call'[k].at = "prev" /\ call'[k].seq = Len(log) + 1 /\ \A j \in Calls \ {k} : call'[j] = call[j]
      BY <1>0, <2>1, <2>2 DEF CallRecords
    <2>4. \A j \in Calls \ {k} : call'[j].at \notin {"prev", "store"}
      BY <2>1, <2>3 DEF Logging
    <2> QED  BY <2>1, <2>3, <2>4 DEF ChainInv, Logging
  <1>2. ASSUME NEW k \in Calls, ReadPrev(k) PROVE ChainInv'
    <2>1. PICK i \in Top : call' = [call EXCEPT ![k] = [call[k] EXCEPT !.prev = i, !.at = "store"]]
      BY <1>0, <1>2 DEF ReadPrev
    <2>2. UNCHANGED <<log, overlapped>> /\ ~overlapped /\ call[k].at = "prev" /\ k \in Logging
      BY <1>2 DEF ReadPrev, history, Logging
    <2>3. i = Len(log)
      BY <2>2, LastIsHighest DEF ChainInv, TInv
    <2>4. /\ call'[k].at = "store" /\ call'[k].prev = Len(log) /\ call'[k].seq = call[k].seq
          /\ \A j \in Calls \ {k} : call'[j] = call[j]
      BY <1>0, <2>1, <2>3 DEF CallRecords
    <2>5. Logging' = Logging
      BY <2>2, <2>4 DEF Logging
    <2> QED  BY <2>2, <2>4, <2>5 DEF ChainInv
  <1>3. ASSUME NEW k \in Calls, StoreEntry(k) PROVE ChainInv'
    <2> DEFINE e == [seq |-> call[k].seq, prev |-> call[k].prev]
    <2>1. log' = Append(log, e) /\ ~overlapped /\ call[k].at = "store" /\ k \in Logging
      BY <1>3 DEF StoreEntry, history, Logging
    <2>2. call'[k].at = "done" /\ \A j \in Calls \ {k} : call'[j] = call[j]
      BY <1>0, <1>3 DEF StoreEntry, Now, CallRecords
    <2>3. e.seq = Len(log) + 1 /\ e.prev = Len(log) /\ e \in [seq : Nat, prev : Nat]
      BY <1>0, <2>1 DEF ChainInv, CallRecords
    <2>4. \A j \in Calls : call'[j].at \notin {"prev", "store"}
      BY <2>1, <2>2 DEF ChainInv, Logging
    <2> HIDE DEF e
    <2>5. DOMAIN log' = 1..Len(log) + 1 /\ log'[Len(log) + 1] = e /\ \A i \in 1..Len(log) : log'[i] = log[i]
      BY <1>0, <2>1, <2>3, AppendProperties, LenProperties
    <2>6. \A i \in DOMAIN log' : log'[i].seq = i /\ log'[i].prev = i - 1
      BY <1>0, <2>1, <2>3, <2>5 DEF ChainInv
    <2> QED  BY <2>4, <2>6 DEF ChainInv, Logging
  <1>4. CASE \A k \in Calls : ~Audit(k)
    <2>1. /\ UNCHANGED <<log, overlapped>> /\ ~overlapped
          /\ \A k \in Calls : call'[k].at \in {"prev", "store"} => call'[k] = call[k]
      BY <1>4, OthersKeepLogging
    <2>2. Logging' \subseteq Logging
      BY <2>1 DEF Logging
    <2> QED  BY <2>1, <2>2 DEF ChainInv
  <1> QED  BY <1>1, <1>2, <1>3, <1>4 DEF Audit

\* The audit chain verifies, unless two calls appended at a time.
THEOREM ChainVerifiesAlways == Spec => []ChainVerifies
  <1>1. Spec => [](TInv /\ ChainInv)
    BY TypeInit, TypeStep, ChainInit, ChainStep, PTL DEF Spec
  <1>2. TInv /\ ChainInv => ChainVerifies
    <2> SUFFICES ASSUME TInv, ChainInv, ~overlapped, NEW i \in DOMAIN log
                 PROVE  LET before == {j \in DOMAIN log \ {i} : log[j].seq <= log[i].seq}
                        IN IF before = {} THEN log[i].prev = 0
                           ELSE log[i].prev \in before /\ \A j \in before : log[j].seq <= log[log[i].prev].seq
      BY DEF ChainVerifies, VerifyChain
    <2> DEFINE before == {j \in DOMAIN log \ {i} : log[j].seq <= log[i].seq}
    <2>1. DOMAIN log = 1..Len(log) /\ Len(log) \in Nat /\ \A j \in DOMAIN log : log[j].seq = j /\ log[j].prev = j - 1
      BY LogType DEF TInv, ChainInv
    <2>2. before = 1..i - 1
      BY <2>1
    <2>3. CASE i = 1
      BY <2>1, <2>2, <2>3
    <2>4. CASE i # 1
      <3>1. i - 1 \in before /\ log[i].prev = i - 1 /\ \A j \in before : log[j].seq <= log[i - 1].seq
        BY <2>1, <2>2, <2>4
      <3> QED  BY <3>1
    <2> QED  BY <2>3, <2>4
  <1> QED  BY <1>1, <1>2, PTL

\* What evaluations allow respects the floor, the device, the rules and the
\* grants, all at once.
THEOREM EvaluationObeysAlways == Spec => []EvaluationObeys
  <1>1. FloorHolds /\ RulesStand /\ RememberedIsNarrow => EvaluationObeys
    BY DEF EvaluationObeys
  <1> QED  BY <1>1, FloorHoldsAlways, RulesStandAlways, RememberedIsNarrowAlways, PTL

--------------------------------------------------------------------------
(* What a pattern matches *)

\* The table that GlobMatches reads off: each row from the one below it.
GlobCell(below, path, pattern, i, j) ==
    IF i > Len(pattern) THEN j > Len(path)
    ELSE IF pattern[i] = Rest
    THEN i = Len(pattern) \/ \E k \in j..Len(path) + 1 : below[k]
    ELSE j <= Len(path) /\ path[j] \in pattern[i] /\ below[j + 1]
GlobTable(m, path, pattern) ==
    m = [i \in 1..Len(pattern) + 1 |->
          [j \in 1..Len(path) + 1 |-> GlobCell(m[i + 1], path, pattern, i, j)]]

LEMMA SmallestOne ==
    ASSUME NEW S \in SUBSET Nat, S # {}
    PROVE  \E i \in S : \A j \in S : i <= j
<1>1. PICK i \in S : \A j \in S : <<j, i>> \notin OpToRel(<, Nat)
  BY NatLessThanWellFounded, WFMin
<1>2. ASSUME NEW j \in S, j < i PROVE FALSE
  <2>1. <<j, i>> \in OpToRel(<, Nat)
    BY <1>2 DEF OpToRel
  <2> QED  BY <1>1, <2>1
<1> QED  BY <1>2

\* There is one such table: the rows are settled from the last one up.
LEMMA OneTable ==
    ASSUME NEW A, NEW B, NEW path \in Seq(A), NEW pattern \in Seq(B),
           NEW f, GlobTable(f, path, pattern), NEW g, GlobTable(g, path, pattern)
    PROVE  f = g
<1> DEFINE n == Len(pattern)
           l == Len(path)
           Same(i) == \A j \in 1..l + 1 : f[i][j] = g[i][j]
           Wrong == {d \in 0..n : ~Same(n + 1 - d)}
<1>1. n \in Nat /\ l \in Nat
  OBVIOUS
<1>2. ASSUME NEW i \in 1..n + 1, NEW j \in 1..l + 1
      PROVE  /\ f[i][j] = GlobCell(f[i + 1], path, pattern, i, j)
             /\ g[i][j] = GlobCell(g[i + 1], path, pattern, i, j)
  <2>1. f[i] = [k \in 1..Len(path) + 1 |-> GlobCell(f[i + 1], path, pattern, i, k)]
    BY Zenon DEF GlobTable
  <2>2. g[i] = [k \in 1..Len(path) + 1 |-> GlobCell(g[i + 1], path, pattern, i, k)]
    BY Zenon DEF GlobTable
  <2> QED  BY Zenon, <2>1, <2>2
<1>3. Same(n + 1)
  BY <1>1, <1>2 DEF GlobCell
<1>4. ASSUME NEW i \in 1..n, Same(i + 1) PROVE Same(i)
  <2> SUFFICES ASSUME NEW j \in 1..l + 1 PROVE f[i][j] = g[i][j]
    OBVIOUS
  <2> DEFINE a == f[i + 1]
             b == g[i + 1]
  <2>1. \A k \in j..l + 1 : a[k] = b[k]
    BY <1>1, <1>4
  <2>2. j <= l => j + 1 \in j..l + 1
    BY <1>1
  <2>3. f[i][j] = GlobCell(a, path, pattern, i, j) /\ g[i][j] = GlobCell(b, path, pattern, i, j)
    BY <1>1, <1>2
  <2> HIDE DEF a, b
  <2>4. GlobCell(a, path, pattern, i, j) = GlobCell(b, path, pattern, i, j)
    BY <1>1, <2>1, <2>2 DEF GlobCell
  <2> QED  BY <2>3, <2>4
<1>5. Wrong = {}
  <2> SUFFICES ASSUME Wrong # {} PROVE FALSE
    OBVIOUS
  <2>1. Wrong \in SUBSET Nat
    BY <1>1
  <2> HIDE DEF Wrong
  <2>2. PICK d \in Wrong : \A e \in Wrong : d <= e
    BY <2>1, SmallestOne
  <2> USE DEF Wrong
  <2>3. d \in 1..n
    BY <1>1, <1>3
  <2> HIDE DEF Wrong, Same
  <2>4. d - 1 \in 0..n /\ n + 1 - d \in 1..n /\ n + 1 - (d - 1) = n + 1 - d + 1
    BY <1>1, <2>3
  <2>6. d - 1 \notin Wrong
    BY <1>1, <2>2, <2>3
  <2>5. Same(n + 1 - d + 1)
    BY <2>4, <2>6 DEF Wrong
  <2> QED  BY <1>4, <2>2, <2>4, <2>5 DEF Wrong
<1>6. \A i \in 1..n + 1 : Same(i)
  <2> SUFFICES ASSUME NEW i \in 1..n + 1 PROVE Same(i)
    OBVIOUS
  <2>1. n + 1 - i \in 0..n /\ n + 1 - (n + 1 - i) = i
    BY <1>1
  <2> HIDE DEF Same
  <2> QED  BY <1>5, <2>1
<1>7. /\ f = [i \in 1..n + 1 |-> f[i]] /\ g = [i \in 1..n + 1 |-> g[i]]
      /\ \A i \in 1..n + 1 : /\ f[i] = [j \in 1..l + 1 |-> f[i][j]]
                            /\ g[i] = [j \in 1..l + 1 |-> g[i][j]]
  BY DEF GlobTable
<1>8. \A i \in 1..n + 1 : f[i] = g[i]
  BY <1>6, <1>7
<1> QED  BY <1>7, <1>8

LEMMA TableDecides ==
    ASSUME NEW A, NEW B, NEW path \in Seq(A), NEW pattern \in Seq(B),
           NEW f, GlobTable(f, path, pattern)
    PROVE  GlobMatches(path, pattern) <=>
             /\ Len(path) >= Cardinality({i \in DOMAIN pattern : pattern[i] # Rest})
             /\ f[1][1]
<1>1. f = CHOOSE m : GlobTable(m, path, pattern)
  BY OneTable
<1> QED  BY <1>1 DEF GlobMatches, GlobTable, GlobCell

\* The segments of a pattern from lo to hi match the path from j on.
Fits(path, j, pattern, lo, hi) ==
    \A t \in lo..hi : j + t - lo <= Len(path) /\ path[j + t - lo] \in pattern[t]

LEMMA FitsOn ==
    ASSUME NEW A, NEW path \in Seq(A), NEW pattern,
           NEW j \in Nat \ {0}, NEW lo \in Nat \ {0}, NEW hi \in Nat, lo <= hi
    PROVE  Fits(path, j, pattern, lo, hi)
             <=> j <= Len(path) /\ path[j] \in pattern[lo] /\ Fits(path, j + 1, pattern, lo + 1, hi)
<1>1. Len(path) \in Nat
  OBVIOUS
<1>2. ASSUME Fits(path, j, pattern, lo, hi)
      PROVE  j <= Len(path) /\ path[j] \in pattern[lo] /\ Fits(path, j + 1, pattern, lo + 1, hi)
  <2>1. lo \in lo..hi /\ j + lo - lo = j
    OBVIOUS
  <2>2. j <= Len(path) /\ path[j] \in pattern[lo]
    BY <1>2, <2>1 DEF Fits
  <2>3. ASSUME NEW t \in lo + 1..hi
        PROVE  j + 1 + t - (lo + 1) <= Len(path) /\ path[j + 1 + t - (lo + 1)] \in pattern[t]
    <3>1. t \in lo..hi /\ j + 1 + t - (lo + 1) = j + t - lo
      OBVIOUS
    <3> QED  BY <1>2, <3>1 DEF Fits
  <2> QED  BY <2>2, <2>3 DEF Fits
<1>3. ASSUME j <= Len(path), path[j] \in pattern[lo], Fits(path, j + 1, pattern, lo + 1, hi)
      PROVE  Fits(path, j, pattern, lo, hi)
  <2> SUFFICES ASSUME NEW t \in lo..hi
               PROVE  j + t - lo <= Len(path) /\ path[j + t - lo] \in pattern[t]
    BY DEF Fits
  <2>1. CASE t = lo
    <3>1. j + t - lo = j
      BY <2>1
    <3> QED  BY <1>3, <2>1, <3>1
  <2>2. CASE t # lo
    <3>1. t \in lo + 1..hi /\ j + 1 + t - (lo + 1) = j + t - lo
      BY <2>2
    <3> QED  BY <1>3, <3>1 DEF Fits
  <2> QED  BY <2>1, <2>2
<1> QED  BY <1>2, <1>3

LEMMA FitsNothing ==
    ASSUME NEW path, NEW j, NEW pattern, NEW lo \in Nat, NEW hi \in Nat, hi < lo
    PROVE  Fits(path, j, pattern, lo, hi)
BY DEF Fits

LEMMA FitsLength ==
    ASSUME NEW path, NEW j \in Nat, NEW pattern, NEW lo \in Nat, NEW hi \in Nat, lo <= hi,
           Fits(path, j, pattern, lo, hi)
    PROVE  j + hi - lo <= Len(path)
<1>1. hi \in lo..hi
  OBVIOUS
<1> QED  BY <1>1 DEF Fits

LEMMA CellType ==
    ASSUME NEW below, NEW path, NEW pattern, NEW i, NEW j
    PROVE  GlobCell(below, path, pattern, i, j) \in BOOLEAN
<1>1. CASE i > Len(pattern)
  <2>1. GlobCell(below, path, pattern, i, j) = (j > Len(path))
    BY Zenon, <1>1 DEF GlobCell
  <2> QED  BY <2>1
<1>2. CASE ~(i > Len(pattern)) /\ pattern[i] = Rest
  <2>1. GlobCell(below, path, pattern, i, j) = (i = Len(pattern) \/ \E k \in j..Len(path) + 1 : below[k])
    BY Zenon, <1>2 DEF GlobCell
  <2> QED  BY <2>1
<1>3. CASE ~(i > Len(pattern)) /\ pattern[i] # Rest
  <2>1. GlobCell(below, path, pattern, i, j) = (j <= Len(path) /\ path[j] \in pattern[i] /\ below[j + 1])
    BY Zenon, <1>3 DEF GlobCell
  <2> QED  BY <2>1
<1> QED  BY <1>1, <1>2, <1>3

\* A table of truths that obeys the equation of the cells is the table.
LEMMA IsTable ==
    ASSUME NEW path, NEW pattern, Len(path) \in Nat, Len(pattern) \in Nat,
           NEW f \in [1..Len(pattern) + 1 -> [1..Len(path) + 1 -> BOOLEAN]],
           \A i \in 1..Len(pattern) + 1, j \in 1..Len(path) + 1 :
              f[i][j] <=> GlobCell(f[i + 1], path, pattern, i, j)
    PROVE  GlobTable(f, path, pattern)
<1>1. ASSUME NEW i \in 1..Len(pattern) + 1, NEW j \in 1..Len(path) + 1
      PROVE  f[i][j] = GlobCell(f[i + 1], path, pattern, i, j)
  <2>1. f[i][j] \in BOOLEAN
    OBVIOUS
  <2>2. GlobCell(f[i + 1], path, pattern, i, j) \in BOOLEAN
    BY CellType
  <2>3. f[i][j] <=> GlobCell(f[i + 1], path, pattern, i, j)
    OBVIOUS
  <2> QED  BY <2>1, <2>2, <2>3
<1>2. \A i \in 1..Len(pattern) + 1 :
         f[i] = [j \in 1..Len(path) + 1 |-> GlobCell(f[i + 1], path, pattern, i, j)]
  <2> SUFFICES ASSUME NEW i \in 1..Len(pattern) + 1
               PROVE  f[i] = [j \in 1..Len(path) + 1 |-> GlobCell(f[i + 1], path, pattern, i, j)]
    OBVIOUS
  <2>1. f[i] = [j \in 1..Len(path) + 1 |-> f[i][j]]
    OBVIOUS
  <2> QED  BY <1>1, <2>1
<1>3. f = [i \in 1..Len(pattern) + 1 |-> f[i]]
  OBVIOUS
<1> QED  BY <1>2, <1>3 DEF GlobTable

LEMMA ExactMatches ==
    ASSUME NEW A, NEW B, NEW path \in Seq(A), NEW pattern \in Seq(B),
           \A i \in DOMAIN pattern : pattern[i] # Rest
    PROVE  GlobMatches(path, pattern)
             <=> Len(path) = Len(pattern) /\ Fits(path, 1, pattern, 1, Len(pattern))
<1>1. PICK n, l : n = Len(pattern) /\ l = Len(path)
  OBVIOUS
<1>2. n \in Nat /\ l \in Nat /\ DOMAIN pattern = 1..n
  BY <1>1
<1> DEFINE C(i, j) == l + 1 - j = n + 1 - i /\ Fits(path, j, pattern, i, n)
           f == [i \in 1..n + 1 |-> [j \in 1..l + 1 |-> C(i, j)]]
<1>3. /\ f \in [1..n + 1 -> [1..l + 1 -> BOOLEAN]]
      /\ \A i \in 1..n + 1, j \in 1..l + 1 : f[i][j] <=> C(i, j)
  OBVIOUS
<1> HIDE DEF f
<1>4. ASSUME NEW i \in 1..n + 1, NEW j \in 1..l + 1
      PROVE  f[i][j] <=> GlobCell(f[i + 1], path, pattern, i, j)
  <2>1. CASE i = n + 1
    <3>1. Fits(path, j, pattern, i, n)
      BY <1>2, <2>1, FitsNothing
    <3>2. (l + 1 - j = n + 1 - i) <=> j > l
      BY <1>2, <2>1
    <3>3. C(i, j) <=> j > l
      BY <3>1, <3>2
    <3>4. GlobCell(f[i + 1], path, pattern, i, j) <=> j > l
      BY <1>1, <1>2, <2>1 DEF GlobCell
    <3> QED  BY <1>3, <3>3, <3>4
  <2>2. CASE i # n + 1
    <3>1. i \in 1..n /\ pattern[i] # Rest /\ i + 1 \in 1..n + 1 /\ i \in Nat \ {0} /\ j \in Nat \ {0} /\ i <= n
      BY <1>2, <2>2
    <3>2. C(i, j) <=> j <= l /\ path[j] \in pattern[i] /\ C(i + 1, j + 1)
      <4>1. Fits(path, j, pattern, i, n)
               <=> j <= l /\ path[j] \in pattern[i] /\ Fits(path, j + 1, pattern, i + 1, n)
        BY <1>1, <1>2, <3>1, FitsOn
      <4>2. (l + 1 - j = n + 1 - i) <=> (l + 1 - (j + 1) = n + 1 - (i + 1))
        BY <1>2
      <4> QED  BY <4>1, <4>2
    <3>3. j <= l => (f[i + 1][j + 1] <=> C(i + 1, j + 1))
      BY <1>2, <1>3, <3>1
    <3>4. GlobCell(f[i + 1], path, pattern, i, j) <=> j <= l /\ path[j] \in pattern[i] /\ f[i + 1][j + 1]
      BY <1>1, <1>2, <3>1 DEF GlobCell
    <3> HIDE DEF C
    <3> QED  BY <1>3, <3>1, <3>2, <3>3, <3>4
  <2> QED  BY <2>1, <2>2
<1>5. GlobTable(f, path, pattern)
  BY <1>1, <1>2, <1>3, <1>4, IsTable
<1> DEFINE own == {i \in DOMAIN pattern : pattern[i] # Rest}
<1>6. own = 1..n /\ Cardinality(1..n) = n
  <2>1. own = 1..n
    BY <1>2
  <2>2. Cardinality(1..n) = IF 1 > n THEN 0 ELSE n - 1 + 1
    BY <1>2, FS_Interval
  <2> QED  BY <1>2, <2>1, <2>2
<1>7. f[1][1] <=> l = n /\ Fits(path, 1, pattern, 1, n)
  BY <1>2, <1>3
<1>8. GlobMatches(path, pattern) <=> Len(path) >= Cardinality(own) /\ f[1][1]
  BY <1>5, TableDecides
<1> HIDE DEF own
<1> QED  BY <1>1, <1>2, <1>6, <1>7, <1>8

\* A pattern that ends in **: what comes before it is how the path begins.
LEMMA UnderMatches ==
    ASSUME NEW A, NEW B, NEW path \in Seq(A), NEW pattern \in Seq(B),
           pattern # <<>>, \A i \in DOMAIN pattern : pattern[i] = Rest <=> i = Len(pattern)
    PROVE  GlobMatches(path, pattern) <=> Fits(path, 1, pattern, 1, Len(pattern) - 1)
<1>1. PICK n, l : n = Len(pattern) /\ l = Len(path)
  OBVIOUS
<1>2. n \in Nat \ {0} /\ l \in Nat /\ DOMAIN pattern = 1..n
  BY <1>1
<1> DEFINE C(i, j) == \/ i = n + 1 /\ j > l
                      \/ i # n + 1 /\ Fits(path, j, pattern, i, n - 1)
           f == [i \in 1..n + 1 |-> [j \in 1..l + 1 |-> C(i, j)]]
<1>3. /\ f \in [1..n + 1 -> [1..l + 1 -> BOOLEAN]]
      /\ \A i \in 1..n + 1, j \in 1..l + 1 : f[i][j] <=> C(i, j)
  BY DEF Fits
<1> HIDE DEF f
<1>4. ASSUME NEW i \in 1..n + 1, NEW j \in 1..l + 1
      PROVE  f[i][j] <=> GlobCell(f[i + 1], path, pattern, i, j)
  <2>1. CASE i = n + 1
    <3>1. GlobCell(f[i + 1], path, pattern, i, j) <=> j > l
      BY <1>1, <1>2, <2>1 DEF GlobCell
    <3> QED  BY <1>3, <2>1, <3>1
  <2>2. CASE i = n
    <3>1. Fits(path, j, pattern, i, n - 1)
      BY <1>2, <2>2, FitsNothing
    <3>2. GlobCell(f[i + 1], path, pattern, i, j)
      BY <1>1, <1>2, <2>2 DEF GlobCell
    <3> QED  BY <1>2, <1>3, <2>2, <3>1, <3>2
  <2>3. CASE i \notin {n, n + 1}
    <3>1. /\ i \in 1..n - 1 /\ pattern[i] # Rest /\ i + 1 \in 1..n /\ i + 1 # n + 1 /\ i # n + 1
          /\ i \in Nat \ {0} /\ j \in Nat \ {0} /\ i <= n - 1 /\ n - 1 \in Nat
      BY <1>1, <1>2, <2>3
    <3>2. Fits(path, j, pattern, i, n - 1)
               <=> j <= l /\ path[j] \in pattern[i] /\ Fits(path, j + 1, pattern, i + 1, n - 1)
      BY <1>1, <1>2, <3>1, FitsOn
    <3>3. j <= l => (f[i + 1][j + 1] <=> Fits(path, j + 1, pattern, i + 1, n - 1))
      BY <1>2, <1>3, <3>1
    <3>4. GlobCell(f[i + 1], path, pattern, i, j) <=> j <= l /\ path[j] \in pattern[i] /\ f[i + 1][j + 1]
      BY <1>1, <1>2, <3>1 DEF GlobCell
    <3>5. f[i][j] <=> Fits(path, j, pattern, i, n - 1)
      BY <1>3, <3>1
    <3> QED  BY <3>2, <3>3, <3>4, <3>5
  <2> QED  BY <2>1, <2>2, <2>3
<1>5. GlobTable(f, path, pattern)
  BY <1>1, <1>2, <1>3, <1>4, IsTable
<1> DEFINE own == {i \in DOMAIN pattern : pattern[i] # Rest}
<1>6. own = 1..n - 1 /\ Cardinality(1..n - 1) = n - 1
  <2>1. own = 1..n - 1
    BY <1>1, <1>2
  <2>2. Cardinality(1..n - 1) = IF 1 > n - 1 THEN 0 ELSE n - 1 - 1 + 1
    BY <1>2, FS_Interval
  <2> QED  BY <1>2, <2>1, <2>2
<1>7. f[1][1] <=> Fits(path, 1, pattern, 1, n - 1)
  BY <1>2, <1>3
<1>8. GlobMatches(path, pattern) <=> Len(path) >= Cardinality(own) /\ f[1][1]
  BY <1>5, TableDecides
<1>9. Fits(path, 1, pattern, 1, n - 1) => l >= n - 1
  BY <1>1, <1>2, FitsLength
<1> HIDE DEF own
<1> QED  BY <1>1, <1>2, <1>6, <1>7, <1>8, <1>9

\* A pattern that begins with **: what comes after it is how the path ends.
LEMMA EndMatches ==
    ASSUME NEW A, NEW B, NEW path \in Seq(A), NEW pattern \in Seq(B),
           Len(pattern) >= 2, \A i \in DOMAIN pattern : pattern[i] = Rest <=> i = 1
    PROVE  GlobMatches(path, pattern)
             <=> /\ Len(path) >= Len(pattern) - 1
                 /\ Fits(path, Len(path) + 2 - Len(pattern), pattern, 2, Len(pattern))
<1>1. PICK n, l : n = Len(pattern) /\ l = Len(path)
  OBVIOUS
<1>2. n \in Nat /\ n >= 2 /\ l \in Nat /\ DOMAIN pattern = 1..n
  BY <1>1
<1> DEFINE C(i, j) == IF i = 1 THEN l + 1 - j >= n - 1 /\ Fits(path, l + 2 - n, pattern, 2, n)
                      ELSE l + 1 - j = n + 1 - i /\ Fits(path, j, pattern, i, n)
           f == [i \in 1..n + 1 |-> [j \in 1..l + 1 |-> C(i, j)]]
<1>3. /\ f \in [1..n + 1 -> [1..l + 1 -> BOOLEAN]]
      /\ \A i \in 1..n + 1, j \in 1..l + 1 : f[i][j] <=> C(i, j)
  BY DEF Fits
<1> HIDE DEF f
<1>4. ASSUME NEW i \in 1..n + 1, NEW j \in 1..l + 1
      PROVE  f[i][j] <=> GlobCell(f[i + 1], path, pattern, i, j)
  <2>1. CASE i = n + 1
    <3>1. Fits(path, j, pattern, i, n)
      BY <1>2, <2>1, FitsNothing
    <3>2. (l + 1 - j = n + 1 - i) <=> j > l
      BY <1>2, <2>1
    <3>3. f[i][j] <=> j > l
      BY <1>2, <1>3, <2>1, <3>1, <3>2
    <3>4. GlobCell(f[i + 1], path, pattern, i, j) <=> j > l
      BY <1>1, <1>2, <2>1 DEF GlobCell
    <3> QED  BY <3>3, <3>4
  <2>2. CASE i = 1
    <3>1. GlobCell(f[i + 1], path, pattern, i, j) <=> \E k \in j..l + 1 : f[2][k]
      BY <1>1, <1>2, <2>2 DEF GlobCell
    <3>2. ASSUME NEW k \in j..l + 1
          PROVE  f[2][k] <=> k = l + 2 - n /\ Fits(path, l + 2 - n, pattern, 2, n)
      <4>1. k \in 1..l + 1 /\ 2 \in 1..n + 1
        BY <1>2
      <4>2. f[2][k] <=> l + 1 - k = n + 1 - 2 /\ Fits(path, k, pattern, 2, n)
        BY <1>3, <4>1
      <4>3. (l + 1 - k = n + 1 - 2) <=> k = l + 2 - n
        BY <1>2
      <4> QED  BY <4>2, <4>3
    <3>3. l + 2 - n \in j..l + 1 <=> l + 1 - j >= n - 1
      BY <1>2
    <3>4. f[i][j] <=> l + 1 - j >= n - 1 /\ Fits(path, l + 2 - n, pattern, 2, n)
      BY <1>3, <2>2
    <3> QED  BY <3>1, <3>2, <3>3, <3>4
  <2>3. CASE i \notin {1, n + 1}
    <3>1. /\ i \in 2..n /\ pattern[i] # Rest /\ i + 1 \in 1..n + 1 /\ i # 1 /\ i + 1 # 1
          /\ i \in Nat \ {0} /\ j \in Nat \ {0} /\ i <= n
      BY <1>1, <1>2, <2>3
    <3>2. Fits(path, j, pattern, i, n)
               <=> j <= l /\ path[j] \in pattern[i] /\ Fits(path, j + 1, pattern, i + 1, n)
      BY <1>1, <1>2, <3>1, FitsOn
    <3>3. (l + 1 - j = n + 1 - i) <=> (l + 1 - (j + 1) = n + 1 - (i + 1))
      BY <1>2
    <3>4. j <= l => (f[i + 1][j + 1] <=> l + 1 - (j + 1) = n + 1 - (i + 1) /\ Fits(path, j + 1, pattern, i + 1, n))
      BY <1>2, <1>3, <3>1
    <3>5. GlobCell(f[i + 1], path, pattern, i, j) <=> j <= l /\ path[j] \in pattern[i] /\ f[i + 1][j + 1]
      BY <1>1, <1>2, <3>1 DEF GlobCell
    <3>6. f[i][j] <=> l + 1 - j = n + 1 - i /\ Fits(path, j, pattern, i, n)
      BY <1>3, <3>1
    <3> QED  BY <3>2, <3>3, <3>4, <3>5, <3>6
  <2> QED  BY <2>1, <2>2, <2>3
<1>5. GlobTable(f, path, pattern)
  BY <1>1, <1>2, <1>3, <1>4, IsTable
<1> DEFINE own == {i \in DOMAIN pattern : pattern[i] # Rest}
<1>6. own = 2..n /\ Cardinality(2..n) = n - 1
  <2>1. own = 2..n
    BY <1>1, <1>2
  <2>2. Cardinality(2..n) = IF 2 > n THEN 0 ELSE n - 2 + 1
    BY <1>2, FS_Interval
  <2> QED  BY <1>2, <2>1, <2>2
<1>7. f[1][1] <=> l >= n - 1 /\ Fits(path, l + 2 - n, pattern, 2, n)
  BY <1>2, <1>3
<1>8. GlobMatches(path, pattern) <=> Len(path) >= Cardinality(own) /\ f[1][1]
  BY <1>5, TableDecides
<1> HIDE DEF own
<1> QED  BY <1>1, <1>2, <1>6, <1>7, <1>8

\* A pattern between two **: it is somewhere in the path.
LEMMA WithinMatches ==
    ASSUME NEW A, NEW B, NEW path \in Seq(A), NEW pattern \in Seq(B),
           Len(pattern) >= 3, \A i \in DOMAIN pattern : pattern[i] = Rest <=> i \in {1, Len(pattern)}
    PROVE  GlobMatches(path, pattern) <=> \E k \in DOMAIN path : Fits(path, k, pattern, 2, Len(pattern) - 1)
<1>1. PICK n, l : n = Len(pattern) /\ l = Len(path)
  OBVIOUS
<1>2. n \in Nat /\ n >= 3 /\ l \in Nat /\ DOMAIN pattern = 1..n /\ DOMAIN path = 1..l
  BY <1>1
<1> DEFINE C(i, j) == \/ i = 1 /\ \E k \in j..l + 1 : Fits(path, k, pattern, 2, n - 1)
                      \/ i = n + 1 /\ j > l
                      \/ i \notin {1, n + 1} /\ Fits(path, j, pattern, i, n - 1)
           f == [i \in 1..n + 1 |-> [j \in 1..l + 1 |-> C(i, j)]]
<1>3. /\ f \in [1..n + 1 -> [1..l + 1 -> BOOLEAN]]
      /\ \A i \in 1..n + 1, j \in 1..l + 1 : f[i][j] <=> C(i, j)
  BY DEF Fits
<1> HIDE DEF f
<1>4. ASSUME NEW i \in 1..n + 1, NEW j \in 1..l + 1
      PROVE  f[i][j] <=> GlobCell(f[i + 1], path, pattern, i, j)
  <2>1. CASE i = n + 1
    <3>1. GlobCell(f[i + 1], path, pattern, i, j) <=> j > l
      BY <1>1, <1>2, <2>1 DEF GlobCell
    <3>2. f[i][j] <=> j > l
      BY <1>2, <1>3, <2>1
    <3> QED  BY <3>1, <3>2
  <2>2. CASE i = n
    <3>1. Fits(path, j, pattern, i, n - 1)
      BY <1>2, <2>2, FitsNothing
    <3>2. GlobCell(f[i + 1], path, pattern, i, j)
      BY <1>1, <1>2, <2>2 DEF GlobCell
    <3>3. i # 1 /\ i # n + 1
      BY <1>2, <2>2
    <3> QED  BY <1>3, <3>1, <3>2, <3>3
  <2>3. CASE i = 1
    <3>1. GlobCell(f[i + 1], path, pattern, i, j) <=> \E k \in j..l + 1 : f[2][k]
      BY <1>1, <1>2, <2>3 DEF GlobCell
    <3>2. ASSUME NEW k \in j..l + 1
          PROVE  f[2][k] <=> Fits(path, k, pattern, 2, n - 1)
      <4>1. k \in 1..l + 1 /\ 2 \in 1..n + 1 /\ 2 # n + 1
        BY <1>2
      <4> QED  BY <1>3, <4>1
    <3>3. f[i][j] <=> \E k \in j..l + 1 : Fits(path, k, pattern, 2, n - 1)
      <4>1. 1 # n + 1 /\ (f[i][j] <=> C(i, j))
        BY <1>2, <1>3
      <4> QED  BY <2>3, <4>1
    <3> QED  BY <3>1, <3>2, <3>3
  <2>4. CASE i \notin {1, n, n + 1}
    <3>1. /\ i \in 2..n - 1 /\ pattern[i] # Rest /\ i + 1 \in 1..n /\ i + 1 # n + 1 /\ i # n + 1
          /\ i \in Nat \ {0} /\ j \in Nat \ {0} /\ i <= n - 1 /\ n - 1 \in Nat /\ i # 1 /\ i + 1 # 1
      BY <1>1, <1>2, <2>4
    <3>2. Fits(path, j, pattern, i, n - 1)
               <=> j <= l /\ path[j] \in pattern[i] /\ Fits(path, j + 1, pattern, i + 1, n - 1)
      BY <1>1, <1>2, <3>1, FitsOn
    <3>3. j <= l => (f[i + 1][j + 1] <=> Fits(path, j + 1, pattern, i + 1, n - 1))
      BY <1>2, <1>3, <3>1
    <3>4. GlobCell(f[i + 1], path, pattern, i, j) <=> j <= l /\ path[j] \in pattern[i] /\ f[i + 1][j + 1]
      BY <1>1, <1>2, <3>1 DEF GlobCell
    <3>5. f[i][j] <=> Fits(path, j, pattern, i, n - 1)
      BY <1>3, <3>1
    <3> QED  BY <3>2, <3>3, <3>4, <3>5
  <2> QED  BY <2>1, <2>2, <2>3, <2>4
<1>5. GlobTable(f, path, pattern)
  BY <1>1, <1>2, <1>3, <1>4, IsTable
<1> DEFINE own == {i \in DOMAIN pattern : pattern[i] # Rest}
<1>6. own = 2..n - 1 /\ Cardinality(2..n - 1) = n - 2
  <2>1. own = 2..n - 1
    BY <1>1, <1>2
  <2>2. Cardinality(2..n - 1) = IF 2 > n - 1 THEN 0 ELSE n - 1 - 2 + 1
    BY <1>2, FS_Interval
  <2> QED  BY <1>2, <2>1, <2>2
<1>7. f[1][1] <=> \E k \in 1..l + 1 : Fits(path, k, pattern, 2, n - 1)
  BY <1>2, <1>3
<1>8. GlobMatches(path, pattern) <=> Len(path) >= Cardinality(own) /\ f[1][1]
  BY <1>5, TableDecides
<1>9. ASSUME NEW k \in 1..l + 1, Fits(path, k, pattern, 2, n - 1)
      PROVE  k \in DOMAIN path /\ l >= n - 2
  <2>1. k + (n - 1) - 2 <= l
    BY <1>1, <1>2, <1>9, FitsLength
  <2> QED  BY <1>2, <2>1
<1> HIDE DEF own
<1> QED  BY <1>1, <1>2, <1>6, <1>7, <1>8, <1>9

\* The four shapes of pattern that the deny-override floor is made of, for any
\* path: as it stands ("main"), what a path begins with ("production/**"), what
\* it ends with ("**/.mcp.json") and what is somewhere in it ("**/.git/**").
\* The floor denies what these say and no other path (globMatches, matchParts).
THEOREM GlobShapes ==
    ASSUME NEW A, NEW B, NEW path \in Seq(A), NEW pattern \in Seq(B)
    PROVE  /\ (\A i \in DOMAIN pattern : pattern[i] # Rest) =>
                (GlobMatches(path, pattern) <=>
                   Len(path) = Len(pattern) /\ Fits(path, 1, pattern, 1, Len(pattern)))
           /\ pattern # <<>> /\ (\A i \in DOMAIN pattern : pattern[i] = Rest <=> i = Len(pattern)) =>
                (GlobMatches(path, pattern) <=> Fits(path, 1, pattern, 1, Len(pattern) - 1))
           /\ Len(pattern) >= 2 /\ (\A i \in DOMAIN pattern : pattern[i] = Rest <=> i = 1) =>
                (GlobMatches(path, pattern) <=>
                   /\ Len(path) >= Len(pattern) - 1
                   /\ Fits(path, Len(path) + 2 - Len(pattern), pattern, 2, Len(pattern)))
           /\ Len(pattern) >= 3 /\ (\A i \in DOMAIN pattern : pattern[i] = Rest <=> i \in {1, Len(pattern)}) =>
                (GlobMatches(path, pattern) <=>
                   \E k \in DOMAIN path : Fits(path, k, pattern, 2, Len(pattern) - 1))
  <1>1. (\A i \in DOMAIN pattern : pattern[i] # Rest) =>
          (GlobMatches(path, pattern) <=>
             Len(path) = Len(pattern) /\ Fits(path, 1, pattern, 1, Len(pattern)))
    BY ExactMatches
  <1>2. pattern # <<>> /\ (\A i \in DOMAIN pattern : pattern[i] = Rest <=> i = Len(pattern)) =>
          (GlobMatches(path, pattern) <=> Fits(path, 1, pattern, 1, Len(pattern) - 1))
    BY Zenon, UnderMatches
  <1>3. Len(pattern) >= 2 /\ (\A i \in DOMAIN pattern : pattern[i] = Rest <=> i = 1) =>
          (GlobMatches(path, pattern) <=>
             /\ Len(path) >= Len(pattern) - 1
             /\ Fits(path, Len(path) + 2 - Len(pattern), pattern, 2, Len(pattern)))
    BY Zenon, EndMatches
  <1>4. Len(pattern) >= 3 /\ (\A i \in DOMAIN pattern : pattern[i] = Rest <=> i \in {1, Len(pattern)}) =>
          (GlobMatches(path, pattern) <=>
             \E k \in DOMAIN path : Fits(path, k, pattern, 2, Len(pattern) - 1))
    BY Zenon, WithinMatches
  <1> QED  BY <1>1, <1>2, <1>3, <1>4

--------------------------------------------------------------------------
(* What the floor answers *)

\* Once the device was read, the floor has decided just what it denies.
AnsweredByFloor(k) == call[k].d.by = "floor" <=> Floored(call[k].a)
AnswersInv == \A k \in Evaluations : call[k].at \notin {"idle", "device"} => AnsweredByFloor(k)

LEMMA AnswersInit == Init => AnswersInv
  BY DEF Init, AnswersInv, Evaluations, Idle

LEMMA AnswersStep == TInv /\ AnswersInv /\ [Next]_vars => AnswersInv'
  <1> SUFFICES ASSUME TInv, AnswersInv, [Next]_vars, NEW k \in Calls,
                      call'[k].op = "evaluate", call'[k].at \notin {"idle", "device"}
               PROVE  AnsweredByFloor(k)'
    BY DEF AnswersInv, Evaluations
  <1>0. call \in [Calls -> CallRecords] /\ CallShape
    BY DEF TInv, TypeOK
  <1>1. CASE call'[k] = call[k]
    BY <1>1 DEF AnswersInv, AnsweredByFloor, Evaluations
  <1>2. CASE StartEvaluate(k)
    BY <1>0, <1>2 DEF StartEvaluate, Idle
  <1>3. CASE ReadDevice(k)
    <2>1. /\ call'[k].d = Evaluate(call[k].a, call[k].s, device, Rules(call[k].version))
          /\ call'[k].a = call[k].a
      BY <1>0, <1>3 DEF ReadDevice, CallRecords
    <2> QED  BY <2>1 DEF Evaluate, Decision, AnsweredByFloor
  <1>4. CASE ListRules(k)
    <2>1. Alike(call'[k], call[k]) /\ call[k].at = "list"
      BY <1>0, <1>4 DEF ListRules, Now, Alike, CallRecords
    <2> QED  BY <2>1 DEF Alike, AnswersInv, AnsweredByFloor, Evaluations
  <1>5. CASE PutBack(k)
    <2>1. /\ call[k].op = "evaluate" /\ call[k].at = "put"
          /\ call[k].d = Decision("require_approval", "default")
      BY <1>5 DEF PutBack, TInv, CallShape
    <2>2. call'[k].d = Decision("allow", "remembered") /\ call'[k].a = call[k].a
      BY <1>0, <1>5 DEF PutBack, CallRecords
    <2> QED  BY <2>1, <2>2 DEF AnswersInv, AnsweredByFloor, Evaluations, Decision
  <1>6. CASE Alike(call'[k], call[k]) /\ call[k].at \in {"log", "prev", "store"}
    BY <1>6 DEF Alike, AnswersInv, AnsweredByFloor, Evaluations
  <1> QED  BY <1>1, <1>2, <1>3, <1>4, <1>5, <1>6, CallMoves

--------------------------------------------------------------------------
(* Paths as they are spelled *)

Rank(S, i) == Cardinality({j \in S : j <= i})

\* The numbers of a finite set are its first, its second, and so on to the last.
LEMMA Ranks ==
    ASSUME NEW n \in Nat, NEW S \in SUBSET (1..n)
    PROVE  /\ Cardinality(S) \in Nat /\ (Cardinality(S) = 0 <=> S = {})
           /\ \A i \in S : Rank(S, i) \in 1..Cardinality(S) /\ Nth(S, Rank(S, i)) = i
           /\ \A m \in 1..Cardinality(S) : Nth(S, m) \in S /\ Rank(S, Nth(S, m)) = m
           /\ \A i, j \in S : i < j => Rank(S, i) < Rank(S, j)
  <1> DEFINE Upto(i) == {j \in S : j <= i}
  <1>1. IsFiniteSet(S) /\ Cardinality(S) \in Nat /\ (Cardinality(S) = 0 <=> S = {})
    <2>1. IsFiniteSet(1..n)
      BY FS_Interval
    <2> QED  BY <2>1, FS_Subset, FS_CardinalityType, FS_EmptySet
  <1>2. ASSUME NEW i \in S
        PROVE  IsFiniteSet(Upto(i)) /\ Cardinality(Upto(i)) \in 1..Cardinality(S)
    <2>1. Upto(i) \in SUBSET S /\ i \in Upto(i)
      BY <1>2
    <2> HIDE DEF Upto
    <2>2. IsFiniteSet(Upto(i)) /\ Cardinality(Upto(i)) <= Cardinality(S)
      BY <1>1, <2>1, FS_Subset
    <2>3. Cardinality(Upto(i)) \in Nat /\ Cardinality(Upto(i)) # 0
      BY <2>1, <2>2, FS_CardinalityType, FS_EmptySet
    <2> QED  BY <1>1, <2>2, <2>3
  <1>3. ASSUME NEW i \in S, NEW j \in S, i < j
        PROVE  Cardinality(Upto(i)) < Cardinality(Upto(j))
    <2>0. i \in Nat /\ j \in Nat /\ S \subseteq Nat
      BY <1>3
    <2>1. Upto(i) \in SUBSET Upto(j) /\ j \in Upto(j) /\ j \notin Upto(i)
      <3>1. ASSUME NEW x \in Upto(i) PROVE x \in Upto(j)
        BY <1>3, <2>0, <3>1
      <3>2. j \in Upto(j) /\ j \notin Upto(i)
        BY <1>3, <2>0
      <3> QED  BY <3>1, <3>2
    <2>2. /\ IsFiniteSet(Upto(j)) /\ Cardinality(Upto(j)) \in 1..Cardinality(S)
          /\ Cardinality(Upto(i)) \in 1..Cardinality(S)
      BY <1>2
    <2> HIDE DEF Upto
    <2>3. Cardinality(Upto(i)) <= Cardinality(Upto(j)) /\ Cardinality(Upto(i)) # Cardinality(Upto(j))
      BY <2>1, <2>2, FS_Subset
    <2> QED  BY <1>1, <2>2, <2>3
  <1>4. \A i \in S : Rank(S, i) \in 1..Cardinality(S)
    BY <1>2 DEF Rank
  <1>5. \A i, j \in S : i < j => Rank(S, i) < Rank(S, j)
    BY <1>3 DEF Rank
  <1>6. \A i, j \in S : Rank(S, i) = Rank(S, j) => i = j
    BY <1>1, <1>4, <1>5
  <1>7. ASSUME NEW m \in 1..Cardinality(S) PROVE \E i \in S : Rank(S, i) = m
    <2> DEFINE f == [i \in S |-> Rank(S, i)]
    <2>1. f \in Injection(S, 1..Cardinality(S))
      BY <1>4, <1>6 DEF Injection, IsInjective
    <2>2. IsFiniteSet(1..Cardinality(S)) /\ Cardinality(1..Cardinality(S)) = Cardinality(S)
      BY <1>1, FS_Interval
    <2> HIDE DEF f
    <2>3. f \in Surjection(S, 1..Cardinality(S))
      BY <2>1, <2>2, FS_Injection
    <2>4. PICK i \in S : f[i] = m
      BY <2>3 DEF Surjection
    <2> QED  BY <2>4 DEF f
  <1>8. \A m \in 1..Cardinality(S) : Nth(S, m) \in S /\ Rank(S, Nth(S, m)) = m
    BY <1>7 DEF Nth, Rank
  <1>9. \A i \in S : Nth(S, Rank(S, i)) = i
    BY <1>4, <1>6, <1>8
  <1> QED  BY <1>1, <1>4, <1>5, <1>8, <1>9

\* Lower case leaves an empty name and a dot as they are.
Cases(Names) == Lower \in [Names -> Names] /\ Lower[""] = "" /\ Lower["."] = "."

\* The names that are kept, in lower case, one for each: the first of them
\* first and the last of them last.
Keeps(p, raw, K) ==
    /\ p = <<>> <=> K = {}
    /\ \A x : (\E m \in DOMAIN p : p[m] = x) <=> (\E i \in K : Lower[raw[i]] = x)
    /\ \A i \in K : (\A j \in K : i <= j) => p # <<>> /\ p[1] = Lower[raw[i]]
    /\ \A i \in K : (\A j \in K : j <= i) => p # <<>> /\ p[Len(p)] = Lower[raw[i]]
    /\ p # <<>> => \E i, j \in K : \A k \in K : i <= k /\ k <= j
    /\ \A x : p = <<x>> <=> \E i \in K : K = {i} /\ Lower[raw[i]] = x

\* What normalising a path does to it.
LEMMA NormalisedPath ==
    ASSUME NEW Names, Cases(Names), NEW raw \in Seq(Names)
    PROVE  Normalised(raw) \in Seq(Names) /\ Keeps(Normalised(raw), raw, Kept(raw))
  <1>path. PICK p : p = Normalised(raw)
    OBVIOUS
  <1>kept. PICK K : K = Kept(raw)
    OBVIOUS
  <1> DEFINE c == Cardinality(K)
  <1>1. /\ Len(raw) \in Nat /\ DOMAIN raw = 1..Len(raw) /\ K \in SUBSET (1..Len(raw))
        /\ \A i \in K : raw[i] \in Names
    <2>1. Len(raw) \in Nat /\ DOMAIN raw = 1..Len(raw) /\ \A i \in 1..Len(raw) : raw[i] \in Names
      OBVIOUS
    <2> QED  BY <1>kept, <2>1 DEF Kept
  <1>2. /\ c \in Nat /\ (c = 0 <=> K = {})
        /\ \A i \in K : Rank(K, i) \in 1..c /\ Nth(K, Rank(K, i)) = i
        /\ \A m \in 1..c : Nth(K, m) \in K /\ Rank(K, Nth(K, m)) = m
        /\ \A i, j \in K : i < j => Rank(K, i) < Rank(K, j)
    BY <1>1, Ranks
  <1>3. p = [m \in 1..c |-> Lower[raw[Nth(K, m)]]]
    BY <1>path, <1>kept DEF Normalised
  <1> HIDE DEF c
  <1>order. ASSUME NEW i \in K, NEW j \in K, Rank(K, i) <= Rank(K, j) PROVE i <= j
    <2>1. i \in Int /\ j \in Int
      BY <1>1
    <2>2. Rank(K, i) \in Int /\ Rank(K, j) \in Int
      BY <1>2
    <2>3. j < i => Rank(K, j) < Rank(K, i)
      BY <1>2
    <2> QED  BY <1>order, <2>1, <2>2, <2>3
  <1>range. \A i \in K : 1 <= Rank(K, i) /\ Rank(K, i) <= c /\ i \in Int
    BY <1>1, <1>2
  <1>4. \A m \in 1..c : Lower[raw[Nth(K, m)]] \in Names
    BY <1>1, <1>2 DEF Cases
  <1>5. p \in Seq(Names) /\ Len(p) = c /\ DOMAIN p = 1..c
    BY <1>2, <1>3, <1>4
  <1>6. ASSUME NEW m \in DOMAIN p
        PROVE  \E i \in K : p[m] = Lower[raw[i]] /\ Rank(K, i) = m
    BY <1>2, <1>3, <1>5, <1>6
  <1>7. ASSUME NEW i \in K
        PROVE  Rank(K, i) \in DOMAIN p /\ p[Rank(K, i)] = Lower[raw[i]]
    BY <1>2, <1>3, <1>5, <1>7
  <1>8. p = <<>> <=> K = {}
    BY <1>2, <1>5
  <1>9. ASSUME NEW i \in K, \A j \in K : i <= j PROVE p # <<>> /\ p[1] = Lower[raw[i]]
    <2>1. p # <<>> /\ 1 \in 1..c
      BY <1>2, <1>5, <1>8
    <2>2. Nth(K, 1) \in K /\ Rank(K, Nth(K, 1)) = 1 /\ Rank(K, i) \in 1..c
      BY <1>2, <2>1
    <2>3. Nth(K, 1) = i
      BY <1>9, <1>order, <1>range, <2>2
    <2> QED  BY <1>3, <2>1, <2>3
  <1>10. ASSUME NEW i \in K, \A j \in K : j <= i PROVE p # <<>> /\ p[Len(p)] = Lower[raw[i]]
    <2>1. p # <<>> /\ c \in 1..c
      BY <1>2, <1>5, <1>8
    <2>2. Nth(K, c) \in K /\ Rank(K, Nth(K, c)) = c /\ Rank(K, i) \in 1..c
      BY <1>2, <2>1
    <2>3. Nth(K, c) = i
      BY <1>10, <1>order, <1>range, <2>2
    <2> QED  BY <1>3, <1>5, <2>1, <2>3
  <1>11. ASSUME NEW x PROVE p = <<x>> <=> \E i \in K : K = {i} /\ Lower[raw[i]] = x
    <2>1. ASSUME p = <<x>> PROVE \E i \in K : K = {i} /\ Lower[raw[i]] = x
      <3>1. c = 1 /\ p[1] = x
        BY <1>5, <2>1
      <3>2. PICK i \in K : p[1] = Lower[raw[i]]
        BY <1>5, <1>6, <3>1
      <3>3. \A j \in K : j = i
        BY <1>1, <1>2, <3>1
      <3> QED  BY <3>1, <3>2, <3>3
    <2>2. ASSUME NEW i \in K, K = {i}, Lower[raw[i]] = x PROVE p = <<x>>
      <3>1. p # <<>> /\ p[1] = x
        BY <1>1, <1>9, <2>2
      <3>2. c = 1
        <4>1. Cardinality({i}) = 1
          BY FS_Singleton
        <4> QED  BY <2>2, <4>1 DEF c
      <3> QED  BY <1>5, <3>1, <3>2
    <2> QED  BY <2>1, <2>2
  <1>12. \A x : (\E m \in DOMAIN p : p[m] = x) <=> (\E i \in K : Lower[raw[i]] = x)
    BY <1>6, <1>7
  <1>13. ASSUME p # <<>> PROVE \E i, j \in K : \A k \in K : i <= k /\ k <= j
    <2>1. 1 \in 1..c /\ c \in 1..c
      BY <1>2, <1>8, <1>13
    <2>2. /\ Nth(K, 1) \in K /\ Rank(K, Nth(K, 1)) = 1
          /\ Nth(K, c) \in K /\ Rank(K, Nth(K, c)) = c
      BY <1>2, <2>1
    <2>3. ASSUME NEW k \in K PROVE Nth(K, 1) <= k /\ k <= Nth(K, c)
      BY <1>order, <1>range, <2>2, <2>3
    <2> QED  BY <2>2, <2>3
  <1>14. Keeps(p, raw, K)
    BY <1>8, <1>9, <1>10, <1>11, <1>12, <1>13 DEF Keeps
  <1> QED  BY <1>path, <1>kept, <1>5, <1>14

\* What the entries of the instance mean.
LEMMA FloorMeans ==
    ASSUME Rest \notin {{"main"}, {".mcp.json"}, {".odysseus"}, {"production"}},
           NEW Names, NEW path \in Seq(Names)
    PROVE  /\ GlobMatches(path, <<{"main"}>>) <=> path = <<"main">>
           /\ GlobMatches(path, <<{"production"}, Rest>>) <=> path # <<>> /\ path[1] = "production"
           /\ GlobMatches(path, <<Rest, {".mcp.json"}>>) <=> path # <<>> /\ path[Len(path)] = ".mcp.json"
           /\ GlobMatches(path, <<Rest, {".odysseus"}, Rest>>) <=> \E i \in DOMAIN path : path[i] = ".odysseus"
  <1> DEFINE B == {Rest, {"main"}, {".mcp.json"}, {".odysseus"}, {"production"}}
             l == Len(path)
  <1>0. l \in Nat /\ DOMAIN path = 1..l /\ (path # <<>> <=> l >= 1)
    OBVIOUS
  <1>1. GlobMatches(path, <<{"main"}>>) <=> path = <<"main">>
    <2> DEFINE p == <<{"main"}>>
    <2>1. p \in Seq(B) /\ Len(p) = 1 /\ DOMAIN p = 1..1 /\ p[1] = {"main"}
      OBVIOUS
    <2>2. \A i \in DOMAIN p : p[i] # Rest
      BY <2>1
    <2> HIDE DEF p
    <2>3. GlobMatches(path, p) <=> l = 1 /\ Fits(path, 1, p, 1, 1)
      <3>1. GlobMatches(path, p) <=> l = Len(p) /\ Fits(path, 1, p, 1, Len(p))
        <4> HIDE DEF B
        <4> QED  BY Zenon, <2>1, <2>2, ExactMatches
      <3> QED  BY <2>1, <3>1
    <2>4. Fits(path, 1, p, 1, 1) <=> 1 <= l /\ path[1] = "main"
      BY <1>0, <2>1 DEF Fits
    <2>5. path = <<"main">> <=> l = 1 /\ path[1] = "main"
      OBVIOUS
    <2> QED  BY <2>3, <2>4, <2>5 DEF p
  <1>2. GlobMatches(path, <<Rest, {".mcp.json"}>>) <=> path # <<>> /\ path[Len(path)] = ".mcp.json"
    <2> DEFINE p == <<Rest, {".mcp.json"}>>
    <2>1. p \in Seq(B) /\ Len(p) = 2 /\ DOMAIN p = 1..2 /\ p[1] = Rest /\ p[2] = {".mcp.json"}
      OBVIOUS
    <2>2. \A i \in DOMAIN p : p[i] = Rest <=> i = 1
      BY <2>1
    <2> HIDE DEF p
    <2>3. GlobMatches(path, p) <=> l >= 2 - 1 /\ Fits(path, l + 2 - 2, p, 2, 2)
      <3>1. GlobMatches(path, p) <=> l >= Len(p) - 1 /\ Fits(path, l + 2 - Len(p), p, 2, Len(p))
        <4>1. p \in Seq(B) /\ Len(p) >= 2
          BY <2>1
        <4> HIDE DEF B
        <4> QED  BY Zenon, <4>1, <2>2, EndMatches
      <3> QED  BY <2>1, <3>1
    <2>4. Fits(path, l + 2 - 2, p, 2, 2) <=> path[l] = ".mcp.json"
      BY <1>0, <2>1 DEF Fits
    <2> QED  BY <1>0, <2>3, <2>4 DEF p
  <1>3. GlobMatches(path, <<Rest, {".odysseus"}, Rest>>) <=> \E i \in DOMAIN path : path[i] = ".odysseus"
    <2> DEFINE p == <<Rest, {".odysseus"}, Rest>>
    <2>1. p \in Seq(B) /\ Len(p) = 3 /\ DOMAIN p = 1..3 /\ p[1] = Rest /\ p[2] = {".odysseus"} /\ p[3] = Rest
      OBVIOUS
    <2>2. \A i \in DOMAIN p : p[i] = Rest <=> i \in {1, 3}
      BY <2>1
    <2> HIDE DEF p
    <2>3. GlobMatches(path, p) <=> \E k \in DOMAIN path : Fits(path, k, p, 2, 3 - 1)
      <3>1. GlobMatches(path, p) <=> \E k \in DOMAIN path : Fits(path, k, p, 2, Len(p) - 1)
        <4>1. p \in Seq(B) /\ Len(p) >= 3 /\ (\A i \in DOMAIN p : p[i] = Rest <=> i \in {1, Len(p)})
          BY <2>1, <2>2
        <4> HIDE DEF B
        <4> QED  BY Zenon, <4>1, WithinMatches
      <3> QED  BY <2>1, <3>1
    <2>4. \A k \in DOMAIN path : Fits(path, k, p, 2, 3 - 1) <=> path[k] = ".odysseus"
      BY <1>0, <2>1 DEF Fits
    <2> QED  BY <2>3, <2>4 DEF p
  <1>4. GlobMatches(path, <<{"production"}, Rest>>) <=> path # <<>> /\ path[1] = "production"
    <2> DEFINE p == <<{"production"}, Rest>>
    <2>1. p \in Seq(B) /\ Len(p) = 2 /\ DOMAIN p = 1..2 /\ p[1] = {"production"} /\ p[2] = Rest /\ p # <<>>
      OBVIOUS
    <2>2. \A i \in DOMAIN p : p[i] = Rest <=> i = 2
      BY <2>1
    <2> HIDE DEF p
    <2>3. GlobMatches(path, p) <=> Fits(path, 1, p, 1, 2 - 1)
      <3>1. GlobMatches(path, p) <=> Fits(path, 1, p, 1, Len(p) - 1)
        <4>1. p \in Seq(B) /\ p # <<>> /\ (\A i \in DOMAIN p : p[i] = Rest <=> i = Len(p))
          BY <2>1, <2>2
        <4> HIDE DEF B
        <4> QED  BY Zenon, <4>1, UnderMatches
      <3> QED  BY <2>1, <3>1
    <2>4. Fits(path, 1, p, 1, 2 - 1) <=> 1 <= l /\ path[1] = "production"
      BY <1>0, <2>1 DEF Fits
    <2> QED  BY <1>0, <2>3, <2>4 DEF p
  <1> QED  BY <1>1, <1>2, <1>3, <1>4

\* The same of a path as it is spelled.
LEMMA SpellingMeans ==
    ASSUME NEW Names, Cases(Names), NEW raw \in Seq(Names), NEW p, p = Normalised(raw)
    PROVE  /\ p = <<"main">> <=> Main(raw)
           /\ (p # <<>> /\ p[1] = "production") <=> Production(raw)
           /\ ((p # <<>> /\ p[Len(p)] = ".mcp.json") \/ \E i \in DOMAIN p : p[i] = ".odysseus")
                 <=> ProtectedFile(raw)
  <1> DEFINE l == Len(raw)
             Means == {"main", "production", ".mcp.json", ".odysseus"}
  <1>0. PICK K : K = Kept(raw)
    OBVIOUS
  <1>1. l \in Nat /\ DOMAIN raw = 1..l /\ \A i \in 1..l : raw[i] \in Names
    OBVIOUS
  <1>2. /\ K \subseteq 1..l
        /\ \A i \in 1..l : raw[i] \notin Blank => i \in K
        /\ \A i \in K : raw[i] \notin Blank \/ (raw[i] = "" /\ i = 1) \/ (raw[i] = "." /\ i = l)
        /\ \A i \in 1..l : (raw[i] = "" /\ i = 1) \/ (raw[i] = "." /\ i = l) => i \in K
    BY <1>0, <1>1 DEF Kept, Blank
  <1>3. \A i \in 1..l : Lower[raw[i]] \in Means => raw[i] \notin Blank
    BY DEF Blank, Cases
  <1>4. p \in Seq(Names) /\ Keeps(p, raw, K)
    BY Zenon, <1>0, NormalisedPath
  <1> HIDE DEF l
  \* A blank name is kept at either end only, and there it shows.
  <1>5. ASSUME NEW i \in 1..l
        PROVE  /\ ~Relative(raw) => 1 \in K /\ raw[1] \in Blank
               /\ ~NoDotAtEnd(raw) => l \in K /\ raw[l] \in Blank
               /\ Relative(raw) /\ i \in K /\ raw[i] \in Blank => i = l
               /\ NoDotAtEnd(raw) /\ i \in K /\ raw[i] \in Blank => i = 1
               /\ Relative(raw) /\ NoDotAtEnd(raw) /\ i \in K => raw[i] \notin Blank
    <2>1. 1 \in 1..l /\ l \in 1..l
      BY <1>1
    <2>2. ~Relative(raw) => 1 \in K /\ raw[1] \in Blank
      BY <1>2, <2>1 DEF Relative, Blank
    <2>3. ~NoDotAtEnd(raw) => l \in K /\ raw[l] \in Blank
      BY <1>2, <2>1 DEF NoDotAtEnd, Blank, l
    <2>4. /\ Relative(raw) /\ i \in K /\ raw[i] \in Blank => i = l /\ raw[l] = "."
          /\ NoDotAtEnd(raw) /\ i \in K /\ raw[i] \in Blank => i = 1
      BY <1>2 DEF Relative, NoDotAtEnd, l
    <2> QED  BY <2>2, <2>3, <2>4 DEF NoDotAtEnd, l
  <1>6. p = <<"main">> <=> Main(raw)
    <2>1. ASSUME NEW i \in K, K = {i}, Lower[raw[i]] = "main" PROVE Main(raw)
      <3>1. i \in 1..l /\ raw[i] \notin Blank
        BY <1>2, <1>3, <2>1
      <3>2. Relative(raw) /\ NoDotAtEnd(raw)
        BY <1>5, <2>1, <3>1
      <3>3. \A j \in DOMAIN raw \ {i} : raw[j] \in Blank
        BY <1>1, <1>2, <2>1
      <3> QED  BY <1>1, <2>1, <3>1, <3>2, <3>3 DEF Main
    <2>2. ASSUME Main(raw) PROVE \E i \in K : K = {i} /\ Lower[raw[i]] = "main"
      <3>1. PICK i \in 1..l : Lower[raw[i]] = "main" /\ \A j \in DOMAIN raw \ {i} : raw[j] \in Blank
        BY <1>1, <2>2 DEF Main
      <3>2. i \in K
        BY <1>2, <1>3, <3>1
      <3>3. ASSUME NEW j \in K PROVE j = i
        <4>1. j \in 1..l /\ raw[j] \notin Blank
          BY <1>2, <1>5, <2>2, <3>3 DEF Main
        <4> QED  BY <1>1, <3>1, <4>1
      <3> QED  BY <3>1, <3>2, <3>3
    <2> QED  BY <1>4, <2>1, <2>2 DEF Keeps
  <1>7. (p # <<>> /\ p[1] = "production") <=> Production(raw)
    <2>1. ASSUME p # <<>>, p[1] = "production" PROVE Production(raw)
      <3>1. PICK i \in K : \A j \in K : i <= j
        BY <1>4, <2>1 DEF Keeps
      <3>2. i \in 1..l /\ Lower[raw[i]] = "production"
        BY <1>2, <1>4, <2>1, <3>1 DEF Keeps
      <3>3. raw[i] \notin Blank
        BY <1>3, <3>2
      <3>4. Relative(raw)
        <4>1. ASSUME 1 \in K PROVE i = 1
          BY <1>1, <3>1, <3>2, <4>1
        <4> QED  BY <1>5, <3>2, <3>3, <4>1
      <3>5. ASSUME NEW j \in DOMAIN raw, j < i PROVE raw[j] \in Blank
        <4>1. j \in 1..l /\ j \notin K
          BY <1>1, <3>1, <3>2, <3>5
        <4> QED  BY <1>2, <4>1
      <3> QED  BY <1>1, <3>2, <3>4, <3>5 DEF Production
    <2>2. ASSUME Production(raw) PROVE p # <<>> /\ p[1] = "production"
      <3>1. PICK i \in 1..l : Lower[raw[i]] = "production" /\ \A j \in DOMAIN raw : j < i => raw[j] \in Blank
        BY <1>1, <2>2 DEF Production
      <3>2. i \in K
        BY <1>2, <1>3, <3>1
      <3>3. ASSUME NEW j \in K PROVE i <= j
        <4>1. j \in 1..l /\ (raw[j] \in Blank => j = l)
          BY <1>2, <1>5, <2>2, <3>3 DEF Production
        <4>2. j < i => raw[j] \in Blank
          BY <1>1, <3>1, <4>1
        <4>3. l \in Nat /\ i \in 1..l /\ j \in 1..l
          BY <1>1, <4>1
        <4> QED  BY <4>1, <4>2, <4>3
      <3> QED  BY <1>4, <3>1, <3>2, <3>3 DEF Keeps
    <2> QED  BY <2>1, <2>2
  <1>8. (\E m \in DOMAIN p : p[m] = ".odysseus") <=> \E i \in DOMAIN raw : Lower[raw[i]] = ".odysseus"
    <2>1. (\E m \in DOMAIN p : p[m] = ".odysseus") <=> \E i \in K : Lower[raw[i]] = ".odysseus"
      BY Zenon, <1>4 DEF Keeps
    <2>2. \A i \in DOMAIN raw : Lower[raw[i]] = ".odysseus" => i \in K
      BY <1>1, <1>2, <1>3
    <2> QED  BY <1>1, <1>2, <2>1, <2>2
  <1>9. (p # <<>> /\ p[Len(p)] = ".mcp.json")
           <=> \E i \in DOMAIN raw : /\ Lower[raw[i]] = ".mcp.json" /\ NoDotAtEnd(raw)
                                     /\ \A j \in DOMAIN raw : j > i => raw[j] \in Blank
    <2>1. ASSUME p # <<>>, p[Len(p)] = ".mcp.json"
          PROVE  \E i \in DOMAIN raw : /\ Lower[raw[i]] = ".mcp.json" /\ NoDotAtEnd(raw)
                                       /\ \A j \in DOMAIN raw : j > i => raw[j] \in Blank
      <3>1. PICK i \in K : \A j \in K : j <= i
        BY <1>4, <2>1 DEF Keeps
      <3>2. i \in 1..l /\ Lower[raw[i]] = ".mcp.json"
        BY <1>2, <1>4, <2>1, <3>1 DEF Keeps
      <3>3. raw[i] \notin Blank
        BY <1>3, <3>2
      <3>4. NoDotAtEnd(raw)
        <4>1. ASSUME l \in K PROVE i = l
          BY <1>1, <3>1, <3>2, <4>1
        <4> QED  BY <1>5, <3>2, <3>3, <4>1
      <3>5. ASSUME NEW j \in DOMAIN raw, j > i PROVE raw[j] \in Blank
        <4>1. j \in 1..l /\ j \notin K
          BY <1>1, <3>1, <3>2, <3>5
        <4> QED  BY <1>2, <4>1
      <3> QED  BY <1>1, <3>2, <3>4, <3>5
    <2>2. ASSUME NEW i \in DOMAIN raw, Lower[raw[i]] = ".mcp.json", NoDotAtEnd(raw),
                 \A j \in DOMAIN raw : j > i => raw[j] \in Blank
          PROVE  p # <<>> /\ p[Len(p)] = ".mcp.json"
      <3>1. i \in K /\ i \in 1..l
        BY <1>1, <1>2, <1>3, <2>2
      <3>2. ASSUME NEW j \in K PROVE j <= i
        <4>1. j \in 1..l /\ (raw[j] \in Blank => j = 1)
          BY <1>2, <1>5, <2>2, <3>2
        <4>2. j > i => raw[j] \in Blank
          BY <1>1, <2>2, <4>1
        <4> QED  BY <1>1, <3>1, <4>1, <4>2
      <3> QED  BY <1>4, <2>2, <3>1, <3>2 DEF Keeps
    <2> QED  BY <2>1, <2>2
  <1> QED  BY <1>6, <1>7, <1>8, <1>9 DEF ProtectedFile

LEMMA FloorProtects ==
    ASSUME Floor = MCFloor, Any \notin {e.pattern : e \in MCFloor},
           Rest \notin {{"main"}, {".mcp.json"}, {".odysseus"}, {"production"}},
           NEW Names, Cases(Names), Any \notin BOOLEAN, Any \notin Seq(Names),
           NEW a, a.raw \in Seq(Names) \cup {Any}, a.writes \subseteq Seq(Names)
    PROVE  Floored(a) <=> Protected(a)
  \* What an entry asks of a path.
  <1> DEFINE Reads(raw, pattern) == /\ raw # Any /\ Normalised(raw) \notin {<<>>, <<"">>}
                                    /\ GlobMatches(Normalised(raw), pattern)
  <1>1. ASSUME NEW capability, NEW raw, NEW force
        PROVE  FloorMatches(capability, raw, force)
                 <=> \E e \in MCFloor : /\ e.capability = capability /\ e.force \in {Any, force}
                                        /\ Reads(raw, e.pattern)
    <2>1. \A e \in Floor : e.pattern # Any
      OBVIOUS
    <2> QED  BY <2>1 DEF FloorMatches
  <1>2. ASSUME NEW raw \in Seq(Names)
        PROVE  /\ Reads(raw, <<{"main"}>>) <=> Main(raw)
               /\ Reads(raw, <<{"production"}, Rest>>) <=> Production(raw)
               /\ Reads(raw, <<Rest, {".mcp.json"}>>) \/ Reads(raw, <<Rest, {".odysseus"}, Rest>>)
                     <=> ProtectedFile(raw)
    <2>1. raw # Any
      BY Zenon
    <2>2. PICK p : p = Normalised(raw)
      OBVIOUS
    <2>3. p \in Seq(Names)
      BY <2>2, NormalisedPath
    <2>4. /\ GlobMatches(p, <<{"main"}>>) <=> p = <<"main">>
          /\ GlobMatches(p, <<{"production"}, Rest>>) <=> p # <<>> /\ p[1] = "production"
          /\ GlobMatches(p, <<Rest, {".mcp.json"}>>) <=> p # <<>> /\ p[Len(p)] = ".mcp.json"
          /\ GlobMatches(p, <<Rest, {".odysseus"}, Rest>>) <=> \E i \in DOMAIN p : p[i] = ".odysseus"
      BY <2>3, FloorMeans
    <2>5. /\ p = <<"main">> <=> Main(raw)
          /\ (p # <<>> /\ p[1] = "production") <=> Production(raw)
          /\ ((p # <<>> /\ p[Len(p)] = ".mcp.json") \/ \E i \in DOMAIN p : p[i] = ".odysseus")
                <=> ProtectedFile(raw)
      BY <2>2, SpellingMeans
    <2>6. /\ p = <<"main">> => p \notin {<<>>, <<"">>}
          /\ p # <<>> /\ p[1] = "production" => p \notin {<<>>, <<"">>}
          /\ p # <<>> /\ p[Len(p)] = ".mcp.json" => p \notin {<<>>, <<"">>}
          /\ (\E i \in DOMAIN p : p[i] = ".odysseus") => p \notin {<<>>, <<"">>}
      <3>1. /\ Len(<<"main">>) = 1 /\ <<"main">>[1] = "main" /\ Len(<<"">>) = 1 /\ <<"">>[1] = ""
            /\ DOMAIN <<"">> = {1} /\ DOMAIN <<>> = {}
        OBVIOUS
      <3>2. p = <<"main">> => p \notin {<<>>, <<"">>}
        BY <3>1
      <3>3. p # <<>> /\ p[1] = "production" => p \notin {<<>>, <<"">>}
        BY <3>1
      <3>4. p # <<>> /\ p[Len(p)] = ".mcp.json" => p \notin {<<>>, <<"">>}
        BY <3>1
      <3>5. (\E i \in DOMAIN p : p[i] = ".odysseus") => p \notin {<<>>, <<"">>}
        BY <3>1
      <3> QED  BY <3>2, <3>3, <3>4, <3>5
    <2> QED  BY <2>1, <2>2, <2>4, <2>5, <2>6
  <1> HIDE DEF Reads
  \* The entries, by capability.
  <1> DEFINE Entry(capability, force, pattern) ==
               [capability |-> capability, force |-> force, pattern |-> pattern]
             Asks(capability, raw, force) ==
               \/ capability = "deployment.execute" /\ Reads(raw, <<{"production"}, Rest>>)
               \/ capability = "git.push" /\ TRUE \in {Any, force} /\ Reads(raw, <<{"main"}>>)
               \/ /\ capability = "filesystem.write"
                  /\ Reads(raw, <<Rest, {".mcp.json"}>>) \/ Reads(raw, <<Rest, {".odysseus"}, Rest>>)
  <1>entries. ASSUME NEW capability, NEW raw, NEW force
        PROVE  FloorMatches(capability, raw, force) <=> Asks(capability, raw, force)
    <2>1. PICK e1 : e1 = Entry("deployment.execute", Any, <<{"production"}, Rest>>)
      OBVIOUS
    <2>2. PICK e2 : e2 = Entry("git.push", TRUE, <<{"main"}>>)
      OBVIOUS
    <2>3. PICK e3 : e3 = Entry("filesystem.write", Any, <<Rest, {".mcp.json"}>>)
      OBVIOUS
    <2>4. PICK e4 : e4 = Entry("filesystem.write", Any, <<Rest, {".odysseus"}, Rest>>)
      OBVIOUS
    <2>5. MCFloor = {e1, e2, e3, e4}
      BY Zenon, <2>1, <2>2, <2>3, <2>4 DEF MCFloor
    <2>6. /\ e1.capability = "deployment.execute" /\ e1.force = Any /\ e1.pattern = <<{"production"}, Rest>>
          /\ e2.capability = "git.push" /\ e2.force = TRUE /\ e2.pattern = <<{"main"}>>
          /\ e3.capability = "filesystem.write" /\ e3.force = Any /\ e3.pattern = <<Rest, {".mcp.json"}>>
          /\ e4.capability = "filesystem.write" /\ e4.force = Any
          /\ e4.pattern = <<Rest, {".odysseus"}, Rest>>
      BY <2>1, <2>2, <2>3, <2>4
    <2> QED  BY <1>1, <2>5, <2>6
  <1> HIDE DEF Asks
  <1>3. ASSUME NEW raw \in Seq(Names), NEW force
        PROVE  FloorMatches("filesystem.write", raw, force) <=> ProtectedFile(raw)
    BY <1>2, <1>entries DEF Asks
  <1>4. CASE a.raw = Any
    <2>1. \A pattern : ~Reads(a.raw, pattern)
      BY <1>4 DEF Reads
    <2>2. \A force : ~FloorMatches(a.capability, a.raw, force)
      BY <1>1, <2>1
    <2> QED  BY <1>3, <1>4, <2>2 DEF Floored, Protected
  <1>5. CASE a.raw \in Seq(Names)
    <2>1. a.raw # Any
      BY Zenon, <1>5
    <2>2. FloorMatches("git.push", a.raw, a.force) <=> a.force = TRUE /\ Main(a.raw)
      <3>1. a.force = TRUE <=> TRUE \in {Any, a.force}
        OBVIOUS
      <3>2. FloorMatches("git.push", a.raw, a.force)
              <=> TRUE \in {Any, a.force} /\ Reads(a.raw, <<{"main"}>>)
        BY <1>entries DEF Asks
      <3> QED  BY <1>2, <1>5, <3>1, <3>2
    <2>3. FloorMatches("deployment.execute", a.raw, a.force) <=> Production(a.raw)
      BY <1>2, <1>5, <1>entries DEF Asks
    <2>4. a.capability \notin {"git.push", "filesystem.write", "deployment.execute"}
             => ~FloorMatches(a.capability, a.raw, a.force)
      BY <1>entries DEF Asks
    <2> QED  BY <1>3, <1>5, <2>1, <2>2, <2>3, <2>4 DEF Floored, Protected
  <1> QED  BY <1>4, <1>5

\* What the policy answers is the floor's answer just when the floor denies the
\* action: no rule, default or remembered approval takes its place, and it
\* denies nothing else (evaluate, denyFloorMatches).
THEOREM FloorAnswersAlways == Spec => []AnswersInv
  <1> QED  BY TypeInit, TypeStep, AnswersInit, AnswersStep, PTL DEF Spec

\* With the entries of the instance, whose shapes are those of the code's floor,
\* what is denied by it are the forced pushes to main, the deployments to
\* production and the writes to a file called .mcp.json anywhere and to
\* .odysseus and all below it, however the path is spelled and whatever command
\* writes it (DENY_OVERRIDE_FLOOR, normaliseResource, globMatches).
THEOREM FloorReadsPathsAlways ==
    ASSUME Floor = MCFloor, Any \notin {e.pattern : e \in MCFloor},
           Rest \notin {{"main"}, {".mcp.json"}, {".odysseus"}, {"production"}},
           NEW Names, Cases(Names), Any \notin BOOLEAN, Any \notin Seq(Names),
           \A a \in Actions : a.raw \in Seq(Names) \cup {Any} /\ a.writes \subseteq Seq(Names)
    PROVE  Spec => []FloorReadsPaths
  <1>1. TInv /\ AnswersInv => FloorReadsPaths
    <2> SUFFICES ASSUME TInv, AnswersInv, NEW k \in Evaluations, call[k].at \notin {"idle", "device"}
                 PROVE  call[k].d.by = "floor" <=> Protected(call[k].a)
      BY DEF FloorReadsPaths
    <2>1. call[k].d.by = "floor" <=> Floored(call[k].a)
      BY DEF AnswersInv, AnsweredByFloor
    <2>2. PICK q \in Requests : q[1] = call[k].a
      BY DEF TInv, CallShape, Evaluations
    <2>3. call[k].a \in Actions
      BY <2>2 DEF Actions
    <2>4. Floored(call[k].a) <=> Protected(call[k].a)
      BY <2>3, FloorProtects
    <2> QED  BY <2>1, <2>4
  <1>2. Spec => [](TInv /\ AnswersInv)
    BY TypeInit, TypeStep, AnswersInit, AnswersStep, PTL DEF Spec
  <1> QED  BY <1>1, <1>2, PTL
=============================================================================
