--------------------------- MODULE PolicyService ---------------------------
(***************************************************************************)
(* The policy service of the control plane: evaluations, the versions of   *)
(* the policy and which of them is in force, approvals that were           *)
(* remembered, and the audit log that all of it is written to              *)
(* (control-plane/src/policy: policy-engine-service.ts,                    *)
(* remembered-approvals.ts, audit-log.ts) over the Firestore store         *)
(* (db/firestore-store.ts).  A call awaits the store several times, and    *)
(* other calls go on in between.                                           *)
(*                                                                         *)
(* One user and one device; a device that is no longer trusted stays so,   *)
(* and is not deleted: of a device it does not find the code makes a       *)
(* trusted one, which only follows the deletion of a whole account.  Every *)
(* request names the project of its session, as all callers do but the     *)
(* route that evaluates what it is given (http-router.ts:3055).            *)
(* A remembered rule is known by what it says; when it was made and how    *)
(* often it was used is left out, so of two that match either is taken.    *)
(* Other writers of the audit log write it as the calls here do.           *)
(***************************************************************************)
EXTENDS PolicyEngine

CONSTANTS
    Requests,      \* pairs of an action, as PolicyEngine describes it, and the session that
                   \* asks for it: a record of id, agent, project (or Any) and profile
    RuleBooks,     \* what admins write: sequences of rules
    FirstBooks,    \* the versions there are at first
    FirstActive,   \* which of them is in force; 0 for none
    FirstGranted,  \* requests that were approved and remembered before, for the project
    MaxVersions,   \* bound: versions of the policy
    MaxCalls,      \* bound: calls of the service
    MaxEvaluations \* bound: evaluations among them

ASSUME ServiceAssumption ==
    /\ FirstBooks \in Seq(RuleBooks) /\ FirstActive \in 0..Len(FirstBooks)
    /\ Len(FirstBooks) <= MaxVersions
    /\ FirstGranted \subseteq Requests
    /\ {MaxVersions, MaxCalls, MaxEvaluations} \subseteq Nat

\* Every session has an agent.
ASSUME RequestsAssumption ==
    \A q \in Requests : /\ q = <<q[1], q[2]>> /\ q[1].risk \in RiskClasses
                        /\ Any \notin {q[2].id, q[2].agent}

ASSUME RulesAssumption ==
    \A b \in RuleBooks :
       /\ b \in Seq({b[i] : i \in DOMAIN b})
       /\ \A i \in DOMAIN b : b[i].effect \in Effects /\ b[i].priority \in Int

Calls == 1..MaxCalls
Actions == {q[1] : q \in Requests}
Sessions == {q[2] : q \in Requests}

VARIABLES
    books,       \* the versions of the policy, in the order of their creation
    active,      \* those with isActive
    device,      \* the status of the device
    remembered,  \* the remembered approvals in the store
    expired,     \* those older than PROJECT_RULE_DAYS
    log,         \* the audit log; the hash of an entry is its place
    call,        \* where each call is
    granted,     \* history: the actions and sessions whose approvals were remembered
    revoked,     \* history: rules that were revoked
    raced,       \* history: rules revoked while a match was about to put them back
    settled,     \* history: the version activated last, 0 after a muddle
    muddled,     \* history: activations that ran beside another
    overlapped,  \* history: two calls were writing the audit log at a time
    late         \* history: evaluations that began when the device was not trusted

history == <<granted, revoked, raced, settled, muddled, overlapped, late>>
vars == <<books, active, device, remembered, expired, log, call, history>>

Idle == [op |-> "none", at |-> "idle", a |-> Any, s |-> Any, version |-> 0, todo |-> {},
         d |-> Decision("none", "none"), rule |-> Any, seq |-> 0, prev |-> 0]

Evaluations == {k \in Calls : call[k].op = "evaluate"}
Rules(v) == IF v = 0 THEN <<>> ELSE books[v]

--------------------------------------------------------------------------
(* Remembered approvals *)

Rememberable(a) == a.risk # "critical" /\ (a.command # Any \/ a.raw # Any)

\* The rule that is made of an approval: a session without a project is all
\* that its rule is good for.
RuleFor(a, s, scope) ==
    LET project == scope = "project" /\ s.project # Any
    IN [capability |-> a.capability, command |-> a.command,
        raw |-> IF a.command # Any THEN Any ELSE a.raw, agent |-> s.agent,
        project |-> IF project THEN s.project ELSE Any,
        session |-> IF project THEN Any ELSE s.id, max |-> a.risk]

Answers(rule, a, s) ==
    /\ a.command # Any \/ a.raw # Any
    /\ rule.capability = a.capability
    /\ RiskOrder[a.risk] <= RiskOrder[rule.max]
    /\ IF rule.command # Any THEN rule.command = a.command ELSE rule.raw = a.raw
    /\ rule.agent \in {Any, s.agent}
    /\ rule.project \in {Any, s.project} /\ rule.session \in {Any, s.id}

FirstRules == {RuleFor(g[1], g[2], "project") : g \in {h \in FirstGranted : Rememberable(h[1])}}

Init ==
    /\ books = FirstBooks /\ active = {FirstActive} \ {0} /\ device = "trusted"
    /\ remembered = FirstRules /\ expired = {}
    /\ log = <<>> /\ call = [k \in Calls |-> Idle]
    /\ granted = FirstGranted /\ revoked = {} /\ raced = {}
    /\ settled = FirstActive /\ muddled = {} /\ overlapped = FALSE /\ late = {}

--------------------------------------------------------------------------
(* Evaluations *)

Fresh(k) == call[k].op = "none" /\ \A j \in 1..k - 1 : call[j].op # "none"
Now(k, at) == [call EXCEPT ![k].at = at]

\* The versions are listed, and the first that is active counts; the order of
\* the list is the store's.  Without one the defaults decide.
StartEvaluate(k) ==
    /\ Fresh(k) /\ Cardinality(Evaluations) < MaxEvaluations
    /\ \E q \in Requests, v \in IF active = {} THEN {0} ELSE active :
          call' = [call EXCEPT ![k] = [Idle EXCEPT !.op = "evaluate", !.at = "device",
                                                   !.a = q[1], !.s = q[2], !.version = v]]
    /\ late' = IF device = "trusted" THEN late ELSE late \cup {k}
    /\ UNCHANGED <<books, active, device, remembered, expired, log,
                   granted, revoked, raced, settled, muddled, overlapped>>

\* The device is read, and policy decides.  Where the defaults would ask a
\* person, a remembered approval may answer.
ReadDevice(k) ==
    /\ call[k].at = "device"
    /\ LET d == Evaluate(call[k].a, call[k].s, device, Rules(call[k].version))
       IN call' = [call EXCEPT ![k].d = d,
                     ![k].at = IF d = Decision("require_approval", "default") THEN "list" ELSE "log"]
    /\ UNCHANGED <<books, active, device, remembered, expired, log, history>>

\* match lists the rules.
ListRules(k) ==
    /\ call[k].at = "list"
    /\ LET found == {r \in remembered \ expired : Answers(r, call[k].a, call[k].s)}
       IN IF found = {} THEN call' = Now(k, "log")
          ELSE \E r \in found : call' = [call EXCEPT ![k].at = "put", ![k].rule = r]
    /\ UNCHANGED <<books, active, device, remembered, expired, log, history>>

\* It stores the rule, counted as used once more, and whoever asked may go on.
PutBack(k) ==
    /\ call[k].at = "put"
    /\ remembered' = remembered \cup {call[k].rule}
    /\ call' = [call EXCEPT ![k].at = "log", ![k].d = Decision("allow", "remembered")]
    /\ UNCHANGED <<books, active, device, expired, log, history>>

\* The device is suspended or revoked: "lost" stands for both.
LoseDevice ==
    /\ device = "trusted"
    /\ device' = "lost"
    /\ UNCHANGED <<books, active, remembered, expired, log, call, history>>

--------------------------------------------------------------------------
(* Rules the user has remembered *)

\* An approval that policy asked for was granted and is remembered.
Remember(k) ==
    /\ Fresh(k)
    /\ \E j \in Calls, scope \in {"session", "project"} :
          LET a == call[j].a
              s == call[j].s
              r == RuleFor(a, s, scope)
          IN /\ call[j].op = "evaluate" /\ call[j].at = "done" /\ call[j].d.effect = "require_approval"
             /\ Rememberable(a)
             /\ remembered' = remembered \cup {r} /\ expired' = expired \ {r}
             /\ revoked' = revoked \ {r} /\ raced' = raced \ {r}
             /\ granted' = granted \cup {<<a, s>>}
    /\ call' = [call EXCEPT ![k].op = "remember", ![k].at = "log"]
    /\ UNCHANGED <<books, active, device, log, settled, muddled, overlapped, late>>

Expire(r) ==
    /\ r \in remembered \ expired /\ r.project # Any
    /\ expired' = expired \cup {r}
    /\ UNCHANGED <<books, active, device, remembered, log, call, history>>

\* Mutant: the rule is found and stays.
RevokeNothing(k) ==
    /\ Fresh(k)
    /\ \E r \in remembered : revoked' = revoked \cup {r}
    /\ call' = [call EXCEPT ![k].op = "revoke", ![k].at = "log"]
    /\ UNCHANGED <<books, active, device, remembered, expired, log, granted, raced, settled, muddled, overlapped, late>>

Revoke(k) ==
    /\ Fresh(k)
    /\ \E r \in remembered :
          /\ remembered' = remembered \ {r}
          /\ revoked' = revoked \cup {r}
          /\ raced' = IF \E j \in Calls : call[j].at = "put" /\ call[j].rule = r
                      THEN raced \cup {r} ELSE raced
    /\ call' = [call EXCEPT ![k].op = "revoke", ![k].at = "log"]
    /\ UNCHANGED <<books, active, device, expired, log, granted, settled, muddled, overlapped, late>>

--------------------------------------------------------------------------
(* Versions of the policy *)

CreateVersion(k) ==
    /\ Fresh(k) /\ Len(books) < MaxVersions
    /\ \E b \in RuleBooks : books' = Append(books, b)
    /\ call' = [call EXCEPT ![k].op = "create", ![k].at = "log"]
    /\ UNCHANGED <<active, device, remembered, expired, log, history>>

Activating == {k \in Calls : call[k].at = "write"}

\* Activation lists the versions.  The one that is named need not be there.
StartActivate(k) ==
    /\ Fresh(k)
    /\ \E v \in 0..Len(books) :
          call' = [call EXCEPT ![k] = [Idle EXCEPT !.op = "activate", !.version = v,
                     !.at = IF books = <<>> THEN "done" ELSE "write", !.todo = DOMAIN books]]
    /\ muddled' = IF Activating = {} THEN muddled ELSE muddled \cup Activating \cup {k}
    /\ UNCHANGED <<books, active, device, remembered, expired, log,
                   granted, revoked, raced, settled, overlapped, late>>

\* Mutant: the others stay active.
WriteActiveOnly(k) ==
    /\ call[k].at = "write"
    /\ active' = active \cup {call[k].version}
    /\ call' = [call EXCEPT ![k].todo = {}, ![k].at = "log"]
    /\ settled' = IF k \in muddled THEN 0 ELSE call[k].version
    /\ UNCHANGED <<books, device, remembered, expired, log, granted, revoked, raced, muddled, overlapped, late>>

\* It writes them one by one, and logs unless the one it was to activate was
\* not among them.
WriteActive(k) ==
    /\ call[k].at = "write"
    /\ \E v \in call[k].todo :
          /\ active' = IF v = call[k].version THEN active \cup {v} ELSE active \ {v}
          /\ IF call[k].todo # {v}
             THEN call' = [call EXCEPT ![k].todo = @ \ {v}] /\ UNCHANGED settled
             ELSE /\ call' = [call EXCEPT ![k].todo = {},
                                ![k].at = IF call[k].version = 0 THEN "done" ELSE "log"]
                  /\ settled' = IF k \in muddled THEN 0 ELSE call[k].version
    /\ UNCHANGED <<books, device, remembered, expired, log, granted, revoked, raced, muddled, overlapped, late>>

--------------------------------------------------------------------------
(* The audit log: append reads the highest sequence, then the entry that has *)
(* it, and then writes.                                                      *)

Highest == IF log = <<>> THEN 0
           ELSE CHOOSE n \in {log[i].seq : i \in DOMAIN log} : \A i \in DOMAIN log : log[i].seq <= n
Top == IF log = <<>> THEN {0} ELSE {i \in DOMAIN log : log[i].seq = Highest}
Logging == {k \in Calls : call[k].at \in {"prev", "store"}}

\* Mutant: the number of an entry is its own call's.
ReadSeqOwn(k) ==
    /\ call[k].at = "log"
    /\ call' = [call EXCEPT ![k].seq = k, ![k].at = "prev"]
    /\ overlapped' = (overlapped \/ Logging # {})
    /\ UNCHANGED <<books, active, device, remembered, expired, log, granted, revoked, raced, settled, muddled, late>>

ReadSeq(k) ==
    /\ call[k].at = "log"
    /\ call' = [call EXCEPT ![k].seq = Highest + 1, ![k].at = "prev"]
    /\ overlapped' = (overlapped \/ Logging # {})
    /\ UNCHANGED <<books, active, device, remembered, expired, log, granted, revoked, raced, settled, muddled, late>>

ReadPrev(k) ==
    /\ call[k].at = "prev"
    /\ \E i \in Top : call' = [call EXCEPT ![k].prev = i, ![k].at = "store"]
    /\ UNCHANGED <<books, active, device, remembered, expired, log, history>>

StoreEntry(k) ==
    /\ call[k].at = "store"
    /\ log' = Append(log, [seq |-> call[k].seq, prev |-> call[k].prev])
    /\ call' = Now(k, "done")
    /\ UNCHANGED <<books, active, device, remembered, expired, history>>

\* verifyChain: in the order of their sequence, every entry names the hash of
\* the one before it.
VerifyChain ==
    \A i \in DOMAIN log :
       LET before == {j \in DOMAIN log \ {i} : log[j].seq <= log[i].seq}
       IN IF before = {} THEN log[i].prev = 0
          ELSE log[i].prev \in before /\ \A j \in before : log[j].seq <= log[log[i].prev].seq

--------------------------------------------------------------------------
Evaluation(k) == StartEvaluate(k) \/ ReadDevice(k) \/ ListRules(k) \/ PutBack(k)
Memory(k) == Remember(k) \/ Revoke(k)
Version(k) == CreateVersion(k) \/ StartActivate(k) \/ WriteActive(k)
Audit(k) == ReadSeq(k) \/ ReadPrev(k) \/ StoreEntry(k)

Next ==
    \/ \E k \in Calls : Evaluation(k) \/ Memory(k) \/ Version(k) \/ Audit(k)
    \/ LoseDevice
    \/ \E r \in remembered : Expire(r)

Spec == Init /\ [][Next]_vars

--------------------------------------------------------------------------
(* Properties *)

RememberedRules ==
    {RuleFor(q[1], q[2], scope) : q \in Requests, scope \in {"session", "project"}}
Decisions == [effect : Effects \cup {"none"},
              by : {"none", "floor", "device", "rule", "default", "remembered"}]
CallRecords ==
    [op : {"none", "evaluate", "create", "activate", "remember", "revoke"},
     at : {"idle", "device", "list", "put", "write", "log", "prev", "store", "done"},
     a : Actions \cup {Any}, s : Sessions \cup {Any}, version : 0..MaxVersions,
     todo : SUBSET (1..MaxVersions), d : Decisions, rule : RememberedRules \cup {Any},
     seq : Nat, prev : Nat]

\* Every variable stays within its type.
TypeOK ==
    /\ books \in Seq(RuleBooks) /\ Len(books) <= MaxVersions /\ active \subseteq DOMAIN books
    /\ device \in Statuses
    /\ remembered \subseteq RememberedRules /\ expired \subseteq RememberedRules
    /\ log \in Seq([seq : Nat, prev : Nat]) /\ call \in [Calls -> CallRecords]
    /\ granted \subseteq Requests
    /\ revoked \subseteq RememberedRules /\ raced \subseteq RememberedRules
    /\ settled \in 0..MaxVersions /\ muddled \subseteq Calls /\ overlapped \in BOOLEAN /\ late \subseteq Calls

Allowed == {k \in Evaluations : call[k].d.effect = "allow"}

\* Whatever the versions of the policy say and the user has remembered, what
\* the floor denies is never allowed, and an evaluation that begins when the
\* device is no longer trusted allows nothing (evaluate, deny-floor.ts:6).
FloorHolds == \A k \in Allowed : ~Floored(call[k].a) /\ k \notin late

\* No rule that denies or asks is overruled by one of lower priority, by a
\* default or by a remembered approval (sortRulesForEvaluation, evaluate).
RulesStand ==
    \A k \in Allowed :
       LET rules == Rules(call[k].version)
           matching == Matching(call[k].a, call[k].s, rules)
       IN \A i \in matching : rules[i].effect # "allow" =>
             \E j \in matching : rules[j].effect = "allow" /\ rules[j].priority >= rules[i].priority

\* What a remembered approval allows is what a person granted: the same thing,
\* asked by the same agent in the same project or session, not riskier than it
\* was and not critical (remember, match).
RememberedIsNarrow ==
    \A k \in Allowed : call[k].d.by = "remembered" =>
       \E g \in granted :
          /\ g[1].capability = call[k].a.capability
          /\ IF g[1].command # Any THEN g[1].command = call[k].a.command ELSE g[1].raw = call[k].a.raw
          /\ RiskOrder[call[k].a.risk] <= RiskOrder[g[1].risk] /\ call[k].a.risk # "critical"
          /\ g[2].agent = call[k].s.agent
          /\ g[2].id = call[k].s.id \/ (g[2].project = call[k].s.project /\ g[2].project # Any)

\* The order of the evaluation holds from end to end: floor and device, then
\* the rules by priority, then what is remembered (evaluate, match).
EvaluationObeys == FloorHolds /\ RulesStand /\ RememberedIsNarrow

\* A rule that was revoked is gone, unless a match had found it just before
\* and put it back just after (revoke, match).
RevokedStaysRevoked == \A r \in revoked \ raced : r \notin remembered

\* Once activations are over, the one that was activated last is in force and
\* no other, unless activations ran beside each other or named no version
\* (activatePolicyVersion).
LastActivatedIsInForce ==
    Activating = {} /\ settled # 0 => active = {settled}

\* The chain of the audit log verifies, unless two calls were appending to it at
\* the same time (append, verifyChain).
ChainVerifies == overlapped \/ VerifyChain
=============================================================================
