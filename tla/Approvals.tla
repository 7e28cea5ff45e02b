----------------------------- MODULE Approvals -----------------------------
(***************************************************************************)
(* One approval of the control plane: the decisions users send about it    *)
(* (api/http-router.ts, decideApproval), the workflow that records them    *)
(* (policy/approval-workflow.ts), the timers that remind and expire        *)
(* (afk/escalation-scheduler.ts, control-plane.ts) and the sweeps that     *)
(* supersede what a revoked device or a cancelled session left pending.    *)
(*                                                                         *)
(* Every one of them is a chain of awaits on the same record: it looks,    *)
(* it writes, it tells whoever waits.  In the in-memory store nothing can  *)
(* come between the look and the write of a decision; in Firestore, whose  *)
(* update reads and then sets, anything can.  A sweep collects what it     *)
(* found pending and writes later, in either store.                        *)
(*                                                                         *)
(* The in-memory records do not outlive the process: only an approval in   *)
(* Firestore is there again after a restart.                               *)
(*                                                                         *)
(* Abstracted: who may decide (roles, owners), risk classes, the audit     *)
(* entries, remembered rules, feedback messages and the fallback hook.     *)
(* A pull request that is held back is a held command that the control     *)
(* plane runs itself.                                                      *)
(***************************************************************************)
EXTENDS Naturals, FiniteSets

CONSTANTS
    Users,         \* requests that decide this approval
    Kinds,         \* what may wait, see below
    Stores,        \* where the record may be kept: "memory", "firestore"
    MaxCrashes,    \* bound: restarts of the control plane
    Disturbances   \* see below

(***************************************************************************)
(* What may wait for the decision:                                         *)
(*   agent    an agent that asked before it acts                           *)
(*   command  a command the control plane holds back                       *)
(*   start    the held session.start of a run's step                       *)
(*   solo     a held session.start that belongs to no run (the arena's)    *)
(*                                                                         *)
(* The disturbances an instance may allow:                                 *)
(*   offline  the machine is not connected when it should be told          *)
(*   late     a decision is looked at after the window closed and before   *)
(*            the expiry timer was served                                  *)
(*   policy   the current policy denies what it made an approval for       *)
(*   sweep    the device is revoked, killed or locked, or the session is   *)
(*            cancelled by an administrator or ended by the recovery       *)
(*   crash    the control plane restarts                                   *)
(***************************************************************************)
ASSUME StoresAssumption == Stores \subseteq {"memory", "firestore"}
ASSUME KindsAssumption == Kinds \subseteq {"agent", "command", "start", "solo"}
ASSUME CrashesAssumption == MaxCrashes \in Nat
ASSUME UsersAssumption == Users \cap {"scheduler", "sweeper", "tunnel"} = {}
ASSUME DisturbancesAssumption ==
    Disturbances \subseteq {"offline", "late", "policy", "sweep", "crash"}

Statuses == {"pending", "granted", "denied", "timeout", "superseded"}
Callers == Users \cup {"scheduler", "sweeper", "tunnel"}
Ops == {"grant", "deny", "lapse", "policy", "expire", "sweep"}
Pcs == {"idle", "look", "write", "send", "settle", "done"}

VARIABLES
    kind,       \* what waits
    store,      \* where the record is kept
    status,     \* the record's status
    window,     \* "open" until expiresAt has passed, then "closed"
    call,       \* Callers -> [op, pc]: where each call on the approval is
    unscheduled,\* created, or found at startup, and not yet given timers
    armed,      \* the timers in memory
    reminding,  \* the reminder's callback
    marked,     \* the record's reminderSentAt
    reminders,  \* reminders pushed
    runs,       \* how often the held command was sent to the machine
    answer,     \* what the waiting side heard: an agent, or a start's session
    cut,        \* why an answer may never come
    first,      \* history: the first status that was not pending
    crashes

chosen == <<kind, store>>
timerVars == <<unscheduled, armed, reminding, marked, reminders>>
vars == <<chosen, status, window, call, timerVars, runs, answer, cut, first, crashes>>

Idle == [op |-> "deny", pc |-> "idle"]

--------------------------------------------------------------------------
\* A user or a service asks for approval, or policy has settled an agent's
\* request as it came in and only the agent has to be told.
Init ==
    /\ kind \in Kinds /\ store \in Stores
    /\ window = "open" /\ armed = {} /\ reminding = "idle"
    /\ marked = FALSE /\ reminders = 0 /\ runs = 0 /\ answer = "none"
    /\ cut = {} /\ crashes = 0
    /\ \/ /\ status = "pending" /\ unscheduled = TRUE
          /\ call = [p \in Callers |-> Idle]
       \/ \E op \in {"grant", "deny"} :
             /\ kind = "agent" /\ unscheduled = FALSE
             /\ status = (IF op = "grant" THEN "granted" ELSE "denied")
             /\ call = [p \in Callers |-> IF p = "tunnel" THEN [op |-> op, pc |-> "send"] ELSE Idle]
    /\ first = status

--------------------------------------------------------------------------
(* Recording a decision *)

\* Mutant: an expiry leaves a status that no other code knows.
StatusOfExpired(op) ==
    CASE op = "grant" -> "granted"
      [] op \in {"deny", "policy"} -> "denied"
      [] op = "lapse" -> "timeout"
      [] op = "expire" -> "expired"
      [] op = "sweep" -> "superseded"

StatusOf(op) ==
    CASE op = "grant" -> "granted"
      [] op \in {"deny", "policy"} -> "denied"
      [] op \in {"lapse", "expire"} -> "timeout"
      [] op = "sweep" -> "superseded"

\* What follows once the decision is recorded.  Who asks for approval hears of
\* a decision by a user and of an expiry; nobody is told of the others.
After(op) == IF op \in {"grant", "deny", "expire"} THEN "send" ELSE "done"
Silently(op) == IF After(op) = "done" THEN {op} ELSE {}

\* Mutant: the check and the write are apart in memory too.
AtomicNever(op) == FALSE

\* The in-memory store checks and writes in one turn of the event loop.
Atomic(op) == store = "memory" /\ op # "sweep"

\* Caller p writes op's status, whatever the record holds by now.
Record(p, op) ==
    /\ status' = StatusOf(op)
    /\ first' = IF first = "pending" THEN StatusOf(op) ELSE first
    /\ call' = [call EXCEPT ![p] = [op |-> op, pc |-> After(op)]]
    /\ cut' = cut \cup Silently(op)

\* Caller p found the approval pending and goes on with op.
Claim(p, op) ==
    /\ status = "pending"
    /\ IF Atomic(op) THEN Record(p, op)
       ELSE /\ call' = [call EXCEPT ![p] = [op |-> op, pc |-> "write"]]
            /\ UNCHANGED <<status, first, cut>>

Write(p) ==
    /\ call[p].pc = "write"
    /\ Record(p, call[p].op)
    /\ UNCHANGED <<chosen, window, timerVars, runs, answer, crashes>>

--------------------------------------------------------------------------
(* Decisions of users *)

Request(u) ==
    /\ call[u].pc = "idle"
    /\ \E op \in {"grant", "deny"} : call' = [call EXCEPT ![u] = [op |-> op, pc |-> "look"]]
    /\ UNCHANGED <<chosen, status, window, timerVars, runs, answer, cut, first, crashes>>

\* submitDecision
Decide(u) ==
    /\ call[u].pc = "look" /\ window = "open"
    /\ Claim(u, call[u].op)
    /\ UNCHANGED <<chosen, window, timerVars, runs, answer, crashes>>

\* submitDecision's own expiry check: the record times out and that is all.
Lapse(u) ==
    /\ "late" \in Disturbances
    /\ call[u].pc = "look" /\ window = "closed"
    /\ Claim(u, "lapse")
    /\ UNCHANGED <<chosen, window, timerVars, runs, answer, crashes>>

\* A grant is evaluated again; what policy denies by now is denied.
PolicySupersedes(u) ==
    /\ "policy" \in Disturbances
    /\ call[u].pc = "look" /\ call[u].op = "grant" /\ kind \in {"agent", "command"}
    /\ Claim(u, "policy")
    /\ UNCHANGED <<chosen, window, timerVars, runs, answer, crashes>>

\* Somebody decided first.
Conflict(u) ==
    /\ call[u].pc = "look" /\ status # "pending"
    /\ call' = [call EXCEPT ![u].pc = "done"]
    /\ UNCHANGED <<chosen, status, window, timerVars, runs, answer, cut, first, crashes>>

--------------------------------------------------------------------------
(* What follows a recorded decision *)

Heard(op) == IF op = "grant" THEN "yes" ELSE "no"
Holds == kind \in {"command", "start", "solo"}

\* Whether the session that waits is updated too: of a held start it is, but a
\* user's denial ends the session only if it belongs to a run.
Settles(op) == kind = "start" \/ (kind = "solo" /\ op # "deny")
Unsettled(op) == IF kind = "solo" /\ ~Settles(op) THEN {"norun"} ELSE {}

\* The machine is told: a held command is sent, an agent hears the decision.
\* The session of a held start is updated after that.
Tell(p) ==
    /\ call[p].pc = "send"
    /\ runs' = runs + (IF Holds /\ call[p].op = "grant" THEN 1 ELSE 0)
    /\ answer' = IF kind = "agent" THEN Heard(call[p].op) ELSE answer
    /\ call' = [call EXCEPT ![p].pc = IF Settles(call[p].op) THEN "settle" ELSE "done"]
    /\ cut' = cut \cup Unsettled(call[p].op)
    /\ UNCHANGED <<chosen, status, window, timerVars, first, crashes>>

\* The machine is not connected.  A refused start ends its session all the
\* same, where it would; anything else is dropped.
TellNobody(p) ==
    /\ "offline" \in Disturbances
    /\ call[p].pc = "send"
    /\ LET settles == Settles(call[p].op) /\ call[p].op # "grant"
       IN /\ call' = [call EXCEPT ![p].pc = IF settles THEN "settle" ELSE "done"]
          /\ cut' = cut \cup Unsettled(call[p].op) \cup (IF settles THEN {} ELSE {"offline"})
    /\ UNCHANGED <<chosen, status, window, timerVars, runs, answer, first, crashes>>

\* Mutant: only a decision of a user ends a held start.
SettleDecided(p) ==
    /\ call[p].pc = "settle"
    /\ answer' = IF call[p].op = "expire" THEN answer ELSE Heard(call[p].op)
    /\ call' = [call EXCEPT ![p].pc = "done"]
    /\ UNCHANGED <<chosen, status, window, timerVars, runs, cut, first, crashes>>

\* The session of a held start runs, or is cancelled.
Settle(p) ==
    /\ call[p].pc = "settle"
    /\ answer' = Heard(call[p].op)
    /\ call' = [call EXCEPT ![p].pc = "done"]
    /\ UNCHANGED <<chosen, status, window, timerVars, runs, cut, first, crashes>>

--------------------------------------------------------------------------
(* Timers *)

\* Mutant: at startup only what has not been reminded of is scheduled.
ScheduleUnmarked ==
    /\ unscheduled
    /\ unscheduled' = FALSE
    /\ armed' = IF status = "pending" /\ ~marked THEN {"expiry", "reminder"} ELSE {}
    /\ UNCHANGED <<chosen, status, window, call, reminding, marked, reminders, runs, answer, cut, first, crashes>>

\* schedule, for an approval just created or found by reconcile at startup.
Schedule ==
    /\ unscheduled
    /\ unscheduled' = FALSE
    /\ armed' = IF status # "pending" THEN {}
                ELSE {"expiry"} \cup (IF ~marked /\ window = "open" THEN {"reminder"} ELSE {})
    /\ UNCHANGED <<chosen, status, window, call, reminding, marked, reminders, runs, answer, cut, first, crashes>>

WindowCloses ==
    /\ window = "open"
    /\ window' = "closed"
    /\ UNCHANGED <<chosen, status, call, timerVars, runs, answer, cut, first, crashes>>

TimerFires ==
    /\ "expiry" \in armed /\ window = "closed"
    /\ armed' = armed \ {"expiry"}
    /\ call' = [call EXCEPT !["scheduler"] = [op |-> "expire", pc |-> "look"]]
    /\ UNCHANGED <<chosen, status, window, unscheduled, reminding, marked, reminders, runs, answer, cut, first, crashes>>

\* expireApproval: nobody decided in time.
Expire ==
    /\ call["scheduler"].pc = "look"
    /\ Claim("scheduler", "expire")
    /\ UNCHANGED <<chosen, window, timerVars, runs, answer, crashes>>

ExpireNothing ==
    /\ call["scheduler"].pc = "look" /\ status # "pending"
    /\ call' = [call EXCEPT !["scheduler"].pc = "done"]
    /\ UNCHANGED <<chosen, status, window, timerVars, runs, answer, cut, first, crashes>>

\* Half of the window is over.
ReminderFires ==
    /\ "reminder" \in armed
    /\ armed' = armed \ {"reminder"}
    /\ reminding' = "look"
    /\ UNCHANGED <<chosen, status, window, call, unscheduled, marked, reminders, runs, answer, cut, first, crashes>>

\* Mutant: the reminder is pushed without leaving its mark.
RemindUnmarked ==
    /\ reminding = "look"
    /\ reminding' = IF status = "pending" /\ ~marked /\ window = "open" THEN "push" ELSE "idle"
    /\ UNCHANGED <<chosen, status, window, call, unscheduled, armed, marked, reminders, runs, answer, cut, first, crashes>>

\* sendReminder marks the record before it pushes.
Remind ==
    /\ reminding = "look"
    /\ LET due == status = "pending" /\ ~marked /\ window = "open"
       IN /\ marked' = (marked \/ due)
          /\ reminding' = IF due THEN "push" ELSE "idle"
    /\ UNCHANGED <<chosen, status, window, call, unscheduled, armed, reminders, runs, answer, cut, first, crashes>>

Push ==
    /\ reminding = "push"
    /\ reminding' = "idle" /\ reminders' = reminders + 1
    /\ UNCHANGED <<chosen, status, window, call, unscheduled, armed, marked, runs, answer, cut, first, crashes>>

--------------------------------------------------------------------------
(* Sweeps and restarts *)

\* revokeDeviceApprovals, an administrator's cancel and the recovery's
\* endSession: what was found pending is superseded.
Sweep ==
    /\ "sweep" \in Disturbances
    /\ call["sweeper"].pc = "idle"
    /\ Claim("sweeper", "sweep")
    /\ UNCHANGED <<chosen, window, timerVars, runs, answer, crashes>>

\* The calls and timers in memory are gone; startup schedules what is pending.
Restart ==
    /\ store = "firestore"
    /\ "crash" \in Disturbances /\ crashes < MaxCrashes
    /\ crashes' = crashes + 1
    /\ call' = [p \in Callers |-> IF call[p].pc = "idle" THEN call[p] ELSE [call[p] EXCEPT !.pc = "done"]]
    /\ cut' = cut \cup (IF \E p \in Callers : call[p].pc \in {"send", "settle"} THEN {"crash"} ELSE {})
    /\ armed' = {} /\ reminding' = "idle" /\ unscheduled' = TRUE
    /\ UNCHANGED <<chosen, status, window, marked, reminders, runs, answer, first>>

--------------------------------------------------------------------------
Steps(p) == Write(p) \/ Tell(p) \/ TellNobody(p) \/ Settle(p)

Timers ==
    \/ Schedule \/ WindowCloses \/ TimerFires \/ Expire \/ ExpireNothing
    \/ ReminderFires \/ Remind \/ Push

Next ==
    \/ \E u \in Users : Request(u) \/ Decide(u) \/ Lapse(u) \/ PolicySupersedes(u) \/ Conflict(u)
    \/ \E p \in Callers : Steps(p)
    \/ Timers \/ Sweep \/ Restart

Spec == Init /\ [][Next]_vars

\* What is awaited comes back, and timers are served.
Fairness ==
    /\ \A p \in Callers : WF_vars(Steps(p))
    /\ WF_vars(Schedule) /\ WF_vars(WindowCloses) /\ WF_vars(TimerFires)
    /\ WF_vars(Expire \/ ExpireNothing)

FairSpec == Spec /\ Fairness

--------------------------------------------------------------------------
(* Properties *)

Verdict == CASE first = "pending" -> "open" [] first = "granted" -> "yes" [] OTHER -> "no"

\* Firestore keeps no such promise: nothing of it is held against the promise.
InMemory(x, otherwise) == IF store = "memory" THEN x ELSE otherwise

Promise == INSTANCE OneDecision WITH
    verdict <- InMemory(Verdict, "open"),
    runs <- InMemory(runs, 0),
    answer <- InMemory(answer, "none")

\* In the in-memory store an approval is decided once: of all the users, the
\* expiry and the re-evaluated policy one is heard, what is held back runs at
\* most once and only when granted, and the waiting side hears that decision
\* (submitDecision's check, expireApproval, handlePolicyChange, and
\* decideApproval, which acts only on a decision that was recorded).
ImplementsOneDecision == Promise!Spec

\* Every variable stays within its type: the record, the calls on it, its
\* timers and what the waiting side has heard.
TypeOK ==
    /\ kind \in Kinds /\ store \in Stores /\ status \in Statuses /\ first \in Statuses
    /\ window \in {"open", "closed"}
    /\ call \in [Callers -> [op : Ops, pc : Pcs]]
    /\ unscheduled \in BOOLEAN /\ armed \subseteq {"expiry", "reminder"}
    /\ reminding \in {"idle", "look", "push"} /\ marked \in BOOLEAN
    /\ reminders \in Nat /\ runs \in Nat /\ answer \in {"none", "yes", "no"}
    /\ cut \subseteq {"offline", "crash", "norun", "lapse", "policy", "sweep"}
    /\ crashes \in 0 .. MaxCrashes

\* A restart rebuilds the timers without sending the same reminder twice
\* (the scheduler marks the record before it pushes).
RemindedOnce == reminders <= 1

\* No approval stays pending: whatever is decided, lost or restarted, its
\* window closes and the expiry timer, armed again at startup, settles it.
EverySettled == <>[](status # "pending")

\* Whoever waits hears the decision, unless the machine was not connected,
\* the control plane restarted before it was told, the record was settled by a
\* path that tells nobody (a sweep, a lapse, a changed policy), or a user denied
\* a held start that belongs to no run, whose session decideApproval leaves
\* waiting.  A held command that was refused just never runs.
AnsweredUnlessCut ==
    (status # "pending" /\ kind # "command") ~> (answer # "none" \/ cut # {})

\* Whoever waits hears the decision.
WaitingIsAnswered == (status # "pending" /\ kind # "command") ~> (answer # "none")

\* First decision wins: a decision that was recorded stays.
FirstDecisionWins == [][status # "pending" => status' = status]_vars
=============================================================================
