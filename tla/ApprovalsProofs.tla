-------------------------- MODULE ApprovalsProofs --------------------------
(***************************************************************************)
(* An approval is typed, reminded of once, and -- in the in-memory store   *)
(* -- decided once, for any number of users, any kinds, disturbances and   *)
(* restarts.                                                               *)
(*                                                                         *)
(* The invariant behind the last: only a sweep ever stands between its     *)
(* look and its write; the caller who is still to tell the machine, or to  *)
(* settle the session, is the one whose decision was recorded first; and   *)
(* while there is one nothing has been run or answered by anybody else.    *)
(***************************************************************************)
EXTENDS Approvals, TLAPS

\* The promise that the in-memory store keeps, without the condition on it.
InMem == INSTANCE OneDecision WITH verdict <- Verdict

Telling(p) == call[p].pc \in {"send", "settle"}

OnlySweepsWriteLate ==
    \A p \in Callers : call[p].pc = "write" => call[p].op = "sweep"

TellersDecided ==
    \A p \in Callers : Telling(p) =>
        call[p].op \in {"grant", "deny", "expire"} /\ first = StatusOf(call[p].op)

OneTells == \A p, q \in Callers : Telling(p) /\ Telling(q) => p = q

Untold ==
    \A p \in Callers : Telling(p) =>
        /\ answer = "none"
        /\ call[p].pc = "send" => runs = 0
        /\ call[p].pc = "settle" => Settles(call[p].op)

PendingIsOpen ==
    /\ first = "pending" <=> status = "pending"
    /\ first = "pending" => runs = 0 /\ answer = "none"

Once == OnlySweepsWriteLate /\ TellersDecided /\ OneTells /\ Untold /\ PendingIsOpen

\* A reminder that was, or is about to be, pushed has left its mark.
Marked ==
    /\ ~marked => reminders = 0 /\ reminding # "push"
    /\ reminding = "push" => reminders = 0
    /\ reminders <= 1

--------------------------------------------------------------------------
LEMMA StatusOfType == \A op \in Ops : StatusOf(op) \in Statuses \ {"pending"}
  BY DEF StatusOf, Ops, Statuses

\* What a recorded or claimed decision does to the typed state.
LEMMA ClaimType ==
    ASSUME TypeOK, NEW p \in Callers, NEW op \in Ops, Claim(p, op)
    PROVE  /\ status' \in Statuses /\ first' \in Statuses
           /\ call' \in [Callers -> [op : Ops, pc : Pcs]]
           /\ cut' \subseteq {"offline", "crash", "norun", "lapse", "policy", "sweep"}
  <1> USE DEF TypeOK
  <1>1. After(op) \in Pcs /\ "write" \in Pcs
    BY DEF After, Pcs
  <1>2. Silently(op) \subseteq {"lapse", "policy", "sweep"}
    BY DEF Silently, After, Ops
  <1>3. CASE Record(p, op)
    BY <1>1, <1>2, <1>3, StatusOfType DEF Record
  <1>4. CASE call' = [call EXCEPT ![p] = [op |-> op, pc |-> "write"]] /\ UNCHANGED <<status, first, cut>>
    BY <1>1, <1>4
  <1> QED  BY <1>3, <1>4 DEF Claim

LEMMA TypeInit == Init => TypeOK
  <1> SUFFICES ASSUME Init PROVE TypeOK
    OBVIOUS
  <1>1. Idle \in [op : Ops, pc : Pcs]
    BY DEF Idle, Ops, Pcs
  <1>2. call \in [Callers -> [op : Ops, pc : Pcs]]
    <2>1. \A op \in {"grant", "deny"} : [op |-> op, pc |-> "send"] \in [op : Ops, pc : Pcs]
      BY DEF Ops, Pcs
    <2> QED  BY <1>1, <2>1 DEF Init
  <1>3. status \in Statuses /\ first \in Statuses /\ unscheduled \in BOOLEAN
    BY DEF Init, Statuses
  <1>4. crashes \in 0 .. MaxCrashes
    BY CrashesAssumption DEF Init
  <1> QED  BY <1>2, <1>3, <1>4 DEF Init, TypeOK

LEMMA TypeStep == TypeOK /\ [Next]_vars => TypeOK'
  <1> SUFFICES ASSUME TypeOK, [Next]_vars PROVE TypeOK'
    OBVIOUS
  <1>a. \A u \in Users : u \in Callers
    BY DEF Callers
  <1>1. ASSUME NEW u \in Users, Request(u) PROVE TypeOK'
    BY <1>1, <1>a DEF TypeOK, Request, timerVars, chosen, Ops, Pcs
  <1>2. ASSUME NEW u \in Users, Decide(u) PROVE TypeOK'
    <2>1. call[u].op \in Ops
      BY <1>a DEF TypeOK
    <2> QED  BY <1>2, <1>a, <2>1, ClaimType DEF TypeOK, Decide, timerVars, chosen
  <1>3. ASSUME NEW u \in Users, Lapse(u) PROVE TypeOK'
    BY <1>3, <1>a, ClaimType DEF TypeOK, Lapse, timerVars, chosen, Ops
  <1>4. ASSUME NEW u \in Users, PolicySupersedes(u) PROVE TypeOK'
    BY <1>4, <1>a, ClaimType DEF TypeOK, PolicySupersedes, timerVars, chosen, Ops
  <1>5. ASSUME NEW u \in Users, Conflict(u) PROVE TypeOK'
    BY <1>5, <1>a DEF TypeOK, Conflict, timerVars, chosen, Pcs
  <1>6. ASSUME NEW p \in Callers, Write(p) PROVE TypeOK'
    <2>1. call[p].op \in Ops
      BY DEF TypeOK
    <2>2. After(call[p].op) \in Pcs
      BY DEF After, Pcs
    <2>3. Silently(call[p].op) \subseteq {"lapse", "policy", "sweep"}
      BY <2>1 DEF Silently, After, Ops
    <2> QED  BY <1>6, <2>1, <2>2, <2>3, StatusOfType DEF TypeOK, Write, Record, timerVars, chosen
  <1>7. ASSUME NEW p \in Callers, Tell(p) PROVE TypeOK'
    BY <1>7 DEF TypeOK, Tell, timerVars, chosen, Pcs, Heard, Unsettled
  <1>8. ASSUME NEW p \in Callers, TellNobody(p) PROVE TypeOK'
    BY <1>8 DEF TypeOK, TellNobody, timerVars, chosen, Pcs, Unsettled
  <1>9. ASSUME NEW p \in Callers, Settle(p) PROVE TypeOK'
    BY <1>9 DEF TypeOK, Settle, timerVars, chosen, Pcs, Heard
  <1>10. CASE Schedule
    BY <1>10 DEF TypeOK, chosen, Schedule
  <1>11. CASE WindowCloses
    BY <1>11 DEF TypeOK, WindowCloses, timerVars, chosen
  <1>12. CASE TimerFires
    BY <1>12 DEF TypeOK, chosen, TimerFires, Ops, Pcs
  <1>13. CASE Expire
    BY <1>13, ClaimType DEF TypeOK, Expire, timerVars, chosen, Ops, Callers
  <1>14. CASE ExpireNothing
    BY <1>14 DEF TypeOK, ExpireNothing, timerVars, chosen, Pcs, Callers
  <1>15. CASE ReminderFires
    BY <1>15 DEF TypeOK, chosen, ReminderFires
  <1>16. CASE Remind
    BY <1>16 DEF TypeOK, chosen, Remind
  <1>17. CASE Push
    BY <1>17 DEF TypeOK, chosen, Push
  <1>18. CASE Sweep
    BY <1>18, ClaimType DEF TypeOK, Sweep, timerVars, chosen, Ops, Callers
  <1>19. CASE Restart
    BY <1>19, CrashesAssumption DEF TypeOK, chosen, Restart, Pcs
  <1>20. CASE UNCHANGED vars
    BY <1>20 DEF TypeOK, vars, timerVars, chosen
  <1> QED
    BY <1>1, <1>2, <1>3, <1>4, <1>5, <1>6, <1>7, <1>8, <1>9, <1>10, <1>11, <1>12,
       <1>13, <1>14, <1>15, <1>16, <1>17, <1>18, <1>19, <1>20 DEF Next, Steps, Timers

--------------------------------------------------------------------------
\* What each action does to the reminder.
LEMMA MarkedStep == TypeOK /\ Marked /\ [Next]_vars => Marked'
  <1> SUFFICES ASSUME TypeOK, Marked, [Next]_vars PROVE Marked'
    OBVIOUS
  <1> USE DEF Marked
  <1>1. CASE Remind
    BY <1>1 DEF Remind, TypeOK
  <1>2. CASE Push
    BY <1>2 DEF Push, TypeOK
  <1>3. CASE ReminderFires
    BY <1>3 DEF ReminderFires, TypeOK
  <1>4. CASE Restart
    BY <1>4 DEF Restart
  <1>5. CASE UNCHANGED <<reminding, marked, reminders>>
    BY <1>5
  <1>6. CASE \E u \in Users : Request(u) \/ Decide(u) \/ Lapse(u) \/ PolicySupersedes(u) \/ Conflict(u)
    BY <1>5, <1>6 DEF Request, Decide, Lapse, PolicySupersedes, Conflict, timerVars, chosen
  <1>7. CASE \E p \in Callers : Steps(p)
    BY <1>5, <1>7 DEF Steps, Write, Tell, TellNobody, Settle, timerVars, chosen
  <1>8. CASE Schedule \/ WindowCloses \/ TimerFires \/ Expire \/ ExpireNothing \/ Sweep
    BY <1>5, <1>8 DEF Schedule, WindowCloses, TimerFires, Expire, ExpireNothing, Sweep, timerVars, chosen
  <1>9. CASE UNCHANGED vars
    BY <1>5, <1>9 DEF vars, timerVars, chosen
  <1> QED
    BY <1>1, <1>2, <1>3, <1>4, <1>6, <1>7, <1>8, <1>9 DEF Next, Timers

--------------------------------------------------------------------------
(* One decision, in the in-memory store *)

\* A decision that is recorded is the first one, or comes from a sweep and
\* tells nobody.
LEMMA RecordOnce ==
    ASSUME TypeOK, Once, NEW p \in Callers, NEW op \in Ops, Record(p, op),
           status = "pending" \/ op = "sweep", UNCHANGED <<chosen, runs, answer>>
    PROVE  Once' /\ [InMem!Next]_(InMem!vars)
  <1> USE DEF TypeOK
  <1>1. StatusOf(op) \in Statuses \ {"pending"}
    BY StatusOfType
  <1>2. After(op) = "send" => op \in {"grant", "deny", "expire"}
    BY DEF After
  <1>3. After(op) \in {"send", "done"} /\ (op = "sweep" => After(op) = "done")
    BY DEF After
  <1>4. call'[p] = [op |-> op, pc |-> After(op)] /\ \A q \in Callers \ {p} : call'[q] = call[q]
    BY DEF Record
  <1>5. status = "pending" => \A q \in Callers : ~Telling(q)
    BY StatusOfType DEF Once, TellersDecided, PendingIsOpen, Ops
  <1>6. first' # "pending" /\ status' # "pending" /\ (first # "pending" => first' = first)
    BY <1>1 DEF Record
  <1>7. first = "pending" => first' = StatusOf(op)
    BY DEF Record
  <1>8. OnlySweepsWriteLate'
    BY <1>3, <1>4 DEF Once, OnlySweepsWriteLate
  <1>9. Telling(p)' => op # "sweep" /\ status = "pending" /\ first = "pending"
    BY <1>3, <1>4 DEF Telling, Once, PendingIsOpen
  <1>10. \A q \in Callers \ {p} : Telling(q)' => Telling(q) /\ first # "pending"
    BY <1>4, <1>5 DEF Telling, Once, PendingIsOpen
  <1>11. TellersDecided'
    <2>1. ASSUME Telling(p)' PROVE call'[p].op \in {"grant", "deny", "expire"} /\ first' = StatusOf(call'[p].op)
      BY <1>2, <1>3, <1>4, <1>7, <1>9, <2>1 DEF Telling
    <2>2. ASSUME NEW q \in Callers \ {p}, Telling(q)'
          PROVE  call'[q].op \in {"grant", "deny", "expire"} /\ first' = StatusOf(call'[q].op)
      BY <1>4, <1>6, <1>10, <2>2 DEF Once, TellersDecided
    <2> QED  BY <2>1, <2>2 DEF TellersDecided
  <1>12. OneTells'
    BY <1>5, <1>9, <1>10 DEF OneTells, Once
  <1>13. Untold'
    <2>1. ASSUME Telling(p)' PROVE answer' = "none" /\ runs' = 0 /\ call'[p].pc = "send"
      BY <1>3, <1>4, <1>9, <2>1 DEF Once, PendingIsOpen, Telling
    <2>2. ASSUME NEW q \in Callers \ {p}, Telling(q)'
          PROVE  answer' = "none" /\ (call'[q].pc = "send" => runs' = 0) /\ (call'[q].pc = "settle" => Settles(call[q].op)')
      BY <1>4, <1>10, <2>2 DEF Once, Untold, Settles, chosen
    <2> QED  BY <2>1, <2>2 DEF Untold, Settles
  <1>14. PendingIsOpen'
    BY <1>6 DEF PendingIsOpen
  <1>15. [InMem!Next]_(InMem!vars)
    <2>1. CASE first = "pending"
      BY <1>6, <2>1 DEF Verdict, InMem!Next, InMem!Decide
    <2>2. CASE first # "pending"
      BY <1>6, <2>2 DEF Verdict, InMem!vars
    <2> QED  BY <2>1, <2>2
  <1> QED  BY <1>8, <1>11, <1>12, <1>13, <1>14, <1>15 DEF Once

LEMMA ClaimOnce ==
    ASSUME TypeOK, Once, store = "memory", NEW p \in Callers, NEW op \in Ops,
           Claim(p, op), UNCHANGED <<chosen, runs, answer>>
    PROVE  Once' /\ [InMem!Next]_(InMem!vars)
  <1>1. CASE Record(p, op)
    BY <1>1, RecordOnce DEF Claim
  <1>2. CASE op = "sweep" /\ call' = [call EXCEPT ![p] = [op |-> op, pc |-> "write"]] /\ UNCHANGED <<status, first>>
    <2>1. call'[p] = [op |-> "sweep", pc |-> "write"] /\ \A q \in Callers \ {p} : call'[q] = call[q]
      BY <1>2 DEF TypeOK
    <2>2. \A q \in Callers : Telling(q)' => Telling(q) /\ call'[q] = call[q]
      BY <2>1 DEF Telling
    <2> QED
      BY <1>2, <2>1, <2>2 DEF Once, OnlySweepsWriteLate, TellersDecided, OneTells, Untold,
         PendingIsOpen, Telling, Verdict, InMem!vars, Settles, chosen
  <1> QED  BY <1>1, <1>2 DEF Claim, Atomic

\* A step in which callers only look, give up or are cut off keeps the
\* promise: nobody new tells.
LEMMA QuietOnce ==
    ASSUME TypeOK, Once, UNCHANGED <<chosen, status, first, runs, answer>>,
           \A q \in Callers : call'[q] = call[q] \/ call'[q].pc \in {"idle", "look", "done"}
    PROVE  Once' /\ [InMem!Next]_(InMem!vars)
  <1>1. \A q \in Callers : Telling(q)' => Telling(q) /\ call'[q] = call[q]
    BY DEF Telling
  <1>2. \A q \in Callers : call'[q].pc = "write" => call'[q] = call[q]
    OBVIOUS
  <1> QED
    BY <1>1, <1>2 DEF Once, OnlySweepsWriteLate, TellersDecided, OneTells, Untold,
       PendingIsOpen, Verdict, InMem!vars, Settles, chosen

\* The machine is told: the one who tells runs the command or answers, once.
LEMMA TellOnce ==
    ASSUME TypeOK, Once, NEW p \in Callers, Tell(p)
    PROVE  Once' /\ [InMem!Next]_(InMem!vars)
  <1> USE DEF TypeOK
  <1>1. Telling(p) /\ runs = 0 /\ answer = "none" /\ first = StatusOf(call[p].op)
    BY DEF Tell, Telling, Once, TellersDecided, Untold
  <1>2. call[p].op \in {"grant", "deny", "expire"}
    BY <1>1 DEF Once, TellersDecided
  <1>3. first # "pending" /\ Verdict = Heard(call[p].op)
    BY <1>1, <1>2 DEF StatusOf, Verdict, Heard
  <1>4. \A q \in Callers \ {p} : call'[q] = call[q] /\ ~Telling(q)
    BY <1>1 DEF Tell, Once, OneTells
  <1>5. call'[p].op = call[p].op /\ call'[p].pc = (IF Settles(call[p].op) THEN "settle" ELSE "done")
    BY DEF Tell
  <1>6. \A q \in Callers : Telling(q)' => q = p /\ Settles(call[p].op)
    BY <1>4, <1>5 DEF Telling
  <1>7. UNCHANGED <<chosen, status, first>>
    BY DEF Tell, chosen
  <1>8. OnlySweepsWriteLate'
    BY <1>4, <1>5 DEF Once, OnlySweepsWriteLate
  <1>9. TellersDecided' /\ OneTells'
    BY <1>1, <1>2, <1>5, <1>6, <1>7 DEF TellersDecided, OneTells
  <1>10. Untold'
    <2>1. Settles(call[p].op) => answer' = answer /\ Settles(call[p].op)'
      BY <1>5 DEF Tell, Settles, chosen
    <2> QED  BY <1>1, <1>5, <1>6, <1>7, <2>1 DEF Untold
  <1>11. PendingIsOpen'
    BY <1>3, <1>7 DEF Once, PendingIsOpen
  <1>12. [InMem!Next]_(InMem!vars)
    <2>1. CASE kind = "agent"
      <3>1. runs' = runs /\ answer' = Heard(call[p].op) /\ Verdict' = Verdict
        BY <1>1, <1>7, <2>1 DEF Tell, Holds, Verdict
      <3>2. Verdict # "open"
        BY <1>3 DEF Heard
      <3> QED  BY <1>1, <1>3, <3>1, <3>2 DEF InMem!Next, InMem!Answer
    <2>2. CASE kind # "agent" /\ Holds /\ call[p].op = "grant"
      <3>1. runs' = 1 /\ answer' = answer /\ Verdict' = Verdict
        BY <1>1, <1>7, <2>2 DEF Tell, Verdict
      <3>2. Verdict = "yes"
        BY <1>3, <2>2 DEF Heard
      <3> QED  BY <1>1, <3>1, <3>2 DEF InMem!Next, InMem!Run
    <2>3. CASE kind # "agent" /\ ~(Holds /\ call[p].op = "grant")
      <3>1. runs' = runs /\ answer' = answer /\ Verdict' = Verdict
        BY <1>1, <1>7, <2>3 DEF Tell, Verdict
      <3> QED  BY <3>1 DEF InMem!vars
    <2> QED  BY <2>1, <2>2, <2>3
  <1> QED  BY <1>8, <1>9, <1>10, <1>11, <1>12 DEF Once

\* A refused start goes on to end its session although nobody was told.
LEMMA TellNobodyOnce ==
    ASSUME TypeOK, Once, NEW p \in Callers, TellNobody(p)
    PROVE  Once' /\ [InMem!Next]_(InMem!vars)
  <1> USE DEF TypeOK
  <1>1. Telling(p) /\ UNCHANGED <<kind, status, first, runs, answer>>
    BY DEF TellNobody, Telling, chosen
  <1>2. \A q \in Callers \ {p} : call'[q] = call[q] /\ ~Telling(q)
    BY <1>1 DEF TellNobody, Once, OneTells
  <1>3. call'[p].op = call[p].op /\ call'[p].pc \in {"settle", "done"}
    BY DEF TellNobody
  <1>4. call'[p].pc = "settle" => Settles(call[p].op)'
    BY <1>1, <1>3 DEF TellNobody, Settles
  <1>5. \A q \in Callers : Telling(q)' => q = p
    BY <1>2 DEF Telling
  <1> QED
    BY <1>1, <1>2, <1>3, <1>4, <1>5 DEF Once, OnlySweepsWriteLate, TellersDecided, OneTells,
       Untold, PendingIsOpen, Verdict, InMem!vars

\* The session of a held start hears the decision that was recorded.
LEMMA SettleOnce ==
    ASSUME TypeOK, Once, NEW p \in Callers, Settle(p)
    PROVE  Once' /\ [InMem!Next]_(InMem!vars)
  <1> USE DEF TypeOK
  <1>1. Telling(p) /\ answer = "none" /\ first = StatusOf(call[p].op)
    BY DEF Settle, Telling, Once, TellersDecided, Untold
  <1>2. call[p].op \in {"grant", "deny", "expire"}
    BY <1>1 DEF Once, TellersDecided
  <1>3. first # "pending" /\ Verdict = Heard(call[p].op)
    BY <1>1, <1>2 DEF StatusOf, Verdict, Heard
  <1>4. \A q \in Callers : ~Telling(q)'
    BY <1>1 DEF Settle, Telling, Once, OneTells
  <1>5. OnlySweepsWriteLate'
    BY DEF Settle, Once, OnlySweepsWriteLate
  <1>6. UNCHANGED <<status, first, runs>> /\ answer' = Heard(call[p].op)
    BY DEF Settle
  <1>7. TellersDecided' /\ OneTells' /\ Untold'
    BY <1>4 DEF TellersDecided, OneTells, Untold
  <1>8. PendingIsOpen'
    BY <1>3, <1>6 DEF Once, PendingIsOpen
  <1>9. [InMem!Next]_(InMem!vars)
    BY <1>1, <1>3, <1>6 DEF Verdict, Heard, InMem!Next, InMem!Answer
  <1> QED  BY <1>5, <1>7, <1>8, <1>9 DEF Once

LEMMA OnceInit == Init => Once /\ InMem!Init
  <1> SUFFICES ASSUME Init PROVE Once /\ InMem!Init
    OBVIOUS
  <1>1. \A p \in Callers : Telling(p) =>
            /\ p = "tunnel" /\ call[p].pc = "send"
            /\ call[p].op \in {"grant", "deny"} /\ status = StatusOf(call[p].op)
    BY DEF Init, Telling, Idle, StatusOf
  <1>2. \A p \in Callers : call[p].pc # "write"
    BY DEF Init, Idle
  <1>3. Once
    BY <1>1, <1>2 DEF Init, Once, OnlySweepsWriteLate, TellersDecided, OneTells, Untold, PendingIsOpen
  <1>4. InMem!Init
    BY DEF Init, InMem!Init, Verdict
  <1> QED  BY <1>3, <1>4

LEMMA OnceStep ==
    ASSUME store = "memory", TypeOK, Once, [Next]_vars
    PROVE  Once' /\ [InMem!Next]_(InMem!vars)
  <1> DEFINE Goal == Once' /\ [InMem!Next]_(InMem!vars)
  <1>a. \A u \in Users : u \in Callers
    BY DEF Callers
  <1>b. "scheduler" \in Callers /\ "sweeper" \in Callers /\ call \in [Callers -> [op : Ops, pc : Pcs]]
    BY DEF Callers, TypeOK
  <1>1. ASSUME NEW u \in Users, Request(u) PROVE Goal
    BY <1>1, <1>a, <1>b, QuietOnce DEF Request
  <1>2. ASSUME NEW u \in Users, Decide(u) \/ Lapse(u) \/ PolicySupersedes(u) PROVE Goal
    <2>1. PICK op \in Ops : Claim(u, op)
      BY <1>2, <1>a, <1>b DEF Decide, Lapse, PolicySupersedes, Ops
    <2>2. UNCHANGED <<chosen, runs, answer>>
      BY <1>2 DEF Decide, Lapse, PolicySupersedes
    <2> QED  BY <1>a, <2>1, <2>2, ClaimOnce
  <1>3. ASSUME NEW u \in Users, Conflict(u) PROVE Goal
    BY <1>3, <1>a, <1>b, QuietOnce DEF Conflict
  <1>4. ASSUME NEW p \in Callers, Write(p) PROVE Goal
    <2>1. call[p].op \in Ops /\ call[p].op = "sweep"
      BY <1>4, <1>b DEF Write, Once, OnlySweepsWriteLate
    <2>2. Record(p, call[p].op) /\ UNCHANGED <<chosen, runs, answer>>
      BY <1>4 DEF Write
    <2> QED  BY <2>1, <2>2, RecordOnce
  <1>5. ASSUME NEW p \in Callers, Tell(p) \/ TellNobody(p) \/ Settle(p) PROVE Goal
    BY <1>5, TellOnce, TellNobodyOnce, SettleOnce
  <1>6. CASE Expire
    BY <1>6, <1>b, ClaimOnce DEF Expire, Ops
  <1>7. CASE Sweep
    BY <1>7, <1>b, ClaimOnce DEF Sweep, Ops
  <1>8. CASE TimerFires \/ ExpireNothing
    BY <1>8, <1>b, QuietOnce DEF TimerFires, ExpireNothing
  <1>9. CASE Restart
    BY <1>9, <1>b, QuietOnce DEF Restart
  <1>10. CASE UNCHANGED <<chosen, status, first, runs, answer, call>>
    BY <1>10, QuietOnce
  <1>11. CASE Schedule \/ WindowCloses \/ ReminderFires \/ Remind \/ Push \/ UNCHANGED vars
    BY <1>10, <1>11 DEF Schedule, WindowCloses, ReminderFires, Remind, Push, vars
  <1> HIDE DEF Goal
  <1> QED
    BY <1>1, <1>2, <1>3, <1>4, <1>5, <1>6, <1>7, <1>8, <1>9, <1>11 DEF Next, Steps, Timers, Goal

\* No step moves the record to another store.
LEMMA StaysInStore == [Next]_vars => store' = store
  <1> SUFFICES ASSUME [Next]_vars PROVE store' = store
    OBVIOUS
  <1>1. ASSUME NEW u \in Users, Request(u) \/ Decide(u) \/ Lapse(u) \/ PolicySupersedes(u) \/ Conflict(u)
        PROVE  store' = store
    BY <1>1 DEF Request, Decide, Lapse, PolicySupersedes, Conflict, chosen
  <1>2. ASSUME NEW p \in Callers, Steps(p) PROVE store' = store
    BY <1>2 DEF Steps, Write, Tell, TellNobody, Settle, chosen
  <1>3. CASE Timers
    BY <1>3 DEF Timers, Schedule, WindowCloses, TimerFires, Expire, ExpireNothing, ReminderFires, Remind, Push, chosen
  <1>4. CASE Sweep \/ Restart \/ UNCHANGED vars
    BY <1>4 DEF Sweep, Restart, vars, chosen
  <1> QED  BY <1>1, <1>2, <1>3, <1>4 DEF Next

\* In the in-memory store the condition on the promise is met.
LEMMA PromiseInMemory ==
    ASSUME store = "memory", store' = store, [InMem!Next]_(InMem!vars)
    PROVE  [Promise!Next]_(Promise!vars)
  <1>1. /\ InMemory(Verdict, "open") = Verdict /\ InMemory(Verdict, "open")' = Verdict'
        /\ InMemory(runs, 0) = runs /\ InMemory(runs, 0)' = runs'
        /\ InMemory(answer, "none") = answer /\ InMemory(answer, "none")' = answer'
    BY DEF InMemory
  <1> QED
    BY <1>1 DEF InMem!Next, InMem!vars, InMem!Decide, InMem!Run, InMem!Answer,
       Promise!Next, Promise!vars, Promise!Decide, Promise!Run, Promise!Answer

--------------------------------------------------------------------------
\* Whatever the store and the number of users, records and calls stay within
\* their types (createApproval, submitDecision, expireApproval, the scheduler).
THEOREM ApprovalTyped == Spec => []TypeOK
  <1> QED  BY TypeInit, TypeStep, PTL DEF Spec

\* However often the control plane restarts, and in whatever order timers,
\* decisions and sweeps come, one reminder is pushed at most (sendReminder
\* marks the record first).
THEOREM OneReminder == Spec => []RemindedOnce
  <1>1. Init => Marked
    BY DEF Init, Marked
  <1>2. Marked => RemindedOnce
    BY DEF Marked, RemindedOnce
  <1> QED  BY <1>1, <1>2, ApprovalTyped, MarkedStep, PTL DEF Spec

\* With the in-memory store an approval is decided once, for any number of
\* racing users, an expiry, a policy that changed and a sweep: the held
\* command runs at most once, only if granted, and whoever waits hears the
\* decision that was recorded first (submitDecision, expireApproval,
\* handlePolicyChange, decideApproval).
THEOREM DecidedOnce == Spec => ImplementsOneDecision
  <1> DEFINE IInv == store = "memory" => Once
  <1>1. Init => IInv /\ Promise!Init
    <2>1. Init => Promise!Init
      BY OnceInit DEF Promise!Init, InMem!Init, InMemory
    <2> QED  BY <2>1, OnceInit
  <1>2. TypeOK /\ IInv /\ [Next]_vars => IInv' /\ [Promise!Next]_(Promise!vars)
    <2> SUFFICES ASSUME TypeOK, IInv, [Next]_vars PROVE IInv' /\ [Promise!Next]_(Promise!vars)
      OBVIOUS
    <2>1. store' = store
      BY StaysInStore
    <2>2. CASE store = "memory"
      <3>1. Once' /\ [InMem!Next]_(InMem!vars)
        BY <2>2, OnceStep
      <3> QED  BY <2>1, <2>2, <3>1, PromiseInMemory
    <2>3. CASE store # "memory"
      BY <2>1, <2>3 DEF Promise!vars, InMemory
    <2> QED  BY <2>2, <2>3
  <1> HIDE DEF IInv
  <1> QED  BY <1>1, <1>2, ApprovalTyped, PTL DEF Spec, ImplementsOneDecision, Promise!Spec

--------------------------------------------------------------------------
(* The first decision stays *)

\* Nobody sweeps, or stands between a look and its write.
NobodyWritesLate == \A p \in Callers : call[p].pc # "write" /\ call[p].op # "sweep"

\* A decision is claimed and recorded in one turn, while the record is pending.
LEMMA ClaimAtOnce ==
    ASSUME store = "memory", TypeOK, NobodyWritesLate,
           NEW p \in Callers, NEW op \in Ops \ {"sweep"}, Claim(p, op)
    PROVE  NobodyWritesLate' /\ status = "pending"
  <1>1. Record(p, op) /\ status = "pending"
    BY DEF Claim, Atomic
  <1>2. call'[p] = [op |-> op, pc |-> After(op)] /\ \A q \in Callers \ {p} : call'[q] = call[q]
    BY <1>1 DEF Record, TypeOK
  <1>3. After(op) # "write"
    BY DEF After
  <1> QED  BY <1>1, <1>2, <1>3 DEF NobodyWritesLate

LEMMA FirstStays ==
    ASSUME store = "memory", "sweep" \notin Disturbances, TypeOK, NobodyWritesLate, [Next]_vars
    PROVE  NobodyWritesLate' /\ (status # "pending" => status' = status)
  <1> DEFINE Goal == NobodyWritesLate' /\ (status # "pending" => status' = status)
  <1>a. \A u \in Users : u \in Callers
    BY DEF Callers
  <1>b. "scheduler" \in Callers /\ call \in [Callers -> [op : Ops, pc : Pcs]]
    BY DEF Callers, TypeOK
  <1> DEFINE Quiet(q) == call'[q].pc # "write" /\ call'[q].op # "sweep"
  <1>1. ASSUME status' = status, \A q \in Callers : call'[q] = call[q] \/ Quiet(q) PROVE Goal
    BY <1>1 DEF NobodyWritesLate
  <1>2. ASSUME NEW u \in Users, Request(u) \/ Conflict(u) PROVE Goal
    BY <1>1, <1>2, <1>a, <1>b DEF Request, Conflict, NobodyWritesLate
  <1>3. ASSUME NEW u \in Users, Decide(u) \/ Lapse(u) \/ PolicySupersedes(u) PROVE Goal
    <2>1. call[u].op \in Ops \ {"sweep"}
      BY <1>a, <1>b DEF NobodyWritesLate
    <2>2. PICK op \in Ops \ {"sweep"} : Claim(u, op)
      BY <1>3, <2>1 DEF Decide, Lapse, PolicySupersedes, Ops
    <2> QED  BY <1>a, <2>2, ClaimAtOnce
  <1>4. ASSUME NEW p \in Callers, Steps(p) PROVE Goal
    <2>1. ~Write(p)
      BY DEF Write, NobodyWritesLate
    <2>2. status' = status /\ \A q \in Callers : call'[q] = call[q] \/ Quiet(q)
      BY <1>4, <1>b, <2>1 DEF Steps, Tell, TellNobody, Settle, NobodyWritesLate
    <2> QED  BY <1>1, <2>2
  <1>5. CASE Expire
    BY <1>5, <1>b, ClaimAtOnce DEF Expire, Ops
  <1>6. CASE TimerFires \/ ExpireNothing \/ Restart
    BY <1>1, <1>6, <1>b DEF TimerFires, ExpireNothing, Restart, NobodyWritesLate
  <1>7. CASE Schedule \/ WindowCloses \/ ReminderFires \/ Remind \/ Push \/ UNCHANGED vars
    BY <1>1, <1>7 DEF Schedule, WindowCloses, ReminderFires, Remind, Push, vars
  <1>8. ~Sweep
    BY DEF Sweep
  <1> HIDE DEF Goal
  <1> QED
    BY <1>2, <1>3, <1>4, <1>5, <1>6, <1>7, <1>8 DEF Next, Timers, Goal

\* In the in-memory store, for as long as the process lives, a decision that
\* was recorded stays, whoever comes later: other users, the expiry, a policy
\* that changed (submitDecision and expireApproval look and write in one turn).  A sweep
\* does not: it may supersede what was decided while it was under way
\* (revokeDeviceApprovals), and in Firestore nothing stays.
THEOREM FirstDecisionWinsInMemory ==
    ASSUME Stores = {"memory"}, "sweep" \notin Disturbances
    PROVE  Spec => FirstDecisionWins
  <1>1. Init => NobodyWritesLate
    BY DEF Init, NobodyWritesLate, Idle
  <1>2. TypeOK /\ NobodyWritesLate /\ [Next]_vars =>
            NobodyWritesLate' /\ [status # "pending" => status' = status]_vars
    BY FirstStays DEF TypeOK
  <1> QED  BY <1>1, <1>2, ApprovalTyped, PTL DEF Spec, FirstDecisionWins

--------------------------------------------------------------------------
(* Somebody is still to act *)

\* A pending approval has its expiry ahead of it: it is about to be scheduled,
\* its timer is armed, or the scheduler is at it.
PendingIsTimed ==
    status = "pending" =>
       unscheduled \/ "expiry" \in armed \/ call["scheduler"].pc \in {"look", "write"}

\* As long as nothing was cut, whoever waits for a decision that is recorded
\* has somebody who is about to tell.
NobodyForgotten ==
    status # "pending" /\ kind # "command" /\ answer = "none" /\ cut = {} =>
       \E p \in Callers : Telling(p)

\* The timer is armed again only when its last call is over.
TimedOnce ==
    /\ unscheduled \/ "expiry" \in armed => call["scheduler"].pc \in {"idle", "done"}
    /\ unscheduled => "expiry" \notin armed

Ahead == PendingIsTimed /\ NobodyForgotten /\ TimedOnce

\* A decision that is recorded goes on to those who wait, or is one that tells
\* nobody.
LEMMA RecordAhead ==
    ASSUME TypeOK, NEW p \in Callers, NEW op \in Ops, Record(p, op)
    PROVE  /\ status' # "pending" /\ (Telling(p)' \/ cut' # {})
           /\ \A q \in Callers \ {p} : call'[q] = call[q]
           /\ call'[p].pc \in {"send", "done"}
  <1>1. status' # "pending"
    BY StatusOfType DEF Record
  <1>2. call'[p] = [op |-> op, pc |-> After(op)] /\ \A q \in Callers \ {p} : call'[q] = call[q]
    BY DEF Record, TypeOK
  <1>3. CASE After(op) = "send"
    BY <1>1, <1>2, <1>3 DEF Telling
  <1>4. CASE After(op) = "done"
    <2>1. op \in cut'
      BY <1>4 DEF Record, Silently
    <2> QED  BY <1>1, <1>2, <1>4, <2>1
  <1> QED  BY <1>3, <1>4 DEF After

\* So does one that is claimed, now or with the write that follows.
LEMMA ClaimAhead ==
    ASSUME TypeOK, Ahead, NEW p \in Callers, NEW op \in Ops, Claim(p, op), ~Telling(p),
           p = "scheduler" => call[p].pc = "look", UNCHANGED <<chosen, answer, unscheduled, armed>>
    PROVE  Ahead'
  <1>1. "scheduler" \in Callers
    BY DEF Callers
  <1>2. CASE Record(p, op)
    <2>1. PendingIsTimed' /\ NobodyForgotten'
      BY <1>2, RecordAhead DEF PendingIsTimed, NobodyForgotten
    <2>2. TimedOnce'
      BY <1>1, <1>2, RecordAhead DEF Ahead, TimedOnce
    <2> QED  BY <2>1, <2>2 DEF Ahead
  <1>3. CASE call' = [call EXCEPT ![p] = [op |-> op, pc |-> "write"]] /\ UNCHANGED <<status, first, cut>>
    <2>1. call'[p].pc = "write" /\ \A q \in Callers \ {p} : call'[q] = call[q]
      BY <1>3 DEF TypeOK
    <2>2. status' = "pending" /\ status = "pending"
      BY <1>3 DEF Claim
    <2>3. PendingIsTimed'
      BY <1>1, <2>1, <2>2 DEF Ahead, PendingIsTimed
    <2>4. TimedOnce'
      BY <1>1, <2>1 DEF Ahead, TimedOnce
    <2> QED  BY <2>2, <2>3, <2>4 DEF Ahead, NobodyForgotten, chosen
  <1> QED  BY <1>2, <1>3 DEF Claim

\* A step in which nobody who tells stops telling.
LEMMA QuietAhead ==
    ASSUME TypeOK, Ahead, UNCHANGED <<chosen, status, answer, unscheduled, armed>>, cut \subseteq cut',
           \A q \in Callers : \/ call'[q] = call[q]
                              \/ call[q].pc \in {"idle", "look"} /\ call'[q].pc \in {"look", "done"} /\ q # "scheduler"
                              \/ status # "pending" /\ call[q].pc = "look" /\ call'[q].pc = "done"
    PROVE  Ahead'
  <1>1. "scheduler" \in Callers
    BY DEF Callers
  <1>2. \A q \in Callers : Telling(q) => Telling(q)'
    BY DEF Telling
  <1>3. NobodyForgotten'
    <2> SUFFICES ASSUME status # "pending", kind # "command", answer = "none", cut = {}
                 PROVE  \E q \in Callers : Telling(q)'
      BY DEF NobodyForgotten, chosen
    <2> QED  BY <1>2 DEF Ahead, NobodyForgotten
  <1>4. PendingIsTimed'
    BY <1>1 DEF Ahead, PendingIsTimed
  <1>5. TimedOnce'
    BY <1>1 DEF Ahead, TimedOnce
  <1> QED  BY <1>3, <1>4, <1>5 DEF Ahead

\* Whoever tells is through when the waiting side has its answer, or is cut off.
LEMMA ToldAhead ==
    ASSUME TypeOK, Ahead, NEW p \in Callers, Tell(p) \/ TellNobody(p) \/ Settle(p)
    PROVE  Ahead'
  <1>1. "scheduler" \in Callers
    BY DEF Callers
  <1>2. /\ UNCHANGED <<chosen, status, unscheduled, armed>> /\ Telling(p)
        /\ \A q \in Callers \ {p} : call'[q] = call[q]
        /\ call'[p].pc \in {"settle", "done"}
    BY DEF Tell, TellNobody, Settle, Telling, timerVars, chosen, TypeOK
  <1>3. PendingIsTimed'
    BY <1>1, <1>2 DEF Ahead, PendingIsTimed, Telling
  <1>4. TimedOnce'
    BY <1>1, <1>2 DEF Ahead, TimedOnce, Telling
  <1>5. Telling(p)' \/ answer' # "none" \/ cut' # {} \/ kind = "command"
    <2>1. CASE Tell(p)
      <3>1. kind \in {"agent", "command", "start", "solo"}
        BY KindsAssumption DEF TypeOK
      <3>2. kind = "agent" => answer' # "none"
        BY <2>1 DEF Tell, Heard
      <3>3. kind \in {"start", "solo"} => call'[p].pc = "settle" \/ "norun" \in cut'
        BY <2>1 DEF Tell, TypeOK, Settles, Unsettled
      <3> QED  BY <3>1, <3>2, <3>3 DEF Telling
    <2>2. CASE TellNobody(p)
      <3>1. call'[p].pc = "settle" \/ "offline" \in cut'
        BY <2>2 DEF TellNobody, TypeOK
      <3> QED  BY <3>1 DEF Telling
    <2>3. CASE Settle(p)
      BY <2>3 DEF Settle, Heard
    <2> QED  BY <2>1, <2>2, <2>3
  <1>6. NobodyForgotten'
    BY <1>2, <1>5 DEF NobodyForgotten, chosen
  <1> QED  BY <1>3, <1>4, <1>6 DEF Ahead

LEMMA AheadInit == Init => Ahead
  <1> SUFFICES ASSUME Init PROVE Ahead
    OBVIOUS
  <1>1. "scheduler" \in Callers /\ "tunnel" \in Callers
    BY DEF Callers
  <1>2. call["scheduler"].pc = "idle"
    BY <1>1 DEF Init, Idle
  <1>3. status # "pending" => Telling("tunnel")
    BY <1>1 DEF Init, Telling
  <1>4. (status = "pending" => unscheduled) /\ armed = {}
    BY DEF Init
  <1> QED  BY <1>1, <1>2, <1>3, <1>4 DEF Ahead, PendingIsTimed, NobodyForgotten, TimedOnce, chosen

LEMMA AheadStep == TypeOK /\ Ahead /\ [Next]_vars => Ahead'
  <1> SUFFICES ASSUME TypeOK, Ahead, [Next]_vars PROVE Ahead'
    OBVIOUS
  <1>a. \A u \in Users : u \in Callers /\ u # "scheduler"
    BY UsersAssumption DEF Callers
  <1>b. /\ "scheduler" \in Callers /\ "sweeper" \in Callers
        /\ call \in [Callers -> [op : Ops, pc : Pcs]]
    BY DEF Callers, TypeOK
  <1>1. ASSUME NEW u \in Users, Request(u) \/ Conflict(u) PROVE Ahead'
    <2>1. UNCHANGED <<chosen, status, answer, unscheduled, armed, cut>>
      BY <1>1 DEF Request, Conflict, timerVars, chosen
    <2>2. /\ call[u].pc \in {"idle", "look"} /\ call'[u].pc \in {"look", "done"}
          /\ \A q \in Callers \ {u} : call'[q] = call[q]
      BY <1>1, <1>a, <1>b DEF Request, Conflict
    <2> QED  BY <1>a, <2>1, <2>2, QuietAhead
  <1>2. ASSUME NEW u \in Users, Decide(u) \/ Lapse(u) \/ PolicySupersedes(u) PROVE Ahead'
    <2>1. PICK op \in Ops : Claim(u, op)
      BY <1>2, <1>a, <1>b DEF Decide, Lapse, PolicySupersedes, Ops
    <2>2. UNCHANGED <<chosen, answer, unscheduled, armed>> /\ call[u].pc = "look"
      BY <1>2 DEF Decide, Lapse, PolicySupersedes, timerVars, chosen
    <2> QED  BY <1>a, <2>1, <2>2, ClaimAhead DEF Telling
  <1>3. ASSUME NEW p \in Callers, Write(p) PROVE Ahead'
    <2>1. Record(p, call[p].op) /\ call[p].op \in Ops /\ call[p].pc = "write"
      BY <1>3, <1>b DEF Write
    <2>2. UNCHANGED <<chosen, answer, unscheduled, armed>>
      BY <1>3 DEF Write, timerVars, chosen
    <2>3. PendingIsTimed' /\ NobodyForgotten'
      BY <2>1, RecordAhead DEF PendingIsTimed, NobodyForgotten
    <2>4. TimedOnce'
      BY <1>b, <2>1, <2>2, RecordAhead DEF Ahead, TimedOnce
    <2> QED  BY <2>3, <2>4 DEF Ahead
  <1>4. ASSUME NEW p \in Callers, Tell(p) \/ TellNobody(p) \/ Settle(p) PROVE Ahead'
    BY <1>4, ToldAhead
  <1>5. CASE Schedule
    <2>1. UNCHANGED <<chosen, status, call, answer, cut>> /\ unscheduled /\ ~unscheduled'
      BY <1>5 DEF Schedule
    <2>2. status = "pending" => "expiry" \in armed'
      BY <1>5 DEF Schedule
    <2> QED  BY <2>1, <2>2 DEF Ahead, PendingIsTimed, NobodyForgotten, TimedOnce, Telling, chosen
  <1>6. CASE TimerFires
    <2>1. /\ UNCHANGED <<chosen, status, answer, cut, unscheduled>> /\ "expiry" \notin armed'
          /\ call'["scheduler"].pc = "look" /\ \A q \in Callers \ {"scheduler"} : call'[q] = call[q]
      BY <1>6, <1>b DEF TimerFires
    <2>2. call["scheduler"].pc \in {"idle", "done"}
      BY <1>6 DEF TimerFires, Ahead, TimedOnce
    <2>3. \A q \in Callers : Telling(q) => Telling(q)'
      BY <2>1, <2>2 DEF Telling
    <2>4. NobodyForgotten'
      BY <2>1, <2>3 DEF Ahead, NobodyForgotten, chosen
    <2>5. ~unscheduled
      BY <1>6 DEF TimerFires, Ahead, TimedOnce
    <2> QED  BY <2>1, <2>4, <2>5 DEF Ahead, PendingIsTimed, TimedOnce
  <1>7. CASE Expire
    <2>1. Claim("scheduler", "expire") /\ call["scheduler"].pc = "look" /\ UNCHANGED <<chosen, answer, unscheduled, armed>>
      BY <1>7 DEF Expire, timerVars, chosen
    <2> QED  BY <1>b, <2>1, ClaimAhead DEF Telling, Ops
  <1>8. CASE ExpireNothing
    <2>1. /\ status # "pending" /\ call["scheduler"].pc = "look" /\ call'["scheduler"].pc = "done"
          /\ \A q \in Callers \ {"scheduler"} : call'[q] = call[q]
          /\ UNCHANGED <<chosen, status, answer, unscheduled, armed, cut>>
      BY <1>8, <1>b DEF ExpireNothing, timerVars, chosen
    <2> QED  BY <2>1, QuietAhead
  <1>9. CASE Sweep
    <2>1. Claim("sweeper", "sweep") /\ call["sweeper"].pc = "idle" /\ UNCHANGED <<chosen, answer, unscheduled, armed>>
      BY <1>9 DEF Sweep, timerVars, chosen
    <2> QED  BY <1>b, <2>1, ClaimAhead DEF Telling, Ops
  <1>10. CASE Restart
    <2>1. unscheduled' /\ armed' = {} /\ UNCHANGED <<chosen, status, answer>>
      BY <1>10 DEF Restart
    <2>2. call'["scheduler"].pc \in {"idle", "done"}
      BY <1>10, <1>b DEF Restart
    <2>3. cut' = {} => cut = {} /\ \A p \in Callers : ~Telling(p)
      BY <1>10 DEF Restart, Telling
    <2> QED  BY <2>1, <2>2, <2>3 DEF Ahead, PendingIsTimed, NobodyForgotten, TimedOnce, chosen
  <1>11. CASE ReminderFires \/ WindowCloses \/ Remind \/ Push \/ UNCHANGED vars
    <2>1. UNCHANGED <<chosen, status, call, answer, cut, unscheduled>> /\ ("expiry" \in armed' <=> "expiry" \in armed)
      BY <1>11 DEF ReminderFires, WindowCloses, Remind, Push, vars, timerVars, chosen
    <2> QED  BY <2>1 DEF Ahead, PendingIsTimed, NobodyForgotten, TimedOnce, Telling, chosen
  <1> QED
    BY <1>1, <1>2, <1>3, <1>4, <1>5, <1>6, <1>7, <1>8, <1>9, <1>10, <1>11 DEF Next, Steps, Timers

\* In either store no approval is left pending without an expiry ahead, and
\* nobody who waits for it is forgotten unless the machine was not connected,
\* a restart came between, the record was settled by a path that tells nobody,
\* or a user denied a held start that belongs to no run, which decideApproval
\* leaves waiting (schedule and reconcile, expireApproval, decideApproval).
\* What is ahead then happens: EverySettled and AnsweredUnlessCut.
THEOREM SomebodyActsAlways == Spec => [](PendingIsTimed /\ NobodyForgotten)
  <1>1. Ahead => PendingIsTimed /\ NobodyForgotten
    BY DEF Ahead
  <1> QED  BY <1>1, AheadInit, AheadStep, ApprovalTyped, PTL DEF Spec

\* In the in-memory store only a sweep that was under way changes a decision
\* that was recorded, and it leaves the record superseded
\* (revokeDeviceApprovals collects what is pending and writes later).
OnlySweepsOverwrite == [][status # "pending" /\ status' # status => status' = "superseded"]_vars

\* Whatever else happens, with any number of users, an expiry and a changed
\* policy (submitDecision and expireApproval look and write in one turn).
THEOREM OnlySweepsOverwriteInMemory == ASSUME Stores = {"memory"} PROVE Spec => OnlySweepsOverwrite
  <1>1. Init => Once
    BY OnceInit
  <1>2. TypeOK /\ Once /\ [Next]_vars => Once'
    BY OnceStep DEF TypeOK
  <1>3. TypeOK /\ Once /\ [Next]_vars =>
            [status # "pending" /\ status' # status => status' = "superseded"]_vars
    <2> SUFFICES ASSUME TypeOK, Once, Next, status # "pending", status' # status
                 PROVE  status' = "superseded"
      OBVIOUS
    <2>1. ASSUME NEW p, NEW op, Claim(p, op) PROVE FALSE
      BY <2>1 DEF Claim
    <2>2. ASSUME NEW u \in Users, Request(u) \/ Decide(u) \/ Lapse(u) \/ PolicySupersedes(u) \/ Conflict(u)
          PROVE  FALSE
      BY <2>1, <2>2 DEF Request, Decide, Lapse, PolicySupersedes, Conflict
    <2>3. ~Expire /\ ~Sweep
      BY <2>1 DEF Expire, Sweep
    <2>4. ~Timers
      BY <2>3 DEF Timers, Schedule, WindowCloses, TimerFires, ExpireNothing, ReminderFires, Remind, Push
    <2>5. ~Restart
      BY DEF Restart
    <2>6. PICK p \in Callers : Write(p)
      BY <2>2, <2>3, <2>4, <2>5 DEF Next, Steps, Tell, TellNobody, Settle
    <2>7. call[p].op = "sweep" /\ status' = StatusOf(call[p].op)
      BY <2>6 DEF Write, Record, Once, OnlySweepsWriteLate
    <2> QED  BY <2>7 DEF StatusOf
  <1> QED  BY <1>1, <1>2, <1>3, ApprovalTyped, PTL DEF Spec, OnlySweepsOverwrite
=============================================================================
