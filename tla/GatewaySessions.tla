-------------------------- MODULE GatewaySessions --------------------------
(***************************************************************************)
(* Sessions across the end of a gateway: how the gateway process is        *)
(* stopped, aborted, fails or is killed (core/src/runtime/                 *)
(* gateway-runtime.ts, gateway.ts), what its registry and its journal on   *)
(* disk know of the agents at work (session-registry.ts,                   *)
(* session-journal.ts), and how the control plane asks about it on every   *)
(* connection and continues what was interrupted                           *)
(* (control-plane/src/afk/restart-recovery.ts, arena/runtime.ts).          *)
(*                                                                         *)
(* Sessions are numbered in the order in which they are created.  The      *)
(* tunnel is a queue of messages to the control plane and a set of         *)
(* starts to the gateway, both lost when the process ends; what else     *)
(* happens to a message is the subject of Tunnel.  The store answers in    *)
(* the order it is asked.                                                  *)
(***************************************************************************)
EXTENDS Naturals, Sequences, FiniteSetsExt

CONSTANTS
    MaxSessions,  \* bound: sessions, continuations included
    MaxStarts,    \* bound: sessions that continue no other
    MaxAsks,      \* bound: connections after which the gateway is asked
    MaxLives,     \* bound: times the gateway process is started; the last goes on
    MaxFaults,    \* bound: rare things that happen; each of them says so below
    Endings       \* what may end it: subset of {"stop", "abort", "fatal", "kill"}

ASSUME BoundsAssumption == {MaxSessions, MaxStarts, MaxAsks, MaxLives, MaxFaults} \subseteq Nat \ {0}
ASSUME EndingsAssumption == Endings \subseteq {"stop", "abort", "fatal", "kill"}

Sessions == 1..MaxSessions
Asks == 1..MaxAsks
NoSession == 0

VARIABLES
    \* the gateway process
    lives,     \* how often it was started
    up,        \* it runs
    phase,     \* admissionPhase
    rt,        \* the runtime's state; "online" while it is at work
    stopper,   \* where the call of stop is
    aborter,   \* where the call of abort is
    fataler,   \* where the call of fatal is
    shut,      \* where gateway.shutdown is
    forget,    \* sessions that abort has yet to take out of the journal
    creating,  \* calls of createSession past the check of admission
    reg,       \* the registry
    jq,        \* operations the journal has yet to do
    \* the machine
    agent,     \* sessions whose agent is at work
    journal,   \* the journal on disk
    \* the links
    starts,    \* starts to start a session on their way to the gateway
    news,      \* what is on its way to the control plane
    hello,     \* a connection was made and not yet noticed
    \* the control plane
    rec,       \* the session records
    resumed,   \* the session that each one continues
    young,     \* sessions created less than START_GRACE_MS ago
    approved,  \* sessions whose start was held back and granted
    asks, call,  \* the recoveries so far, and where each is
    \* bookkeeping
    faults,
    exit,      \* the exit code of the last life
    begun,     \* history: sessions whose agent was started
    purpose,   \* history: sessions registered when the abort began
    forgotten, \* history: sessions that an abort took out of the journal
    spared     \* history: sessions a recovery left alone as too young

process == <<lives, up, phase, rt, stopper, aborter, fataler, shut, forget>>
gateway == <<creating, reg, jq, agent, journal>>
links == <<starts, news, hello>>
plane == <<rec, resumed, young, approved, asks, call>>
history == <<exit, begun, purpose, forgotten, spared>>
vars == <<process, gateway, links, plane, history, faults>>

\* A record is over when it says completed, failed or cancelled; "held" waits for an approval of its start, "waiting" is what is left of it
\* when the approval was denied, or granted and not delivered.
Terminal == {"over", "crashed"}
RecordStates == {"none", "starting", "held", "waiting", "running"} \cup Terminal

Registered == {s \in Sessions : reg[s] # "none"}
Working == {s \in Sessions : reg[s] = "running"}
Stopping == {stopper, aborter, fataler} # {"no"}
Reachable == up /\ shut # "done"

Op(op, of, n, except) == [op |-> op, of |-> of, n |-> n, except |-> except]
Note(kind, of) == [kind |-> kind, of |-> of, list |-> {}]
Told(m) == IF shut = "done" THEN news ELSE Append(news, m)

Usual == UNCHANGED faults
Rare == faults < MaxFaults /\ faults' = faults + 1

Unused == [at |-> "unused", active |-> {}, todo |-> {}, recovered |-> {},
           from |-> NoSession, to |-> NoSession, sweep |-> {}]

Init ==
    /\ lives = 1 /\ up = TRUE /\ phase = "running" /\ rt = "online"
    /\ stopper = "no" /\ aborter = "no" /\ fataler = "no" /\ shut = "no" /\ forget = {}
    /\ creating = {} /\ reg = [s \in Sessions |-> "none"] /\ jq = <<>>
    /\ agent = {} /\ journal = {}
    /\ starts = {} /\ news = <<>> /\ hello = FALSE
    /\ rec = [s \in Sessions |-> "none"] /\ resumed = [s \in Sessions |-> NoSession]
    /\ young = {} /\ approved = {} /\ asks = 0 /\ call = [k \in Asks |-> Unused]
    /\ faults = 0 /\ exit = "none" /\ begun = {} /\ purpose = {} /\ forgotten = {} /\ spared = {}

--------------------------------------------------------------------------
(* How the process ends *)

May(ending) == ending \in Endings /\ up /\ lives < MaxLives /\ Rare
Moved(to) == IF rt \in {"stopped", "fatal"} THEN rt ELSE to

\* What the process held is gone, with its agents and what was on the links.
Ends(code) ==
    /\ up' = FALSE /\ exit' = code
    /\ phase' = "running" /\ rt' = "online"
    /\ stopper' = "no" /\ aborter' = "no" /\ fataler' = "no" /\ shut' = "no" /\ forget' = {}
    /\ creating' = {} /\ reg' = [s \in Sessions |-> "none"] /\ jq' = <<>> /\ agent' = {}
    /\ starts' = {} /\ news' = <<>> /\ hello' = FALSE
    /\ purpose' = {}
    /\ UNCHANGED <<lives, journal, plane, begun, forgotten, spared>>

\* Who calls gateway.shutdown waits for it, unless it was called before.
Shutting == IF shut = "no" THEN "closing" ELSE shut
Caller == IF shut = "no" THEN "closing" ELSE "cleaning"

\* stop: sessions in flight may finish.
Stop ==
    /\ May("stop") /\ ~Stopping
    /\ stopper' = "draining" /\ rt' = Moved("draining") /\ phase' = "draining"
    /\ UNCHANGED <<lives, up, aborter, fataler, shut, forget, gateway, links, plane, history>>

\* Nothing is at work any more, or the drain budget is used up.
DrainEnds ==
    /\ Usual
    /\ stopper = "draining"
    /\ \/ Working = {} /\ UNCHANGED <<rt, phase>>
       \/ Working # {} /\ rt' = Moved("aborting") /\ phase' = "aborting"
    /\ stopper' = Caller /\ shut' = Shutting
    /\ UNCHANGED <<lives, up, aborter, fataler, forget, gateway, links, plane, history>>

\* abort, also while stop drains.
Abort ==
    /\ May("abort") /\ aborter = "no"
    /\ ~(Stopping /\ rt = "aborting")
    /\ aborter' = "forgetting" /\ rt' = Moved("aborting") /\ phase' = "aborting"
    /\ forget' = Registered /\ purpose' = Registered
    /\ UNCHANGED <<lives, up, stopper, fataler, shut, gateway, links, plane, exit, begun, forgotten, spared>>

\* Mutant: only the oldest session is forgotten, and not waited for.
ForgetOldest ==
    /\ Usual
    /\ aborter = "forgetting"
    /\ jq' = IF forget = {} THEN jq ELSE Append(jq, Op("forget", Min(forget), 0, {}))
    /\ forget' = {}
    /\ aborter' = Caller /\ shut' = Shutting
    /\ forgotten' = forgotten \cup purpose
    /\ UNCHANGED <<lives, up, phase, rt, stopper, fataler, creating, reg, agent, journal, links, plane, exit, begun, purpose, spared>>

\* forgetRunningSessions waits for the journal after each session.
Forget ==
    /\ Usual
    /\ aborter = "forgetting"
    /\ \A i \in DOMAIN jq : jq[i].op # "forget"
    /\ IF forget # {}
       THEN /\ forget' = forget \ {Min(forget)}
            /\ jq' = Append(jq, Op("forget", Min(forget), 0, {}))
            /\ UNCHANGED <<aborter, shut, forgotten>>
       ELSE /\ aborter' = Caller /\ shut' = Shutting
            /\ forgotten' = forgotten \cup purpose
            /\ UNCHANGED <<forget, jq>>
    /\ UNCHANGED <<lives, up, phase, rt, stopper, fataler, creating, reg, agent, journal, links, plane, exit, begun, purpose, spared>>

\* gateway.shutdown is done: the tunnel is closed, the registry is cleared.
Closed ==
    /\ Usual
    /\ shut = "closing"
    /\ shut' = "done" /\ phase' = "stopped"
    /\ reg' = [s \in Sessions |-> "none"]
    /\ UNCHANGED <<lives, up, rt, stopper, aborter, fataler, forget, creating, jq, agent, journal, links, plane, history>>

\* stop or abort has waited for gateway.shutdown and for the cleanup budget.
Finish ==
    /\ Usual
    /\ up
    /\ \E caller \in {stopper, aborter} : caller = "cleaning" \/ (caller = "closing" /\ shut = "done")
    /\ Ends("ok")

\* Mutant: a failure while the gateway stops changes nothing.
FatalUnlessStopping ==
    /\ May("fatal") /\ rt' = "fatal"
    /\ IF Stopping THEN UNCHANGED <<fataler, shut, phase>>
       ELSE fataler' = "closing" /\ shut' = "closing" /\ phase' = "aborting"
    /\ UNCHANGED <<lives, up, stopper, aborter, forget, gateway, links, plane, history>>

\* fatal: a gateway that is stopping already exits at once.
Fatal ==
    /\ May("fatal")
    /\ IF Stopping THEN Ends("fatal")
       ELSE /\ rt' = "fatal" /\ fataler' = "closing" /\ shut' = "closing" /\ phase' = "aborting"
            /\ UNCHANGED <<lives, up, stopper, aborter, forget, gateway, links, plane, history>>

FinishFatal == Usual /\ fataler = "closing" /\ shut = "done" /\ Ends("fatal")

\* The process is killed, or the machine goes down.
Kill == May("kill") /\ Ends("killed")

Boot ==
    /\ Usual
    /\ ~up /\ lives < MaxLives
    /\ up' = TRUE /\ lives' = lives + 1 /\ hello' = TRUE /\ exit' = "none"
    /\ UNCHANGED <<phase, rt, stopper, aborter, fataler, shut, forget, gateway, starts, news, plane, begun, purpose, forgotten, spared>>

--------------------------------------------------------------------------
(* Sessions on the gateway *)

\* createSession asks for admission first, and waits often after that.
StartArrives(s) ==
    /\ Usual
    /\ Reachable /\ s \in starts
    /\ starts' = starts \ {s}
    /\ IF phase = "running" THEN creating' = creating \cup {s} /\ UNCHANGED news
       ELSE news' = Told(Note("refused", s)) /\ UNCHANGED creating
    /\ UNCHANGED <<process, reg, jq, agent, journal, hello, plane, history>>

\* The agent is started, registered and written down.
Created(s) ==
    /\ Usual
    /\ s \in creating
    /\ creating' = creating \ {s}
    /\ agent' = agent \cup {s} /\ begun' = begun \cup {s}
    /\ reg' = [reg EXCEPT ![s] = "running"]
    /\ jq' = Append(jq, Op("record", s, 0, {}))
    /\ news' = Told(Note("started", s))
    /\ UNCHANGED <<process, journal, starts, hello, plane, exit, purpose, forgotten, spared>>

\* The adapter could not start the agent.
NotCreated(s) ==
    /\ Rare
    /\ s \in creating
    /\ creating' = creating \ {s}
    /\ news' = Told(Note("refused", s))
    /\ UNCHANGED <<process, reg, jq, agent, journal, starts, hello, plane, history>>

\* Mutant: an end that is no success is not written down.
EndsUnrecorded(s, how) ==
    /\ s \in agent
    /\ agent' = agent \ {s}
    /\ IF reg[s] = "none" THEN UNCHANGED <<reg, jq, news>>
       ELSE /\ reg' = [reg EXCEPT ![s] = "over"]
            /\ jq' = IF how = "completed" THEN Append(jq, Op("remove", s, 0, {})) ELSE jq
            /\ \/ news' = Told(Note("ended", s))
               \/ shut = "closing" /\ UNCHANGED news

\* An agent ends.  Its session leaves the journal, unless it was cut off by a
\* gateway that shuts down; events are no longer forwarded late in that.
AgentEnds(s, how) ==
    /\ s \in agent
    /\ agent' = agent \ {s}
    /\ IF reg[s] = "none" THEN UNCHANGED <<reg, jq, news>>
       ELSE /\ reg' = [reg EXCEPT ![s] = "over"]
            /\ jq' = IF shut = "no" \/ how = "completed"
                     THEN Append(jq, Op("remove", s, 0, {})) ELSE jq
            /\ \/ news' = Told(Note("ended", s))
               \/ shut = "closing" /\ UNCHANGED news

Ended(s) ==
    /\ Usual
    /\ \E how \in {"completed", "failed"} : AgentEnds(s, how)
    /\ UNCHANGED <<process, creating, journal, starts, hello, plane, history>>

\* What an operation leaves of the journal.  takeInterrupted takes out what no
\* session of this process accounts for.
Does(j, o) ==
    CASE o.op = "record" -> j \cup {o.of}
      [] o.op \in {"remove", "forget"} -> j \ {o.of}
      [] o.op = "take" -> j \cap o.except

\* Mutant: what is handed over stays in the journal.
JournalStepKeeping ==
    /\ Usual
    /\ up /\ jq # <<>>
    /\ jq' = Tail(jq)
    /\ LET o == Head(jq)
       IN IF o.op # "take" THEN journal' = Does(journal, o) /\ UNCHANGED news
          ELSE /\ news' = Told([kind |-> "list", of |-> o.n, list |-> journal \ o.except])
               /\ UNCHANGED journal
    /\ UNCHANGED <<process, creating, reg, agent, starts, hello, plane, history>>

\* The journal does one operation at a time and saves before the next;
\* takeInterrupted hands over what it took out.
JournalStep ==
    /\ Usual
    /\ up /\ jq # <<>>
    /\ jq' = Tail(jq)
    /\ LET o == Head(jq)
       IN /\ journal' = Does(journal, o)
          /\ news' = IF o.op # "take" THEN news
                     ELSE Told([kind |-> "list", of |-> o.n, list |-> journal \ o.except])
    /\ UNCHANGED <<process, creating, reg, agent, starts, hello, plane, history>>

--------------------------------------------------------------------------
(* The control plane: starting and ending sessions *)

Known == {s \in Sessions : rec[s] # "none"}
New == Cardinality(Known) + 1

\* startSession creates the record first.  Policy denies the start, or holds it
\* until it is approved; or it is sent, if the gateway is there.
Begins(n, origin) ==
    /\ resumed' = [resumed EXCEPT ![n] = origin]
    /\ young' = young \cup {n}
    /\ \/ /\ IF Reachable THEN Rare ELSE Usual
          /\ rec' = [rec EXCEPT ![n] = "over"] /\ UNCHANGED starts
       \/ /\ Rare
          /\ rec' = [rec EXCEPT ![n] = "held"] /\ UNCHANGED starts
       \/ /\ Reachable /\ Usual
          /\ rec' = [rec EXCEPT ![n] = "starting"] /\ starts' = starts \cup {n}

Starts ==
    /\ New \in Sessions /\ New <= MaxStarts
    /\ Begins(New, NoSession)
    /\ UNCHANGED <<process, gateway, news, hello, approved, asks, call, history>>

\* A start that was held is granted, and sent if the gateway is there.
Approve(s) ==
    /\ Usual
    /\ rec[s] = "held"
    /\ approved' = approved \cup {s}
    /\ IF Reachable
       THEN /\ rec' = [rec EXCEPT ![s] = "starting"]
            /\ starts' = starts \cup {s}
       ELSE rec' = [rec EXCEPT ![s] = "waiting"] /\ UNCHANGED starts
    /\ UNCHANGED <<process, gateway, news, hello, resumed, young, asks, call, history>>

\* Denied: only the session of a run is ended.
Refuse(s) ==
    /\ Usual
    /\ rec[s] = "held"
    /\ \E state \in {"waiting", "over"} : rec' = [rec EXCEPT ![s] = state]
    /\ UNCHANGED <<process, gateway, links, resumed, young, approved, asks, call, history>>

\* START_GRACE_MS is over.  The model lets a start take less than that, and a
\* recovery as well.
Underway(k) == call[k].at \notin {"unused", "gaveup", "done"}
Age(s) ==
    /\ Usual
    /\ s \in young /\ \A t \in young : s <= t
    /\ rec[s] # "starting" /\ s \notin starts \cup creating
    /\ \A i \in DOMAIN news : news[i] # Note("started", s)
    /\ \A k \in Asks : ~Underway(k)
    /\ young' = young \ {s}
    /\ UNCHANGED <<process, gateway, links, rec, resumed, approved, asks, call, history>>

\* The recovery that waits for the start of session s goes on.
Answered(s) ==
    [k \in Asks |-> IF call[k].at = "starting" /\ call[k].to = s
                    THEN [call[k] EXCEPT !.at = "ending"] ELSE call[k]]
Awaited(s) == rec[s] = "starting" \/ \E k \in Asks : call[k].at = "starting" /\ call[k].to = s

\* A start failed or was not answered in time.  One that was approved counts
\* as running as soon as it was delivered.
Unstarted(s) ==
    /\ rec' = IF ~Awaited(s) THEN rec
              ELSE [rec EXCEPT ![s] = IF s \in approved THEN "running" ELSE "over"]
    /\ call' = Answered(s)

\* The start may still succeed, or not.
Pending(s) == s \in starts \cup creating \/ \E i \in DOMAIN news : news[i].of = s /\ news[i].kind # "list"

StartTimeout(s) ==
    /\ Awaited(s)
    /\ IF Pending(s) THEN Rare ELSE Usual
    /\ Unstarted(s)
    /\ UNCHANGED <<process, gateway, links, resumed, young, approved, asks, history>>

\* What the gateway reports.
Hear ==
    /\ Usual
    /\ news # <<>> /\ news' = Tail(news)
    /\ LET m == Head(news)
       IN CASE m.kind = "started" ->
                  rec' = [rec EXCEPT ![m.of] = "running"] /\ call' = Answered(m.of)
            [] m.kind = "refused" -> Unstarted(m.of)
            [] m.kind = "ended" ->
                  /\ rec' = IF rec[m.of] \in Terminal THEN rec ELSE [rec EXCEPT ![m.of] = "over"]
                  /\ UNCHANGED call
            [] m.kind = "list" ->
                  /\ call' = IF call[m.of].at # "asking" THEN call
                             ELSE [call EXCEPT ![m.of].at = "entries", ![m.of].todo = m.list,
                                               ![m.of].recovered = m.list]
                  /\ UNCHANGED rec
    /\ UNCHANGED <<process, gateway, starts, hello, resumed, young, approved, asks, history>>

--------------------------------------------------------------------------
(* The control plane: recovery *)

\* A connection was made: onGatewayConnected asks session.interrupted, and the
\* gateway looks at its registry when the question arrives.
Ask ==
    /\ IF hello THEN Usual ELSE Rare
    /\ Reachable /\ asks < MaxAsks
    /\ asks' = asks + 1 /\ hello' = FALSE
    /\ call' = [call EXCEPT ![asks + 1].at = "asking", ![asks + 1].active = Working]
    /\ jq' = Append(jq, Op("take", NoSession, asks + 1, Registered))
    /\ UNCHANGED <<process, creating, reg, agent, journal, starts, news, rec, resumed, young, approved, history>>

AskTimeout(k) ==
    /\ call[k].at = "asking"
    /\ IF up THEN Rare ELSE Usual
    /\ call' = [call EXCEPT ![k] = [Unused EXCEPT !.at = "gaveup"]]
    /\ UNCHANGED <<process, gateway, links, rec, resumed, young, approved, asks, history>>

\* Mutant: the machine is taken to be the user's.
ContinueAlways(k) ==
    /\ call[k].at = "entries" /\ call[k].todo # {}
    /\ LET s == Min(call[k].todo)
       IN /\ Begins(New, s)
          /\ call' = [call EXCEPT ![k].todo = @ \ {s}, ![k].at = "starting",
                                 ![k].from = s, ![k].to = New]
    /\ UNCHANGED <<process, gateway, news, hello, approved, asks, history>>

\* The next interrupted session: one whose record has not ended is continued
\* in a new one.  Without one (the machine is not the user's any more) the
\* session just ends.
Continue(k) ==
    /\ call[k].at = "entries" /\ call[k].todo # {}
    /\ LET s == Min(call[k].todo)
           next == [call[k] EXCEPT !.todo = @ \ {s}, !.from = s, !.to = New]
       IN IF rec[s] \in Terminal
          THEN /\ call' = [call EXCEPT ![k].todo = @ \ {s}]
               /\ UNCHANGED <<starts, rec, resumed, young, faults>>
          ELSE IF New \notin Sessions
          THEN /\ call' = [call EXCEPT ![k] = [next EXCEPT !.at = "ending", !.to = NoSession]]
               /\ UNCHANGED <<starts, rec, resumed, young, faults>>
          ELSE /\ Begins(New, s)
               /\ call' = [call EXCEPT ![k] =
                     [next EXCEPT !.at = IF rec'[New] = "starting" THEN "starting" ELSE "ending"]]
    /\ UNCHANGED <<process, gateway, news, hello, approved, asks, history>>

\* Mutant: the interrupted session is left as it is.
EndNothing(k) ==
    /\ Usual
    /\ call[k].at = "ending"
    /\ call' = [call EXCEPT ![k].at = "entries"]
    /\ UNCHANGED <<process, gateway, links, rec, resumed, young, approved, asks, history>>

\* endSession, of the session that was continued.
End(k) ==
    /\ Usual
    /\ call[k].at = "ending"
    /\ call' = [call EXCEPT ![k].at = "entries"]
    /\ rec' = [rec EXCEPT ![call[k].from] = "crashed"]
    /\ UNCHANGED <<process, gateway, links, resumed, young, approved, asks, history>>

\* Mutant: what the gateway said it runs is not looked at.
ListAll(k) ==
    /\ Usual
    /\ call[k].at = "entries" /\ call[k].todo = {}
    /\ call' = [call EXCEPT ![k].at = "sweeping",
                 ![k].sweep = {s \in Known : rec[s] \notin Terminal} \ call[k].recovered]
    /\ UNCHANGED <<process, gateway, links, rec, resumed, young, approved, asks, history>>

\* All records of the device are listed; those that have not ended, and are
\* neither at work nor interrupted, may be lost.
List(k) ==
    /\ Usual
    /\ call[k].at = "entries" /\ call[k].todo = {}
    /\ call' = [call EXCEPT ![k].at = "sweeping",
                 ![k].sweep = {s \in Known : rec[s] \notin Terminal}
                                \ (call[k].active \cup call[k].recovered),
                 ![k].active = {}, ![k].recovered = {}, ![k].from = NoSession, ![k].to = NoSession]
    /\ UNCHANGED <<process, gateway, links, rec, resumed, young, approved, asks, history>>

\* The next of them is ended, unless it is too young or held.
Sweep(k) ==
    /\ Usual
    /\ call[k].at = "sweeping"
    /\ IF call[k].sweep = {}
       THEN /\ call' = [call EXCEPT ![k] = [Unused EXCEPT !.at = "done"]]
            /\ UNCHANGED <<rec, spared>>
       ELSE LET s == Min(call[k].sweep)
            IN /\ call' = [call EXCEPT ![k].sweep = @ \ {s}]
               /\ spared' = IF s \in young THEN spared \cup {s} ELSE spared
               /\ rec' = IF s \in young \/ rec[s] = "held" THEN rec
                         ELSE [rec EXCEPT ![s] = "crashed"]
    /\ UNCHANGED <<process, gateway, links, resumed, young, approved, asks, exit, begun, purpose, forgotten>>

--------------------------------------------------------------------------
Lifecycle ==
    \/ Stop \/ DrainEnds \/ Abort \/ Forget \/ Closed \/ Finish
    \/ Fatal \/ FinishFatal \/ Kill \/ Boot

OnGateway(s) == StartArrives(s) \/ Created(s) \/ NotCreated(s) \/ Ended(s)
OnPlane(s) == Approve(s) \/ Refuse(s) \/ Age(s) \/ StartTimeout(s)
Recover(k) == Continue(k) \/ End(k) \/ List(k) \/ Sweep(k)

Next ==
    \/ Lifecycle \/ JournalStep \/ Starts \/ Hear \/ Ask
    \/ \E s \in Sessions : OnGateway(s) \/ OnPlane(s)
    \/ \E k \in Asks : AskTimeout(k) \/ Recover(k)

Spec == Init /\ [][Next]_vars

\* What was begun goes on: the journal writes, messages arrive, timeouts and
\* budgets end, and a gateway that is up and connected is asked.  Nobody has to
\* start a gateway again.
Fairness ==
    /\ WF_vars(JournalStep) /\ WF_vars(Hear) /\ WF_vars(hello /\ Ask)
    /\ WF_vars(DrainEnds) /\ WF_vars(Forget) /\ WF_vars(Closed)
    /\ WF_vars(Finish) /\ WF_vars(FinishFatal)
    /\ \A s \in Sessions : WF_vars(StartTimeout(s))
    /\ \A k \in Asks : WF_vars(AskTimeout(k)) /\ WF_vars(Recover(k))

FairSpec == Spec /\ Fairness

--------------------------------------------------------------------------
(* Properties *)

Ops == [op : {"record", "remove", "forget"}, of : Sessions, n : {0}, except : {{}}]
         \cup [op : {"take"}, of : {NoSession}, n : Asks, except : SUBSET Sessions]
Notes == [kind : {"started", "refused", "ended"}, of : Sessions, list : {{}}]
           \cup [kind : {"list"}, of : Asks, list : SUBSET Sessions]
CallStates == {"unused", "asking", "entries", "starting", "ending", "sweeping", "gaveup", "done"}
Recoveries ==
    [at : CallStates, active : SUBSET Sessions, todo : SUBSET Sessions, recovered : SUBSET Sessions,
     from : Sessions \cup {NoSession}, to : Sessions \cup {NoSession}, sweep : SUBSET Sessions]

\* Every variable stays within its type.
TypeOK ==
    /\ lives \in 1..MaxLives /\ up \in BOOLEAN
    /\ phase \in {"running", "draining", "aborting", "stopped"}
    /\ rt \in {"online", "draining", "aborting", "stopped", "fatal"}
    /\ stopper \in {"no", "draining", "closing", "cleaning"}
    /\ aborter \in {"no", "forgetting", "closing", "cleaning"}
    /\ fataler \in {"no", "closing"} /\ shut \in {"no", "closing", "done"}
    /\ reg \in [Sessions -> {"none", "running", "over"}]
    /\ {forget, creating, agent, journal, young, approved, begun, purpose, forgotten, spared}
          \subseteq SUBSET Sessions
    /\ jq \in Seq(Ops) /\ news \in Seq(Notes)
    /\ starts \subseteq Sessions /\ hello \in BOOLEAN
    /\ rec \in [Sessions -> RecordStates]
    /\ resumed \in [Sessions -> Sessions \cup {NoSession}]
    /\ asks \in 0..MaxAsks /\ call \in [Asks -> Recoveries] /\ faults \in 0..MaxFaults
    /\ exit \in {"none", "ok", "fatal", "killed"}

\* An interrupted session is continued in one session at most, and only once its
\* own agent is gone for good: no two agents work on one task, however often
\* the gateway connects (takeInterrupted, the session.interrupted command,
\* onGatewayConnected).
ContinuedOnce ==
    \A n \in Sessions : resumed[n] # NoSession =>
       /\ resumed[n] \notin agent \cup creating
       /\ \A m \in Sessions : resumed[m] = resumed[n] => m = n

\* Once an abort has forgotten the sessions it found, no restart continues them
\* (abort, forgetRunningSessions, SessionJournal.remove).
CancelledWorkStaysDown ==
    \A n \in Sessions : resumed[n] \notin forgotten

\* What the operations of q, one after the other, leave of the journal j: what
\* none of them takes out, and what one puts in and none after it takes out.
After(j, q) ==
    {s \in Sessions :
        \/ s \in j /\ \A i \in DOMAIN q : s \in Does({s}, q[i])
        \/ \E i \in DOMAIN q : s \in Does({}, q[i])
                               /\ \A k \in DOMAIN q : k > i => s \in Does({s}, q[k])}

\* The journal, with what it has yet to do, names the sessions at work and none
\* that the registry knows to be over, up to the moment the gateway shuts down
\* or forgets them (createSession, wireAdapterEvents, SessionJournal.enqueue).
JournalFollows ==
    up /\ shut = "no" /\ aborter = "no" => After(journal, jq) \cap Registered = Working

\* A record that a recovery marks as crashed has no agent at work, unless its
\* start was held back and granted (onGatewayConnected, endSession).
LostMeansLost ==
    \A s \in Sessions : rec[s] = "crashed" => s \notin agent \ approved

\* A gateway that failed for good says so with its exit code, unless it was
\* aborted as well (fatal, finish).
FatalIsReported ==
    [][up /\ ~up' /\ rt = "fatal" => exit' # "ok" \/ aborter # "no"]_vars

\* While the gateway is up, and once the recovery of its last connection is
\* over, every session that shows as running and whose agent was started has
\* its agent at work: nothing shows as running for ever but what a recovery
\* found too young (onGatewayConnected, endSession, wireAdapterEvents).
Unrecovered == ~up \/ hello \/ (asks > 0 /\ call[asks].at # "done")
RecordsSettle ==
    <>[](Unrecovered \/ \A s \in begun \ spared : rec[s] = "running" => s \in agent)

\* A session shows as running only if its agent was started (tunnel-server.ts:677).
RunningMeansStarted ==
    \A s \in Sessions : rec[s] = "running" => s \in begun
=============================================================================
