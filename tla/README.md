# Odysseus: a verification development

Odysseus lets a person run coding agents of several vendors on their own
machines and walk away. The **control plane** (one Node process) keeps users,
sessions, runs and approvals; a **gateway** on each machine starts and stops the
agents; a **tunnel** (WebSocket) joins the two; a web app shows it all. This
directory models the parts whose correctness depends on the order of events, in
TLA+: TLC checks small instances of the modules, TLAPS proves theorems about
them for every value of the constants.

Run it in this directory:

    tlasany Orchestration.tla                          # parse
    tlc -workers 2 -config OrchCalm.cfg MCOrchestration # model-check
    tlapm OrchestrationProofs.tla                      # check the proofs

`PROJECT.json` lists the components, the runs, the code lines behind every
definition (`map`), the hazards of the code and the properties that cover them.
Paths below are relative to `src/odysseus/`.

## 1. Inventory

### Components that are modelled

| component | state | operations | what is hard |
|---|---|---|---|
| Multi-agent orchestrator `control-plane/src/orchestration/multi-agent-orchestrator.ts` | a run: its state and its plan, a growing list of steps (state, session, dependencies, attempt, outcome); a promise chain per run (`locks`) | `createRun`, `createPlannedRun`, `advance`, `cancel`; inside them `reconcile`, `finishStep`, `expandPlan`, `sendBack`, `dispatchReady`, `dispatch` | the pass works on a copy over many awaits while sessions, approvals and agents go on; plans are rewired while they run; a run moves only when someone calls `advance` |
| Approval workflow `control-plane/src/policy/approval-workflow.ts` | approval records | `createApproval`, `submitDecision`, `expireApproval`, `revokeDeviceApprovals` | several deciders, a check and a write that an await may separate, an answer that is told after it is recorded |
| Escalation scheduler `control-plane/src/afk/escalation-scheduler.ts` | timers in memory, `reminderSentAt` on the record | `schedule`, `reconcile` at startup, `sendReminder`, `expire` | timers are lost in a restart; a timer races a late decision |
| HTTP router `control-plane/src/api/http-router.ts` | none of its own | `decideApproval`, `handlePolicyChange`, advance and cancel of runs, cancel of sessions, kill switch, lock | each handler is a chain of awaits over the stores and the tunnel |
| Tunnel client `gateway/tunnel/src/tunnel-client.ts` | one state, one current socket, a bounded queue, timers of reconnects, handshake and heartbeats | `connect`, `reconnect`, `send`, `flushQueue`, the socket's callbacks, `handleAuthFailure`, `shutdown` | callbacks of an old socket act on the state and the socket of now; timers overtake what they guard; what is queued or in flight when a connection breaks |
| Tunnel server, connection registry, device authentication `control-plane/src/tunnel/` | the connections, one slot for each device, challenges | `handleSocketMessage`, `registerGateway`, `removeGatewaySocket`, `forceDisconnectDevice`; session events in, commands out | a new connection replaces an old one whose close comes later; a device is revoked or moved during a handshake; a command may not be delivered |
| Gateway sessions and runtime `gateway/core/src/gateway.ts`, `session-registry.ts`, `session-journal.ts`, `runtime/gateway-runtime.ts` | admission phase, session registry, journal on disk with a queue of writes, state of the runtime | `createSession`, `stopSession`, adapter events; `stop`, `abort`, `fatal`, and the exit code | admission is checked before a chain of awaits; ways to end the process overlap; a crash between an agent's start and its journal entry |
| Restart recovery `control-plane/src/afk/restart-recovery.ts` | none of its own | `onGatewayConnected`: asks what runs, continues what was interrupted, ends the rest, sweeps | works on lists that are old when they are used; ends sessions that runs and approvals still wait for |
| Policy service and engine `control-plane/src/policy/policy-engine-service.ts`, `packages/policy-engine/` | versions of the policy, which one is active | `evaluate`, `createPolicyVersion`, `activatePolicyVersion` | rules of several priorities and specificities over a floor that must hold; an activation is several writes |
| Remembered approvals `control-plane/src/policy/remembered-approvals.ts` | rules made of approvals | `remember`, `list`, `match`, `revoke` | a match writes back what a revocation just removed |
| Audit log `control-plane/src/policy/audit-log.ts` | a chain of entries | `append`, `verifyChain` | an append reads the last entry and writes after it, with an await in between |
| Contests `control-plane/src/arena/contest.ts`, `runtime.ts`, `review.ts` | a record for each contest: entries with their result, evaluation and review; a lock for each record (`serial.ts`) | `create`, `startEntry`, `onEntryFinished`, `onReviewFinished`, `maybeJudge`, `maybeDecide`, `cancel` | starts, ends, evaluations, reviews and a cancel race over one record; the contest moves only when somebody calls it |
| Control plane wiring `control-plane/src/control-plane.ts` | none of its own | `onSessionFinished`, `expireApproval`, `start`, the hooks on a connection | the only callers of `advance` besides the user |
| Stores `control-plane/src/db/` | all records | find, create, update | the in-memory store's update is atomic with the look before it; Firestore's is not |

How they interact: the user's request, an ended session or an expired approval
queues an `advance`. The pass reads the run, looks at the session record of each
dispatched step, finishes what has ended (which may append steps), starts what
is ready -- by a `session.start` command through the tunnel, or by an approval
that holds that command back -- and writes the run. The gateway starts the agent
and sends its events; the tunnel server writes them into the session record and,
on a terminal one, calls back into `advance` and into the arena. A decided
approval sends what it held and updates the session. Before an agent acts it asks
the policy service, which consults the floor, the rules and what was remembered,
and writes the audit log. When a gateway connects (again), the recovery asks it
which of its sessions run and which were interrupted, and the answer comes from
the registry and the journal. The shared state between all of these is the store,
and every `await` is a point where another one may run.

### Components not modelled, and why

| component | why |
|---|---|
| Never idle `control-plane/src/arena/never-idle.ts` | has state of its own (a list of resumes that fall due, looked up again while a round is under way, line 394) and is the next candidate: a resume should start one agent |
| Benchmarks `control-plane/src/arena/benchmark.ts` | a queue of attempts, each with the steps of a contest's entry and no review; its `pump` runs inside the same kind of `update` |
| Reconciliation and gap detector `gateway/reconciliation/` | the client reconciles only when it is given a provider, and the program gives it none |
| Tunnel supervisor `gateway/core/src/runtime/` | not used by the program |
| How an action is scored and a command read `packages/policy-engine/src/action-risk.ts` | tables and text patterns; an input of `PolicyEngine` |
| Routing, budgets, passwords and tokens, notifications, administration, integrations, review and trace | queries, scores, cryptography and text over records that the modules hold |
| Pairing, certificates, redaction, health, checkpoints, git, adapters, the web app | I/O, cryptography, platform calls or user interface; agents are the environment of the models |

`PROJECT.json` gives each component its status.

## 2. Modules

| module | what it is |
|---|---|
| `TaskBoard` | abstract: what a run promises about the order of its tasks |
| `Orchestration` | one run, its lock holder, sessions, held-back starts, agents and events |
| `MCOrchestration` | step lists and planner replies for TLC |
| `OrchestrationProofs` | theorems about `Orchestration` |
| `AgentProofs` | more of them: agents and their steps, runs that are never stranded |
| `PlanProofs` | more of them: checks, fixes and their loops, and the task board |
| `OneDecision` | abstract: what an approval promises |
| `Approvals` | one approval, its deciders, timers, sweeps and restarts |
| `MCApprovals` | kinds of approval for TLC |
| `ApprovalsProofs` | theorems about `Approvals` |
| `Tunnel` | the gateway's client, its sockets, and the control plane's end of them |
| `MCTunnel`, `TunnelProofs` | instance for TLC; theorems |
| `GatewaySessions` | sessions across the ends of a gateway process, its journal and the recovery |
| `MCGatewaySessions`, `GatewayProofs` | instance for TLC; theorems |
| `PolicyEngine` | the decision about one action, as operators without state |
| `PolicyService` | calls of the policy service, of remembered approvals and of the audit log |
| `MCPolicyService`, `PolicyProofs` | a floor, rules and requests for TLC, with a plain reading of that floor; theorems, about that reading too |
| `Contest` | one contest, its calls under way, its sessions and agents |
| `MCContest`, `ContestProofs` | instance for TLC; theorems |

The modules do not share variables. Where two meet, each models what it needs of
the other as its environment: `Orchestration`, `Approvals` and `Contest` let
starts fail, be held and be lost, and events come late; `GatewaySessions` and
`Tunnel` model what does that.

### Orchestration

| variable | code |
|---|---|
| `run` | the stored `OrchestrationRun`: `state`, `plan.steps`; `done` runs are `DONE_RUN` |
| `worker` | the `advanceNow` or `cancelNow` that holds the run's promise chain: `pc` is the await it is at, `plan` its own copy of the plan, `at` its position in the loop, `error` is `run.error`, `busy` is `builderBusy` |
| `wake` | an `advance` waits in the chain (several waiting are one: a second finds nothing the first did not) |
| `session`, `role` | `state` of the session record, and the task kind its prompt is for |
| `approval`, `followUp` | the approval that holds a start back, and what a decided one has yet to do in `decideApproval` or `expireApproval` |
| `agent`, `inbox`, `report` | the process on the machine, its events on the way, how it ended and what it said |
| `faults` | sessions ended from outside, and interruptions, so far |

One action is one stretch of code between awaits that others can interleave
with: `TakeAdvance`, `ReconcileOpen`, `ReconcileEnded` (the whole of
`finishStep`, with `expandPlan` and `sendBack`), `ReconcileDone` (which includes
the re-trying of blocked steps and the first look at the builder turn), one
`Dispatch...` for each way `dispatch` can go, and `StoreRun`. Where a command or
an approval is visible before the bookkeeping is written, the action is split
(`DispatchAsk` / `AskRecorded`, `DispatchSend` / `StartRecorded`), and the
disturbance `overtake` lets others act in the gap. A step is its position in the
plan; a check's outcome is a verdict (`pass`, `fail` or none), a planner's
outcome is the step list it replied with, or `<<>>` for a reply that cannot be
read.

`Disturbances` names what the environment may do: `offline`, `refuse`,
`overtake`, `late`, `sweep`, `lose`, `stop`, `cancel`, `crash`. A held start is
decided by `Grant` or `Refuse` (a denial or the expiry), or it is `dropped`: a
decision after the window settles its approval silently (`Lapse`,
`approval-workflow.ts:68-79`), as a lock, the kill switch or a revoked device does
(`Supersede`); the expiry then finds nothing pending, and neither the session nor
the run hears of it. An approval is decided once here; the two decisions that
Firestore lets through (finding 3) are in `Approvals`, and `EveryAgentHasAStep` and
`OneWriterInTree` do not speak of them. `AdoptsIds` says whether the gateway runs
the agent under the id of the session record. **In the code as it stands it does
not** for orchestrated steps (finding 2 below): the runs with `AdoptsIds = TRUE`
show what the orchestrator does once that id is passed, and `orch_foreign_ids`
shows what it does today.

### Approvals

`status`, `window`, `marked` are the record (`status`, whether `expiresAt` has
passed, `reminderSentAt`); `call` is where each call on the record is: `look`
(about to read), `write` (read it pending, has not written), `send` and `settle`
(has recorded, has yet to tell); `armed`, `unscheduled`, `reminding` are the
scheduler; `runs` and `answer` are what the machine or the held session got.
`kind` is what waits: an agent, a held command, the held start of a run's step, or
one that belongs to no run (`solo`), whose session a user's denial leaves waiting
(`Settles`, `http-router.ts:3637`). `store` is where the record is kept: what is in
memory does not outlive the process, so a `Restart` is one of a control plane over
Firestore.
`cut` records that an answer can no longer come and why, and `first` the first
status after `pending`: both are history variables that no guard reads. In the
in-memory store `findById` hands out the record itself and `update` is
synchronous, so `look` and `write` of a decision are one step (`Atomic`); in
Firestore they are two. A sweep collects records first and writes them one await
at a time, in either store.

### Tunnel

| variables | code |
|---|---|
| `st`, `ws`, `auto`, `shut` | `_state`, `this.ws`, `config.autoReconnect`, `shuttingDown` of the one `TunnelClient` (`gateway.ts:166`) |
| `timers`, `authTimer`, `beating`, `queue` | pending reconnect timers, the handshake's timeout, heartbeats, `messageQueue` |
| `exiting` | the runtime was told that credentials are rejected for good and will shut down |
| `cl`, `sv`, `cut`, `up`, `down` | both ends of each socket, whether its connection is broken, messages on it |
| `pending`, `proving`, `authed`, `entering`, `slot` | challenges, sockets whose answer awaits the look at the device, authenticated sockets, those whose registration awaits the store, the registry's socket of the device |
| `device`, `stored` | what the database says of the device; the events it has, in order |

Every socket is kept apart, since a callback of an old one reads `this.ws` and
`_state` of now: a challenge that an old socket receives is answered over the
current one (the control plane then refuses the answer for good, and the gateway
exits); the close of a replaced socket makes the client dial again. An attempt
that opens is counted as failed and arms another timer; events sent over a socket
before it has authenticated are lost, and so is one that the store fails to take
(`LosesEvent`: `handleSocketMessage` logs the error and goes on); a full queue drops
its oldest. A handshake may be declined for now at either step. `lost`,
`late` (a timer overtook what it guards) and `ahead` (events sent directly while
older ones were queued) are history variables no guard reads.

### GatewaySessions

| variables | code |
|---|---|
| `lives`, `up`, `exit` | the process, how often it was started, the last exit code |
| `phase`, `rt`, `shut` | `admissionPhase`, the runtime's state, where `gateway.shutdown` is |
| `stopper`, `aborter`, `fataler`, `forget` | where `stop`, `abort` and `fatal` are between their awaits, and what `abort` has yet to take out of the journal |
| `creating`, `reg`, `agent` | `createSession`s past the check of admission, the registry, the agents at work |
| `journal`, `jq` | the journal on disk, its queue of operations |
| `starts`, `news`, `hello` | commands and events on the tunnel; a connection not yet noticed |
| `rec`, `resumed`, `young`, `approved` | session records, what each continues, `START_GRACE_MS`, held starts that were granted |
| `asks`, `call` | the recoveries, and where each is: asking, continuing an entry, ending it, sweeping |

`stop`, `abort` and `fatal` may overlap; `kill` and a crash take the process, its
agents and what was on the tunnel, and leave the journal. `begun`, `purpose`,
`forgotten`, `spared` are history.

### PolicyEngine and PolicyService

A path is a sequence of names as it is spelled, a segment of a pattern the set of
names it matches, so `GlobMatches` is a recursive function over positions, as in the
code. The floor reads a path `Normalised`: without empty names and dots, in lower
case (`normaliseResource`; it leaves `..` alone, so does the model). Rules read it
as it is spelled. `Evaluate`
is the fixed order floor, device, rules, defaults. `PolicyService` has the store
(`books`, `active`, `device`, `remembered`, `expired`, `log`) and in `call` each
call under way with the await it is at: an evaluation reads the device, then the
active version, then what is remembered, writes a match back and appends to the
log; an activation lists, switches off one version at a time and switches on its
own; an append reads the last entry and writes after it. `granted`, `revoked`,
`raced`, `settled`, `muddled`, `overlapped`, `late` are history: they name the
overlaps under which a property is excused.

### Contest

| variables | code |
|---|---|
| `state`, `winner`, `entry`, `named` | the record: its state, `winnerAgentId`, for each entry state, evaluation, review and score, and the session ids it has |
| `start`, `judge`, `grading`, `calls`, `hook` | where each `startEntry` and the loop of `maybeJudge` are, evaluations awaited, calls of `maybeJudge`/`maybeDecide` due, ended sessions not yet handled |
| `granted`, `cancel` | a granted start not yet recorded; where `cancel` is |
| `session`, `gate`, `agent` | session records, held starts, agents at work |
| `faults`, `cut` | rare things so far; history: something the contest waits for was lost |

An action is one `update` (one change at a time, `serial.ts`) with the reads and
replies it follows from.

## 3. Runs

| run | question | bounds |
|---|---|---|
| `orch_storm` | do types, turns of builders and done runs survive everything at once, and can an agent be orphaned, or two builder agents be live at once, without an outside stop or a restart? | 2 independent builders, 2 sessions, all policy decisions, every disturbance, late decisions, locks and lost agents among them; 1 session ended from outside or 1 interruption (`MaxFaults`); 1.2 million states |
| `orch_calm` | does a run keep the order of its tasks, fix and re-check what failed, stop its loops, test what the planner built, never miss a wake-up, and end? | a build-test-review chain, two builders, and a goal with 3 planner replies (a build without checks, a cycle, a build with a test); a cancel, late decisions and locks; `MaxFix = 1`, 8 sessions; 18 600 states |
| `orch_stranded` | is a run woken when the session of a step is ended from outside? (no: finding 1) | 1 builder, held for approval; a lock and a cancel of the session |
| `orch_foreign_ids` | does a run end when the gateway mints its own id? (no: finding 2) | 1 builder |
| `approvals` | is an approval decided once, reminded once, always settled, and its answer only lost for a named reason? | 2 users, 4 kinds, both stores, 1 restart, all disturbances; 825 000 states |
| `approvals_firestore` | the same first decision on Firestore (no: finding 3) | 2 users |
| `approvals_late` | a decision after the window, before the timer (no: finding 4) | 1 user |
| `tunnel` | is the registered socket the live one, is every event stored once or lost in a known way, does a rejected gateway stop and any other come back? | 2 sockets (used again when closed), 2 events, a queue of 1, 1 pending reconnect timer, 2 faults of eight kinds; 671 000 states |
| `gateway` | is interrupted work continued once, cancelled work left alone, and does every record settle, however the process ends? | 3 sessions, 2 of them fresh starts, 2 connections that are asked after, 2 lives, 4 ways to end, 2 faults; 1.8 million states |
| `gateway_unstarted` | does a session show as running only if its agent was started? (no: finding 5) | 1 session |
| `policy` | do floor, rules and grants hold through overlapping calls, is what is revoked or replaced out of force, does the chain verify? | 3 calls, 2 of them evaluations, 2 versions of the policy, 4 entries of the floor, 8 requests of 2 agents; 6.6 million states |
| `contest` | is a contest decided on everything there is, never changed after, and always decided? | 2 agents, 3 results of an evaluation, 1 score, 1 fault; 1.7 million states |

**Why the bounds are enough.** Turn taking is about two builders, so two are in
the plan and both can be started, held, lost and retried. Fix loops need a check
that fails, its fix, its re-check and the attempt after the last: `MaxFix = 1`
has all of them, twice in one run (test and review); 8 sessions are what the
longest such run starts (plan, build, test, review, and a fix and a re-check for
each check), so no behaviour stops for want of a session in `orch_calm`. In `orch_storm` a
third start is not possible; the properties checked there concern two agents at
once. The approval has two
users since a race takes two, and one restart, which may come before, between and
after the calls, timers and answers (the theorems put no bound on either). Two sockets are what a replacement takes, and since a closed
one is used again, connections follow each other without end; with two events a
queue of one is over its limit, and order means something; two faults are a
fault during the repair of another. Two lives of the gateway, with two
connections, let the recovery of the first still be at work when the second is
asked; three sessions are two that are interrupted together and one that continues
one of them. The policy's three calls are two that overlap and one that undoes
what they rely on; its floor has an entry of each shape that `deny-floor.ts` has
(a flag, `**` at the end, at the front, at both ends), its paths are spelled in other
cases and with dots and empty names, and its rules disagree on one
action at two priorities. Two entries of a contest race for one decision, each with
its review; a third would add no kind of race, since every update looks at one
entry or at all.

`CHECK_DEADLOCK FALSE` in the configurations of approvals, tunnel, gateway, policy
and contest, where a behaviour may be over: a settled approval or a decided contest
with no call under way, a gateway that shut down, every call made. The
orchestration runs check deadlock: a run can always be advanced on request.

**Fairness**, and why the code justifies it:
- `WF(Advance)`, `WF(Cancel)`, `WF(Handlers(s))`: promise callbacks and socket
  messages are run by the event loop, and awaited stores answer. Which way a
  dispatch goes (denied, held, sent) is left open. `RequestedAdvance` is a user's
  wish and has no fairness.
- `WF(AgentEnds(s))`: an agent finishes or its adapter reports failure.
- `WF(Refuse(s))`: an approval nobody decides expires by its timer; that the timer
  is served is what `approvals` checks (`EverySettled`).
- `WF` on each caller's steps after it recorded a decision, on `Schedule`,
  `WindowCloses`, `TimerFires` and `Expire`: awaited calls return, the clock goes
  on, timers fire. Users, reminders, sweeps and restarts have none.

- `Tunnel`: `WF` on what the sockets and the control plane do with a connection
  (`Opened`, `OpenTimeout`, `Closed`, `Enter`, `Hangup`, `ClientReceives`,
  `ServerReceives`, for each socket), on `RetryFires` and `AuthTimeout`, and on the
  shutdown that follows rejected credentials. Publishing, moving, revoking and
  faults have none.
- `GatewaySessions`: `WF` on the journal's queue, on messages, on the steps of
  stopping that have a time budget or only await (`DrainEnds`, `Forget`, `Closed`,
  `Finish`, `FinishFatal`), on the timeouts of commands, on the recovery's steps and
  on noticing a connection. Nobody has to end or start a gateway, and agents need
  not end.
- `Contest`: `WF` on the steps of each start, of the hooks, of evaluations and of the
  review loop, on `MaybeJudge` and `MaybeDecide` when they are due, and on agents
  ending and approvals being decided or expiring. Users and faults have none.
- `PolicyService` has no fairness and no liveness property: a call that fails
  simply ends.

### What the properties say

`BuildersTakeTurns`, `OneWriterInTree`: one builder at a time, in the plan and on
the machine. `DoneRunIsFinal`: what queued behind the lock never reopens a run.
`EveryAgentHasAStep`: a live agent can be found and stopped. `ImplementsTaskBoard`:
a step starts only when what it needs is done and, however the plan is expanded or
rewired, nothing stops running after what it ran after before (`RunsAfter`, stated
as closure of sets, so no recursion). `NothingBuildsOnAFailedCheck`,
`FixLoopsStop`: the fix loop. `CompletedRunIsChecked`: a run
completes only when what failed was fixed and checked again, and, where the
planner named no test, every build was tested (the guarantee of `expandPlan`).
`RunNeverStranded`, `RunEnds`: no lost wake-up, every run ends, but for one that
waits for an approval that was settled silently (`Dropped`): `orch_calm` lets
decisions come late and locks supersede, so it claims that these two are the only
ways in which an approval strands a run. `EndedStepsAreSeen`: once a step's session
has ended an advance follows; false, see finding 1.
`ImplementsOneDecision`: decided once, run at most once and only when granted, one
answer. `RemindedOnce`, `EverySettled`, `AnsweredUnlessCut`: timers and answers; an answer
may be cut off by a lost connection, a restart, a settlement that tells nobody, or
the denial of a held start that belongs to no run (`norun`).

*Tunnel.* `LiveSocketHasTheSlot`: late closes evict nobody. `EveryEventAccountedFor`,
`StoredOnceInOrder`: an event is lost only where the code loses it, and never
stored twice; order is excused for events a client sends directly before it has
flushed its queue (`ahead`), and after a timer overtook (`late`). `ShutForGood`,
`RejectionEnds`, `ComesBack`: no dial after a shutdown, the end of a rejected
gateway, the return of any other; `late` excuses the last two for the rest of a
behaviour, since a handshake may then be cut short again and again. So they say
nothing of a client whose timer once overtook.

*GatewaySessions.* `ContinuedOnce`: one continuation, and only when the agent is
gone. `CancelledWorkStaysDown`: what an abort forgot is not continued by a restart.
`JournalFollows`: journal and queue together name the agents at work. `LostMeansLost`:
a recovery ends no session whose agent is at work, but for a start that was held
and granted meanwhile (`approved`). `FatalIsReported`: the exit code, unless the
gateway was aborted as well. `RecordsSettle`: nothing shows as running for ever
but what a recovery took for too young (`spared`, `restart-recovery.ts:96`).

*Policy.* `EvaluationObeys`: floor and device before rules, no rule that denies or
asks overruled by a lower one, a default or a remembered approval, and a remembered
approval no wider than what was granted. `FloorReadsPaths`: the patterns mean what
the floor's entries say of paths as they are spelled, told independently of
`GlobMatches` and `Normalised`. `RevokedStaysRevoked`, `LastActivatedIsInForce`,
`ChainVerifies`: each names the one overlap of calls that breaks it (`raced`,
`muddled`, `overlapped`), and holds in its absence. The overlaps themselves are
hazards that no property covers: the code allows them.

*Contest.* `VerdictIsSound`: all results and all reviews are in, the winner has the
most points, and no review outweighs the tests. `DecisionStands`: what is over
stays. `ContestEnds`: every contest ends, unless `cut`: a granted start that the
machine did not get or refused, or an approval that was denied or expired (nobody
tells the contest), a machine that went down, an end hidden by a late record of the
start (`runtime.ts:162`), a restart, a review loop that threw.

Each property of a passing run has a mutant: a definition under a comment that
begins with `Mutant:`, the form a plausible bug would give the definition below
it. With the mutant in its place TLC reports the property violated.

### Findings

1. A session that is cancelled by itself does not advance its run
   (`http-router.ts:2759`); when its approval was superseded by a lock, nothing else
   will, and the run stays as it is until a person asks (`orch_stranded`). The kill
   switch does both (`http-router.ts:1278`, `1314`), and the recovery ends sessions
   in the same way (`restart-recovery.ts:152`).
2. `dispatch` does not put the record's id where `createSession` looks for it
   (`multi-agent-orchestrator.ts:526`, `gateway.ts:1043-1052`): the events of a
   step reach no record and its run does not move (`orch_foreign_ids`).
3. On Firestore two decisions on one approval both succeed
   (`firestore-store.ts:776`, against `approval-workflow.ts:12`)
   (`approvals_firestore`).
4. A decision after the window and before the timer settles the record and tells
   nobody (`approval-workflow.ts:69`, against `control-plane.ts:351-353`)
   (`approvals_late`).
5. A start that was held for an approval and is granted sets its session running as
   soon as the command is delivered, whether or not the gateway answers
   (`http-router.ts:3649`, against `tunnel-server.ts:677`) (`gateway_unstarted`).

## 4. Proofs

Each theorem holds for every value of the constants, so for every set of plans,
sockets, rules or requests and for every bound; the assumptions are the named
`ASSUME`s of the modules: plans are sequences of steps, bounds are naturals, users
are not named like the services, sessions have agents, rules have integer
priorities, a contest has two entries or more.

**Orchestration** (`OrchestrationProofs`): `TypeCorrect`, `TurnsAreTaken`
(`BuildersTakeTurns`) and `DoneStays` (`DoneRunIsFinal`), from `Invariance`.
`BuildersTakeTurns` is not inductive: a pass may only start a builder because its
`busy` flag was computed from the plan at the start of dispatching and kept while
steps are started. The inductive invariant `IInv` therefore adds to the types

- `RunTurns`: the stored plan has at most one builder holding the tree, and a
  pending step has no session;
- `WorkerTurns`: the same of the copy at work, at every point of the pass, with
  `BusyKnows`: while dispatching, `busy` is true whenever a builder holds the tree;
  between sending a builder's start or ask and recording it, `busy` is set and no
  other builder holds the tree;
- `DoneIsIdle`: a pass is at work only on a run that is not done; with it
  `DoneRunIsFinal` follows since only a pass writes the run.

The lemmas follow the code: what `SendBack`, `PlannedSteps` and `Guarantee` append
is pending and changes no old state (`Grown`), so `Finished` can only free the
tree (`SettledShrinks`); retried steps hold nothing (`RetriedKeeps`); then one
lemma per group of actions shows that it keeps the turns, and `StepInv` collects
them.

**Orchestration: agents** (`AgentProofs`, which builds on `IInv` and `ChecksInv`):
`EveryAgentHasAStepAlways`, `OneWriterInTreeAlways`. What is on the machine is tied
to the plan by `Followed`, as long as `faults` is 0: a session is asked for, started
and ended in this order (`Lifecycle`), a record that says ended is right
(`EndedIsIdle`), and a session whose agent is live, or may still come to be because
its start is held or being sent, belongs to a step that runs or waits, or is being
started (`HasStep`). Such a step holds the tree if it builds, so `busy`, which
`BusyKnows` relates to the plan, keeps any other builder from being started
(`OneWrites`). A cancelled run gives its steps up before their agents are gone, so
there only the session of the step is kept; it starts nothing any more.

`RunNeverStrandedAlways` says that no wake-up is lost: a run that is not done and
that nobody works on has an advance queued, or a step whose session will be heard
of, or one that waits for a machine. It is proved for a calm environment (`Calm`): the machine uses
the session ids it is given; no start is refused, no event overtakes the record it
is about, no session is stopped from outside, no agent is lost, no pass is
interrupted; and machines
may be offline only under a policy that holds no start for approval. `OrchCalm`
checks an instance that satisfies these. Each is needed but the stop from outside:
without any other one TLC soon finds a run that is stranded. With stops alone it
finds none in this instance (the agent's end, or the expiry of the approval, still
wakes the run; finding 1 takes a lock as well); the proof, in which a wake-up follows every end (`SeenInv`),
asks for its absence. Late decisions and locks are not excluded: the statement excuses
a run only as long as one of its steps waits for an approval that they settled. The argument has four parts. `AttendedInv`:
a session that is open has a live agent, an event on its way, or an approval or its
follow-up under way, so it will be heard of. `GroundedInv`: whatever
is left of a plan has a step that waits for nothing of it, however fixes and
re-checks are put between. `PassInv`: a pending step that dispatch has gone past
waits for a step or for the tree, and `busy` is said of a builder that has it. So
when a pass is stored with nothing running or waiting, nothing is left, or it failed.
`KnownInv` and `SeenInv`: when the session of a step that runs has ended, a
reconcile will come to it or an advance is queued.

**Orchestration: plans** (`PlanProofs`, which builds on `IInv`):
`NothingBuildsOnAFailedCheckAlways`, `CompletedRunIsCheckedAlways`,
`FixLoopsStopAlways` and, without crashes, `RunsInOrder`
(`Spec => ImplementsTaskBoard`). The invariant `ChecksInv` is
about plans. `Ordered`: a step has begun only when what it needs is completed, so
nothing that needs a check has begun when its verdict comes. `Whole`: what needs a
failed check is its fix, and a check of the same kind waits for the fix; a check
that completed has a verdict; builds are tested. A plan may only stop being whole in
a pass that gives up (`error`), and that stores a failed run. How each operation
grows a plan is a lemma of its own (`ExpandPlanExtends`, `SendBackMends`,
`ConcludedIsJudged`); all show that what ran after what still does (`RunsKept`,
which for `SendBack` follows the chain check, fix, re-check). For the refinement
each step of a pass is then shown to begin, end or give up tasks or to stutter.
`AtWork` says which step a pass is about and that it has its session, and
`MannedInv` that a step that runs has one, so that a cancel misses none. With a
crash or a throw the claim is false: the copy is dropped, and with it what the
board has seen. `FixLoopsStop` bounds the fixes by what the code counts per check:
`LoopsInv` says that each check and fix belongs to the loop of one original check
(`Rooted`), with one check and at most one fix for each attempt, and that a fix or a
further check comes only after a check of that loop that failed; `SendBack` appends
them only below the limit.

**Approvals** (`ApprovalsProofs`): `ApprovalTyped`, `OneReminder` and, of
approvals kept in memory, `DecidedOnce`: `Spec => ImplementsOneDecision`, a refinement
(an approval in Firestore is mapped to one that stays open). Its
invariant `Once` says that only a sweep is ever between look and write
(`OnlySweepsWriteLate`), that a caller who tells or settles does so on the decision
that was first (`TellersDecided`), that there is one such caller (`OneTells`) and
that until it is done nothing was told (`Untold`), and that a pending record is
undecided (`PendingIsOpen`). `FirstDecisionWinsInMemory` proves, for the in-memory
store without sweeps, the claim that `approvals_firestore` shows to fail in
Firestore: nobody is ever between look and write (`NobodyWritesLate`). With a sweep
it fails in memory as well, which TLC confirms, and
`OnlySweepsOverwriteInMemory` says that nothing else does it: whoever changes a
recorded decision is a sweep, and leaves it superseded. `OneReminder` rests on `Marked`: the record is marked
before the push, and a marked record is never pushed again. `SomebodyActsAlways`
holds in either store: an approval that is pending has its expiry ahead, and who
waits for a recorded decision has somebody about to tell unless `cut` says why not.
Its invariant `Ahead` adds that the timer is armed again only when its last call is
over (`TimedOnce`), or a restart could arm a timer whose call has been made.

**Tunnel** (`TunnelProofs`): `TypeCorrect`, `LiveSocketHasTheSlotAlways`,
`ShutForGoodAlways`, `EventsAccountedForAlways`, `StoredOnceInOrderAlways`,
`NeverAsleep`. `SocketsInv` strengthens the first
safety property: a socket that the client is dialing is not opened at the server,
not registered and not being registered; nothing is under way to the server on a
socket that is closed there or broken; one that has authenticated is not closed
there, and one whose registration awaits the store is authenticated or closed. So a
socket that is used again starts afresh.
The account of events is kept by summaries of the client's and the server's steps
(`ClientMoves`, `ServerMoves`): each takes events from one place and puts them into
another or into `lost`, over lemmas about the events in a sequence. For
`StoredOnceInOrder` the account is ordered: `Lines` says that what the control plane
stored, what is on the wire and what is still queued stand in one line, in the order
the events were numbered, and that what was lost is none of these; `Wires` that nothing stays queued while a
connection is up, that a socket which is not in use carries nothing, and that one
connection at a time has events on it. `NeverAsleep` says that a client that is not
connected, shut down, about to be or sent away has a timer or the end of a socket
ahead of it (`Awake`) and that a rejection is told (`ErrorIsTold`). It needs
`ConnectedHears`: a client that says it is connected still has a socket, whose close
will wake it, although the socket of now may be another one.

**GatewaySessions** (`GatewayProofs`): `TypeCorrect`, `ContinuedOnceAlways`,
`CancelledWorkStaysDownAlways`, `FatalIsReportedAlways`, `JournalFollowsAlways`,
`LostMeansLostAlways`, `SettledAlways`. `HandoverInv` says that an
interrupted session is in one place at a time: at work, in the journal (with what
its queue has yet to do), in the answer to one recovery, or with that recovery or
behind it; and that the control plane numbers sessions in turn and speaks only of
those it made. `FatalIsReported` rests on `Reported`: while the runtime has
failed, the call of `fatal` is closing and no call of `stop` goes on, and the
gateway shuts down only on behalf of a call. `JournalFollows` speaks of what the
journal will hold when the queue of writes is through: what an operation leaves of one
session does not depend on the others (`DoesEach`), so appending an operation to the
queue, and performing its head, change that in step (`AfterAppend`, `AfterHead`).
`LostMeansLost` rests on `LostInv`: a start under way is young or was granted after it
was held back (`StartsExcused`), and as long as a recovery looks for what is lost, what
is at work is excused so or was at work when the gateway was asked (`Looking`).
`SettledAlways` is about what shows as running and is not: while the gateway is up
and was asked, either the end of that session is being told, or the recovery of the
last connection has yet to come to it (`Sought`, by the state of the recovery). For
the news that takes `EndsTold` (a report of a start without an agent has the report
of the end behind it), for the question `RegistryWorks` (what the gateway says it
runs is at work), and for timeouts `Ungranted`: a record that a failed start sets
running was on its way there before, so nothing is revived that a recovery passed.

**Policy** (`PolicyProofs`): `TypeCorrect`, `EvaluationObeysAlways` (from
`FloorHoldsAlways`, `RulesStandAlways`, `RememberedIsNarrowAlways`),
`RevokedStaysRevokedAlways`, `LastActivatedIsInForceAlways`, `ChainVerifiesAlways`.
That a first matching rule exists is proved from the finiteness of a book and the
order `Before` (`FirstExists`). Each property has an invariant of its own over the
calls under way: a decision not yet handed out obeys already, an activation's `todo`
holds what is still active, an append knows the last entry unless it overlapped.

`FloorReadsPathsAlways` says that the floor denies what its entries mean and nothing
else, for paths of any length and however they are spelled. What `Normalised` leaves of
a path is characterised by the ranks of its names (`Nth`, which no recursion needs):
it has the kept names in their order, in lower case (`NormalisedPath`), so a reading of
the path as it is spelled and a reading of the normalised one agree (`SpellingMeans`).
`GlobMatches` fills a table, one row for each suffix of
the pattern. For each shape of pattern that the code's floor has -- as it stands, a
prefix, a suffix, a run of segments anywhere -- a closed form is shown to obey the
table's equation, and two tables that obey it are equal: the least row in which they
differ would follow from a row in which they do not (well-founded sets of naturals,
where an induction theorem is out of reach). `GlobShapes` collects the four. `FloorAnswersAlways`
says, for any floor, that an evaluation is answered by the floor exactly when the
floor denies the action, so that no rule, default or memory comes before it. The
theorem about the instance's floor assumes that floor (its four entries), that names,
paths, booleans, `Any` and `Rest` are told apart, that no entry's pattern is `Any` (an
entry without a pattern), that lower case takes names to names and leaves the empty
name and the dot alone (`Cases`), and that a request's paths are sequences of names;
the run's values satisfy all of these.

**Contest** (`ContestProofs`): `TypeCorrect`, `VerdictIsSoundAlways`,
`DecisionStandsAlways`, `SomebodyActsAlways`. `IInv` says that an entry whose start is not yet sent is
preparing or cancelled and no session of it exists (`StartInv`); that an evaluation
under way belongs to an evaluating entry (`GradingInv`); that reviews belong to
entries with a change (`ReviewInv`); and that while a contest is judged every
entry has its result (`JudgingInv`). That no review outweighs the tests is
arithmetic: `PointsBounds`, at most 40 points against 60. `SomebodyActsAlways` says
that a contest that is not over and was not `cut` never comes to rest: `Awaits` names,
for each state of an entry and of its review, who will move it (the call that starts
it, an agent, an approval or the hook of an end, the evaluation, the reviewing loop),
and says that once all is in, the call that judges or decides is due (`CallsDue`).

Every invariant and every action property that a passing run checks is stated by a
theorem. **Only model-checked** is liveness (`RunEnds`, `EverySettled`,
`AnsweredUnlessCut`, `RejectionEnds`, `ComesBack`, `RecordsSettle`, `ContestEnds`),
since fairness and ENABLED are beyond the prover. What is proved of each is its
safety half, that whoever waits has something ahead of it in every reachable state:
`RunNeverStrandedAlways` for `RunEnds`, `SomebodyActsAlways` of the approvals and of
the contest, `NeverAsleep` for the two of the tunnel, `SettledAlways` for
`RecordsSettle`. What is left to TLC is that what is ahead happens, and that it does
not go on for ever.

## 5. Left out, and why

- Two runs of one project, and sessions started by hand beside a run: nothing in
  the code serialises them.
- Who may decide, risk classes, audit entries, feedback, remembered rules in
  `Approvals`: they choose whether a decision is accepted, not what it does.
- The order of `session.started` and terminal events beyond `overtake`; a late
  event that revives an ended record is in the model (`HandleStarted`), and no
  property forbids it because the code does not.
- `EveryAgentHasAStep` and `OneWriterInTree` once a session was ended from outside
  or a pass interrupted (`faults`): the start is sent before anything that names it
  is stored, and a recovery ends records whose agents live, so they do not hold
  there; this is a listed hazard.
- A timer that is served before its time, and Firestore's listing of a user's
  approvals, which returns nothing: see the hazards.
- `Tunnel`: `disconnect()`, which the gateway never calls; the reconnect budget,
  whose default is none; acks and heartbeats as messages. One connection of one device,
  which stays known: a device whose record is gone when its answer is looked at
  (`tunnel-server.ts:304`) is not in the model. The handlers of one socket run beside
  each other (`tunnel-server.ts:250-260`); here the store answers them in turn, as the
  one in memory does, and an append in Firestore, which reads before it sets
  (`firestore-store.ts:598-628`), is one step. So `StoredOnceInOrder` says nothing of
  the order in which Firestore takes events that are close together.
- `GatewaySessions`: stops of single sessions (in `Orchestration`), the registry's
  limit and duplicate ids, corrupt journals, agents that outlive their gateway
  process, and what ends the last life. Terminal states other than a crash are
  one.
- `Policy`: one user and one device, which is known (one that is not counts as trusted,
  `policy-engine-service.ts:80`), and requests that name the project of their session
  (line 87 looks at the one, line 108 at the other); how often a memory was used, and the first
  10 000 entries that `verifyChain` looks at. In the in-memory store appends do not
  overlap.
- `Contest`: applying a winner and removing worktrees, which change nothing the
  verdict rests on; preparing a worktree is part of the start; which agent reviews.
  Benchmarks and never idle.
- The step outcome that reads the first 5000 events of a session
  (`step-outcome.ts:29`).

## 6. Plan

What would come next, in this order:

1. `NeverIdle`: limits, hand-offs and resumes that fall due while a round is under
   way; abstract: a resume starts one agent. Two resumes, two overlapping rounds, a
   user who cancels one.
2. Benchmarks beside `Contest`, with their `pump`: never more attempts at work than
   the concurrency, none left queued.
3. Proofs about `NeverIdle` and the benchmarks once they are modelled, in the module
   of the contest's proofs.
4. The measures behind the liveness properties: what each pass, retry or reminder
   decreases, as action properties that can be proved beside the safety halves.
