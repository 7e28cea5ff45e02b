------------------------------- MODULE Tunnel -------------------------------
(***************************************************************************)
(* The tunnel between a gateway and the control plane: the gateway's one   *)
(* TunnelClient (gateway/tunnel/src/tunnel-client.ts), the control plane's *)
(* authentication of a socket and its slot for the device's connection     *)
(* (control-plane/src/tunnel/tunnel-server.ts, connection-registry.ts,     *)
(* device-auth.ts), and the exit of the gateway when its credentials are   *)
(* rejected for good (gateway-runtime.ts, scripts/start-gateway.ts).       *)
(*                                                                         *)
(* The client is one object with one state, one current socket and some    *)
(* timers, but its callbacks belong to whichever socket called them: an    *)
(* old socket's close, challenge or success acts on the state and on the   *)
(* socket of now.  The model keeps every socket apart for that reason.     *)
(*                                                                         *)
(* Abstracted: lengths of delays, what is signed, heartbeats and acks as   *)
(* messages (they take the same way as events), the reconnect budget (the  *)
(* gateway's default is none) and reconciliation (no provider is ever set, *)
(* so initiateReconciliation returns).  disconnect() is left out: the      *)
(* gateway never calls it.  The control plane handles the messages of a    *)
(* socket one after another, as it does while each of its awaits answers   *)
(* in turn; only the two awaits after an answer to a challenge are steps   *)
(* of their own.  A device whose account is deleted is not modelled.       *)
(***************************************************************************)
EXTENDS Naturals, Sequences, FiniteSets

CONSTANTS
    Sockets,     \* sockets, used again once both sides have closed them
    NoSocket,
    MaxEvents,   \* bound: events the gateway publishes
    MaxQueue,    \* maxQueueSize
    MaxTimers,   \* bound: reconnect timers pending at a time
    MaxFaults,   \* bound: faults that happen
    Faults       \* see below

(***************************************************************************)
(* The faults an instance may allow:                                       *)
(*   cut     a connection breaks, with what is on it                       *)
(*   slow    a timer overtakes what it guards, or what was begun before it *)
(*   move    the device changes accounts and is told to reconnect          *)
(*   revoke  the device is revoked                                         *)
(*   unpaired  the gateway connects before its owner has paired it         *)
(*   stop    the gateway is shut down                                      *)
(*   decline a handshake is turned down for now: a clock that is off, or a *)
(*           challenge that has expired                                    *)
(*   store   an event cannot be stored, and the control plane goes on      *)
(***************************************************************************)
ASSUME SocketsAssumption == NoSocket \notin Sockets
ASSUME BoundsAssumption ==
    MaxEvents \in Nat /\ MaxQueue \in Nat /\ MaxTimers \in Nat \ {0} /\ MaxFaults \in Nat \ {0}
ASSUME FaultsAssumption ==
    Faults \subseteq {"cut", "slow", "move", "revoke", "unpaired", "stop", "decline", "store"}

VARIABLES
    \* the client
    st,         \* _state
    ws,         \* this.ws
    auto,       \* config.autoReconnect
    shut,       \* shuttingDown
    exiting,    \* the runtime was told that the credentials are rejected
    timers,     \* reconnect timers that are pending
    authTimer,  \* the handshake's timeout is armed
    beating,    \* heartbeats are sent
    queue,      \* messageQueue
    published,  \* events sent so far, numbered from 1
    \* the sockets
    cl,         \* the client's end
    sv,         \* the control plane's end
    cut,        \* sockets whose connection is broken
    up, down,   \* messages on their way
    \* the control plane
    pending,    \* sockets that hold a challenge
    proving,    \* sockets that answered it, while the device is looked up
    authed,     \* sockets whose answer was right
    entering,   \* of these, sockets that are not registered yet
    slot,       \* the registry's socket for this connection of the device
    device,     \* what the database says of the device
    stored,     \* events in the order they were stored
    \* bookkeeping
    lost,       \* history: events that will not arrive
    late,       \* history: a timer overtook
    ahead,      \* history: events sent directly before the client was connected
    faults

client == <<st, ws, auto, shut, exiting, timers, authTimer, beating, queue, published>>
links == <<cl, sv, cut, up, down>>
server == <<pending, proving, authed, entering, slot, device, stored>>
vars == <<client, links, server, lost, late, ahead, faults>>

States == {"idle", "connecting", "authenticating", "connected", "reconnecting", "disconnected", "error"}
Dialing == {"dialing", "redialing"}  \* by connect, or by a reconnect attempt

\* A message.  A challenge and its answer name the socket whose challenge it
\* is, or no socket once that has a newer one; an event names its number.
Msg(kind, of) == [kind |-> kind, of |-> of]
EventsIn(q) == {q[i].of : i \in {j \in DOMAIN q : q[j].kind = "event"}}

Init ==
    /\ st = "connecting" /\ auto = TRUE /\ shut = FALSE /\ exiting = FALSE
    /\ timers = 0 /\ authTimer = FALSE /\ beating = FALSE
    /\ queue = <<>> /\ published = 0
    /\ ws \in Sockets
    /\ cl = [s \in Sockets |-> IF s = ws THEN "dialing" ELSE "free"]
    /\ sv = [s \in Sockets |-> "free"] /\ cut = {}
    /\ up = [s \in Sockets |-> <<>>] /\ down = [s \in Sockets |-> <<>>]
    /\ pending = {} /\ proving = {} /\ authed = {} /\ entering = {} /\ slot = NoSocket /\ stored = <<>>
    /\ device \in {"trusted"} \cup (Faults \cap {"unpaired"})
    /\ lost = {} /\ late = FALSE /\ ahead = {}
    /\ faults = IF device = "unpaired" THEN 1 ELSE 0

--------------------------------------------------------------------------
(* Helpers of the client *)

Usable == ws # NoSocket /\ cl[ws] = "open"

\* The messages ms are written to socket s, where nobody may be left to read.
Written(s, ms) ==
    IF s \in cut \/ sv[s] = "free"
    THEN UNCHANGED up /\ lost' = lost \cup EventsIn(ms)
    ELSE up' = [up EXCEPT ![s] = @ \o ms] /\ UNCHANGED lost

\* sendRaw writes to the current socket, or nowhere.
SendRaw(m) == IF Usable THEN Written(ws, <<m>>) ELSE UNCHANGED <<up, lost>>

\* Mutant: what cannot be sent is forgotten.
FlushAll ==
    /\ queue' = <<>>
    /\ IF Usable THEN Written(ws, queue) ELSE UNCHANGED <<up, lost>>

\* Mutant: what was sent stays queued.
FlushKeeping ==
    /\ UNCHANGED queue
    /\ IF Usable THEN Written(ws, queue) ELSE UNCHANGED <<up, lost>>

\* flushQueue sends all that is queued, or keeps all of it.
Flush ==
    IF Usable THEN queue' = <<>> /\ Written(ws, queue)
    ELSE UNCHANGED <<queue, up, lost>>

\* reconnect, n times over: the state says so and n more timers run.
Reconnect(n) ==
    /\ st' = "reconnecting"
    /\ timers' = IF timers + n > MaxTimers THEN MaxTimers ELSE timers + n

Dropped ==
    IF auto THEN Reconnect(1) ELSE st' = "disconnected" /\ UNCHANGED timers

\* The client closes its current socket, if it is not closed already.
CloseCurrent ==
    /\ cl' = IF ws # NoSocket /\ cl[ws] \in Dialing \cup {"open"}
             THEN [cl EXCEPT ![ws] = "closing"] ELSE cl
    /\ ws' = NoSocket

--------------------------------------------------------------------------
(* Dialing and reconnecting *)

\* connect, called by a reconnect attempt.
Dial ==
    /\ st \notin {"connecting", "authenticating", "connected"}
    /\ \E s \in Sockets :
          /\ cl[s] = "free" /\ sv[s] = "free" /\ s \notin proving \cup entering /\ s # slot
          /\ ws' = s
          /\ cl' = [cl EXCEPT ![s] = "redialing"]
          /\ cut' = cut \ {s} /\ up' = [up EXCEPT ![s] = <<>>] /\ down' = [down EXCEPT ![s] = <<>>]
    /\ st' = "connecting" /\ timers' = timers - 1
    /\ UNCHANGED <<queue, lost>>

\* Already connected: the attempt flushes the queue.
Arrived ==
    /\ st = "connected" /\ timers' = timers - 1
    /\ Flush
    /\ UNCHANGED <<st, ws, cl, cut, down>>

\* A connection is being made: the attempt counts as failed.
Rearm ==
    /\ st \in {"connecting", "authenticating"}
    /\ st' = "reconnecting"
    /\ UNCHANGED <<ws, timers, queue, cl, cut, up, down, lost>>

\* Mutant: the attempt does not ask whether the client was shut down.
RetryAlways ==
    /\ timers > 0
    /\ Dial \/ Arrived \/ Rearm
    /\ UNCHANGED <<auto, shut, exiting, authTimer, beating, published, sv, server, ahead>>

\* runReconnectAttempt
Retry ==
    /\ timers > 0
    /\ IF shut THEN timers' = timers - 1 /\ UNCHANGED <<st, ws, queue, cl, cut, up, down, lost>>
       ELSE Dial \/ Arrived \/ Rearm
    /\ UNCHANGED <<auto, shut, exiting, authTimer, beating, published, sv, server, ahead>>

\* The socket opens.  An attempt waits for this much only and then finds that
\* it is not connected.
Opened(s) ==
    /\ cl[s] \in Dialing /\ s \notin cut
    /\ cl' = [cl EXCEPT ![s] = "open"] /\ sv' = [sv EXCEPT ![s] = "open"]
    /\ IF cl[s] = "redialing" /\ ~shut THEN Reconnect(1) ELSE st' = "authenticating" /\ UNCHANGED timers
    /\ authTimer' = TRUE
    /\ IF ws = s THEN up' = [up EXCEPT ![s] = <<Msg("auth", NoSocket)>>] /\ UNCHANGED lost
       ELSE SendRaw(Msg("auth", NoSocket))
    /\ UNCHANGED <<ws, auto, shut, exiting, beating, queue, published, cut, down, server, late, ahead, faults>>

\* connectTimeoutMs is over.  A reconnect attempt reports the failure twice.
GiveUpDial(s) ==
    /\ cl[s] \in Dialing
    /\ cl' = [cl EXCEPT ![s] = "closing"]
    /\ IF shut THEN UNCHANGED <<st, timers, beating, authTimer>>
       ELSE /\ IF cl[s] = "redialing" THEN Reconnect(IF auto THEN 2 ELSE 1) ELSE Dropped
            /\ beating' = FALSE /\ authTimer' = FALSE
    /\ UNCHANGED <<ws, auto, shut, exiting, queue, published, sv, cut, up, down, server, lost, ahead>>

\* handleAuthFailure closes the current socket and tries again, or stops.
Rejected(fatal) ==
    /\ CloseCurrent
    /\ authTimer' = FALSE
    /\ IF fatal THEN st' = "error" /\ UNCHANGED <<timers, beating>>
       ELSE IF shut THEN UNCHANGED <<st, timers, beating>>
       ELSE Dropped /\ beating' = FALSE

\* authTimeoutMs is over.
GiveUpAuth ==
    /\ authTimer
    /\ Rejected(FALSE)
    /\ UNCHANGED <<auto, shut, exiting, queue, published, sv, cut, up, down, server, lost, ahead>>

\* handleWebSocketClose, for whichever socket it is.
Closed(s) ==
    /\ cl[s] # "free"
    /\ \/ s \in cut
       \/ cl[s] \in {"open", "closing"} /\ sv[s] # "open" /\ up[s] = <<>> /\ down[s] = <<>>
    /\ cl' = [cl EXCEPT ![s] = "free"]
    /\ down' = [down EXCEPT ![s] = <<>>]
    /\ beating' = FALSE /\ authTimer' = FALSE
    /\ IF shut THEN st' = "idle" /\ UNCHANGED timers ELSE Dropped
    /\ UNCHANGED <<ws, auto, shut, exiting, queue, published, sv, cut, up, server, lost, late, ahead, faults>>

\* Three heartbeats went unanswered.
MissedBeats ==
    /\ beating /\ Usable /\ ws \in cut
    /\ cl' = [cl EXCEPT ![ws] = "closing"]
    /\ UNCHANGED <<client, sv, cut, up, down, server, lost, late, ahead, faults>>

--------------------------------------------------------------------------
(* Messages that the client receives *)

First(s) == Head(down[s])
Receives(s, kind) ==
    /\ cl[s] \in {"open", "closing"} /\ down[s] # <<>> /\ First(s).kind = kind
    /\ down' = [down EXCEPT ![s] = Tail(@)]

\* The answer leaves on the current socket, whichever socket asked.
Challenged(s) ==
    /\ Receives(s, "challenge")
    /\ SendRaw(Msg("answer", First(s).of))
    /\ UNCHANGED <<client, cl, sv, cut, server, late, ahead, faults>>

\* Mutant: the queue waits for the next message.
SucceedsOnly(s) ==
    /\ Receives(s, "success")
    /\ st' = "connected" /\ authTimer' = FALSE /\ beating' = TRUE
    /\ UNCHANGED <<ws, auto, shut, exiting, timers, queue, published, cl, sv, cut, up, server, lost, late, ahead, faults>>

\* handleAuthSuccess
Succeeds(s) ==
    /\ Receives(s, "success")
    /\ st' = "connected" /\ authTimer' = FALSE /\ beating' = TRUE
    /\ Flush
    /\ UNCHANGED <<ws, auto, shut, exiting, timers, published, cl, sv, cut, server, late, ahead, faults>>

\* A denial that may be retried.
Denied(s) ==
    /\ Receives(s, "denied")
    /\ Rejected(FALSE)
    /\ UNCHANGED <<auto, shut, exiting, queue, published, sv, cut, up, server, lost, late, ahead, faults>>

\* Mutant: nobody tells the runtime of the rejection.
DeniedQuietly(s) ==
    /\ Receives(s, "fatal")
    /\ Rejected(TRUE)
    /\ UNCHANGED <<auto, shut, exiting, queue, published, sv, cut, up, server, lost, late, ahead, faults>>

\* The credentials are rejected: the runtime, which listens, will exit.
DeniedForGood(s) ==
    /\ Receives(s, "fatal")
    /\ Rejected(TRUE)
    /\ exiting' = (exiting \/ ~shut)
    /\ UNCHANGED <<auto, shut, queue, published, sv, cut, up, server, lost, late, ahead, faults>>

\* handleServerDisconnect: without willReconnect the client stays away.
ToldToLeave(s) ==
    /\ \/ Receives(s, "leave") /\ auto' = FALSE
       \/ Receives(s, "move") /\ UNCHANGED auto
    /\ UNCHANGED <<st, ws, shut, exiting, timers, authTimer, beating, queue, published, cl, sv, cut, up, server, lost, late, ahead, faults>>

--------------------------------------------------------------------------
(* What the gateway does with its client *)

\* Mutant: nothing bounds the queue.
PublishAll ==
    /\ ~shut /\ published < MaxEvents
    /\ published' = published + 1
    /\ LET e == Msg("event", published + 1)
       IN IF Usable
          THEN /\ Written(ws, <<e>>)
               /\ ahead' = IF st = "connected" THEN ahead ELSE ahead \cup {e.of}
               /\ UNCHANGED queue
          ELSE queue' = Append(queue, e) /\ UNCHANGED <<up, lost, ahead>>
    /\ UNCHANGED <<st, ws, auto, shut, exiting, timers, authTimer, beating, cl, sv, cut, down, server, late, faults>>

\* An event is published: on the wire if the socket is open, else queued, and
\* the oldest is dropped when the queue is full.
Publish ==
    /\ ~shut /\ published < MaxEvents
    /\ published' = published + 1
    /\ LET e == Msg("event", published + 1)
           q == Append(queue, e)
       IN IF Usable
          THEN /\ Written(ws, <<e>>)
               /\ ahead' = IF st = "connected" THEN ahead ELSE ahead \cup {e.of}
               /\ UNCHANGED queue
          ELSE /\ UNCHANGED <<up, ahead>>
               /\ queue' = IF Len(q) > MaxQueue THEN Tail(q) ELSE q
               /\ lost' = IF Len(q) > MaxQueue THEN lost \cup {Head(q).of} ELSE lost
    /\ UNCHANGED <<st, ws, auto, shut, exiting, timers, authTimer, beating, cl, sv, cut, down, server, late, faults>>

\* shutdown: by the runtime, which exits, or by whoever stops the gateway.
Shutdown ==
    /\ ~shut
    /\ \/ exiting /\ UNCHANGED faults
       \/ "stop" \in Faults /\ faults < MaxFaults /\ faults' = faults + 1
    /\ shut' = TRUE
    /\ CloseCurrent
    /\ st' = "idle" /\ beating' = FALSE /\ authTimer' = FALSE
    /\ queue' = <<>> /\ lost' = lost \cup EventsIn(queue)
    /\ UNCHANGED <<auto, exiting, timers, published, sv, cut, up, down, server, late, ahead>>

--------------------------------------------------------------------------
(* The control plane *)

Reply(s, m) == IF sv[s] = "open" /\ s \notin cut THEN [down EXCEPT ![s] = Append(@, m)] ELSE down
Hears(s, kind) ==
    /\ sv[s] # "free" /\ up[s] # <<>> /\ Head(up[s]).kind = kind

\* A challenge of socket s that is on its way is no longer the latest.
Voided(q, s) ==
    [i \in DOMAIN q |-> IF q[i].kind \in {"challenge", "answer"} /\ q[i].of = s
                        THEN Msg(q[i].kind, NoSocket) ELSE q[i]]

\* denyAuth tells the client, and may close the socket.
Deny(s, kind, closes) ==
    /\ down' = Reply(s, Msg(kind, NoSocket))
    /\ sv' = IF closes /\ sv[s] = "open" THEN [sv EXCEPT ![s] = "closing"] ELSE sv
    /\ pending' = pending \ {s}

\* Step 1 of the exchange: who is it?
HearsAuth(s) ==
    /\ Hears(s, "auth")
    /\ CASE device \in {"trusted", "revoking"} ->
              /\ pending' = pending \cup {s}
              /\ up' = [t \in Sockets |-> Voided(IF t = s THEN Tail(up[s]) ELSE up[t], s)]
              /\ down' = LET d == [t \in Sockets |-> Voided(down[t], s)]
                         IN IF sv[s] = "open" /\ s \notin cut
                            THEN [d EXCEPT ![s] = Append(@, Msg("challenge", s))] ELSE d
              /\ UNCHANGED sv
         [] device = "unpaired" -> Deny(s, "denied", FALSE) /\ up' = [up EXCEPT ![s] = Tail(@)]
         [] device = "revoked" -> Deny(s, "fatal", TRUE) /\ up' = [up EXCEPT ![s] = Tail(@)]
    /\ UNCHANGED <<client, cl, cut, proving, authed, entering, slot, device, stored, lost, late, ahead, faults>>

\* Its clock is off.
DeclinesAuth(s) ==
    /\ "decline" \in Faults /\ faults < MaxFaults
    /\ Hears(s, "auth")
    /\ faults' = faults + 1
    /\ Deny(s, "denied", FALSE) /\ up' = [up EXCEPT ![s] = Tail(@)]
    /\ UNCHANGED <<client, cl, cut, proving, authed, entering, slot, device, stored, lost, late, ahead>>

\* Step 2: the answer to the challenge that this socket holds, or to another.
\* (That it was another is found after the device was looked up.)
HearsAnswer(s) ==
    /\ Hears(s, "answer")
    /\ up' = [up EXCEPT ![s] = Tail(@)]
    /\ IF s \in pending /\ Head(up[s]).of = s
       THEN /\ pending' = pending \ {s} /\ proving' = proving \cup {s}
            /\ UNCHANGED <<sv, down>>
       ELSE Deny(s, "fatal", TRUE) /\ UNCHANGED proving
    /\ UNCHANGED <<client, cl, cut, authed, entering, slot, device, stored, lost, late, ahead, faults>>

\* The device was found, its status is not looked at again, and the answer is
\* right.  The socket may have closed.
Proves(s) ==
    /\ s \in proving
    /\ proving' = proving \ {s} /\ entering' = entering \cup {s}
    /\ authed' = IF sv[s] = "free" THEN authed ELSE authed \cup {s}
    /\ UNCHANGED <<client, links, pending, slot, device, stored, lost, late, ahead, faults>>

\* By then the challenge has expired.
DeclinesAnswer(s) ==
    /\ "decline" \in Faults /\ faults < MaxFaults
    /\ s \in proving
    /\ faults' = faults + 1
    /\ proving' = proving \ {s}
    /\ Deny(s, "denied", TRUE)
    /\ UNCHANGED <<client, cl, cut, up, authed, entering, slot, device, stored, lost, late, ahead>>

\* The database has answered: the socket, open or not by now, is registered,
\* and registerGateway closes the one it replaces.
Enter(s) ==
    /\ s \in entering
    /\ entering' = entering \ {s}
    /\ slot' = s
    /\ sv' = IF slot \notin {s, NoSocket} /\ sv[slot] = "open"
             THEN [sv EXCEPT ![slot] = "closing"] ELSE sv
    /\ down' = Reply(s, Msg("success", NoSocket))
    /\ UNCHANGED <<client, cl, cut, up, pending, proving, authed, device, stored, lost, late, ahead, faults>>

\* An event is stored; one from a socket that is not authenticated closes it.
HearsEvent(s) ==
    /\ Hears(s, "event")
    /\ up' = [up EXCEPT ![s] = Tail(@)]
    /\ IF s \in authed
       THEN stored' = Append(stored, Head(up[s]).of) /\ UNCHANGED <<sv, lost>>
       ELSE /\ sv' = [sv EXCEPT ![s] = "closing"]
            /\ lost' = lost \cup {Head(up[s]).of}
            /\ UNCHANGED stored
    /\ UNCHANGED <<client, cl, cut, down, pending, proving, authed, entering, slot, device, late, ahead, faults>>

\* Storing it fails: the error is logged, and the gateway is not told.
LosesEvent(s) ==
    /\ "store" \in Faults /\ faults < MaxFaults
    /\ Hears(s, "event") /\ s \in authed
    /\ faults' = faults + 1
    /\ up' = [up EXCEPT ![s] = Tail(@)]
    /\ lost' = lost \cup {Head(up[s]).of}
    /\ UNCHANGED <<client, cl, sv, cut, down, server, late, ahead>>

\* Mutant: the slot is emptied, whichever socket it holds by now.
HangupAny(s) ==
    /\ sv[s] # "free"
    /\ s \in cut \/ (up[s] = <<>> /\ (sv[s] = "closing" \/ cl[s] \in {"closing", "free"}))
    /\ sv' = [sv EXCEPT ![s] = "free"] /\ up' = [up EXCEPT ![s] = <<>>]
    /\ slot' = IF s \in authed THEN NoSocket ELSE slot
    /\ pending' = pending \ {s} /\ authed' = authed \ {s}
    /\ UNCHANGED <<client, cl, cut, down, proving, entering, device, stored, lost, late, ahead, faults>>

\* The socket has closed: its entry goes, if it still has one.
Hangup(s) ==
    /\ sv[s] # "free"
    /\ s \in cut \/ (up[s] = <<>> /\ (sv[s] = "closing" \/ cl[s] \in {"closing", "free"}))
    /\ sv' = [sv EXCEPT ![s] = "free"] /\ up' = [up EXCEPT ![s] = <<>>]
    /\ slot' = IF slot = s THEN NoSocket ELSE slot
    /\ pending' = pending \ {s} /\ authed' = authed \ {s}
    /\ UNCHANGED <<client, cl, cut, down, proving, entering, device, stored, lost, late, ahead, faults>>

\* The registered connection is told to leave, is closed and forgotten.
Dismiss(kind) ==
    IF slot = NoSocket THEN UNCHANGED <<sv, down, slot>>
    ELSE /\ down' = Reply(slot, Msg(kind, NoSocket))
         /\ sv' = IF sv[slot] = "open" THEN [sv EXCEPT ![slot] = "closing"] ELSE sv
         /\ slot' = NoSocket

\* requestReconnect
Move ==
    /\ "move" \in Faults /\ faults < MaxFaults /\ slot # NoSocket
    /\ faults' = faults + 1
    /\ Dismiss("move")
    /\ UNCHANGED <<client, cl, cut, up, pending, proving, authed, entering, device, stored, lost, late, ahead>>

\* The device is disconnected first and marked revoked afterwards.
Revoke ==
    /\ \/ /\ "revoke" \in Faults /\ faults < MaxFaults /\ device = "trusted"
          /\ faults' = faults + 1
          /\ device' = "revoking"
          /\ Dismiss("leave")
       \/ /\ device = "revoking"
          /\ device' = "revoked"
          /\ UNCHANGED <<sv, down, slot, faults>>
    /\ UNCHANGED <<client, cl, cut, up, pending, proving, authed, entering, stored, lost, late, ahead>>

\* The owner confirms the pairing.
Pair ==
    /\ device = "unpaired"
    /\ device' = "trusted"
    /\ UNCHANGED <<client, links, pending, proving, authed, entering, slot, stored, lost, late, ahead, faults>>

--------------------------------------------------------------------------
(* Time and the network *)

\* A connection breaks: what was on it is lost.
Cut(s) ==
    /\ "cut" \in Faults /\ faults < MaxFaults
    /\ cl[s] # "free" /\ s \notin cut
    /\ faults' = faults + 1
    /\ cut' = cut \cup {s}
    /\ up' = [up EXCEPT ![s] = <<>>] /\ down' = [down EXCEPT ![s] = <<>>]
    /\ lost' = lost \cup EventsIn(up[s])
    /\ UNCHANGED <<client, cl, sv, server, late, ahead>>

\* A connection is being made, or an earlier one is not over.
Underway == \E s \in Sockets : cl[s] # "free" /\ ~(cl[s] = "open" /\ st = "connected")

\* The handshake cannot succeed.
Stalled == Usable => ws \in cut

RetryFires == ~Underway /\ Retry /\ UNCHANGED <<late, faults>>
AuthTimeout == Stalled /\ GiveUpAuth /\ UNCHANGED <<late, faults>>
OpenTimeout(s) == s \in cut /\ GiveUpDial(s) /\ UNCHANGED <<late, faults>>

\* A timer fires although what it guards is still going on.
Overtake ==
    /\ "slow" \in Faults /\ faults < MaxFaults
    /\ faults' = faults + 1
    /\ \/ Underway /\ Retry
       \/ ~Stalled /\ GiveUpAuth
       \/ \E s \in Sockets \ cut : GiveUpDial(s)
    /\ late' = TRUE

--------------------------------------------------------------------------
ClientReceives(s) ==
    Challenged(s) \/ Succeeds(s) \/ Denied(s) \/ DeniedForGood(s) \/ ToldToLeave(s)

ServerReceives(s) == HearsAuth(s) \/ HearsAnswer(s) \/ HearsEvent(s)
ServerGoesOn(s) == Proves(s) \/ Enter(s)
ServerFails(s) == DeclinesAuth(s) \/ DeclinesAnswer(s) \/ LosesEvent(s)

Next ==
    \/ \E s \in Sockets :
          \/ Opened(s) \/ OpenTimeout(s) \/ Closed(s) \/ Hangup(s) \/ Cut(s)
          \/ ClientReceives(s) \/ ServerReceives(s) \/ ServerGoesOn(s) \/ ServerFails(s)
    \/ RetryFires \/ AuthTimeout \/ Overtake \/ MissedBeats
    \/ Publish \/ Shutdown \/ Move \/ Revoke \/ Pair

Spec == Init /\ [][Next]_vars

\* Messages and closes arrive, timers are served, and the runtime does exit.
Fairness ==
    /\ \A s \in Sockets :
          /\ WF_vars(Opened(s)) /\ WF_vars(OpenTimeout(s))
          /\ WF_vars(Closed(s)) /\ WF_vars(Hangup(s)) /\ WF_vars(ClientReceives(s))
          /\ WF_vars(ServerReceives(s)) /\ WF_vars(Proves(s)) /\ WF_vars(Enter(s))
    /\ WF_vars(RetryFires) /\ WF_vars(AuthTimeout)
    /\ WF_vars(exiting /\ Shutdown)

FairSpec == Spec /\ Fairness

--------------------------------------------------------------------------
(* Properties *)

Events == 1..MaxEvents
EventMessages == [kind : {"event"}, of : Events]
Messages == [kind : {"auth", "answer", "challenge", "success", "denied", "fatal", "leave", "move"},
             of : Sockets \cup {NoSocket}] \cup EventMessages

\* Every variable stays within its type: the client, the sockets and what is
\* on them, and what the control plane holds.
TypeOK ==
    /\ st \in States /\ ws \in Sockets \cup {NoSocket}
    /\ {auto, shut, exiting, authTimer, beating, late} \subseteq BOOLEAN
    /\ timers \in 0..MaxTimers /\ published \in 0..MaxEvents /\ faults \in 0..MaxFaults
    /\ queue \in Seq(EventMessages) /\ Len(queue) <= MaxQueue
    /\ cl \in [Sockets -> {"free", "open", "closing"} \cup Dialing]
    /\ sv \in [Sockets -> {"free", "open", "closing"}]
    /\ up \in [Sockets -> Seq(Messages)] /\ down \in [Sockets -> Seq(Messages)]
    /\ cut \subseteq Sockets /\ pending \cup proving \cup authed \cup entering \subseteq Sockets
    /\ slot \in Sockets \cup {NoSocket}
    /\ device \in {"unpaired", "trusted", "revoking", "revoked"}
    /\ stored \in Seq(Events) /\ lost \subseteq Events /\ ahead \subseteq Events

\* A socket that has authenticated and that the control plane has not closed
\* is the one in the slot, once it is registered: a replacement closes the
\* socket before it, and the late close of a replaced socket does not evict the
\* newer one.  Only a socket that closed while it was being registered stays in
\* the slot (registerGateway, removeGatewaySocket, forceDisconnectDevice).
LiveSocketHasTheSlot ==
    /\ \A s \in authed \ entering : sv[s] = "open" => slot = s
    /\ slot # NoSocket => slot \in authed \/ sv[slot] = "free"

OnWire == UNION {EventsIn(up[s]) : s \in Sockets}
Stored == {stored[i] : i \in DOMAIN stored}

\* Every event is stored, queued or on its way, unless it was lost in one of
\* the ways the code has: dropped from a full queue, written to a connection
\* that broke or that had not authenticated, queued when the gateway shut down,
\* or one that the control plane failed to store (send, enqueueMessage,
\* flushQueue, handleSocketMessage and the error it swallows).
EveryEventAccountedFor ==
    1..published = Stored \cup EventsIn(queue) \cup OnWire \cup lost

\* No event is stored twice, nor stored after it was given up, and as long as
\* no timer overtakes a connection events are stored in the order they were
\* published, over whatever connections they went (flushQueue; the event
\* branch of handleSocketMessage).
StoredOnceInOrder ==
    /\ Stored \cap lost = {}
    /\ \A i, j \in DOMAIN stored : i < j =>
          stored[i] # stored[j] /\ (stored[i] < stored[j] \/ late \/ stored[i] \in ahead)

\* Once shut down, the client opens no further socket, whatever timers and
\* callbacks were still to come (shutdown, connect, reconnect).
ShutForGood ==
    [][shut => shut' /\ \A s \in Sockets : cl[s] = "free" => cl'[s] = "free"]_vars

\* Rejected credentials end the gateway's connections for good: the client
\* alone would dial again, and the runtime shuts it down (handleAuthFailure,
\* the certificate_warning case of start-gateway.ts, GatewayRuntime.fatal).  A
\* socket that a timer overtook is left open until the process exits.
Gone == shut /\ (late \/ \A s \in Sockets : cl[s] = "free")
RejectionEnds == st = "error" ~> []Gone

\* As long as timers leave connections the time they need, a gateway that is
\* paired, and neither stopped nor sent away, is connected in the end and has
\* nothing left to send (handleWebSocketClose, reconnect, handleAuthSuccess).
Excused == late \/ shut \/ exiting \/ ~auto \/ device # "trusted"
Online == st = "connected" /\ ws # NoSocket /\ slot = ws /\ queue = <<>>
ComesBack == <>[](Excused \/ Online)
=============================================================================
