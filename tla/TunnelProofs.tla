---------------------------- MODULE TunnelProofs ----------------------------
(***************************************************************************)
(* What the tunnel keeps, for any number of sockets, events and faults and *)
(* any bound of the queue: types, the slot of the live socket, where each  *)
(* event is, the order events are stored in, that a client that was shut   *)
(* down opens nothing, and that any other client that is not connected has *)
(* something that will wake it.                                            *)
(*                                                                         *)
(* No property here needs fairness.  Three of them are not inductive: that *)
(* the live socket has the slot rests on what a socket is before it opens  *)
(* (SocketsInv), and so does the account of events, since a socket that is *)
(* opened anew must not carry any; the order of what is stored rests on    *)
(* the order of what is on the wire and queued (Lines), and that on there  *)
(* being one connection at a time, with nothing queued behind it (Wires).  *)
(***************************************************************************)
EXTENDS Tunnel, SequenceTheorems, TLAPS

(***************************************************************************)
(* Messages and the events among them                                      *)
(***************************************************************************)

LEMMA EventsTyped ==
    ASSUME NEW q \in Seq(Messages)
    PROVE  EventsIn(q) \subseteq Events
  <1>1. \A m \in Messages : m.kind = "event" => m.of \in Events
    BY DEF Messages, EventMessages
  <1>2. \A i \in DOMAIN q : q[i] \in Messages
    BY ElementOfSeq, LenProperties
  <1> QED  BY <1>1, <1>2 DEF EventsIn

LEMMA EventsOfNone == EventsIn(<<>>) = {}
  BY DEF EventsIn

LEMMA EventsOfConcat ==
    ASSUME NEW p \in Seq(Messages), NEW q \in Seq(Messages)
    PROVE  /\ p \o q \in Seq(Messages)
           /\ EventsIn(p \o q) = EventsIn(p) \cup EventsIn(q)
  <1>1. /\ p \o q \in Seq(Messages) /\ Len(p \o q) = Len(p) + Len(q)
        /\ \A i \in 1..Len(p) + Len(q) : (p \o q)[i] = IF i <= Len(p) THEN p[i] ELSE q[i - Len(p)]
    BY ConcatProperties
  <1>2. /\ DOMAIN p = 1..Len(p) /\ DOMAIN q = 1..Len(q) /\ DOMAIN (p \o q) = 1..(Len(p) + Len(q))
        /\ Len(p) \in Nat /\ Len(q) \in Nat
    BY <1>1, LenProperties
  <1>3. EventsIn(p \o q) \subseteq EventsIn(p) \cup EventsIn(q)
    <2>1. SUFFICES ASSUME NEW i \in 1..(Len(p) + Len(q)), (p \o q)[i].kind = "event"
                   PROVE  (p \o q)[i].of \in EventsIn(p) \cup EventsIn(q)
      BY <1>2 DEF EventsIn
    <2>2. CASE i <= Len(p)
      BY <2>1, <2>2, <1>1, <1>2 DEF EventsIn
    <2>3. CASE ~(i <= Len(p))
      <3>1. i - Len(p) \in DOMAIN q /\ (p \o q)[i] = q[i - Len(p)]
        BY <2>3, <1>1, <1>2
      <3> QED  BY <3>1, <2>1 DEF EventsIn
    <2> QED  BY <2>2, <2>3
  <1>4. EventsIn(p) \subseteq EventsIn(p \o q)
    <2>1. \A i \in DOMAIN p : i \in DOMAIN (p \o q) /\ (p \o q)[i] = p[i]
      BY <1>1, <1>2
    <2> QED  BY <2>1 DEF EventsIn
  <1>5. EventsIn(q) \subseteq EventsIn(p \o q)
    <2>1. \A i \in DOMAIN q : i + Len(p) \in DOMAIN (p \o q) /\ (p \o q)[i + Len(p)] = q[i]
      BY <1>1, <1>2
    <2> QED  BY <2>1 DEF EventsIn
  <1> QED  BY <1>1, <1>3, <1>4, <1>5

LEMMA EventsOfOne ==
    ASSUME NEW m \in Messages
    PROVE  /\ <<m>> \in Seq(Messages)
           /\ EventsIn(<<m>>) = IF m.kind = "event" THEN {m.of} ELSE {}
  BY DEF EventsIn

LEMMA EventsOfAppend ==
    ASSUME NEW q \in Seq(Messages), NEW m \in Messages
    PROVE  /\ Append(q, m) \in Seq(Messages) /\ Len(Append(q, m)) = Len(q) + 1
           /\ EventsIn(Append(q, m)) = EventsIn(q) \cup EventsIn(<<m>>)
  <1>1. Append(q, m) = q \o <<m>>
    BY AppendIsConcat
  <1> QED  BY <1>1, EventsOfConcat, EventsOfOne, AppendProperties

LEMMA EventsOfTail ==
    ASSUME NEW q \in Seq(Messages), q # <<>>
    PROVE  /\ Head(q) \in Messages /\ Tail(q) \in Seq(Messages) /\ Len(Tail(q)) = Len(q) - 1
           /\ EventsIn(q) = EventsIn(<<Head(q)>>) \cup EventsIn(Tail(q))
  <1>1. /\ Head(q) \in Messages /\ Tail(q) \in Seq(Messages) /\ Len(Tail(q)) = Len(q) - 1
    BY HeadTailProperties
  <1>2. q = <<Head(q)>> \o Tail(q)
    BY HeadTailProperties, ConcatProperties, SeqEqual, <1>1
  <1> QED  BY <1>1, <1>2, EventsOfConcat, EventsOfOne

LEMMA EventsOfVoided ==
    ASSUME NEW q \in Seq(Messages), NEW s \in Sockets
    PROVE  /\ Voided(q, s) \in Seq(Messages)
           /\ EventsIn(Voided(q, s)) = EventsIn(q)
           /\ q = <<>> => Voided(q, s) = <<>>
  <1> DEFINE v == Voided(q, s)
  <1>1. DOMAIN q = 1..Len(q) /\ Len(q) \in Nat /\ \A i \in DOMAIN q : q[i] \in Messages
    BY ElementOfSeq, LenProperties
  <1>2. DOMAIN v = DOMAIN q
    BY DEF Voided
  <1>3. \A i \in DOMAIN q : v[i] \in Messages /\ (v[i].kind = q[i].kind) /\ (q[i].kind = "event" => v[i] = q[i])
    BY <1>1 DEF Voided, Msg, Messages, EventMessages
  <1>4. v \in Seq(Messages)
    <2>1. v = [i \in 1..Len(q) |-> v[i]]
      BY <1>1 DEF Voided
    <2> QED  BY <2>1, <1>1, <1>3, IsASeq
  <1>5. EventsIn(v) = EventsIn(q)
    <2> HIDE DEF v
    <2> QED  BY <1>2, <1>3 DEF EventsIn
  <1>6. q = <<>> => v = <<>>
    <2>1. q = <<>> => Len(v) = 0
      BY <1>1, <1>2, <1>4, LenProperties
    <2> QED  BY <2>1, <1>4, EmptySeq
  <1> QED  BY <1>4, <1>5, <1>6
(***************************************************************************)
(* Types                                                                   *)
(***************************************************************************)

Links == [Sockets -> Seq(Messages)]

LEMMA QueueTyped ==
    ASSUME TypeOK
    PROVE  queue \in Seq(Messages)
  <1>1. EventMessages \subseteq Messages
    BY DEF Messages
  <1> QED  BY <1>1, SeqMonotonic DEF TypeOK

\* An event on the wire or lost.
Held == OnWire \cup lost

\* What is written is on the wire or lost, and a dead connection stays empty.
LEMMA WrittenHolds ==
    ASSUME TypeOK, NEW s \in Sockets, NEW ms \in Seq(Messages), Written(s, ms)
    PROVE  /\ up' \in Links /\ lost' \subseteq Events
           /\ Held' = Held \cup EventsIn(ms)
           /\ \A t \in Sockets : t \in cut \/ sv[t] = "free" => up'[t] = up[t]
  <1>1. up \in Links /\ lost \subseteq Events
    BY DEF TypeOK, Links
  <1>2. CASE s \in cut \/ sv[s] = "free"
    <2>1. up' = up /\ lost' = lost \cup EventsIn(ms)
      BY <1>2 DEF Written
    <2>2. EventsIn(ms) \subseteq Events
      BY EventsTyped
    <2> QED  BY <1>1, <2>1, <2>2 DEF Held, OnWire
  <1>3. CASE ~(s \in cut \/ sv[s] = "free")
    <2>1. up' = [up EXCEPT ![s] = @ \o ms] /\ lost' = lost
      BY <1>3 DEF Written
    <2>2. up[s] \o ms \in Seq(Messages) /\ EventsIn(up[s] \o ms) = EventsIn(up[s]) \cup EventsIn(ms)
      BY <1>1, EventsOfConcat DEF Links
    <2>3. up' \in Links /\ up'[s] = up[s] \o ms /\ \A t \in Sockets \ {s} : up'[t] = up[t]
      BY <1>1, <2>1, <2>2 DEF Links
    <2>4. OnWire' = OnWire \cup EventsIn(ms)
      BY <2>2, <2>3 DEF OnWire
    <2> QED  BY <1>1, <1>3, <2>1, <2>3, <2>4 DEF Held
  <1> QED  BY <1>2, <1>3

LEMMA SendRawHolds ==
    ASSUME TypeOK, NEW m \in Messages, m.kind # "event", SendRaw(m)
    PROVE  /\ up' \in Links /\ lost' \subseteq Events
           /\ Held' = Held
           /\ \A t \in Sockets : t \in cut \/ sv[t] = "free" => up'[t] = up[t]
  <1>1. CASE Usable
    <2>1. ws \in Sockets /\ Written(ws, <<m>>)
      BY <1>1 DEF Usable, SendRaw, TypeOK
    <2>2. <<m>> \in Seq(Messages) /\ EventsIn(<<m>>) = {}
      BY EventsOfOne
    <2> QED  BY <2>1, <2>2, WrittenHolds
  <1>2. CASE ~Usable
    BY <1>2 DEF SendRaw, TypeOK, Links, Held, OnWire
  <1> QED  BY <1>1, <1>2

LEMMA FlushHolds ==
    ASSUME TypeOK, Flush
    PROVE  /\ up' \in Links /\ lost' \subseteq Events
           /\ queue' \in Seq(EventMessages) /\ Len(queue') <= MaxQueue
           /\ Held' \cup EventsIn(queue') = Held \cup EventsIn(queue)
           /\ \A t \in Sockets : t \in cut \/ sv[t] = "free" => up'[t] = up[t]
  <1>1. CASE Usable
    <2>1. ws \in Sockets /\ Written(ws, queue) /\ queue' = <<>> /\ queue \in Seq(Messages)
      BY <1>1, QueueTyped DEF Usable, Flush, TypeOK
    <2>2. queue' \in Seq(EventMessages) /\ Len(queue') <= MaxQueue /\ EventsIn(queue') = {}
      BY <2>1, EventsOfNone, BoundsAssumption
    <2> QED  BY <2>1, <2>2, WrittenHolds
  <1>2. CASE ~Usable
    BY <1>2 DEF Flush, TypeOK, Links, Held, OnWire
  <1> QED  BY <1>1, <1>2

LEMMA ReplyTyped ==
    ASSUME TypeOK, NEW s \in Sockets, NEW m \in Messages
    PROVE  Reply(s, m) \in Links
  <1>1. down \in Links
    BY DEF TypeOK, Links
  <1>2. Append(down[s], m) \in Seq(Messages)
    BY <1>1, EventsOfAppend DEF Links
  <1> QED  BY <1>1, <1>2 DEF Reply, Links

\* A message is taken off a socket.
LEMMA TailTyped ==
    ASSUME NEW q \in Links, NEW s \in Sockets, q[s] # <<>>
    PROVE  /\ [q EXCEPT ![s] = Tail(@)] \in Links
           /\ Head(q[s]) \in Messages
  BY EventsOfTail DEF Links

LEMMA ReconnectTyped ==
    ASSUME TypeOK, NEW n \in {1, 2}, Reconnect(n)
    PROVE  st' \in States /\ timers' \in 0..MaxTimers
  BY BoundsAssumption DEF TypeOK, Reconnect, States

LEMMA RejectedTyped ==
    ASSUME TypeOK, NEW fatal \in BOOLEAN, Rejected(fatal)
    PROVE  /\ st' \in States /\ timers' \in 0..MaxTimers /\ authTimer' \in BOOLEAN /\ beating' \in BOOLEAN
           /\ cl' \in [Sockets -> {"free", "open", "closing"} \cup Dialing]
           /\ ws' = NoSocket
  <1>1. st' \in States /\ timers' \in 0..MaxTimers
    BY ReconnectTyped DEF Rejected, Dropped, TypeOK, States
  <1> QED  BY <1>1 DEF Rejected, CloseCurrent, TypeOK
Letter == {"auth", "answer", "challenge", "success", "denied", "fatal", "leave", "move"}

LEMMA Letters ==
    /\ \A k \in Letter : \A s \in Sockets \cup {NoSocket} :
          Msg(k, s) \in Messages /\ Msg(k, s).kind = k /\ k # "event"
    /\ \A n \in Events : /\ Msg("event", n) \in EventMessages /\ Msg("event", n) \in Messages
                         /\ Msg("event", n).kind = "event" /\ Msg("event", n).of = n
    /\ \A m \in Messages : /\ m.kind = "event" => m.of \in Events
                           /\ m.kind # "event" => m.of \in Sockets \cup {NoSocket}
  <1>1. \A k \in Letter : \A s \in Sockets \cup {NoSocket} :
          Msg(k, s) \in Messages /\ Msg(k, s).kind = k /\ k # "event"
    BY DEF Msg, Messages, Letter
  <1>2. \A n \in Events : /\ Msg("event", n) \in EventMessages /\ Msg("event", n) \in Messages
                          /\ Msg("event", n).kind = "event" /\ Msg("event", n).of = n
    BY DEF Msg, Messages, EventMessages
  <1>3. \A m \in Messages : /\ m.kind = "event" => m.of \in Events
                            /\ m.kind # "event" => m.of \in Sockets \cup {NoSocket}
    BY DEF Messages, EventMessages
  <1> QED  BY <1>1, <1>2, <1>3

LEMMA InitTyped == Init => TypeOK
  <1>1. SUFFICES ASSUME Init PROVE TypeOK
    OBVIOUS
  <1>2. /\ queue \in Seq(EventMessages) /\ Len(queue) <= MaxQueue /\ stored \in Seq(Events)
        /\ up \in [Sockets -> Seq(Messages)] /\ down \in [Sockets -> Seq(Messages)]
    BY <1>1, BoundsAssumption DEF Init
  <1>3. /\ timers \in 0..MaxTimers /\ published \in 0..MaxEvents /\ faults \in 0..MaxFaults
        /\ device \in {"unpaired", "trusted", "revoking", "revoked"}
    BY <1>1, BoundsAssumption DEF Init
  <1>4. /\ cl \in [Sockets -> {"free", "open", "closing"} \cup Dialing]
        /\ sv \in [Sockets -> {"free", "open", "closing"}]
    BY <1>1 DEF Init, Dialing
  <1> QED  BY <1>1, <1>2, <1>3, <1>4 DEF Init, TypeOK, States

\* What the client does by itself: dial, give up, publish, shut down.
LEMMA ClientTyped ==
    ASSUME TypeOK,
           \/ RetryFires \/ AuthTimeout \/ Overtake \/ MissedBeats \/ Publish \/ Shutdown
           \/ \E s \in Sockets : Opened(s) \/ OpenTimeout(s) \/ Closed(s)
    PROVE  TypeOK'
  <1> USE DEF Links
  <1>1. ASSUME Retry, late' \in BOOLEAN, faults' \in 0..MaxFaults PROVE TypeOK'
    <2>0. timers - 1 \in 0..MaxTimers /\ <<>> \in Seq(Messages)
      BY <1>1, BoundsAssumption DEF Retry, TypeOK
    <2>1. CASE shut
      BY <1>1, <2>0, <2>1 DEF Retry, TypeOK, server
    <2>2. CASE Dial
      <3>1. PICK s \in Sockets : /\ ws' = s /\ cl' = [cl EXCEPT ![s] = "redialing"] /\ cut' = cut \ {s}
                                 /\ up' = [up EXCEPT ![s] = <<>>] /\ down' = [down EXCEPT ![s] = <<>>]
        BY <2>2 DEF Dial
      <3>2. cl' \in [Sockets -> {"free", "open", "closing"} \cup Dialing] /\ cut' \subseteq Sockets
        BY <3>1 DEF TypeOK, Dialing
      <3>3. up' \in Links /\ down' \in Links
        BY <2>0, <3>1 DEF TypeOK
      <3> QED  BY <1>1, <2>0, <2>2, <3>1, <3>2, <3>3 DEF Retry, Dial, TypeOK, States, server
    <2>3. CASE Arrived
      BY <1>1, <2>0, <2>3, FlushHolds DEF Retry, Arrived, TypeOK, server
    <2>4. CASE Rearm
      BY <1>1, <2>0, <2>4 DEF Retry, Rearm, TypeOK, States, server
    <2> QED  BY <1>1, <2>1, <2>2, <2>3, <2>4 DEF Retry
  <1>2. ASSUME GiveUpAuth, late' \in BOOLEAN, faults' \in 0..MaxFaults PROVE TypeOK'
    BY <1>2, RejectedTyped DEF GiveUpAuth, TypeOK, server
  <1>3. ASSUME NEW s \in Sockets, GiveUpDial(s), late' \in BOOLEAN, faults' \in 0..MaxFaults PROVE TypeOK'
    <2>1. st' \in States /\ timers' \in 0..MaxTimers
      BY <1>3, ReconnectTyped DEF GiveUpDial, Dropped, TypeOK, States
    <2> QED  BY <1>3, <2>1 DEF GiveUpDial, TypeOK, server
  <1>4. CASE RetryFires
    BY <1>1, <1>4 DEF RetryFires, TypeOK
  <1>5. CASE AuthTimeout
    BY <1>2, <1>5 DEF AuthTimeout, TypeOK
  <1>6. CASE Overtake
    <2>1. faults' \in 0..MaxFaults /\ late' \in BOOLEAN
      BY <1>6, BoundsAssumption DEF Overtake, TypeOK
    <2> QED  BY <1>1, <1>2, <1>3, <1>6, <2>1 DEF Overtake
  <1>7. CASE MissedBeats
    BY <1>7 DEF MissedBeats, TypeOK, client, server
  <1>8. CASE Publish
    <2> DEFINE e == Msg("event", published + 1)
               q == Append(queue, e)
    <2>1. published + 1 \in Events /\ published' \in 0..MaxEvents
      BY <1>8, BoundsAssumption DEF Publish, TypeOK, Events
    <2>2. e \in Messages /\ e.of \in Events /\ <<e>> \in Seq(Messages)
      BY <2>1, Letters, EventsOfOne
    <2>3. q \in Seq(EventMessages) /\ Len(q) = Len(queue) + 1 /\ Len(queue) \in Nat /\ Len(queue) <= MaxQueue
      BY <2>1, Letters, AppendProperties DEF TypeOK
    <2> HIDE DEF e, q
    <2>4. CASE Usable
      <3>1. ws \in Sockets /\ Written(ws, <<e>>) /\ queue' = queue
            /\ ahead' \subseteq Events
        BY <1>8, <2>2, <2>4 DEF Publish, Usable, TypeOK, e
      <3>2. up' \in Links /\ lost' \subseteq Events
        BY <3>1, <2>2, WrittenHolds
      <3> QED  BY <1>8, <2>1, <3>1, <3>2 DEF Publish, TypeOK, server
    <2>5. CASE ~Usable
      <3>1. queue' = (IF Len(q) > MaxQueue THEN Tail(q) ELSE q)
            /\ lost' = (IF Len(q) > MaxQueue THEN lost \cup {Head(q).of} ELSE lost)
            /\ up' = up /\ ahead' = ahead
        BY <1>8, <2>5 DEF Publish, q, e
      <3>2. q # <<>> /\ Tail(q) \in Seq(EventMessages) /\ Len(Tail(q)) = Len(q) - 1 /\ Head(q) \in EventMessages
        <4>1. q # <<>>
          BY <2>3
        <4> QED  BY <2>3, <4>1, HeadTailProperties
      <3>3. queue' \in Seq(EventMessages) /\ Len(queue') <= MaxQueue
        BY <2>3, <3>1, <3>2, BoundsAssumption
      <3>4. lost' \subseteq Events
        BY <3>1, <3>2 DEF TypeOK, EventMessages
      <3> QED  BY <1>8, <2>1, <3>1, <3>3, <3>4 DEF Publish, TypeOK, server
    <2> QED  BY <2>4, <2>5
  <1>9. CASE Shutdown
    <2>1. faults' \in 0..MaxFaults
      BY <1>9, BoundsAssumption DEF Shutdown, TypeOK
    <2>2. queue' \in Seq(EventMessages) /\ Len(queue') <= MaxQueue /\ lost' \subseteq Events
      BY <1>9, QueueTyped, EventsTyped, BoundsAssumption DEF Shutdown, TypeOK
    <2> QED  BY <1>9, <2>1, <2>2 DEF Shutdown, CloseCurrent, TypeOK, States, server
  <1>10. ASSUME NEW s \in Sockets, Opened(s) PROVE TypeOK'
    <2>1. st' \in States /\ timers' \in 0..MaxTimers
      BY <1>10, ReconnectTyped DEF Opened, TypeOK, States
    <2>2. up' \in Links /\ lost' \subseteq Events
      <3>1. Msg("auth", NoSocket) \in Messages /\ Msg("auth", NoSocket).kind # "event"
        BY Letters DEF Letter
      <3>2. <<Msg("auth", NoSocket)>> \in Seq(Messages)
        BY <3>1
      <3>3. CASE ws = s
        BY <1>10, <3>2, <3>3 DEF Opened, TypeOK
      <3>4. CASE ws # s
        BY <1>10, <3>1, <3>4, SendRawHolds DEF Opened
      <3> QED  BY <3>3, <3>4
    <2> QED  BY <1>10, <2>1, <2>2 DEF Opened, TypeOK, server
  <1>11. ASSUME NEW s \in Sockets, OpenTimeout(s) PROVE TypeOK'
    BY <1>3, <1>11 DEF OpenTimeout, TypeOK
  <1>12. ASSUME NEW s \in Sockets, Closed(s) PROVE TypeOK'
    <2>1. st' \in States /\ timers' \in 0..MaxTimers
      BY <1>12, ReconnectTyped DEF Closed, Dropped, TypeOK, States
    <2>2. down' \in Links
      BY <1>12 DEF Closed, TypeOK
    <2> QED  BY <1>12, <2>1, <2>2 DEF Closed, TypeOK, server
  <1> QED  BY <1>4, <1>5, <1>6, <1>7, <1>8, <1>9, <1>10, <1>11, <1>12
\* What the client does with a message.
LEMMA ReceivesTyped ==
    ASSUME TypeOK, NEW s \in Sockets, ClientReceives(s)
    PROVE  TypeOK'
  <1> USE DEF Links
  <1>1. ASSUME NEW k \in Letter, Receives(s, k)
        PROVE  down' \in Links /\ First(s) \in Messages /\ First(s).kind # "event"
    BY <1>1, TailTyped DEF Receives, First, TypeOK, Letter
  <1>2. CASE Challenged(s)
    <2>1. down' \in Links /\ First(s) \in Messages /\ First(s).kind # "event"
      BY <1>1, <1>2 DEF Challenged, Letter
    <2>2. Msg("answer", First(s).of) \in Messages /\ Msg("answer", First(s).of).kind # "event"
      BY <2>1, Letters DEF Letter
    <2>3. up' \in Links /\ lost' \subseteq Events
      BY <1>2, <2>2, SendRawHolds DEF Challenged
    <2> QED  BY <1>2, <2>1, <2>3 DEF Challenged, TypeOK, client, server
  <1>3. CASE Succeeds(s)
    <2>1. down' \in Links
      BY <1>1, <1>3 DEF Succeeds, Letter
    <2> QED  BY <1>3, <2>1, FlushHolds DEF Succeeds, TypeOK, States, server
  <1>4. CASE Denied(s)
    <2>1. down' \in Links
      BY <1>1, <1>4 DEF Denied, Letter
    <2> QED  BY <1>4, <2>1, RejectedTyped DEF Denied, TypeOK, server
  <1>5. CASE DeniedForGood(s)
    <2>1. down' \in Links
      BY <1>1, <1>5 DEF DeniedForGood, Letter
    <2> QED  BY <1>5, <2>1, RejectedTyped DEF DeniedForGood, TypeOK, server
  <1>6. CASE ToldToLeave(s)
    <2>1. down' \in Links
      BY <1>1, <1>6 DEF ToldToLeave, Letter
    <2> QED  BY <1>6, <2>1 DEF ToldToLeave, TypeOK, server
  <1> QED  BY <1>2, <1>3, <1>4, <1>5, <1>6 DEF ClientReceives

LEMMA DenyTyped ==
    ASSUME TypeOK, NEW s \in Sockets, NEW k \in Letter, NEW closes \in BOOLEAN, Deny(s, k, closes)
    PROVE  /\ down' \in Links /\ sv' \in [Sockets -> {"free", "open", "closing"}]
           /\ pending' \subseteq Sockets
  <1>1. down' \in Links
    BY ReplyTyped, Letters DEF Deny
  <1> QED  BY <1>1 DEF Deny, TypeOK

LEMMA VoidedTyped ==
    ASSUME NEW q \in Links, NEW s \in Sockets
    PROVE  [t \in Sockets |-> Voided(q[t], s)] \in Links
  BY EventsOfVoided DEF Links

\* What the control plane does with a message, or by itself.
LEMMA ServerTyped ==
    ASSUME TypeOK,
           \/ Move \/ Revoke \/ Pair
           \/ \E s \in Sockets : \/ Hangup(s) \/ Cut(s) \/ ServerReceives(s)
                                 \/ ServerGoesOn(s) \/ ServerFails(s)
    PROVE  TypeOK'
  <1> USE DEF Links
  <1>1. ASSUME NEW s \in Sockets, HearsAuth(s) PROVE TypeOK'
    <2>1. up[s] # <<>> /\ device \in {"unpaired", "trusted", "revoking", "revoked"}
      BY <1>1 DEF HearsAuth, Hears, TypeOK
    <2>2. CASE device \in {"trusted", "revoking"}
      <3>1. Tail(up[s]) \in Seq(Messages)
        BY <2>1, EventsOfTail DEF TypeOK
      <3>2. up' \in Links
        <4>1. up' = [t \in Sockets |-> Voided(IF t = s THEN Tail(up[s]) ELSE up[t], s)]
          BY <1>1, <2>2 DEF HearsAuth
        <4>2. \A t \in Sockets : (IF t = s THEN Tail(up[s]) ELSE up[t]) \in Seq(Messages)
          BY <3>1 DEF TypeOK
        <4> QED  BY <4>1, <4>2, EventsOfVoided
      <3>3. down' \in Links
        <4> DEFINE d == [t \in Sockets |-> Voided(down[t], s)]
        <4>1. d \in Links
          BY VoidedTyped DEF TypeOK
        <4>2. Append(d[s], Msg("challenge", s)) \in Seq(Messages)
          BY <4>1, Letters, EventsOfAppend DEF Letter
        <4>3. down' = IF sv[s] = "open" /\ s \notin cut
                      THEN [d EXCEPT ![s] = Append(@, Msg("challenge", s))] ELSE d
          BY <1>1, <2>2 DEF HearsAuth
        <4> HIDE DEF d
        <4> QED  BY <4>1, <4>2, <4>3
      <3>4. pending' = pending \cup {s} /\ UNCHANGED <<sv, proving, authed, entering, slot>>
        BY <1>1, <2>2 DEF HearsAuth
      <3> QED  BY <1>1, <3>2, <3>3, <3>4 DEF HearsAuth, TypeOK, client
    <2>3. CASE device \in {"unpaired", "revoked"}
      <3>1. PICK k \in Letter : \E closes \in BOOLEAN : Deny(s, k, closes)
        BY <1>1, <2>3 DEF HearsAuth, Letter
      <3>2. up' = [up EXCEPT ![s] = Tail(@)]
        BY <1>1, <2>3 DEF HearsAuth
      <3>3. up' \in Links
        BY <2>1, <3>2, TailTyped DEF TypeOK
      <3>4. /\ down' \in Links /\ sv' \in [Sockets -> {"free", "open", "closing"}]
            /\ pending' \subseteq Sockets
        BY <3>1, DenyTyped
      <3> QED  BY <1>1, <3>3, <3>4 DEF HearsAuth, TypeOK, client
    <2> QED  BY <2>1, <2>2, <2>3
  <1>2. ASSUME NEW s \in Sockets, HearsAnswer(s) PROVE TypeOK'
    <2>1. up' \in Links
      BY <1>2, TailTyped DEF HearsAnswer, Hears, TypeOK
    <2>2. /\ down' \in Links /\ sv' \in [Sockets -> {"free", "open", "closing"}]
          /\ pending' \cup proving' \subseteq Sockets
      <3>1. CASE s \in pending /\ Head(up[s]).of = s
        BY <1>2, <3>1 DEF HearsAnswer, TypeOK
      <3>2. CASE ~(s \in pending /\ Head(up[s]).of = s)
        <4>1. Deny(s, "fatal", TRUE) /\ proving' = proving
          BY <1>2, <3>2 DEF HearsAnswer
        <4> QED  BY <4>1, DenyTyped DEF Letter, TypeOK
      <3> QED  BY <3>1, <3>2
    <2> QED  BY <1>2, <2>1, <2>2 DEF HearsAnswer, TypeOK, client
  <1>3. ASSUME NEW s \in Sockets, HearsEvent(s) PROVE TypeOK'
    <2>1. up' \in Links /\ Head(up[s]).of \in Events
      BY <1>3, TailTyped, Letters DEF HearsEvent, Hears, TypeOK
    <2>2. stored' \in Seq(Events)
      <3>1. stored \in Seq(Events) /\ Append(stored, Head(up[s]).of) \in Seq(Events)
        BY <2>1, AppendProperties DEF TypeOK
      <3>2. stored' = stored \/ stored' = Append(stored, Head(up[s]).of)
        BY <1>3 DEF HearsEvent
      <3> QED  BY <3>1, <3>2
    <2> QED  BY <1>3, <2>1, <2>2 DEF HearsEvent, TypeOK, client
  <1>4. ASSUME NEW s \in Sockets, Enter(s) PROVE TypeOK'
    <2>1. down' \in Links
      BY <1>4, ReplyTyped, Letters DEF Enter, Letter
    <2> QED  BY <1>4, <2>1 DEF Enter, TypeOK, client
  <1>5. ASSUME NEW s \in Sockets, Hangup(s) PROVE TypeOK'
    BY <1>5 DEF Hangup, TypeOK, client
  <1>6. ASSUME NEW s \in Sockets, Cut(s) PROVE TypeOK'
    <2>1. lost' \subseteq Events /\ faults' \in 0..MaxFaults
      BY <1>6, EventsTyped, BoundsAssumption DEF Cut, TypeOK
    <2> QED  BY <1>6, <2>1 DEF Cut, TypeOK, client, server
  <1>7. ASSUME NEW k \in Letter, Dismiss(k)
        PROVE  /\ down' \in Links /\ sv' \in [Sockets -> {"free", "open", "closing"}]
               /\ slot' \in Sockets \cup {NoSocket}
    <2>1. CASE slot = NoSocket
      BY <1>7, <2>1 DEF Dismiss, TypeOK
    <2>2. CASE slot # NoSocket
      <3>1. slot \in Sockets /\ Msg(k, NoSocket) \in Messages
        BY <2>2, Letters DEF TypeOK
      <3>2. Reply(slot, Msg(k, NoSocket)) \in Links
        BY <3>1, ReplyTyped
      <3>3. /\ down' = Reply(slot, Msg(k, NoSocket)) /\ slot' = NoSocket
            /\ sv' = (IF sv[slot] = "open" THEN [sv EXCEPT ![slot] = "closing"] ELSE sv)
        BY <1>7, <2>2 DEF Dismiss
      <3> QED  BY <3>2, <3>3 DEF TypeOK
    <2> QED  BY <2>1, <2>2
  <1>8. CASE Move
    <2>1. faults' \in 0..MaxFaults
      BY <1>8, BoundsAssumption DEF Move, TypeOK
    <2> QED  BY <1>7, <1>8, <2>1 DEF Move, TypeOK, client, Letter
  <1>9. CASE Revoke
    <2>1. faults' \in 0..MaxFaults /\ device' \in {"revoking", "revoked"}
      BY <1>9, BoundsAssumption DEF Revoke, TypeOK
    <2>2. /\ down' \in Links /\ sv' \in [Sockets -> {"free", "open", "closing"}]
          /\ slot' \in Sockets \cup {NoSocket}
      BY <1>7, <1>9 DEF Revoke, TypeOK, Letter
    <2> QED  BY <1>9, <2>1, <2>2 DEF Revoke, TypeOK, client
  <1>10. CASE Pair
    BY <1>10 DEF Pair, TypeOK, client, links
  <1>11. ASSUME NEW s \in Sockets, Proves(s) PROVE TypeOK'
    BY <1>11 DEF Proves, TypeOK, client, links
  <1>12. ASSUME NEW s \in Sockets, faults < MaxFaults, faults' = faults + 1 PROVE faults' \in 0..MaxFaults
    BY <1>12, BoundsAssumption DEF TypeOK
  <1>13. ASSUME NEW s \in Sockets, DeclinesAuth(s) PROVE TypeOK'
    <2>1. up' \in Links /\ faults' \in 0..MaxFaults
      BY <1>12, <1>13, TailTyped DEF DeclinesAuth, Hears, TypeOK
    <2>2. Deny(s, "denied", FALSE)
      BY <1>13 DEF DeclinesAuth
    <2> QED  BY <1>13, <2>1, <2>2, DenyTyped DEF DeclinesAuth, TypeOK, client, Letter
  <1>14. ASSUME NEW s \in Sockets, DeclinesAnswer(s) PROVE TypeOK'
    <2>1. faults' \in 0..MaxFaults /\ Deny(s, "denied", TRUE)
      BY <1>12, <1>14 DEF DeclinesAnswer
    <2> QED  BY <1>14, <2>1, DenyTyped DEF DeclinesAnswer, TypeOK, client, Letter
  <1>15. ASSUME NEW s \in Sockets, LosesEvent(s) PROVE TypeOK'
    <2>1. up' \in Links /\ Head(up[s]).of \in Events /\ faults' \in 0..MaxFaults
      BY <1>12, <1>15, TailTyped, Letters DEF LosesEvent, Hears, TypeOK
    <2> QED  BY <1>15, <2>1 DEF LosesEvent, TypeOK, client, server
  <1> QED  BY <1>1, <1>2, <1>3, <1>4, <1>5, <1>6, <1>8, <1>9, <1>10, <1>11, <1>13, <1>14, <1>15
           DEF ServerReceives, ServerGoesOn, ServerFails

\* A step of Next is one of these.
LEMMA Steps ==
    ASSUME Next
    PROVE  \/ RetryFires \/ AuthTimeout \/ Overtake \/ MissedBeats \/ Publish \/ Shutdown
           \/ \E s \in Sockets : Opened(s) \/ OpenTimeout(s) \/ Closed(s)
           \/ \E s \in Sockets : ClientReceives(s)
           \/ Move \/ Revoke \/ Pair
           \/ \E s \in Sockets : \/ Hangup(s) \/ Cut(s) \/ ServerReceives(s)
                                 \/ ServerGoesOn(s) \/ ServerFails(s)
  BY DEF Next

\* The control plane and the network leave the client as it is.
LEMMA ClientLeft ==
    ASSUME
           \/ Move \/ Revoke \/ Pair
           \/ \E s \in Sockets : \/ Hangup(s) \/ Cut(s) \/ ServerReceives(s)
                                 \/ ServerGoesOn(s) \/ ServerFails(s)
    PROVE  UNCHANGED <<client, cl, late, ahead>>
  <1>1. CASE Move \/ Revoke \/ Pair
    BY <1>1 DEF Move, Revoke, Pair, links
  <1>2. ASSUME NEW s \in Sockets, Hangup(s) \/ Cut(s) \/ Proves(s) \/ Enter(s)
        PROVE  UNCHANGED <<client, cl, late, ahead>>
    BY <1>2 DEF Hangup, Cut, Proves, Enter, links
  <1>3. ASSUME NEW s \in Sockets, ServerReceives(s)
        PROVE  UNCHANGED <<client, cl, late, ahead>>
    BY <1>3 DEF ServerReceives, HearsAuth, HearsAnswer, HearsEvent
  <1>4. ASSUME NEW s \in Sockets, ServerFails(s)
        PROVE  UNCHANGED <<client, cl, late, ahead>>
    BY <1>4 DEF ServerFails, DeclinesAuth, DeclinesAnswer, LosesEvent
  <1> QED  BY <1>1, <1>2, <1>3, <1>4 DEF ServerGoesOn

\* Types are kept by every step (every handler of the client and the server).
THEOREM TypeCorrect == Spec => []TypeOK
  <1>1. Init => TypeOK
    BY InitTyped
  <1>2. TypeOK /\ [Next]_vars => TypeOK'
    <2>1. SUFFICES ASSUME TypeOK, [Next]_vars PROVE TypeOK'
      OBVIOUS
    <2>2. CASE UNCHANGED vars
      BY <2>1, <2>2 DEF TypeOK, vars, client, links, server
    <2>3. CASE Next
      BY <2>1, <2>3, Steps, ClientTyped, ReceivesTyped, ServerTyped
    <2> QED  BY <2>1, <2>2, <2>3
  <1> QED  BY <1>1, <1>2, PTL DEF Spec
(***************************************************************************)
(* The slot of the live socket                                             *)
(***************************************************************************)

\* A socket that is not yet open, or no longer, is empty and, unless it closed
\* while it was entering, unknown to the control plane.
SocketsInv ==
    /\ LiveSocketHasTheSlot
    /\ \A s \in entering : s \in authed \/ sv[s] = "free"
    /\ \A s \in authed : sv[s] # "free"
    /\ \A s \in Sockets : cl[s] \in Dialing => sv[s] = "free" /\ s \notin proving \cup entering /\ s # slot
    /\ \A s \in Sockets : s \in cut \/ sv[s] = "free" => up[s] = <<>>

\* The control plane does nothing, and no socket is dialed.
Quiet ==
    /\ UNCHANGED <<sv, cut, proving, authed, entering, slot>>
    /\ \A s \in Sockets : cl'[s] \in Dialing => cl[s] \in Dialing
    /\ \A s \in Sockets : s \in cut \/ sv[s] = "free" => up'[s] = up[s]

LEMMA QuietKeeps ==
    ASSUME TypeOK, SocketsInv, Quiet
    PROVE  SocketsInv'
  <1>1. LiveSocketHasTheSlot'
    BY DEF SocketsInv, Quiet, LiveSocketHasTheSlot
  <1> QED  BY <1>1 DEF SocketsInv, Quiet

LEMMA InitSockets == Init => SocketsInv
  <1>1. SUFFICES ASSUME Init PROVE SocketsInv
    OBVIOUS
  <1>2. /\ authed = {} /\ proving = {} /\ entering = {} /\ slot = NoSocket /\ cut = {}
        /\ \A s \in Sockets : sv[s] = "free" /\ up[s] = <<>>
    BY <1>1 DEF Init
  <1>3. \A s \in Sockets : s # slot
    BY <1>2, SocketsAssumption
  <1> QED  BY <1>2, <1>3 DEF SocketsInv, LiveSocketHasTheSlot

LEMMA CloseCurrentQuiet ==
    ASSUME TypeOK, CloseCurrent, UNCHANGED <<sv, cut, up, proving, authed, entering, slot>>
    PROVE  /\ Quiet
           /\ \A s \in Sockets : cl[s] = "free" => cl'[s] = "free"
  BY DEF CloseCurrent, TypeOK, Dialing, Quiet

\* What the client does by itself, dialing and opening excepted, is quiet.
LEMMA ClientQuiet ==
    ASSUME TypeOK,
           \/ GiveUpAuth \/ MissedBeats \/ Publish \/ Shutdown \/ (Retry /\ (Dial => shut))
           \/ \E s \in Sockets : GiveUpDial(s) \/ Closed(s) \/ ClientReceives(s)
    PROVE  Quiet
  <1>1. CASE GiveUpAuth
    <2>1. CloseCurrent /\ UNCHANGED <<sv, cut, up, proving, authed, entering, slot>>
      BY <1>1 DEF GiveUpAuth, Rejected, server
    <2> QED  BY <2>1, CloseCurrentQuiet
  <1>2. CASE MissedBeats
    BY <1>2 DEF MissedBeats, Quiet, server, TypeOK, Dialing
  <1>3. CASE Publish
    <2>1. UNCHANGED <<sv, cut, proving, authed, entering, slot, cl>>
      BY <1>3 DEF Publish, server
    <2>2. published + 1 \in Events
      BY <1>3, BoundsAssumption DEF Publish, TypeOK, Events
    <2>3. CASE Usable
      <3>1. ws \in Sockets /\ Written(ws, <<Msg("event", published + 1)>>)
        BY <1>3, <2>3 DEF Publish, Usable, TypeOK
      <3>2. <<Msg("event", published + 1)>> \in Seq(Messages)
        BY <2>2, Letters, EventsOfOne
      <3> QED  BY <2>1, <3>1, <3>2, WrittenHolds DEF Quiet
    <2>4. CASE ~Usable
      BY <1>3, <2>1, <2>4 DEF Publish, Quiet
    <2> QED  BY <2>3, <2>4
  <1>4. CASE Shutdown
    <2>1. CloseCurrent /\ UNCHANGED <<sv, cut, up, proving, authed, entering, slot>>
      BY <1>4 DEF Shutdown, server
    <2> QED  BY <2>1, CloseCurrentQuiet
  <1>5. CASE Retry /\ (Dial => shut)
    <2>1. UNCHANGED <<sv, proving, authed, entering, slot>>
      BY <1>5 DEF Retry, server
    <2>2. CASE shut \/ Rearm
      BY <1>5, <2>1, <2>2 DEF Retry, Rearm, Quiet
    <2>3. CASE ~shut /\ Arrived
      BY <2>1, <2>3, FlushHolds DEF Arrived, Quiet
    <2> QED  BY <1>5, <2>2, <2>3 DEF Retry
  <1>6. ASSUME NEW s \in Sockets, GiveUpDial(s) PROVE Quiet
    BY <1>6 DEF GiveUpDial, Quiet, server, TypeOK, Dialing
  <1>7. ASSUME NEW s \in Sockets, Closed(s) PROVE Quiet
    BY <1>7 DEF Closed, Quiet, server, TypeOK, Dialing
  <1>8. ASSUME NEW s \in Sockets, ClientReceives(s) PROVE Quiet
    <2>1. CASE Challenged(s)
      <3>1. down[s] # <<>> /\ First(s).kind = "challenge" /\ First(s) \in Messages
        BY <2>1, TailTyped DEF Challenged, Receives, First, TypeOK, Links
      <3>2. Msg("answer", First(s).of) \in Messages /\ Msg("answer", First(s).of).kind # "event"
        BY <3>1, Letters DEF Letter
      <3> QED  BY <2>1, <3>2, SendRawHolds DEF Challenged, Quiet, server
    <2>2. CASE Succeeds(s)
      BY <2>2, FlushHolds DEF Succeeds, Quiet, server
    <2>3. CASE Denied(s) \/ DeniedForGood(s)
      <3>1. CloseCurrent /\ UNCHANGED <<sv, cut, up, proving, authed, entering, slot>>
        BY <2>3 DEF Denied, DeniedForGood, Rejected, server
      <3> QED  BY <3>1, CloseCurrentQuiet
    <2>4. CASE ToldToLeave(s)
      BY <2>4 DEF ToldToLeave, Quiet, server
    <2> QED  BY <1>8, <2>1, <2>2, <2>3, <2>4 DEF ClientReceives
  <1> QED  BY <1>1, <1>2, <1>3, <1>4, <1>5, <1>6, <1>7, <1>8

LEMMA ClientSockets ==
    ASSUME TypeOK, SocketsInv,
           \/ RetryFires \/ AuthTimeout \/ Overtake \/ MissedBeats \/ Publish \/ Shutdown
           \/ \E s \in Sockets : Opened(s) \/ OpenTimeout(s) \/ Closed(s)
           \/ \E s \in Sockets : ClientReceives(s)
    PROVE  SocketsInv'
  <1>1. ASSUME Retry PROVE SocketsInv'
    <2>1. CASE Dial /\ ~shut
      <3>1. PICK s \in Sockets : /\ cl[s] = "free" /\ sv[s] = "free" /\ s \notin proving \cup entering /\ s # slot
                                 /\ cl' = [cl EXCEPT ![s] = "redialing"]
                                 /\ cut' = cut \ {s} /\ up' = [up EXCEPT ![s] = <<>>]
        BY <2>1 DEF Dial
      <3>2. UNCHANGED <<sv, proving, authed, entering, slot>>
        BY <1>1 DEF Retry, server
      <3>3. LiveSocketHasTheSlot'
        BY <3>2 DEF SocketsInv, LiveSocketHasTheSlot
      <3> QED  BY <3>1, <3>2, <3>3 DEF SocketsInv, TypeOK
    <2>2. CASE Dial => shut
      BY <1>1, <2>2, ClientQuiet, QuietKeeps
    <2> QED  BY <2>1, <2>2
  <1>2. ASSUME NEW s \in Sockets, Opened(s) PROVE SocketsInv'
    <2>1. /\ s \notin cut /\ cl[s] \in Dialing
          /\ cl' = [cl EXCEPT ![s] = "open"] /\ sv' = [sv EXCEPT ![s] = "open"]
          /\ UNCHANGED <<cut, proving, authed, entering, slot>>
      BY <1>2 DEF Opened, server
    <2>2. s \notin authed /\ s \notin entering /\ s # slot /\ sv[s] = "free"
      BY <2>1 DEF SocketsInv
    <2>3. \A t \in Sockets \ {s} : t \in cut \/ sv[t] = "free" => up'[t] = up[t]
      <3>1. CASE ws = s
        BY <1>2, <3>1 DEF Opened, TypeOK
      <3>2. CASE ws # s
        <4>1. Msg("auth", NoSocket) \in Messages /\ Msg("auth", NoSocket).kind # "event"
          BY Letters DEF Letter
        <4>2. SendRaw(Msg("auth", NoSocket))
          BY <1>2, <3>2 DEF Opened
        <4> QED  BY <4>1, <4>2, SendRawHolds
      <3> QED  BY <3>1, <3>2
    <2>4. LiveSocketHasTheSlot'
      BY <2>1, <2>2 DEF SocketsInv, LiveSocketHasTheSlot, TypeOK
    <2> QED  BY <2>1, <2>2, <2>3, <2>4 DEF SocketsInv, TypeOK, Dialing
  <1> QED  BY <1>1, <1>2, ClientQuiet, QuietKeeps DEF RetryFires, AuthTimeout, Overtake, OpenTimeout

LEMMA ServerSockets ==
    ASSUME TypeOK, SocketsInv,
           \/ Move \/ Revoke \/ Pair
           \/ \E s \in Sockets : \/ Hangup(s) \/ Cut(s) \/ ServerReceives(s)
                                 \/ ServerGoesOn(s) \/ ServerFails(s)
    PROVE  SocketsInv'
  <1>0. ASSUME NEW s \in Sockets, NEW k, NEW closes \in BOOLEAN, Deny(s, k, closes),
               UNCHANGED <<cl, cut, authed, entering, slot>>, proving' \subseteq proving,
               up' = up \/ (sv[s] # "free" /\ up[s] # <<>> /\ up' = [up EXCEPT ![s] = Tail(@)])
        PROVE SocketsInv'
    <2>1. sv' = sv \/ (sv[s] = "open" /\ sv' = [sv EXCEPT ![s] = "closing"])
      BY <1>0 DEF Deny
    <2>2. LiveSocketHasTheSlot'
      BY <1>0, <2>1 DEF SocketsInv, LiveSocketHasTheSlot, TypeOK
    <2>3. \A t \in Sockets : t \in cut' \/ sv'[t] = "free" => up'[t] = <<>>
      BY <1>0, <2>1 DEF SocketsInv, TypeOK
    <2>4. \A t \in Sockets : cl'[t] \in Dialing =>
             sv'[t] = "free" /\ t \notin proving' \cup entering' /\ t # slot'
      BY <1>0, <2>1 DEF SocketsInv, TypeOK
    <2>5. /\ \A t \in entering' : t \in authed' \/ sv'[t] = "free"
          /\ \A t \in authed' : sv'[t] # "free"
      BY <1>0, <2>1 DEF SocketsInv, TypeOK
    <2> QED  BY <2>2, <2>3, <2>4, <2>5 DEF SocketsInv
  <1>2. ASSUME NEW s \in Sockets, HearsAuth(s) PROVE SocketsInv'
    <2>1. sv[s] # "free" /\ up[s] # <<>> /\ UNCHANGED <<cl, cut>>
      BY <1>2 DEF HearsAuth, Hears
    <2>2. CASE device \in {"trusted", "revoking"}
      <3>1. up' = [t \in Sockets |-> Voided(IF t = s THEN Tail(up[s]) ELSE up[t], s)]
            /\ UNCHANGED <<sv, proving, authed, entering, slot>>
        BY <1>2, <2>2 DEF HearsAuth
      <3>2. \A t \in Sockets : t \in cut \/ sv[t] = "free" => up'[t] = <<>>
        <4>1. TAKE t \in Sockets
        <4>2. HAVE t \in cut \/ sv[t] = "free"
        <4>3. up[t] = <<>> /\ t # s
          BY <2>1, <4>2 DEF SocketsInv
        <4>4. Voided(up[t], s) = <<>>
          BY <4>3, EventsOfVoided DEF TypeOK
        <4> QED  BY <3>1, <4>3, <4>4
      <3>3. LiveSocketHasTheSlot'
        BY <3>1 DEF SocketsInv, LiveSocketHasTheSlot
      <3> QED  BY <2>1, <3>1, <3>2, <3>3 DEF SocketsInv
    <2>3. CASE device \in {"unpaired", "revoked"}
      <3>1. /\ \E k : \E closes \in BOOLEAN : Deny(s, k, closes)
            /\ up' = [up EXCEPT ![s] = Tail(@)]
            /\ UNCHANGED <<proving, authed, entering, slot>>
        BY <1>2, <2>3 DEF HearsAuth
      <3> QED  BY <1>0, <2>1, <3>1
    <2> QED  BY <2>2, <2>3 DEF TypeOK
  <1>3. ASSUME NEW s \in Sockets, HearsAnswer(s) PROVE SocketsInv'
    <2>1. /\ sv[s] # "free" /\ up[s] # <<>> /\ up' = [up EXCEPT ![s] = Tail(@)]
          /\ UNCHANGED <<cl, cut, authed, entering, slot>>
      BY <1>3 DEF HearsAnswer, Hears
    <2>2. CASE s \in pending /\ Head(up[s]).of = s
      <3>1. proving' = proving \cup {s} /\ UNCHANGED sv
        BY <1>3, <2>2 DEF HearsAnswer
      <3>2. LiveSocketHasTheSlot'
        BY <2>1, <3>1 DEF SocketsInv, LiveSocketHasTheSlot
      <3>3. s \notin cut /\ cl[s] \notin Dialing
        BY <2>1 DEF SocketsInv
      <3> QED  BY <2>1, <3>1, <3>2, <3>3 DEF SocketsInv, TypeOK
    <2>3. CASE ~(s \in pending /\ Head(up[s]).of = s)
      <3>1. Deny(s, "fatal", TRUE) /\ proving' = proving
        BY <1>3, <2>3 DEF HearsAnswer
      <3> QED  BY <1>0, <2>1, <3>1
    <2> QED  BY <2>2, <2>3
  <1>4. ASSUME NEW s \in Sockets, HearsEvent(s) PROVE SocketsInv'
    <2>1. /\ sv[s] # "free" /\ up[s] # <<>> /\ up' = [up EXCEPT ![s] = Tail(@)]
          /\ sv' = sv \/ sv' = [sv EXCEPT ![s] = "closing"]
          /\ UNCHANGED <<cl, cut, proving, authed, entering, slot>>
      BY <1>4 DEF HearsEvent, Hears
    <2>2. LiveSocketHasTheSlot'
      BY <2>1 DEF SocketsInv, LiveSocketHasTheSlot, TypeOK
    <2> QED  BY <2>1, <2>2 DEF SocketsInv, TypeOK
  <1>5. ASSUME NEW s \in Sockets, Enter(s) PROVE SocketsInv'
    <2>1. /\ s \in entering /\ entering' = entering \ {s} /\ slot' = s
          /\ sv' = (IF slot \notin {s, NoSocket} /\ sv[slot] = "open"
                    THEN [sv EXCEPT ![slot] = "closing"] ELSE sv)
          /\ UNCHANGED <<cl, cut, up, proving, authed>>
      BY <1>5 DEF Enter
    <2>2. LiveSocketHasTheSlot'
      BY <2>1, SocketsAssumption DEF SocketsInv, LiveSocketHasTheSlot, TypeOK
    <2> QED  BY <2>1, <2>2 DEF SocketsInv, TypeOK
  <1>6. ASSUME NEW s \in Sockets, Hangup(s) PROVE SocketsInv'
    <2>1. /\ sv' = [sv EXCEPT ![s] = "free"] /\ up' = [up EXCEPT ![s] = <<>>]
          /\ slot' = (IF slot = s THEN NoSocket ELSE slot)
          /\ authed' = authed \ {s} /\ UNCHANGED <<cl, cut, proving, entering>>
      BY <1>6 DEF Hangup
    <2>2. LiveSocketHasTheSlot'
      BY <2>1 DEF SocketsInv, LiveSocketHasTheSlot, TypeOK
    <2> QED  BY <2>1, <2>2, SocketsAssumption DEF SocketsInv, TypeOK
  <1>7. ASSUME NEW s \in Sockets, Cut(s) PROVE SocketsInv'
    <2>1. /\ cut' = cut \cup {s} /\ up' = [up EXCEPT ![s] = <<>>]
          /\ UNCHANGED <<cl, sv, proving, authed, entering, slot>>
      BY <1>7 DEF Cut, server
    <2>2. LiveSocketHasTheSlot'
      BY <2>1 DEF SocketsInv, LiveSocketHasTheSlot
    <2> QED  BY <2>1, <2>2 DEF SocketsInv, TypeOK
  <1>8. ASSUME NEW k, Dismiss(k), UNCHANGED <<cl, cut, up, proving, authed, entering>> PROVE SocketsInv'
    <2>1. CASE slot = NoSocket
      <3>1. LiveSocketHasTheSlot'
        BY <1>8, <2>1 DEF Dismiss, SocketsInv, LiveSocketHasTheSlot
      <3> QED  BY <1>8, <2>1, <3>1 DEF Dismiss, SocketsInv
    <2>2. CASE slot # NoSocket
      <3>1. /\ sv' = (IF sv[slot] = "open" THEN [sv EXCEPT ![slot] = "closing"] ELSE sv)
            /\ slot' = NoSocket /\ slot \in Sockets
        BY <1>8, <2>2 DEF Dismiss, TypeOK
      <3>3. LiveSocketHasTheSlot'
        BY <1>8, <3>1, SocketsAssumption DEF SocketsInv, LiveSocketHasTheSlot, TypeOK
      <3> QED  BY <1>8, <3>1, <3>3, SocketsAssumption DEF SocketsInv, TypeOK
    <2> QED  BY <2>1, <2>2
  <1>9. CASE Move
    BY <1>8, <1>9 DEF Move
  <1>10. CASE Revoke
    <2>1. CASE Dismiss("leave")
      BY <1>8, <1>10, <2>1 DEF Revoke
    <2>2. CASE UNCHANGED <<sv, down, slot>>
      <3>1. UNCHANGED <<cl, cut, up, proving, authed, entering, sv, slot>>
        BY <1>10, <2>2 DEF Revoke
      <3> QED  BY <3>1, QuietKeeps DEF Quiet
    <2> QED  BY <1>10, <2>1, <2>2 DEF Revoke
  <1>11. CASE Pair
    BY <1>11, QuietKeeps DEF Pair, links, Quiet
  <1>12. ASSUME NEW s \in Sockets, Proves(s) PROVE SocketsInv'
    <2>1. /\ s \in proving /\ proving' = proving \ {s} /\ entering' = entering \cup {s}
          /\ authed' = (IF sv[s] = "free" THEN authed ELSE authed \cup {s})
          /\ UNCHANGED <<cl, sv, cut, up, slot>>
      BY <1>12 DEF Proves, links
    <2>2. LiveSocketHasTheSlot'
      BY <2>1 DEF SocketsInv, LiveSocketHasTheSlot
    <2> QED  BY <2>1, <2>2 DEF SocketsInv, TypeOK
  <1>13. ASSUME NEW s \in Sockets, DeclinesAuth(s) PROVE SocketsInv'
    <2>1. /\ sv[s] # "free" /\ up[s] # <<>> /\ up' = [up EXCEPT ![s] = Tail(@)]
          /\ Deny(s, "denied", FALSE) /\ UNCHANGED <<cl, cut, proving, authed, entering, slot>>
      BY <1>13 DEF DeclinesAuth, Hears
    <2> QED  BY <1>0, <2>1
  <1>14. ASSUME NEW s \in Sockets, DeclinesAnswer(s) PROVE SocketsInv'
    <2>1. /\ Deny(s, "denied", TRUE) /\ proving' \subseteq proving
          /\ UNCHANGED <<cl, cut, up, authed, entering, slot>>
      BY <1>14 DEF DeclinesAnswer
    <2> QED  BY <1>0, <2>1
  <1>15. ASSUME NEW s \in Sockets, LosesEvent(s) PROVE SocketsInv'
    <2>1. /\ sv[s] # "free" /\ up[s] # <<>> /\ up' = [up EXCEPT ![s] = Tail(@)]
          /\ UNCHANGED <<cl, sv, cut, proving, authed, entering, slot>>
      BY <1>15 DEF LosesEvent, Hears, server
    <2>2. LiveSocketHasTheSlot'
      BY <2>1 DEF SocketsInv, LiveSocketHasTheSlot
    <2> QED  BY <2>1, <2>2 DEF SocketsInv, TypeOK
  <1> QED  BY <1>2, <1>3, <1>4, <1>5, <1>6, <1>7, <1>9, <1>10, <1>11, <1>12, <1>13, <1>14, <1>15
           DEF ServerReceives, ServerGoesOn, ServerFails
\* The types and the sockets together are inductive.
TunnelInv == TypeOK /\ SocketsInv

LEMMA TunnelInvariance == Spec => []TunnelInv
  <1>1. Init => TunnelInv
    BY InitTyped, InitSockets DEF TunnelInv
  <1>2. TunnelInv /\ [Next]_vars => TunnelInv'
    <2>1. SUFFICES ASSUME TunnelInv, [Next]_vars PROVE SocketsInv' /\ TypeOK'
      BY DEF TunnelInv
    <2>2. CASE UNCHANGED vars
      <3>1. Quiet /\ TypeOK'
        BY <2>1, <2>2 DEF TunnelInv, TypeOK, Quiet, vars, client, links, server
      <3> QED  BY <2>1, <3>1, QuietKeeps DEF TunnelInv
    <2>3. CASE Next
      <3>1. TypeOK'
        BY <2>1, <2>3, Steps, ClientTyped, ReceivesTyped, ServerTyped DEF TunnelInv
      <3>2. SocketsInv'
        BY <2>1, <2>3, Steps, ClientSockets, ServerSockets DEF TunnelInv
      <3> QED  BY <3>1, <3>2
    <2> QED  BY <2>1, <2>2, <2>3
  <1> QED  BY <1>1, <1>2, PTL DEF Spec

\* At every moment the socket that has authenticated and is open on the control
\* plane's side is the registered one (registerGateway, removeGatewaySocket).
THEOREM LiveSocketHasTheSlotAlways == Spec => []LiveSocketHasTheSlot
  <1>1. TunnelInv => LiveSocketHasTheSlot
    BY DEF TunnelInv, SocketsInv
  <1> QED  BY <1>1, TunnelInvariance, PTL

(***************************************************************************)
(* Shut down for good                                                      *)
(***************************************************************************)

\* Only a reconnect attempt takes a free socket, and none does once the client
\* is shut down (shutdown, connect, runReconnectAttempt).
LEMMA ShutStays ==
    ASSUME TypeOK, Next, shut
    PROVE  shut' /\ \A s \in Sockets : cl[s] = "free" => cl'[s] = "free"
  <1>1. ASSUME Retry PROVE shut' /\ cl' = cl
    BY <1>1 DEF Retry
  <1>2. ASSUME NEW s \in Sockets, Opened(s) \/ GiveUpDial(s) \/ Closed(s)
        PROVE  shut' /\ \A t \in Sockets : cl[t] = "free" => cl'[t] = "free"
    BY <1>2 DEF Opened, GiveUpDial, Closed, Dialing, TypeOK
  <1>3. ASSUME GiveUpAuth PROVE shut' /\ \A t \in Sockets : cl[t] = "free" => cl'[t] = "free"
    <2>1. shut' /\ CloseCurrent
      BY <1>3 DEF GiveUpAuth, Rejected
    <2> QED  BY <2>1 DEF CloseCurrent, TypeOK, Dialing
  <1>4. CASE MissedBeats
    BY <1>4 DEF MissedBeats, Usable, client, TypeOK
  <1>5. CASE Publish \/ Shutdown
    BY <1>5 DEF Publish, Shutdown
  <1>6. ASSUME NEW s \in Sockets, ClientReceives(s)
        PROVE  shut' /\ \A t \in Sockets : cl[t] = "free" => cl'[t] = "free"
    <2>1. CASE Challenged(s) \/ Succeeds(s) \/ ToldToLeave(s)
      BY <2>1 DEF Challenged, Succeeds, ToldToLeave, client
    <2>2. CASE Denied(s) \/ DeniedForGood(s)
      <3>1. shut' /\ CloseCurrent
        BY <2>2 DEF Denied, DeniedForGood, Rejected
      <3> QED  BY <3>1 DEF CloseCurrent, TypeOK, Dialing
    <2> QED  BY <1>6, <2>1, <2>2 DEF ClientReceives
  <1>7. CASE \/ Move \/ Revoke \/ Pair
             \/ \E s \in Sockets : \/ Hangup(s) \/ Cut(s) \/ ServerReceives(s)
                                   \/ ServerGoesOn(s) \/ ServerFails(s)
    BY <1>7, ClientLeft DEF client
  <1> QED  BY Steps, <1>1, <1>2, <1>3, <1>4, <1>5, <1>6, <1>7
           DEF RetryFires, AuthTimeout, Overtake, OpenTimeout

\* Once shut down, the client opens no socket, whatever was still to come.
THEOREM ShutForGoodAlways == Spec => ShutForGood
  <1>1. TypeOK /\ [Next]_vars => [shut => shut' /\ \A s \in Sockets : cl[s] = "free" => cl'[s] = "free"]_vars
    BY ShutStays DEF vars
  <1> QED  BY <1>1, TypeCorrect, PTL DEF Spec, ShutForGood
(***************************************************************************)
(* Where every event is                                                    *)
(***************************************************************************)

Placed == Stored \cup EventsIn(queue) \cup Held

\* The step publishes nothing, and every event stays in one place or another.
Moved == published' = published /\ Placed' = Placed

LEMMA UnmovedIsMoved ==
    ASSUME UNCHANGED <<published, stored, queue, up, lost>>
    PROVE  Moved
  BY DEF Moved, Placed, Stored, Held, OnWire

\* A message that is no event is taken off socket s.
LEMMA TakenOff ==
    ASSUME TypeOK, NEW s \in Sockets, up[s] # <<>>, Head(up[s]).kind # "event",
           up' = [up EXCEPT ![s] = Tail(@)]
    PROVE  OnWire' = OnWire
  <1>1. /\ EventsIn(up[s]) = EventsIn(<<Head(up[s])>>) \cup EventsIn(Tail(up[s]))
        /\ Head(up[s]) \in Messages
    BY EventsOfTail DEF TypeOK
  <1>2. EventsIn(<<Head(up[s])>>) = {}
    BY <1>1, EventsOfOne
  <1>3. \A t \in Sockets : EventsIn(up'[t]) = EventsIn(up[t])
    BY <1>1, <1>2 DEF TypeOK
  <1> QED  BY <1>3 DEF OnWire

LEMMA ClientMoves ==
    ASSUME TypeOK, SocketsInv,
           \/ RetryFires \/ AuthTimeout \/ Overtake \/ MissedBeats \/ Shutdown
           \/ \E s \in Sockets : Opened(s) \/ OpenTimeout(s) \/ Closed(s)
           \/ \E s \in Sockets : ClientReceives(s)
    PROVE  Moved
  <1>1. ASSUME Retry PROVE Moved
    <2>1. UNCHANGED <<published, stored>>
      BY <1>1 DEF Retry, server
    <2>2. CASE shut \/ Rearm
      <3>1. UNCHANGED <<queue, up, lost>>
        BY <1>1, <2>2 DEF Retry, Rearm
      <3> QED  BY <2>1, <3>1, UnmovedIsMoved
    <2>3. CASE Dial
      <3>1. PICK s \in Sockets : sv[s] = "free" /\ up' = [up EXCEPT ![s] = <<>>]
        BY <2>3 DEF Dial
      <3>2. up' = up
        BY <3>1 DEF SocketsInv, TypeOK
      <3> QED  BY <2>1, <2>3, <3>2, UnmovedIsMoved DEF Dial
    <2>4. CASE Arrived
      <3>1. Held' \cup EventsIn(queue') = Held \cup EventsIn(queue)
        BY <2>4, FlushHolds DEF Arrived
      <3> QED  BY <2>1, <3>1 DEF Moved, Placed, Stored
    <2> QED  BY <1>1, <2>2, <2>3, <2>4 DEF Retry
  <1>2. ASSUME GiveUpAuth PROVE Moved
    BY <1>2, UnmovedIsMoved DEF GiveUpAuth, server
  <1>3. ASSUME NEW s \in Sockets, GiveUpDial(s) \/ Closed(s) PROVE Moved
    BY <1>3, UnmovedIsMoved DEF GiveUpDial, Closed, server
  <1>4. CASE MissedBeats
    BY <1>4, UnmovedIsMoved DEF MissedBeats, client, server
  <1>5. CASE Shutdown
    <2>1. queue' = <<>> /\ lost' = lost \cup EventsIn(queue) /\ UNCHANGED <<published, stored, up>>
      BY <1>5 DEF Shutdown, server
    <2>2. EventsIn(queue') = {}
      BY <2>1, EventsOfNone
    <2> QED  BY <2>1, <2>2 DEF Moved, Placed, Stored, Held, OnWire
  <1>6. ASSUME NEW s \in Sockets, Opened(s) PROVE Moved
    <2>1. UNCHANGED <<published, stored, queue>>
      BY <1>6 DEF Opened, server
    <2>2. Msg("auth", NoSocket) \in Messages /\ Msg("auth", NoSocket).kind # "event"
      BY Letters DEF Letter
    <2>3. CASE ws = s
      <3>1. up' = [up EXCEPT ![s] = <<Msg("auth", NoSocket)>>] /\ lost' = lost /\ up[s] = <<>>
        BY <1>6, <2>3 DEF Opened, SocketsInv
      <3>2. EventsIn(<<Msg("auth", NoSocket)>>) = {} /\ EventsIn(up[s]) = {}
        BY <2>2, <3>1, EventsOfOne, EventsOfNone
      <3>3. \A t \in Sockets : EventsIn(up'[t]) = EventsIn(up[t])
        BY <3>1, <3>2 DEF TypeOK
      <3> QED  BY <2>1, <3>1, <3>3 DEF Moved, Placed, Stored, Held, OnWire
    <2>4. CASE ws # s
      <3>1. Held' = Held
        BY <1>6, <2>2, <2>4, SendRawHolds DEF Opened
      <3> QED  BY <2>1, <3>1 DEF Moved, Placed, Stored
    <2> QED  BY <2>3, <2>4
  <1>7. ASSUME NEW s \in Sockets, ClientReceives(s) PROVE Moved
    <2>1. CASE Challenged(s)
      <3>1. down[s] # <<>> /\ First(s).kind = "challenge" /\ First(s) \in Messages
        BY <2>1, TailTyped DEF Challenged, Receives, First, TypeOK, Links
      <3>2. Msg("answer", First(s).of) \in Messages /\ Msg("answer", First(s).of).kind # "event"
        BY <3>1, Letters DEF Letter
      <3>3. Held' = Held /\ UNCHANGED <<published, stored, queue>>
        BY <2>1, <3>2, SendRawHolds DEF Challenged, client, server
      <3> QED  BY <3>3 DEF Moved, Placed, Stored
    <2>2. CASE Succeeds(s)
      <3>1. /\ Held' \cup EventsIn(queue') = Held \cup EventsIn(queue)
            /\ UNCHANGED <<published, stored>>
        BY <2>2, FlushHolds DEF Succeeds, server
      <3> QED  BY <3>1 DEF Moved, Placed, Stored
    <2>3. CASE Denied(s) \/ DeniedForGood(s) \/ ToldToLeave(s)
      BY <2>3, UnmovedIsMoved DEF Denied, DeniedForGood, ToldToLeave, server
    <2> QED  BY <1>7, <2>1, <2>2, <2>3 DEF ClientReceives
  <1> QED  BY <1>1, <1>2, <1>3, <1>4, <1>5, <1>6, <1>7 DEF RetryFires, AuthTimeout, Overtake, OpenTimeout

LEMMA ServerMoves ==
    ASSUME TypeOK, SocketsInv,
           \/ Move \/ Revoke \/ Pair
           \/ \E s \in Sockets : \/ Hangup(s) \/ Cut(s) \/ ServerReceives(s)
                                 \/ ServerGoesOn(s) \/ ServerFails(s)
    PROVE  Moved
  <1>1. CASE Move \/ Revoke \/ Pair \/ \E s \in Sockets : ServerGoesOn(s) \/ DeclinesAnswer(s)
    BY <1>1, UnmovedIsMoved
       DEF Move, Revoke, Pair, ServerGoesOn, Proves, Enter, DeclinesAnswer, client, links
  <1>2. ASSUME NEW s \in Sockets, Hangup(s) PROVE Moved
    <2>1. up' = [up EXCEPT ![s] = <<>>] /\ up[s] = <<>> /\ UNCHANGED <<published, stored, queue, lost>>
      BY <1>2 DEF Hangup, SocketsInv, client
    <2>2. up' = up
      BY <2>1 DEF TypeOK
    <2> QED  BY <2>1, <2>2, UnmovedIsMoved
  <1>3. ASSUME NEW s \in Sockets, Cut(s) PROVE Moved
    <2>1. /\ up' = [up EXCEPT ![s] = <<>>] /\ lost' = lost \cup EventsIn(up[s])
          /\ UNCHANGED <<published, stored, queue>>
      BY <1>3 DEF Cut, client, server
    <2>2. /\ EventsIn(up'[s]) = {}
          /\ \A t \in Sockets \ {s} : up'[t] = up[t]
      BY <2>1, EventsOfNone DEF TypeOK
    <2>3. Held' = Held
      BY <2>1, <2>2 DEF Held, OnWire
    <2> QED  BY <2>1, <2>3 DEF Moved, Placed, Stored
  <1>4. ASSUME NEW s \in Sockets, HearsAuth(s) PROVE Moved
    <2>1. up[s] # <<>> /\ Head(up[s]).kind # "event" /\ UNCHANGED <<published, stored, queue, lost>>
      BY <1>4 DEF HearsAuth, Hears, client
    <2>2. CASE device \in {"trusted", "revoking"}
      <3>1. up' = [t \in Sockets |-> Voided(IF t = s THEN Tail(up[s]) ELSE up[t], s)]
        BY <1>4, <2>2 DEF HearsAuth
      <3>2. /\ EventsIn(up[s]) = EventsIn(<<Head(up[s])>>) \cup EventsIn(Tail(up[s]))
            /\ Head(up[s]) \in Messages /\ Tail(up[s]) \in Seq(Messages)
        BY <2>1, EventsOfTail DEF TypeOK
      <3>3. EventsIn(<<Head(up[s])>>) = {}
        BY <2>1, <3>2, EventsOfOne
      <3>4. ASSUME NEW t \in Sockets PROVE EventsIn(up'[t]) = EventsIn(up[t])
        <4>1. CASE t = s
          BY <3>1, <3>2, <3>3, <4>1, EventsOfVoided
        <4>2. CASE t # s
          BY <3>1, <4>2, EventsOfVoided DEF TypeOK
        <4> QED  BY <4>1, <4>2
      <3> QED  BY <2>1, <3>4 DEF Moved, Placed, Stored, Held, OnWire
    <2>3. CASE device \in {"unpaired", "revoked"}
      <3>1. up' = [up EXCEPT ![s] = Tail(@)]
        BY <1>4, <2>3 DEF HearsAuth
      <3> QED  BY <2>1, <3>1, TakenOff DEF Moved, Placed, Stored, Held
    <2> QED  BY <2>2, <2>3 DEF TypeOK
  <1>5. ASSUME NEW s \in Sockets, HearsAnswer(s) \/ DeclinesAuth(s) PROVE Moved
    <2>1. up[s] # <<>> /\ Head(up[s]).kind # "event" /\ UNCHANGED <<published, stored, queue, lost>>
      BY <1>5 DEF HearsAnswer, DeclinesAuth, Hears, client
    <2>2. up' = [up EXCEPT ![s] = Tail(@)]
      BY <1>5 DEF HearsAnswer, DeclinesAuth
    <2> QED  BY <2>1, <2>2, TakenOff DEF Moved, Placed, Stored, Held
  <1>6. ASSUME NEW s \in Sockets, HearsEvent(s) \/ LosesEvent(s) PROVE Moved
    <2> DEFINE e == Head(up[s]).of
    <2>1. up[s] # <<>> /\ Head(up[s]).kind = "event" /\ up' = [up EXCEPT ![s] = Tail(@)]
          /\ UNCHANGED <<published, queue>>
      BY <1>6 DEF HearsEvent, LosesEvent, Hears, client
    <2>2. /\ EventsIn(up[s]) = EventsIn(<<Head(up[s])>>) \cup EventsIn(Tail(up[s]))
          /\ Head(up[s]) \in Messages
      BY <2>1, EventsOfTail DEF TypeOK
    <2>3. EventsIn(<<Head(up[s])>>) = {e} /\ e \in Events
      BY <2>1, <2>2, EventsOfOne, Letters
    <2>4. /\ EventsIn(up'[s]) = EventsIn(Tail(up[s]))
          /\ \A t \in Sockets \ {s} : up'[t] = up[t]
      BY <2>1 DEF TypeOK
    <2> HIDE DEF e
    <2>5. OnWire' \cup {e} = OnWire
      BY <2>2, <2>3, <2>4 DEF OnWire
    <2>6. CASE s \in authed /\ HearsEvent(s)
      <3>1. stored' = Append(stored, e) /\ lost' = lost
        BY <2>6 DEF HearsEvent, e
      <3>2. Stored' = Stored \cup {e}
        <4>1. /\ stored \in Seq(Events) /\ DOMAIN stored = 1..Len(stored) /\ Len(stored) \in Nat
              /\ DOMAIN stored' = 1..(Len(stored) + 1)
              /\ \A i \in 1..Len(stored) : stored'[i] = stored[i]
              /\ stored'[Len(stored) + 1] = e
          BY <2>3, <3>1, AppendProperties, LenProperties DEF TypeOK
        <4> QED  BY <4>1 DEF Stored
      <3> QED  BY <2>1, <2>5, <3>1, <3>2 DEF Moved, Placed, Held
    <2>7. CASE s \notin authed \/ LosesEvent(s)
      <3>1. stored' = stored /\ lost' = lost \cup {e}
        BY <1>6, <2>7 DEF HearsEvent, LosesEvent, server, e
      <3> QED  BY <2>1, <2>5, <3>1 DEF Moved, Placed, Held, Stored
    <2> QED  BY <1>6, <2>6, <2>7
  <1> QED  BY <1>1, <1>2, <1>3, <1>4, <1>5, <1>6 DEF ServerReceives, ServerFails

\* A published event is placed: written, queued, or lost to a full queue with
\* the events before it.
LEMMA PublishPlaces ==
    ASSUME TypeOK, Publish
    PROVE  published' = published + 1 /\ Placed' = Placed \cup {published + 1}
  <1> DEFINE n == published + 1
             q == Append(queue, Msg("event", n))
  <1>1. n \in Events /\ published' = n /\ stored' = stored
    BY BoundsAssumption DEF Publish, TypeOK, Events, server
  <1>2. /\ Msg("event", n) \in Messages
        /\ <<Msg("event", n)>> \in Seq(Messages) /\ EventsIn(<<Msg("event", n)>>) = {n}
    BY <1>1, Letters, EventsOfOne
  <1>3. CASE Usable
    <2>1. ws \in Sockets /\ Written(ws, <<Msg("event", n)>>) /\ queue' = queue
      BY <1>3 DEF Publish, Usable, TypeOK
    <2>2. Held' = Held \cup {n}
      BY <1>2, <2>1, WrittenHolds
    <2> QED  BY <1>1, <2>1, <2>2 DEF Placed, Stored
  <1>4. CASE ~Usable
    <2>1. /\ q \in Seq(Messages) /\ Len(q) = Len(queue) + 1 /\ EventsIn(q) = EventsIn(queue) \cup {n}
      BY <1>2, QueueTyped, EventsOfAppend
    <2>2. q \in Seq(EventMessages) /\ Len(queue) \in Nat
      BY <1>1, Letters, AppendProperties, LenProperties DEF TypeOK
    <2>3. /\ queue' = IF Len(q) > MaxQueue THEN Tail(q) ELSE q
          /\ lost' = IF Len(q) > MaxQueue THEN lost \cup {Head(q).of} ELSE lost
          /\ up' = up
      BY <1>4 DEF Publish
    <2> HIDE DEF q
    <2>4. EventsIn(q) = EventsIn(<<Head(q)>>) \cup EventsIn(Tail(q))
          /\ EventsIn(<<Head(q)>>) = {Head(q).of}
      <3>1. q # <<>>
        BY <2>1, <2>2
      <3>2. Head(q) \in EventMessages /\ Head(q) \in Messages
        BY <2>1, <2>2, <3>1, HeadTailProperties
      <3> QED  BY <2>1, <3>1, <3>2, EventsOfTail, EventsOfOne DEF EventMessages
    <2> QED  BY <1>1, <2>1, <2>3, <2>4 DEF Placed, Stored, Held, OnWire
  <1> QED  BY <1>3, <1>4, <1>1

\* Every event published is stored, queued, on its way or lost for a reason the
\* code has (send, enqueueMessage, flushQueue, handleSocketMessage).
THEOREM EventsAccountedForAlways == Spec => []EveryEventAccountedFor
  <1>1. EveryEventAccountedFor <=> 1..published = Placed
    BY DEF EveryEventAccountedFor, Placed, Held
  <1>2. Init => EveryEventAccountedFor
    <2>1. SUFFICES ASSUME Init PROVE 1..published = Placed
      BY <1>1
    <2>2. /\ published = 0 /\ queue = <<>> /\ stored = <<>> /\ lost = {}
          /\ \A s \in Sockets : up[s] = <<>>
      BY <2>1 DEF Init
    <2>3. Stored = {} /\ Held = {} /\ EventsIn(queue) = {}
      BY <2>2, EventsOfNone DEF Stored, Held, OnWire
    <2> QED  BY <2>2, <2>3 DEF Placed
  <1>3. TunnelInv /\ EveryEventAccountedFor /\ [Next]_vars => EveryEventAccountedFor'
    <2>1. SUFFICES ASSUME TunnelInv, 1..published = Placed, [Next]_vars PROVE (1..published = Placed)'
      BY <1>1 DEF EveryEventAccountedFor, Placed, Held
    <2>2. CASE UNCHANGED vars
      BY <2>1, <2>2, UnmovedIsMoved DEF Moved, vars, client, links, server
    <2>3. CASE Next
      <3>1. CASE Publish
        <4>1. published \in Nat
          BY <2>1, BoundsAssumption DEF TunnelInv, TypeOK
        <4>2. 1..(published + 1) = (1..published) \cup {published + 1}
          BY <4>1
        <4> QED  BY <2>1, <3>1, <4>2, PublishPlaces DEF TunnelInv
      <3>2. CASE ~Publish
        BY <2>1, <2>3, <3>2, Steps, ClientMoves, ServerMoves DEF TunnelInv, Moved
      <3> QED  BY <3>1, <3>2
    <2> QED  BY <2>1, <2>2, <2>3
  <1> QED  BY <1>2, <1>3, TunnelInvariance, PTL DEF Spec

(***************************************************************************)
(* The order in which events are stored                                    *)
(***************************************************************************)

\* Of two events, a may be stored before b: it was published before, or a timer
\* overtook (l), or a was sent directly while older ones were queued (A).
Before(a, b, l, A) == a # b /\ (a < b \/ l \/ a \in A)
AllBefore(E, F, l, A) == \A a \in E, b \in F : Before(a, b, l, A)
InLine(q, l, A) ==
    \A i, j \in DOMAIN q :
       i < j /\ q[i].kind = "event" /\ q[j].kind = "event" => Before(q[i].of, q[j].of, l, A)

\* Events are stored in line, those on the wire come after them, and those
\* that are queued after those; nothing is in two places.
StoredInLine ==
    \A i, j \in DOMAIN stored : i < j => Before(stored[i], stored[j], late, ahead)
QueueSorted == \A i, j \in DOMAIN queue : i < j => queue[i].of < queue[j].of
Lines ==
    /\ StoredInLine /\ QueueSorted
    /\ \A s \in Sockets : InLine(up[s], late, ahead)
    /\ \A s, t \in Sockets : s # t => EventsIn(up[s]) \cap EventsIn(up[t]) = {}
    /\ AllBefore(Stored, OnWire \cup EventsIn(queue), late, ahead)
    /\ AllBefore(OnWire, EventsIn(queue), late, ahead)
    /\ lost \cap (Stored \cup OnWire \cup EventsIn(queue)) = {}

\* A connected client has nothing queued, and as long as no timer overtakes
\* there is one connection at a time.
Wires ==
    /\ Usable /\ st = "connected" => queue = <<>>
    /\ \A s \in Sockets : cl[s] = "free" => up[s] = <<>>
    /\ ~late => \A s, t \in Sockets : cl[s] # "free" /\ cl[t] # "free" => s = t

OrderInv == Lines /\ Wires

(***************************************************************************)
(* Events in line                                                          *)
(***************************************************************************)

LEMMA InLineMore ==
    ASSUME NEW q, NEW l \in BOOLEAN, NEW m \in BOOLEAN, NEW A, NEW B,
           InLine(q, l, A), l => m, A \subseteq B
    PROVE  InLine(q, m, B)
  BY DEF InLine, Before

LEMMA InLineShort ==
    ASSUME NEW l, NEW A
    PROVE  /\ InLine(<<>>, l, A)
           /\ \A m \in Messages : InLine(<<m>>, l, A)
  BY DEF InLine

LEMMA InLineConcat ==
    ASSUME NEW p \in Seq(Messages), NEW q \in Seq(Messages), NEW l, NEW A,
           InLine(p, l, A), InLine(q, l, A), AllBefore(EventsIn(p), EventsIn(q), l, A)
    PROVE  InLine(p \o q, l, A)
  <1> DEFINE r == p \o q
  <1>1. /\ Len(r) = Len(p) + Len(q) /\ DOMAIN r = 1..(Len(p) + Len(q))
        /\ \A i \in DOMAIN r : r[i] = IF i <= Len(p) THEN p[i] ELSE q[i - Len(p)]
        /\ DOMAIN p = 1..Len(p) /\ DOMAIN q = 1..Len(q) /\ Len(p) \in Nat /\ Len(q) \in Nat
    BY ConcatProperties, LenProperties
  <1>2. \A i \in DOMAIN r : \/ i <= Len(p) /\ i \in DOMAIN p /\ r[i] = p[i]
                            \/ ~(i <= Len(p)) /\ i - Len(p) \in DOMAIN q /\ r[i] = q[i - Len(p)]
    BY <1>1
  <1> HIDE DEF r
  <1>3. ASSUME NEW i \in DOMAIN r, NEW j \in DOMAIN r, i < j, r[i].kind = "event", r[j].kind = "event"
        PROVE  Before(r[i].of, r[j].of, l, A)
    <2>1. CASE j <= Len(p)
      <3>1. i \in DOMAIN p /\ r[i] = p[i] /\ j \in DOMAIN p /\ r[j] = p[j]
        BY <1>1, <1>2, <1>3, <2>1
      <3> QED  BY <1>3, <3>1 DEF InLine
    <2>2. CASE i <= Len(p) /\ ~(j <= Len(p))
      <3>1. i \in DOMAIN p /\ r[i] = p[i] /\ j - Len(p) \in DOMAIN q /\ r[j] = q[j - Len(p)]
        BY <1>2, <2>2
      <3>2. r[i].of \in EventsIn(p) /\ r[j].of \in EventsIn(q)
        BY <1>3, <3>1 DEF EventsIn
      <3> QED  BY <3>2 DEF AllBefore
    <2>3. CASE ~(i <= Len(p)) /\ ~(j <= Len(p))
      <3>1. /\ i - Len(p) \in DOMAIN q /\ r[i] = q[i - Len(p)] /\ j - Len(p) \in DOMAIN q
            /\ r[j] = q[j - Len(p)] /\ i - Len(p) < j - Len(p)
        BY <1>1, <1>2, <1>3, <2>3
      <3> QED  BY <1>3, <3>1 DEF InLine
    <2> QED  BY <1>1, <1>3, <2>1, <2>2, <2>3
  <1> QED  BY <1>3 DEF InLine, r

LEMMA InLineTail ==
    ASSUME NEW q \in Seq(Messages), q # <<>>, NEW l, NEW A, InLine(q, l, A)
    PROVE  /\ InLine(Tail(q), l, A)
           /\ Head(q).kind = "event" => AllBefore({Head(q).of}, EventsIn(Tail(q)), l, A)
  <1> DEFINE t == Tail(q)
  <1>1. /\ t \in Seq(Messages) /\ DOMAIN q = 1..Len(q) /\ DOMAIN t = 1..(Len(q) - 1) /\ Len(q) \in Nat
        /\ Head(q) = q[1] /\ 1 \in DOMAIN q
        /\ \A i \in DOMAIN t : i + 1 \in DOMAIN q /\ t[i] = q[i + 1] /\ 1 < i + 1
    <2>1. Len(q) \in Nat \ {0} /\ DOMAIN q = 1..Len(q)
      BY EmptySeq, LenProperties
    <2>2. t \in Seq(Messages) /\ Len(t) = Len(q) - 1 /\ Head(q) = q[1] /\ \A i \in 1..Len(t) : t[i] = q[i + 1]
      BY HeadTailProperties
    <2> QED  BY <2>1, <2>2, LenProperties
  <1> HIDE DEF t
  <1>2. ASSUME NEW i \in DOMAIN t, NEW j \in DOMAIN t, i < j PROVE i + 1 < j + 1
    BY <1>1, <1>2
  <1>3. InLine(t, l, A)
    BY <1>1, <1>2 DEF InLine
  <1>4. ASSUME Head(q).kind = "event", NEW f \in EventsIn(t)
        PROVE  Before(Head(q).of, f, l, A)
    <2>1. PICK i \in DOMAIN t : t[i].kind = "event" /\ t[i].of = f
      BY <1>4 DEF EventsIn
    <2> QED  BY <1>1, <1>4, <2>1 DEF InLine
  <1> QED  BY <1>3, <1>4 DEF AllBefore, t

LEMMA InLineVoided ==
    ASSUME NEW q \in Seq(Messages), NEW s \in Sockets, NEW l, NEW A, InLine(q, l, A)
    PROVE  InLine(Voided(q, s), l, A)
  <1> DEFINE v == Voided(q, s)
  <1>1. DOMAIN v = DOMAIN q
    BY DEF Voided
  <1>2. \A i \in DOMAIN q : v[i].kind = q[i].kind /\ (q[i].kind = "event" => v[i] = q[i])
    BY DEF Voided, Msg
  <1> HIDE DEF v
  <1>3. InLine(v, l, A)
    BY <1>1, <1>2 DEF InLine
  <1> QED  BY <1>3 DEF v

\* A sorted queue is in line.
LEMMA QueueInLine ==
    ASSUME TypeOK, QueueSorted, NEW l, NEW A
    PROVE  InLine(queue, l, A) /\ queue \in Seq(Messages)
  <1>1. \A i \in DOMAIN queue : queue[i].of \in Nat
    <2>1. \A i \in DOMAIN queue : queue[i] \in EventMessages
      BY ElementOfSeq, LenProperties DEF TypeOK
    <2> QED  BY <2>1, BoundsAssumption DEF EventMessages, Events
  <1> QED  BY <1>1, QueueTyped DEF InLine, Before, QueueSorted

(***************************************************************************)
(* Steps that move no event forward                                        *)
(***************************************************************************)

\* What is on the wire or queued gets no more and keeps its order.
Shorter ==
    /\ UNCHANGED stored /\ (late => late') /\ ahead \subseteq ahead'
    /\ \A s \in Sockets : EventsIn(up'[s]) \subseteq EventsIn(up[s]) /\ InLine(up'[s], late', ahead')
    /\ queue' \in {queue, <<>>}
    /\ lost' \cap (Stored \cup OnWire' \cup EventsIn(queue')) = {}

LEMMA ShorterKeeps ==
    ASSUME TypeOK, Lines, late' \in BOOLEAN, Shorter
    PROVE  Lines'
  <1>1. Stored' = Stored /\ OnWire' \subseteq OnWire /\ EventsIn(queue') \subseteq EventsIn(queue)
    BY EventsOfNone DEF Shorter, Stored, OnWire
  <1>2. late \in BOOLEAN
    BY DEF TypeOK
  <1>3. \A a, b : Before(a, b, late, ahead) => Before(a, b, late', ahead')
    BY <1>2 DEF Before, Shorter
  <1>4. StoredInLine' /\ QueueSorted'
    BY <1>3 DEF Lines, StoredInLine, QueueSorted, Shorter
  <1>5. \A s, t \in Sockets : s # t => EventsIn(up'[s]) \cap EventsIn(up'[t]) = {}
    BY DEF Lines, Shorter
  <1>6. AllBefore(Stored', OnWire' \cup EventsIn(queue'), late', ahead')
    BY <1>1, <1>3 DEF Lines, AllBefore
  <1>7. AllBefore(OnWire', EventsIn(queue'), late', ahead')
    BY <1>1, <1>3 DEF Lines, AllBefore
  <1> QED  BY <1>1, <1>4, <1>5, <1>6, <1>7 DEF Lines, Shorter

\* Nothing moves.
LEMMA StillLines ==
    ASSUME TypeOK, Lines, UNCHANGED <<stored, up, queue, lost, ahead>>, late' \in BOOLEAN, late => late'
    PROVE  Lines'
  <1>1. \A s \in Sockets : InLine(up[s], late', ahead')
    <2>1. late \in BOOLEAN /\ \A s \in Sockets : InLine(up[s], late, ahead)
      BY DEF TypeOK, Lines
    <2> QED  BY <2>1, InLineMore
  <1>2. Shorter
    BY <1>1 DEF Shorter, Lines, OnWire
  <1> QED  BY <1>2, ShorterKeeps

\* A letter is written, to a connection or to nobody.
LEMMA LetterKeeps ==
    ASSUME TypeOK, Lines, NEW s \in Sockets, NEW m \in Messages, m.kind # "event", Written(s, <<m>>),
           UNCHANGED <<stored, queue, ahead, late>>
    PROVE  Lines'
  <1>1. <<m>> \in Seq(Messages) /\ EventsIn(<<m>>) = {}
    BY EventsOfOne
  <1>2. up \in Links /\ late \in BOOLEAN
    BY DEF TypeOK, Links
  <1>3. lost' = lost /\ (up' = up \/ up' = [up EXCEPT ![s] = @ \o <<m>>])
    BY <1>1 DEF Written
  <1>4. CASE up' = up
    BY <1>2, <1>3, <1>4, StillLines
  <1>5. CASE up' = [up EXCEPT ![s] = @ \o <<m>>]
    <2>1. EventsIn(up[s] \o <<m>>) = EventsIn(up[s])
      <3>1. up[s] \in Seq(Messages)
        BY <1>2 DEF Links
      <3>2. EventsIn(up[s] \o <<m>>) = EventsIn(up[s]) \cup EventsIn(<<m>>)
        BY <1>1, <3>1, EventsOfConcat
      <3> QED  BY <1>1, <3>2
    <2>2. InLine(up[s] \o <<m>>, late, ahead)
      BY <1>1, <1>2, InLineConcat, InLineShort DEF Lines, Links, AllBefore
    <2>3. \A t \in Sockets : EventsIn(up'[t]) = EventsIn(up[t]) /\ InLine(up'[t], late, ahead)
      BY <1>2, <1>5, <2>1, <2>2 DEF Lines, Links
    <2>4. OnWire' = OnWire
      BY <2>3 DEF OnWire
    <2>5. Shorter
      BY <1>3, <2>3, <2>4 DEF Shorter, Lines
    <2> QED  BY <1>2, <2>5, ShorterKeeps
  <1> QED  BY <1>3, <1>4, <1>5

LEMMA RawKeeps ==
    ASSUME TypeOK, Lines, NEW m \in Messages, m.kind # "event", SendRaw(m),
           UNCHANGED <<stored, queue, ahead, late>>
    PROVE  Lines'
  <1>1. CASE Usable
    BY <1>1, LetterKeeps DEF Usable, SendRaw, TypeOK
  <1>2. CASE ~Usable
    <2>1. late \in BOOLEAN /\ UNCHANGED <<up, lost>>
      BY <1>2 DEF SendRaw, TypeOK
    <2> QED  BY <2>1, StillLines
  <1> QED  BY <1>1, <1>2

\* The queue goes on the wire, or is lost, as it is.
LEMMA FlushKeeps ==
    ASSUME TypeOK, OrderInv, Flush, UNCHANGED <<stored, ahead>>, late' \in BOOLEAN, late => late'
    PROVE  Lines'
  <1>1. Lines /\ late \in BOOLEAN /\ up \in Links
    BY DEF OrderInv, TypeOK, Links
  <1>2. CASE ~Usable
    <2>1. UNCHANGED <<queue, up, lost>>
      BY <1>2 DEF Flush
    <2> QED  BY <1>1, <2>1, StillLines
  <1>3. CASE Usable
    <2>1. ws \in Sockets /\ queue' = <<>> /\ Written(ws, queue)
      BY <1>3 DEF Flush, Usable, TypeOK
    <2>2. EventsIn(queue') = {} /\ Stored' = Stored /\ QueueSorted'
      BY <2>1, EventsOfNone DEF Stored, QueueSorted
    <2>3. CASE ws \in cut \/ sv[ws] = "free"
      <3>1. up' = up /\ lost' = lost \cup EventsIn(queue)
        BY <2>1, <2>3 DEF Written
      <3>2. \A s \in Sockets : InLine(up[s], late', ahead')
        BY <1>1, InLineMore DEF Lines
      <3>3. OnWire' = OnWire
        BY <3>1 DEF OnWire
      <3>4. EventsIn(queue) \cap (Stored \cup OnWire) = {}
        BY <1>1 DEF Lines, AllBefore, Before
      <3>5. lost' \cap (Stored \cup OnWire' \cup EventsIn(queue')) = {}
        BY <1>1, <2>2, <3>1, <3>3, <3>4 DEF Lines
      <3>6. Shorter
        BY <2>1, <3>1, <3>2, <3>5 DEF Shorter
      <3> QED  BY <1>1, <3>6, ShorterKeeps
    <2>4. CASE ~(ws \in cut \/ sv[ws] = "free")
      <3>1. up' = [up EXCEPT ![ws] = @ \o queue] /\ lost' = lost
        BY <2>1, <2>4 DEF Written
      <3>2. up'[ws] = up[ws] \o queue /\ \A s \in Sockets \ {ws} : up'[s] = up[s]
        BY <1>1, <2>1, <3>1 DEF Links
      <3>3. InLine(queue, late, ahead) /\ queue \in Seq(Messages)
        BY <1>1, QueueInLine DEF Lines
      <3>4. EventsIn(up'[ws]) = EventsIn(up[ws]) \cup EventsIn(queue)
        BY <1>1, <2>1, <3>2, <3>3, EventsOfConcat DEF Links
      <3>5. OnWire' = OnWire \cup EventsIn(queue)
        BY <2>1, <3>2, <3>4 DEF OnWire
      <3>6. EventsIn(up[ws]) \subseteq OnWire
        BY <2>1 DEF OnWire
      <3>7. InLine(up[ws] \o queue, late, ahead)
        <4>1. up[ws] \in Seq(Messages) /\ InLine(up[ws], late, ahead)
          BY <1>1, <2>1 DEF Lines, Links
        <4>2. AllBefore(EventsIn(up[ws]), EventsIn(queue), late, ahead)
          BY <1>1, <3>6 DEF Lines, AllBefore
        <4> QED  BY <3>3, <4>1, <4>2, InLineConcat
      <3>8. \A s \in Sockets : InLine(up'[s], late', ahead')
        <4>1. \A s \in Sockets : InLine(up'[s], late, ahead)
          BY <1>1, <3>2, <3>7 DEF Lines
        <4> QED  BY <1>1, <4>1, InLineMore
      <3>9. \A s, t \in Sockets : s # t => EventsIn(up'[s]) \cap EventsIn(up'[t]) = {}
        <4>1. \A s \in Sockets : EventsIn(up[s]) \cap EventsIn(queue) = {}
          BY <1>1 DEF Lines, AllBefore, Before, OnWire
        <4> QED  BY <1>1, <3>2, <3>4, <4>1 DEF Lines
      <3>10. \A a, b : Before(a, b, late, ahead) => Before(a, b, late', ahead')
        BY <1>1 DEF Before
      <3>11. StoredInLine'
        BY <1>1, <3>10 DEF Lines, StoredInLine
      <3>12. AllBefore(Stored', OnWire' \cup EventsIn(queue'), late', ahead')
             /\ AllBefore(OnWire', EventsIn(queue'), late', ahead')
        BY <1>1, <2>2, <3>5, <3>10 DEF Lines, AllBefore
      <3>13. lost' \cap (Stored' \cup OnWire' \cup EventsIn(queue')) = {}
        BY <1>1, <2>2, <3>1, <3>5 DEF Lines
      <3> QED  BY <2>2, <3>8, <3>9, <3>11, <3>12, <3>13 DEF Lines
    <2> QED  BY <2>3, <2>4
  <1> QED  BY <1>2, <1>3

\* The first event on the wire is stored, or lost.
LEMMA EventKeeps ==
    ASSUME TypeOK, OrderInv, NEW s \in Sockets, HearsEvent(s) \/ LosesEvent(s)
    PROVE  Lines'
  <1> DEFINE e == Head(up[s]).of
  <1>1. /\ up[s] # <<>> /\ Head(up[s]).kind = "event" /\ up' = [up EXCEPT ![s] = Tail(@)]
        /\ UNCHANGED <<queue, ahead, late>>
    BY DEF HearsEvent, LosesEvent, Hears, client
  <1>2. Lines /\ late \in BOOLEAN /\ up \in Links /\ up[s] \in Seq(Messages)
    BY DEF OrderInv, TypeOK, Links
  <1>3. /\ EventsIn(up[s]) = EventsIn(<<Head(up[s])>>) \cup EventsIn(Tail(up[s]))
        /\ Head(up[s]) \in Messages
    BY <1>1, <1>2, EventsOfTail
  <1>4. EventsIn(<<Head(up[s])>>) = {e} /\ e \in Events
    BY <1>1, <1>3, EventsOfOne, Letters
  <1>5. /\ up'[s] = Tail(up[s]) /\ \A t \in Sockets \ {s} : up'[t] = up[t]
    BY <1>1, <1>2 DEF Links
  <1>6. InLine(Tail(up[s]), late, ahead) /\ AllBefore({e}, EventsIn(Tail(up[s])), late, ahead)
    BY <1>1, <1>2, InLineTail DEF Lines
  <1> HIDE DEF e
  <1>7. /\ e \in EventsIn(up[s]) /\ e \in OnWire /\ e \notin EventsIn(up'[s])
        /\ \A t \in Sockets : EventsIn(up'[t]) \subseteq EventsIn(up[t])
    BY <1>3, <1>4, <1>5, <1>6 DEF AllBefore, Before, OnWire
  <1>8. \A t \in Sockets \ {s} : e \notin EventsIn(up'[t])
    BY <1>2, <1>5, <1>7 DEF Lines
  <1>9. OnWire' \subseteq OnWire /\ e \notin OnWire'
    BY <1>7, <1>8 DEF OnWire
  <1>10. e \notin EventsIn(queue) /\ e \notin Stored
    BY <1>2, <1>7 DEF Lines, AllBefore, Before
  <1>11. \A t \in Sockets : InLine(up'[t], late, ahead)
    BY <1>2, <1>5, <1>6 DEF Lines
  <1>12. CASE s \notin authed \/ LosesEvent(s)
    <2>1. stored' = stored /\ lost' = lost \cup {e}
      BY <1>12 DEF HearsEvent, LosesEvent, server, e
    <2>2. Shorter
      BY <1>1, <1>2, <1>7, <1>9, <1>10, <1>11, <2>1 DEF Shorter, Lines
    <2> QED  BY <1>1, <1>2, <2>2, ShorterKeeps
  <1>13. CASE s \in authed /\ HearsEvent(s)
    <2>1. stored' = Append(stored, e) /\ lost' = lost
      BY <1>13 DEF HearsEvent, e
    <2>2. /\ stored \in Seq(Events) /\ DOMAIN stored = 1..Len(stored) /\ Len(stored) \in Nat
          /\ DOMAIN stored' = 1..(Len(stored) + 1)
          /\ \A i \in 1..Len(stored) : stored'[i] = stored[i]
          /\ stored'[Len(stored) + 1] = e
      BY <1>4, <2>1, AppendProperties, LenProperties DEF TypeOK
    <2>3. Stored' = Stored \cup {e}
      BY <2>2 DEF Stored
    <2>4. \A a \in Stored : Before(a, e, late, ahead)
      BY <1>2, <1>7 DEF Lines, AllBefore
    <2>5. StoredInLine'
      <3>1. SUFFICES ASSUME NEW i \in DOMAIN stored', NEW j \in DOMAIN stored', i < j
                     PROVE  Before(stored'[i], stored'[j], late, ahead)
        BY <1>1 DEF StoredInLine
      <3>2. i \in DOMAIN stored /\ stored'[i] = stored[i] /\ stored[i] \in Stored
        BY <2>2, <3>1 DEF Stored
      <3>3. CASE j = Len(stored) + 1
        BY <2>2, <2>4, <3>2, <3>3
      <3>4. CASE j # Len(stored) + 1
        <4>1. j \in DOMAIN stored /\ stored'[j] = stored[j]
          BY <2>2, <3>4
        <4> QED  BY <1>2, <3>1, <3>2, <4>1 DEF Lines, StoredInLine
      <3> QED  BY <3>3, <3>4
    <2>6. \A f \in OnWire' : Before(e, f, late, ahead)
      <3>1. SUFFICES ASSUME NEW t \in Sockets, NEW f \in EventsIn(up'[t]) PROVE Before(e, f, late, ahead)
        BY DEF OnWire
      <3>2. CASE t = s
        BY <1>5, <1>6, <3>1, <3>2 DEF AllBefore
      <3>3. CASE t # s
        <4>1. e # f
          BY <1>8, <3>1, <3>3
        <4>2. cl[s] # "free" /\ cl[t] # "free"
          BY <1>1, <1>5, <3>1, <3>3, EventsOfNone DEF OrderInv, Wires
        <4>3. late
          BY <3>3, <4>2 DEF OrderInv, Wires
        <4> QED  BY <4>1, <4>3 DEF Before
      <3> QED  BY <3>2, <3>3
    <2>7. \A f \in EventsIn(queue) : Before(e, f, late, ahead)
      BY <1>2, <1>7 DEF Lines, AllBefore
    <2>8. AllBefore(Stored', OnWire' \cup EventsIn(queue'), late', ahead')
          /\ AllBefore(OnWire', EventsIn(queue'), late', ahead')
      BY <1>1, <1>2, <1>9, <2>3, <2>6, <2>7 DEF Lines, AllBefore
    <2>9. lost' \cap (Stored' \cup OnWire' \cup EventsIn(queue')) = {}
      BY <1>1, <1>2, <1>7, <1>9, <2>1, <2>3 DEF Lines
    <2>10. \A r, t \in Sockets : r # t => EventsIn(up'[r]) \cap EventsIn(up'[t]) = {}
      BY <1>2, <1>7 DEF Lines
    <2> QED  BY <1>1, <1>2, <1>11, <2>5, <2>8, <2>9, <2>10 DEF Lines, QueueSorted
  <1> QED  BY <1>12, <1>13

\* A new event is the last: on the wire, before what is queued only if the
\* client was not connected, or at the end of the queue.
LEMMA PublishKeeps ==
    ASSUME TypeOK, OrderInv, Placed \subseteq 1..published, Publish
    PROVE  Lines'
  <1> DEFINE n == published + 1
             e == Msg("event", n)
             q == Append(queue, e)
  <1>1. /\ n \in Events /\ n \in Nat /\ published \in Nat /\ UNCHANGED <<stored, late>>
        /\ late \in BOOLEAN /\ up \in Links /\ Lines
    BY BoundsAssumption DEF Publish, TypeOK, Events, server, Links, OrderInv
  <1>2. e \in EventMessages /\ e \in Messages /\ e.kind = "event" /\ e.of = n
        /\ <<e>> \in Seq(Messages) /\ EventsIn(<<e>>) = {n}
    BY <1>1, Letters, EventsOfOne
  <1>3. \A a \in Placed : a \in Nat /\ a < n /\ a # n
    BY <1>1
  <1> HIDE DEF n, e
  <1>4. /\ Stored \subseteq Placed /\ OnWire \subseteq Placed /\ EventsIn(queue) \subseteq Placed
        /\ lost \subseteq Placed /\ \A s \in Sockets : EventsIn(up[s]) \subseteq OnWire
    BY DEF Placed, Held, OnWire
  <1>5. \A a \in Placed : \A A : Before(a, n, late, A)
    BY <1>3 DEF Before
  <1>6. Stored' = Stored
    BY <1>1 DEF Stored
  <1>7. CASE Usable
    <2>1. /\ ws \in Sockets /\ Written(ws, <<e>>) /\ queue' = queue
          /\ ahead' = IF st = "connected" THEN ahead ELSE ahead \cup {n}
      BY <1>2, <1>7 DEF Publish, Usable, TypeOK, e, n
    <2>2. \A a, b : Before(a, b, late, ahead) => Before(a, b, late', ahead')
      BY <1>1, <2>1 DEF Before
    <2>3. \A s \in Sockets : InLine(up[s], late', ahead')
      <3>1. \A s \in Sockets : InLine(up[s], late, ahead)
        BY <1>1 DEF Lines
      <3>2. ahead \subseteq ahead'
        BY <2>1
      <3> QED  BY <1>1, <3>1, <3>2, InLineMore
    <2>4. CASE ws \in cut \/ sv[ws] = "free"
      <3>1. up' = up /\ lost' = lost \cup {n}
        BY <1>2, <2>1, <2>4 DEF Written
      <3>2. OnWire' = OnWire
        BY <3>1 DEF OnWire
      <3>3. lost' \cap (Stored \cup OnWire' \cup EventsIn(queue')) = {}
        BY <1>1, <1>3, <1>4, <2>1, <3>1, <3>2 DEF Lines
      <3>4. Shorter
        BY <1>1, <2>1, <2>3, <3>1, <3>3 DEF Shorter
      <3> QED  BY <1>1, <3>4, ShorterKeeps
    <2>5. CASE ~(ws \in cut \/ sv[ws] = "free")
      <3>1. up' = [up EXCEPT ![ws] = @ \o <<e>>] /\ lost' = lost
        BY <2>1, <2>5 DEF Written
      <3>2. up'[ws] = up[ws] \o <<e>> /\ \A s \in Sockets \ {ws} : up'[s] = up[s]
        BY <1>1, <2>1, <3>1 DEF Links
      <3>3. up[ws] \in Seq(Messages)
        BY <1>1, <2>1 DEF Links
      <3>4. EventsIn(up'[ws]) = EventsIn(up[ws]) \cup {n}
        BY <1>2, <3>2, <3>3, EventsOfConcat
      <3>5. OnWire' = OnWire \cup {n}
        BY <2>1, <3>2, <3>4 DEF OnWire
      <3>6. InLine(up'[ws], late', ahead')
        <4>1. AllBefore(EventsIn(up[ws]), {n}, late', ahead')
          BY <1>1, <1>4, <1>5, <2>1 DEF AllBefore
        <4>2. InLine(<<e>>, late', ahead')
          BY <1>2, InLineShort
        <4>3. AllBefore(EventsIn(up[ws]), EventsIn(<<e>>), late', ahead') /\ InLine(up[ws], late', ahead')
          BY <1>2, <2>1, <2>3, <4>1
        <4>4. InLine(up[ws] \o <<e>>, late', ahead')
          BY <1>2, <3>3, <4>2, <4>3, InLineConcat
        <4> QED  BY <3>2, <4>4
      <3>7. \A s \in Sockets : InLine(up'[s], late', ahead')
        BY <2>3, <3>2, <3>6
      <3>8. \A s, t \in Sockets : s # t => EventsIn(up'[s]) \cap EventsIn(up'[t]) = {}
        <4>1. \A t \in Sockets : n \notin EventsIn(up[t])
          BY <1>3, <1>4
        <4>2. \A s, t \in Sockets : s # t => EventsIn(up[s]) \cap EventsIn(up[t]) = {}
          BY <1>1 DEF Lines
        <4>3. \A s \in Sockets : EventsIn(up'[s]) = IF s = ws THEN EventsIn(up[ws]) \cup {n} ELSE EventsIn(up[s])
          BY <3>2, <3>4
        <4> QED  BY <4>1, <4>2, <4>3
      <3>9. \A f \in EventsIn(queue) : Before(n, f, late', ahead')
        <4>1. CASE st = "connected"
          <5>1. queue = <<>>
            BY <1>7, <4>1 DEF OrderInv, Wires
          <5> QED  BY <5>1, EventsOfNone
        <4>2. CASE st # "connected"
          BY <1>3, <1>4, <2>1, <4>2 DEF Before
        <4> QED  BY <4>1, <4>2
      <3>10. AllBefore(Stored', OnWire' \cup EventsIn(queue'), late', ahead')
        BY <1>1, <1>4, <1>5, <1>6, <2>1, <2>2, <3>5 DEF Lines, AllBefore
      <3>11. AllBefore(OnWire', EventsIn(queue'), late', ahead')
        BY <1>1, <2>1, <2>2, <3>5, <3>9 DEF Lines, AllBefore
      <3>12. lost' \cap (Stored' \cup OnWire' \cup EventsIn(queue')) = {}
        BY <1>1, <1>3, <1>4, <1>6, <2>1, <3>1, <3>5 DEF Lines
      <3>13. StoredInLine' /\ QueueSorted'
        BY <1>1, <2>1, <2>2 DEF Lines, StoredInLine, QueueSorted
      <3> QED  BY <3>7, <3>8, <3>10, <3>11, <3>12, <3>13 DEF Lines
    <2> QED  BY <2>4, <2>5
  <1>8. CASE ~Usable
    <2>1. /\ UNCHANGED <<up, ahead>>
          /\ queue' = IF Len(q) > MaxQueue THEN Tail(q) ELSE q
          /\ lost' = IF Len(q) > MaxQueue THEN lost \cup {Head(q).of} ELSE lost
      BY <1>8 DEF Publish, e, n
    <2>2. /\ q \in Seq(Messages) /\ Len(q) = Len(queue) + 1 /\ Len(queue) \in Nat
          /\ EventsIn(q) = EventsIn(queue) \cup {n}
          /\ DOMAIN queue = 1..Len(queue) /\ DOMAIN q = 1..(Len(queue) + 1)
          /\ q[Len(queue) + 1] = e /\ \A i \in DOMAIN queue : q[i] = queue[i]
      <3>1. queue \in Seq(Messages)
        BY QueueTyped
      <3>2. q \in Seq(Messages) /\ Len(q) = Len(queue) + 1 /\ EventsIn(q) = EventsIn(queue) \cup {n}
        BY <1>2, <3>1, EventsOfAppend
      <3> QED  BY <1>2, <3>1, <3>2, AppendProperties, LenProperties
    <2>3. \A i \in DOMAIN queue : queue[i].kind = "event" /\ queue[i].of \in EventsIn(queue)
      <3>0. \A i \in DOMAIN queue : queue[i] \in EventMessages
        BY ElementOfSeq, LenProperties DEF TypeOK
      <3>1. \A i \in DOMAIN queue : queue[i].kind = "event"
        BY <3>0 DEF EventMessages
      <3> QED  BY <3>1 DEF EventsIn
    <2> HIDE DEF q
    <2>4. \A i, j \in DOMAIN q : i < j => q[i].of < q[j].of
      <3>1. ASSUME NEW i \in DOMAIN q, NEW j \in DOMAIN q, i < j PROVE q[i].of < q[j].of
        <4>1. i \in DOMAIN queue /\ q[i] = queue[i]
          BY <2>2, <3>1
        <4>2. CASE j = Len(queue) + 1
          BY <1>2, <1>3, <1>4, <2>2, <2>3, <4>1, <4>2
        <4>3. CASE j # Len(queue) + 1
          <5>1. j \in DOMAIN queue /\ q[j] = queue[j]
            BY <2>2, <4>3
          <5> QED  BY <1>1, <3>1, <4>1, <5>1 DEF Lines, QueueSorted
        <4> QED  BY <4>2, <4>3
      <3> QED  BY <3>1
    <2>5. /\ q # <<>> /\ Len(q) \in Nat /\ Len(q) >= 1 /\ DOMAIN q = 1..Len(q)
          /\ Head(q) = q[1] /\ DOMAIN Tail(q) = 1..(Len(q) - 1)
          /\ \A i \in 1..(Len(q) - 1) : Tail(q)[i] = q[i + 1]
          /\ \A i \in DOMAIN q : q[i].kind = "event" /\ q[i].of \in EventsIn(q)
          /\ EventsIn(Tail(q)) \subseteq EventsIn(q)
      <3>1. q # <<>>
        BY <2>2
      <3>2. \A i \in DOMAIN q : i \in DOMAIN queue \/ i = Len(queue) + 1
        BY <2>2
      <3>3. \A i \in DOMAIN q : q[i].kind = "event"
        BY <1>2, <2>2, <2>3, <3>2
      <3>4. \A i \in DOMAIN q : q[i].of \in EventsIn(q)
        BY <3>3 DEF EventsIn
      <3>5. EventsIn(Tail(q)) \subseteq EventsIn(q)
        BY <2>2, <3>1, EventsOfTail
      <3> QED  BY <2>2, <3>1, <3>3, <3>4, <3>5, HeadTailProperties, LenProperties
    <2>6. QueueSorted'
      <3>1. CASE queue' = q
        BY <2>4, <3>1 DEF QueueSorted
      <3>2. CASE queue' = Tail(q)
        <4>1. ASSUME NEW i \in DOMAIN Tail(q), NEW j \in DOMAIN Tail(q), i < j
              PROVE  Tail(q)[i].of < Tail(q)[j].of
          <5>1. /\ i + 1 \in DOMAIN q /\ j + 1 \in DOMAIN q /\ i + 1 < j + 1
                /\ Tail(q)[i] = q[i + 1] /\ Tail(q)[j] = q[j + 1]
            BY <2>5, <4>1
          <5> QED  BY <2>4, <5>1
        <4> QED  BY <3>2, <4>1 DEF QueueSorted
      <3> QED  BY <2>1, <3>1, <3>2
    <2>7. EventsIn(queue') \subseteq EventsIn(queue) \cup {n}
      BY <2>1, <2>2, <2>5
    <2>8. lost' \cap EventsIn(queue') = {} /\ lost' \subseteq lost \cup EventsIn(queue) \cup {n}
      <3>1. lost \cap (EventsIn(queue) \cup {n}) = {}
        BY <1>1, <1>3, <1>4 DEF Lines
      <3>2. CASE Len(q) > MaxQueue
        <4>1. Head(q).of \notin EventsIn(Tail(q))
          <5>1. SUFFICES ASSUME NEW i \in DOMAIN Tail(q), Tail(q)[i].of = Head(q).of PROVE FALSE
            BY DEF EventsIn
          <5>2. i + 1 \in DOMAIN q /\ 1 \in DOMAIN q /\ 1 < i + 1 /\ q[i + 1].of = q[1].of
            BY <2>5, <5>1
          <5>3. q[1].of < q[1].of /\ q[1].of \in EventsIn(q)
            BY <2>4, <2>5, <5>2
          <5>4. q[1].of \in Nat
            BY <1>1, <1>3, <1>4, <2>2, <5>3
          <5> QED  BY <5>3, <5>4
        <4>2. Head(q).of \in EventsIn(q)
          BY <2>5
        <4> QED  BY <2>1, <2>2, <2>5, <3>1, <3>2, <4>1, <4>2
      <3>3. CASE ~(Len(q) > MaxQueue)
        BY <2>1, <2>2, <3>1, <3>3
      <3> QED  BY <3>2, <3>3
    <2>9. OnWire' = OnWire
      BY <2>1 DEF OnWire
    <2>10. AllBefore(Stored', OnWire' \cup EventsIn(queue'), late', ahead')
           /\ AllBefore(OnWire', EventsIn(queue'), late', ahead')
      BY <1>1, <1>4, <1>5, <1>6, <2>1, <2>7, <2>9 DEF Lines, AllBefore
    <2>11. lost' \cap (Stored' \cup OnWire') = {}
      <3>1. (Stored \cup OnWire) \cap (lost \cup EventsIn(queue) \cup {n}) = {}
        BY <1>1, <1>3, <1>4 DEF Lines, AllBefore, Before
      <3> QED  BY <1>6, <2>8, <2>9, <3>1
    <2>12. StoredInLine' /\ \A s \in Sockets : InLine(up'[s], late', ahead')
      BY <1>1, <2>1 DEF Lines, StoredInLine
    <2>13. \A s, t \in Sockets : s # t => EventsIn(up'[s]) \cap EventsIn(up'[t]) = {}
      BY <1>1, <2>1 DEF Lines
    <2> QED  BY <2>6, <2>8, <2>10, <2>11, <2>12, <2>13 DEF Lines
  <1> QED  BY <1>7, <1>8

(***************************************************************************)
(* The order is kept by every step                                         *)
(***************************************************************************)

LEMMA ClientLines ==
    ASSUME TypeOK, SocketsInv, OrderInv,
           \/ RetryFires \/ AuthTimeout \/ Overtake \/ MissedBeats \/ Shutdown
           \/ \E s \in Sockets : Opened(s) \/ OpenTimeout(s) \/ Closed(s)
           \/ \E s \in Sockets : ClientReceives(s)
    PROVE  Lines'
  <1>0. Lines /\ late \in BOOLEAN /\ up \in Links
    BY DEF OrderInv, TypeOK, Links
  <1>1. ASSUME Retry, late' \in BOOLEAN, late => late' PROVE Lines'
    <2>1. UNCHANGED <<stored, ahead>>
      BY <1>1 DEF Retry, server
    <2>2. CASE shut \/ Rearm
      <3>1. UNCHANGED <<queue, up, lost>>
        BY <1>1, <2>2 DEF Retry, Rearm
      <3> QED  BY <1>0, <1>1, <2>1, <3>1, StillLines
    <2>3. CASE Dial
      <3>1. PICK s \in Sockets : sv[s] = "free" /\ up' = [up EXCEPT ![s] = <<>>]
        BY <2>3 DEF Dial
      <3>2. up' = up
        BY <3>1 DEF SocketsInv, TypeOK
      <3>3. UNCHANGED <<queue, lost>>
        BY <2>3 DEF Dial
      <3> QED  BY <1>0, <1>1, <2>1, <3>2, <3>3, StillLines
    <2>4. CASE Arrived
      <3>1. Flush
        BY <2>4 DEF Arrived
      <3> QED  BY <1>1, <2>1, <3>1, FlushKeeps
    <2> QED  BY <1>1, <2>2, <2>3, <2>4 DEF Retry
  <1>2. ASSUME GiveUpAuth, late' \in BOOLEAN, late => late' PROVE Lines'
    <2>1. UNCHANGED <<stored, up, queue, lost, ahead>>
      BY <1>2 DEF GiveUpAuth, server
    <2> QED  BY <1>0, <1>2, <2>1, StillLines
  <1>3. ASSUME NEW s \in Sockets, GiveUpDial(s), late' \in BOOLEAN, late => late' PROVE Lines'
    <2>1. UNCHANGED <<stored, up, queue, lost, ahead>>
      BY <1>3 DEF GiveUpDial, server
    <2> QED  BY <1>0, <1>3, <2>1, StillLines
  <1>4. CASE Overtake
    <2>1. late' = TRUE
      BY <1>4 DEF Overtake
    <2> QED  BY <1>1, <1>2, <1>3, <1>4, <2>1 DEF Overtake
  <1>5. CASE MissedBeats \/ \E s \in Sockets : Closed(s)
    <2>1. UNCHANGED <<stored, up, queue, lost, ahead, late>>
      BY <1>5 DEF MissedBeats, Closed, client, server
    <2> QED  BY <1>0, <2>1, StillLines
  <1>6. CASE Shutdown
    <2>1. queue' = <<>> /\ lost' = lost \cup EventsIn(queue) /\ UNCHANGED <<stored, up, ahead, late>>
      BY <1>6 DEF Shutdown, server
    <2>2. EventsIn(queue') = {} /\ OnWire' = OnWire
      BY <2>1, EventsOfNone DEF OnWire
    <2>3. EventsIn(queue) \cap (Stored \cup OnWire) = {}
      BY <1>0 DEF Lines, AllBefore, Before
    <2>4. lost' \cap (Stored \cup OnWire' \cup EventsIn(queue')) = {}
      BY <1>0, <2>1, <2>2, <2>3 DEF Lines
    <2>5. Shorter
      BY <1>0, <2>1, <2>4 DEF Shorter, Lines
    <2> QED  BY <1>0, <2>1, <2>5, ShorterKeeps
  <1>7. ASSUME NEW s \in Sockets, Opened(s) PROVE Lines'
    <2> DEFINE m == Msg("auth", NoSocket)
    <2>1. UNCHANGED <<stored, queue, ahead, late>>
      BY <1>7 DEF Opened, server
    <2>2. m \in Messages /\ m.kind # "event"
      BY Letters DEF Letter
    <2>3. CASE ws = s
      <3>1. up' = [up EXCEPT ![s] = <<m>>] /\ lost' = lost /\ up[s] = <<>>
        BY <1>7, <2>3 DEF Opened, SocketsInv
      <3>2. EventsIn(<<m>>) = {} /\ EventsIn(up[s]) = {} /\ InLine(<<m>>, late, ahead)
        BY <2>2, <3>1, EventsOfOne, EventsOfNone, InLineShort
      <3>3. \A t \in Sockets : EventsIn(up'[t]) = EventsIn(up[t]) /\ InLine(up'[t], late, ahead)
        BY <1>0, <3>1, <3>2 DEF Links, Lines
      <3>4. OnWire' = OnWire
        BY <3>3 DEF OnWire
      <3>5. Shorter
        BY <1>0, <2>1, <3>1, <3>3, <3>4 DEF Shorter, Lines
      <3> QED  BY <1>0, <2>1, <3>5, ShorterKeeps
    <2>4. CASE ws # s
      <3>1. SendRaw(m)
        BY <1>7, <2>4 DEF Opened
      <3> QED  BY <1>0, <2>1, <2>2, <3>1, RawKeeps
    <2> QED  BY <2>3, <2>4
  <1>8. ASSUME NEW s \in Sockets, ClientReceives(s) PROVE Lines'
    <2>1. CASE Challenged(s)
      <3>1. down[s] # <<>> /\ First(s).kind = "challenge" /\ First(s) \in Messages
        BY <2>1, TailTyped DEF Challenged, Receives, First, TypeOK, Links
      <3>2. Msg("answer", First(s).of) \in Messages /\ Msg("answer", First(s).of).kind # "event"
        BY <3>1, Letters DEF Letter
      <3>3. SendRaw(Msg("answer", First(s).of)) /\ UNCHANGED <<stored, queue, ahead, late>>
        BY <2>1 DEF Challenged, client, server
      <3> QED  BY <1>0, <3>2, <3>3, RawKeeps
    <2>2. CASE Succeeds(s)
      <3>1. Flush /\ UNCHANGED <<stored, ahead, late>>
        BY <2>2 DEF Succeeds, server
      <3> QED  BY <1>0, <3>1, FlushKeeps
    <2>3. CASE Denied(s) \/ DeniedForGood(s) \/ ToldToLeave(s)
      <3>1. UNCHANGED <<stored, up, queue, lost, ahead, late>>
        BY <2>3 DEF Denied, DeniedForGood, ToldToLeave, server
      <3> QED  BY <1>0, <3>1, StillLines
    <2> QED  BY <1>8, <2>1, <2>2, <2>3 DEF ClientReceives
  <1>9. ASSUME late' = late PROVE late' \in BOOLEAN /\ (late => late')
    BY <1>0, <1>9
  <1>10. CASE RetryFires
    <2>1. Retry /\ late' = late
      BY <1>10 DEF RetryFires
    <2> QED  BY <1>1, <1>9, <2>1
  <1>11. CASE AuthTimeout
    <2>1. GiveUpAuth /\ late' = late
      BY <1>11 DEF AuthTimeout
    <2> QED  BY <1>2, <1>9, <2>1
  <1>12. ASSUME NEW s \in Sockets, OpenTimeout(s) PROVE Lines'
    <2>1. GiveUpDial(s) /\ late' = late
      BY <1>12 DEF OpenTimeout
    <2> QED  BY <1>3, <1>9, <2>1
  <1> QED  BY <1>4, <1>5, <1>6, <1>7, <1>8, <1>10, <1>11, <1>12

\* A letter is taken off socket s.
LEMMA LetterHeard ==
    ASSUME TypeOK, Lines, NEW s \in Sockets, up[s] # <<>>, Head(up[s]).kind # "event",
           up' = [up EXCEPT ![s] = Tail(@)], UNCHANGED <<stored, queue, lost, ahead, late>>
    PROVE  Lines'
  <1>1. late \in BOOLEAN /\ up \in Links /\ up[s] \in Seq(Messages)
    BY DEF TypeOK, Links
  <1>2. EventsIn(Tail(up[s])) \subseteq EventsIn(up[s]) /\ InLine(Tail(up[s]), late, ahead)
    BY <1>1, EventsOfTail, InLineTail DEF Lines
  <1>3. \A t \in Sockets : EventsIn(up'[t]) \subseteq EventsIn(up[t]) /\ InLine(up'[t], late, ahead)
    BY <1>1, <1>2 DEF Links, Lines
  <1>4. OnWire' = OnWire
    BY TakenOff
  <1>5. Shorter
    BY <1>3, <1>4 DEF Shorter, Lines
  <1> QED  BY <1>1, <1>5, ShorterKeeps

LEMMA ServerLines ==
    ASSUME TypeOK, SocketsInv, OrderInv,
           \/ Move \/ Revoke \/ Pair
           \/ \E s \in Sockets : \/ Hangup(s) \/ Cut(s) \/ ServerReceives(s)
                                 \/ ServerGoesOn(s) \/ ServerFails(s)
    PROVE  Lines'
  <1>0. Lines /\ late \in BOOLEAN /\ up \in Links
    BY DEF OrderInv, TypeOK, Links
  <1>1. CASE Move \/ Revoke \/ Pair \/ \E s \in Sockets : ServerGoesOn(s) \/ DeclinesAnswer(s)
    <2>1. UNCHANGED <<stored, up, queue, lost, ahead, late>>
      BY <1>1 DEF Move, Revoke, Pair, ServerGoesOn, Proves, Enter, DeclinesAnswer, client, links
    <2> QED  BY <1>0, <2>1, StillLines
  <1>2. ASSUME NEW s \in Sockets, Hangup(s) PROVE Lines'
    <2>1. /\ up' = [up EXCEPT ![s] = <<>>] /\ up[s] = <<>>
          /\ UNCHANGED <<stored, queue, lost, ahead, late>>
      BY <1>2 DEF Hangup, SocketsInv, client
    <2>2. up' = up
      BY <2>1 DEF TypeOK
    <2> QED  BY <1>0, <2>1, <2>2, StillLines
  <1>3. ASSUME NEW s \in Sockets, Cut(s) PROVE Lines'
    <2>1. /\ up' = [up EXCEPT ![s] = <<>>] /\ lost' = lost \cup EventsIn(up[s])
          /\ UNCHANGED <<stored, queue, ahead, late>>
      BY <1>3 DEF Cut, client, server
    <2>2. up'[s] = <<>> /\ \A t \in Sockets \ {s} : up'[t] = up[t]
      BY <1>0, <2>1 DEF Links
    <2>3. \A t \in Sockets : EventsIn(up'[t]) \subseteq EventsIn(up[t]) /\ InLine(up'[t], late, ahead)
      BY <1>0, <2>2, EventsOfNone, InLineShort DEF Lines
    <2>4. EventsIn(up[s]) \subseteq OnWire /\ OnWire' \subseteq OnWire \ EventsIn(up[s])
      <3>1. \A t \in Sockets : EventsIn(up'[t]) \cap EventsIn(up[s]) = {}
        BY <1>0, <2>2, EventsOfNone DEF Lines
      <3> QED  BY <2>3, <3>1 DEF OnWire
    <2>5. OnWire \cap (Stored \cup EventsIn(queue)) = {}
      BY <1>0 DEF Lines, AllBefore, Before
    <2>6. lost' \cap (Stored \cup OnWire' \cup EventsIn(queue')) = {}
      BY <1>0, <2>1, <2>4, <2>5 DEF Lines
    <2>7. Shorter
      BY <2>1, <2>3, <2>6 DEF Shorter
    <2> QED  BY <1>0, <2>1, <2>7, ShorterKeeps
  <1>4. ASSUME NEW s \in Sockets, HearsAuth(s) PROVE Lines'
    <2>1. up[s] # <<>> /\ Head(up[s]).kind # "event" /\ UNCHANGED <<stored, queue, lost, ahead, late>>
      BY <1>4 DEF HearsAuth, Hears, client
    <2>2. CASE device \in {"trusted", "revoking"}
      <3>1. up' = [t \in Sockets |-> Voided(IF t = s THEN Tail(up[s]) ELSE up[t], s)]
        BY <1>4, <2>2 DEF HearsAuth
      <3>2. /\ up[s] \in Seq(Messages) /\ Tail(up[s]) \in Seq(Messages)
            /\ EventsIn(Tail(up[s])) \subseteq EventsIn(up[s]) /\ InLine(Tail(up[s]), late, ahead)
        BY <1>0, <2>1, EventsOfTail, InLineTail DEF Lines, Links
      <3>3. ASSUME NEW t \in Sockets
            PROVE  EventsIn(up'[t]) \subseteq EventsIn(up[t]) /\ InLine(up'[t], late, ahead)
        <4>1. CASE t = s
          <5>1. up'[t] = Voided(Tail(up[s]), s)
            BY <3>1, <4>1
          <5>2. EventsIn(up'[t]) \subseteq EventsIn(Tail(up[s]))
            BY <3>2, <5>1, EventsOfVoided
          <5>3. InLine(up'[t], late, ahead)
            BY <3>2, <5>1, InLineVoided
          <5> QED  BY <3>2, <4>1, <5>2, <5>3
        <4>2. CASE t # s
          <5>1. up'[t] = Voided(up[t], s)
            BY <3>1, <4>2
          <5>2. up[t] \in Seq(Messages) /\ InLine(up[t], late, ahead)
            BY <1>0 DEF Lines, Links
          <5> QED  BY <5>1, <5>2, EventsOfVoided, InLineVoided
        <4> QED  BY <4>1, <4>2
      <3>4. OnWire' \subseteq OnWire
        BY <3>3 DEF OnWire
      <3>5. Shorter
        BY <1>0, <2>1, <3>3, <3>4 DEF Shorter, Lines
      <3> QED  BY <1>0, <2>1, <3>5, ShorterKeeps
    <2>3. CASE device \in {"unpaired", "revoked"}
      <3>1. up' = [up EXCEPT ![s] = Tail(@)]
        BY <1>4, <2>3 DEF HearsAuth
      <3> QED  BY <1>0, <2>1, <3>1, LetterHeard
    <2> QED  BY <2>2, <2>3 DEF TypeOK
  <1>5. ASSUME NEW s \in Sockets, HearsAnswer(s) \/ DeclinesAuth(s) PROVE Lines'
    <2>1. up[s] # <<>> /\ Head(up[s]).kind # "event" /\ UNCHANGED <<stored, queue, lost, ahead, late>>
      BY <1>5 DEF HearsAnswer, DeclinesAuth, Hears, client
    <2>2. up' = [up EXCEPT ![s] = Tail(@)]
      BY <1>5 DEF HearsAnswer, DeclinesAuth
    <2> QED  BY <1>0, <2>1, <2>2, LetterHeard
  <1> QED  BY <1>1, <1>2, <1>3, <1>4, <1>5, EventKeeps DEF ServerReceives, ServerFails

(***************************************************************************)
(* One connection at a time                                                *)
(***************************************************************************)

\* No socket is taken, one that is let go is empty, and nothing is written to
\* a free one.
Untaken ==
    /\ late => late'
    /\ \A s \in Sockets : cl'[s] # "free" => cl[s] # "free"
    /\ \A s \in Sockets : cl'[s] = "free" /\ up[s] = <<>> => up'[s] = <<>>
    /\ \A s \in Sockets : cl'[s] = "free" => cl[s] = "free" \/ up[s] = <<>>

SentAtOnce == Usable /\ st = "connected" => queue = <<>>

LEMMA UntakenKeeps ==
    ASSUME Wires, Untaken, SentAtOnce'
    PROVE  Wires'
  <1>1. \A s \in Sockets : cl'[s] = "free" => up'[s] = <<>>
    BY DEF Wires, Untaken
  <1>2. ~late' => \A s, t \in Sockets : cl'[s] # "free" /\ cl'[t] # "free" => s = t
    BY DEF Wires, Untaken
  <1> QED  BY <1>1, <1>2 DEF Wires, SentAtOnce

\* What is written goes to an open socket.
LEMMA WrittenOpen ==
    ASSUME TypeOK, NEW ms, Usable, Written(ws, ms), NEW s \in Sockets, cl[s] # "open"
    PROVE  up'[s] = up[s]
  BY DEF Written, Usable, TypeOK

LEMMA SendRawOpen ==
    ASSUME TypeOK, NEW m, SendRaw(m), NEW s \in Sockets, cl[s] # "open"
    PROVE  up'[s] = up[s]
  BY WrittenOpen DEF SendRaw

LEMMA FlushOpen ==
    ASSUME TypeOK, Flush
    PROVE  /\ \A s \in Sockets : cl[s] # "open" => up'[s] = up[s]
           /\ Usable => queue' = <<>>
  <1>1. CASE Usable
    BY <1>1, WrittenOpen DEF Flush
  <1>2. CASE ~Usable
    BY <1>2 DEF Flush
  <1> QED  BY <1>1, <1>2

LEMMA ClientWires ==
    ASSUME TypeOK, SocketsInv, OrderInv,
           \/ RetryFires \/ AuthTimeout \/ Overtake \/ MissedBeats \/ Publish \/ Shutdown
           \/ \E s \in Sockets : Opened(s) \/ OpenTimeout(s) \/ Closed(s)
           \/ \E s \in Sockets : ClientReceives(s)
    PROVE  Wires'
  <1>0. /\ Wires /\ SentAtOnce /\ late \in BOOLEAN
        /\ cl \in [Sockets -> {"free", "open", "closing"} \cup Dialing]
    BY DEF OrderInv, Wires, SentAtOnce, TypeOK
  \* A reconnect attempt dials only when nothing is open, or a timer overtook.
  <1>1. ASSUME Retry, late => late', late' \/ ~Underway PROVE Wires'
    <2>1. CASE shut \/ Rearm
      <3>1. UNCHANGED <<queue, up, ws, cl>> /\ (st' = st \/ st' = "reconnecting")
        BY <1>1, <2>1 DEF Retry, Rearm
      <3>2. Untaken /\ SentAtOnce'
        BY <1>0, <1>1, <3>1 DEF Untaken, SentAtOnce, Usable
      <3> QED  BY <1>0, <3>2, UntakenKeeps
    <2>2. CASE Dial
      <3>1. PICK s \in Sockets : cl[s] = "free" /\ cl' = [cl EXCEPT ![s] = "redialing"]
                                 /\ up' = [up EXCEPT ![s] = <<>>]
        BY <2>2 DEF Dial
      <3>2. st' = "connecting" /\ st # "connected"
        BY <2>2 DEF Dial
      <3>3. \A t \in Sockets : cl'[t] = "free" => up'[t] = <<>>
        BY <1>0, <3>1 DEF Wires, TypeOK
      <3>4. ~late' => \A t \in Sockets : cl[t] = "free"
        BY <1>1, <3>2 DEF Underway
      <3>5. ~late' => \A t \in Sockets : cl'[t] # "free" => t = s
        BY <1>0, <3>1, <3>4
      <3> QED  BY <3>2, <3>3, <3>5 DEF Wires
    <2>3. CASE Arrived
      <3>1. Flush /\ UNCHANGED <<ws, cl>>
        BY <2>3 DEF Arrived
      <3>2. SentAtOnce'
        BY <3>1, FlushOpen DEF SentAtOnce, Usable
      <3>3. Untaken
        BY <1>0, <1>1, <3>1, FlushOpen DEF Untaken
      <3> QED  BY <1>0, <3>2, <3>3, UntakenKeeps
    <2> QED  BY <1>1, <2>1, <2>2, <2>3 DEF Retry
  <1>2. ASSUME CloseCurrent, up' = up, late => late' PROVE Wires'
    <2>1. ~Usable' /\ \A s \in Sockets : (cl'[s] = "free") <=> (cl[s] = "free")
      BY <1>0, <1>2 DEF CloseCurrent, Usable, Dialing
    <2> QED  BY <1>0, <1>2, <2>1, UntakenKeeps DEF Untaken, SentAtOnce
  <1>3. ASSUME NEW s \in Sockets, GiveUpDial(s), late => late' PROVE Wires'
    <2>1. /\ st' = "connected" => st = "connected"
          /\ cl[s] \in Dialing /\ cl' = [cl EXCEPT ![s] = "closing"] /\ UNCHANGED <<up, ws, queue>>
      BY <1>3 DEF GiveUpDial, Dropped, Reconnect
    <2>2. \A t \in Sockets : (cl'[t] = "free") <=> (cl[t] = "free")
      BY <1>0, <2>1 DEF Dialing
    <2>3. Usable' => Usable
      BY <1>0, <2>1 DEF Usable, Dialing, TypeOK
    <2> QED  BY <1>0, <1>3, <2>1, <2>2, <2>3, UntakenKeeps DEF Untaken, SentAtOnce
  <1>4. CASE Overtake
    <2>1. late' = TRUE
      BY <1>4 DEF Overtake
    <2>2. ASSUME GiveUpAuth PROVE Wires'
      BY <1>2, <2>1, <2>2 DEF GiveUpAuth, Rejected
    <2> QED  BY <1>1, <1>3, <1>4, <2>1, <2>2 DEF Overtake
  <1>5. CASE RetryFires
    <2>1. Retry /\ late' = late /\ ~Underway
      BY <1>5 DEF RetryFires
    <2> QED  BY <1>1, <2>1
  <1>6. CASE AuthTimeout
    <2>1. CloseCurrent /\ up' = up /\ late' = late
      BY <1>6 DEF AuthTimeout, GiveUpAuth, Rejected
    <2> QED  BY <1>2, <2>1
  <1>7. ASSUME NEW s \in Sockets, OpenTimeout(s) PROVE Wires'
    <2>1. GiveUpDial(s) /\ late' = late
      BY <1>7 DEF OpenTimeout
    <2> QED  BY <1>3, <2>1
  <1>8. CASE MissedBeats
    <2>1. Usable /\ cl' = [cl EXCEPT ![ws] = "closing"] /\ UNCHANGED <<up, ws, late>>
      BY <1>8 DEF MissedBeats, client
    <2>2. ~Usable' /\ \A s \in Sockets : (cl'[s] = "free") <=> (cl[s] = "free")
      BY <1>0, <2>1 DEF Usable, TypeOK
    <2> QED  BY <1>0, <2>1, <2>2, UntakenKeeps DEF Untaken, SentAtOnce
  <1>9. CASE Publish
    <2>1. UNCHANGED <<st, ws, cl, late>>
      BY <1>9 DEF Publish
    <2>2. \A s \in Sockets : cl[s] # "open" => up'[s] = up[s]
      <3>1. CASE Usable
        <4>1. Written(ws, <<Msg("event", published + 1)>>)
          BY <1>9, <3>1 DEF Publish
        <4> QED  BY <3>1, <4>1, WrittenOpen
      <3>2. CASE ~Usable
        BY <1>9, <3>2 DEF Publish
      <3> QED  BY <3>1, <3>2
    <2>3. Usable => queue' = queue
      BY <1>9 DEF Publish
    <2>4. Untaken /\ SentAtOnce'
      BY <1>0, <2>1, <2>2, <2>3 DEF Untaken, SentAtOnce, Usable
    <2> QED  BY <1>0, <2>4, UntakenKeeps
  <1>10. CASE Shutdown
    <2>1. CloseCurrent /\ UNCHANGED <<up, late>>
      BY <1>10 DEF Shutdown
    <2> QED  BY <1>2, <2>1
  <1>11. ASSUME NEW s \in Sockets, Opened(s) PROVE Wires'
    <2>1. /\ cl[s] \in Dialing /\ cl' = [cl EXCEPT ![s] = "open"] /\ late' = late
          /\ st' \in {"authenticating", "reconnecting"}
      BY <1>11 DEF Opened, Reconnect
    <2>2. \A t \in Sockets : (cl'[t] = "free") <=> (cl[t] = "free")
      BY <1>0, <2>1 DEF Dialing
    <2>3. \A t \in Sockets : cl[t] = "free" => up'[t] = up[t]
      <3>1. CASE ws = s
        <4>1. up' = [up EXCEPT ![s] = <<Msg("auth", NoSocket)>>]
          BY <1>11, <3>1 DEF Opened
        <4>2. cl[s] # "free"
          BY <2>1 DEF Dialing
        <4> QED  BY <4>1, <4>2 DEF TypeOK
      <3>2. CASE ws # s
        <4>1. SendRaw(Msg("auth", NoSocket))
          BY <1>11, <3>2 DEF Opened
        <4> QED  BY <4>1, SendRawOpen
      <3> QED  BY <3>1, <3>2
    <2>4. Untaken /\ SentAtOnce'
      BY <2>1, <2>2, <2>3 DEF Untaken, SentAtOnce
    <2> QED  BY <1>0, <2>4, UntakenKeeps
  <1>12. ASSUME NEW s \in Sockets, Closed(s) PROVE Wires'
    <2>1. /\ cl' = [cl EXCEPT ![s] = "free"] /\ UNCHANGED <<up, late>> /\ st' # "connected"
          /\ s \in cut \/ up[s] = <<>>
      BY <1>12 DEF Closed, Dropped, Reconnect
    <2>2. up[s] = <<>>
      BY <2>1 DEF SocketsInv
    <2>3. Untaken /\ SentAtOnce'
      BY <1>0, <2>1, <2>2 DEF Untaken, SentAtOnce
    <2> QED  BY <1>0, <2>3, UntakenKeeps
  <1>13. ASSUME NEW s \in Sockets, ClientReceives(s) PROVE Wires'
    <2>1. CASE Challenged(s)
      <3>1. SendRaw(Msg("answer", First(s).of)) /\ UNCHANGED <<st, ws, queue, cl, late>>
        BY <2>1 DEF Challenged, client
      <3>2. \A t \in Sockets : cl[t] # "open" => up'[t] = up[t]
        BY <3>1, SendRawOpen
      <3>3. Untaken /\ SentAtOnce'
        BY <1>0, <3>1, <3>2 DEF Untaken, SentAtOnce, Usable
      <3> QED  BY <1>0, <3>3, UntakenKeeps
    <2>2. CASE Succeeds(s)
      <3>1. Flush /\ UNCHANGED <<ws, cl, late>>
        BY <2>2 DEF Succeeds
      <3>2. Untaken /\ SentAtOnce'
        BY <1>0, <3>1, FlushOpen DEF Untaken, SentAtOnce, Usable
      <3> QED  BY <1>0, <3>2, UntakenKeeps
    <2>3. CASE Denied(s) \/ DeniedForGood(s)
      <3>1. CloseCurrent /\ UNCHANGED <<up, late>>
        BY <2>3 DEF Denied, DeniedForGood, Rejected
      <3> QED  BY <1>2, <3>1
    <2>4. CASE ToldToLeave(s)
      <3>1. UNCHANGED <<st, ws, queue, cl, up, late>>
        BY <2>4 DEF ToldToLeave
      <3>2. Untaken /\ SentAtOnce'
        BY <1>0, <3>1 DEF Untaken, SentAtOnce, Usable
      <3> QED  BY <1>0, <3>2, UntakenKeeps
    <2> QED  BY <1>13, <2>1, <2>2, <2>3, <2>4 DEF ClientReceives
  <1> QED  BY <1>4, <1>5, <1>6, <1>7, <1>8, <1>9, <1>10, <1>11, <1>12, <1>13

Unwritten == \A t \in Sockets : up[t] = <<>> => up'[t] = <<>>

LEMMA ServerWires ==
    ASSUME TypeOK, OrderInv,
           \/ Move \/ Revoke \/ Pair
           \/ \E s \in Sockets : \/ Hangup(s) \/ Cut(s) \/ ServerReceives(s)
                                 \/ ServerGoesOn(s) \/ ServerFails(s)
    PROVE  Wires'
  <1>0. Wires /\ SentAtOnce /\ up \in Links
    BY DEF OrderInv, Wires, SentAtOnce, TypeOK, Links
  <1>1. UNCHANGED <<st, ws, queue, cl, late>>
    BY ClientLeft DEF client
  \* Nothing is written to the control plane.
  <1>2. Unwritten
    <2>1. CASE Move \/ Revoke \/ Pair \/ \E s \in Sockets : ServerGoesOn(s) \/ DeclinesAnswer(s)
      BY <2>1 DEF Unwritten, Move, Revoke, Pair, ServerGoesOn, Proves, Enter, DeclinesAnswer, links
    <2>2. ASSUME NEW s \in Sockets, Hangup(s) \/ Cut(s) PROVE Unwritten
      <3>1. up' = [up EXCEPT ![s] = <<>>]
        BY <2>2 DEF Hangup, Cut
      <3> QED  BY <1>0, <3>1 DEF Unwritten, Links
    <2>3. ASSUME NEW s \in Sockets, up[s] # <<>>, up' = [up EXCEPT ![s] = Tail(@)] PROVE Unwritten
      BY <1>0, <2>3 DEF Unwritten, Links
    <2>4. ASSUME NEW s \in Sockets, HearsAuth(s) PROVE Unwritten
      <3>1. up[s] # <<>>
        BY <2>4 DEF HearsAuth, Hears
      <3>2. CASE device \in {"trusted", "revoking"}
        <4>1. up' = [t \in Sockets |-> Voided(IF t = s THEN Tail(up[s]) ELSE up[t], s)]
          BY <2>4, <3>2 DEF HearsAuth
        <4>2. ASSUME NEW t \in Sockets, up[t] = <<>> PROVE up'[t] = <<>>
          <5>1. up'[t] = Voided(up[t], s)
            BY <3>1, <4>1, <4>2
          <5> QED  BY <1>0, <4>2, <5>1, EventsOfVoided DEF Links
        <4> QED  BY <4>2 DEF Unwritten
      <3>3. CASE device \in {"unpaired", "revoked"}
        <4>1. up' = [up EXCEPT ![s] = Tail(@)]
          BY <2>4, <3>3 DEF HearsAuth
        <4> QED  BY <2>3, <3>1, <4>1
      <3> QED  BY <3>2, <3>3 DEF TypeOK
    <2>5. ASSUME NEW s \in Sockets, HearsAnswer(s) \/ HearsEvent(s) \/ DeclinesAuth(s) \/ LosesEvent(s)
          PROVE  Unwritten
      <3>1. up[s] # <<>> /\ up' = [up EXCEPT ![s] = Tail(@)]
        BY <2>5 DEF HearsAnswer, HearsEvent, DeclinesAuth, LosesEvent, Hears
      <3> QED  BY <2>3, <3>1
    <2> QED  BY <2>1, <2>2, <2>4, <2>5 DEF ServerReceives, ServerFails
  <1>3. Untaken /\ SentAtOnce'
    BY <1>0, <1>1, <1>2 DEF Unwritten, Untaken, SentAtOnce, Usable
  <1> QED  BY <1>0, <1>3, UntakenKeeps

LEMMA InitOrder == Init => OrderInv
  <1>1. SUFFICES ASSUME Init PROVE OrderInv
    OBVIOUS
  <1>2. /\ queue = <<>> /\ stored = <<>> /\ lost = {} /\ \A s \in Sockets : up[s] = <<>>
        /\ \A s \in Sockets : cl[s] # "free" => s = ws
    BY <1>1 DEF Init
  <1>3. Stored = {} /\ OnWire = {} /\ EventsIn(queue) = {} /\ \A s \in Sockets : EventsIn(up[s]) = {}
    BY <1>2, EventsOfNone DEF Stored, OnWire
  <1>4. \A s \in Sockets : InLine(up[s], late, ahead)
    BY <1>2, InLineShort
  <1>5. StoredInLine /\ QueueSorted
    BY <1>2 DEF StoredInLine, QueueSorted
  <1>6. Lines
    BY <1>3, <1>4, <1>5 DEF Lines, AllBefore
  <1>7. Wires
    BY <1>2 DEF Wires
  <1> QED  BY <1>6, <1>7 DEF OrderInv

\* No event is stored twice or after it was given up, and events are stored in
\* the order they were published unless a timer overtook a connection or the
\* event was sent before the client was connected (flushQueue, the event branch
\* of handleSocketMessage).
THEOREM StoredOnceInOrderAlways == Spec => []StoredOnceInOrder
  <1>1. Init => OrderInv
    BY InitOrder
  <1>2. TunnelInv /\ EveryEventAccountedFor /\ OrderInv /\ [Next]_vars => OrderInv'
    <2>1. SUFFICES ASSUME TunnelInv, EveryEventAccountedFor, OrderInv, [Next]_vars PROVE OrderInv'
      OBVIOUS
    <2>2. TypeOK /\ SocketsInv /\ Placed \subseteq 1..published
      BY <2>1 DEF TunnelInv, EveryEventAccountedFor, Placed, Held
    <2>3. CASE UNCHANGED vars
      <3>1. /\ UNCHANGED <<stored, up, queue, lost, ahead, late, st, ws, cl>>
        BY <2>3 DEF vars, client, links, server
      <3>2. Lines'
        BY <2>1, <2>2, <3>1, StillLines DEF OrderInv, TypeOK
      <3>3. Wires'
        BY <2>1, <3>1 DEF OrderInv, Wires, Usable
      <3> QED  BY <3>2, <3>3 DEF OrderInv
    <2>4. CASE Next
      <3>1. Lines'
        BY <2>1, <2>2, <2>4, Steps, PublishKeeps, ClientLines, ServerLines
      <3>2. Wires'
        BY <2>1, <2>2, <2>4, Steps, ClientWires, ServerWires
      <3> QED  BY <3>1, <3>2 DEF OrderInv
    <2> QED  BY <2>1, <2>3, <2>4
  <1>3. OrderInv => StoredOnceInOrder
    BY DEF OrderInv, Lines, StoredInLine, Before, StoredOnceInOrder
  <1> QED  BY <1>1, <1>2, <1>3, TunnelInvariance, EventsAccountedForAlways, PTL DEF Spec

(***************************************************************************)
(* Never asleep                                                            *)
(***************************************************************************)

\* Unless it was shut down, is about to be, or was sent away, the client is
\* connected or something will call it: a reconnect timer, the handshake's
\* timeout, or a socket that opens or closes.
Awake ==
    \/ shut \/ exiting \/ ~auto
    \/ st = "connected"
    \/ timers > 0 \/ authTimer
    \/ \E s \in Sockets : cl[s] \in Dialing \cup {"closing"}

\* Rejected credentials are never just a state: the runtime was told.
ErrorIsTold == st = "error" => exiting \/ shut

\* A client that says it is connected has a socket that will tell it when it
\* is not.
ConnectedHears == st = "connected" => \E s \in Sockets : cl[s] # "free"

AwakeInv == Awake /\ ErrorIsTold /\ ConnectedHears

LEMMA InitAwake == Init => AwakeInv
  <1> SUFFICES ASSUME Init PROVE AwakeInv
    OBVIOUS
  <1>1. ws \in Sockets /\ cl[ws] = "dialing" /\ st = "connecting"
    BY DEF Init
  <1> QED  BY <1>1 DEF AwakeInv, Awake, ErrorIsTold, ConnectedHears, Dialing

\* A reconnect leaves a timer behind.
LEMMA ReconnectWakes ==
    ASSUME TypeOK, NEW n \in 1..2, Reconnect(n)
    PROVE  timers' > 0 /\ st' \notin {"error", "connected"}
  BY BoundsAssumption DEF Reconnect, TypeOK

LEMMA DroppedWakes ==
    ASSUME TypeOK, Dropped, UNCHANGED auto
    PROVE  (timers' > 0 \/ ~auto') /\ st' \notin {"error", "connected"}
  <1>1. CASE auto
    BY <1>1, ReconnectWakes DEF Dropped
  <1>2. CASE ~auto
    BY <1>2 DEF Dropped
  <1> QED  BY <1>1, <1>2

LEMMA RejectedWakes ==
    ASSUME TypeOK, AwakeInv, NEW fatal \in BOOLEAN, Rejected(fatal), UNCHANGED <<auto, shut>>,
           exiting => exiting', fatal => exiting' \/ shut
    PROVE  AwakeInv'
  <1>1. cl' = cl \/ \E s \in Sockets : cl' = [cl EXCEPT ![s] = "closing"]
    BY DEF Rejected, CloseCurrent, TypeOK
  <1>2. \A s \in Sockets : cl[s] # "free" => cl'[s] # "free"
    BY <1>1 DEF TypeOK
  <1>3. CASE fatal
    BY <1>3 DEF AwakeInv, Awake, ErrorIsTold, ConnectedHears, Rejected
  <1>4. CASE ~fatal /\ shut
    <2>1. UNCHANGED <<st, shut>>
      BY <1>4 DEF Rejected
    <2> QED  BY <2>1, <1>4, <1>2 DEF AwakeInv, Awake, ErrorIsTold, ConnectedHears
  <1>5. CASE ~fatal /\ ~shut
    <2>1. Dropped
      BY <1>5 DEF Rejected
    <2> QED  BY <2>1, DroppedWakes DEF AwakeInv, Awake, ErrorIsTold, ConnectedHears
  <1> QED  BY <1>3, <1>4, <1>5

\* Steps that leave the client and its ends of the sockets alone.
LEMMA StillAwake ==
    ASSUME AwakeInv, UNCHANGED <<st, shut, exiting, timers, authTimer, cl>>, auto' => auto
    PROVE  AwakeInv'
  BY DEF AwakeInv, Awake, ErrorIsTold, ConnectedHears

LEMMA ClientAwake ==
    ASSUME TypeOK, AwakeInv,
           \/ Retry \/ GiveUpAuth \/ MissedBeats \/ Publish \/ Shutdown
           \/ \E s \in Sockets : Opened(s) \/ GiveUpDial(s) \/ Closed(s) \/ ClientReceives(s)
    PROVE  AwakeInv'
  <1>1. CASE Retry
    <2>1. UNCHANGED <<auto, shut, exiting, authTimer>>
      BY <1>1 DEF Retry
    <2>2. CASE shut
      BY <1>1, <2>1, <2>2 DEF Retry, AwakeInv, Awake, ErrorIsTold, ConnectedHears
    <2>3. CASE ~shut /\ Dial
      <3>1. PICK s \in Sockets : cl' = [cl EXCEPT ![s] = "redialing"]
        BY <2>3 DEF Dial
      <3>2. cl'[s] = "redialing" /\ st' = "connecting"
        BY <2>3, <3>1 DEF Dial, TypeOK
      <3> QED  BY <3>2 DEF AwakeInv, Awake, ErrorIsTold, ConnectedHears, Dialing
    <2>4. CASE ~shut /\ Arrived
      <3>1. st = "connected" /\ UNCHANGED <<st, cl>>
        BY <2>4 DEF Arrived
      <3> QED  BY <2>1, <3>1 DEF AwakeInv, Awake, ErrorIsTold, ConnectedHears
    <2>5. CASE ~shut /\ Rearm
      <3>1. UNCHANGED timers /\ timers > 0 /\ st' = "reconnecting"
        BY <1>1, <2>5 DEF Retry, Rearm
      <3> QED  BY <3>1 DEF AwakeInv, Awake, ErrorIsTold, ConnectedHears
    <2> QED  BY <1>1, <2>2, <2>3, <2>4, <2>5 DEF Retry
  <1>2. CASE GiveUpAuth
    <2>1. Rejected(FALSE) /\ UNCHANGED <<auto, shut>> /\ (exiting => exiting')
      BY <1>2 DEF GiveUpAuth
    <2> QED  BY <2>1, RejectedWakes
  <1>3. CASE MissedBeats
    <2>1. UNCHANGED client /\ cl'[ws] = "closing" /\ ws \in Sockets
      BY <1>3 DEF MissedBeats, Usable, TypeOK
    <2>2. UNCHANGED <<st, auto, shut, exiting, timers, authTimer>>
      BY <2>1 DEF client
    <2>3. cl'[ws] \in Dialing \cup {"closing"} /\ cl'[ws] # "free"
      BY <2>1
    <2> QED  BY <2>1, <2>2, <2>3 DEF AwakeInv, Awake, ErrorIsTold, ConnectedHears
  <1>4. CASE Publish
    BY <1>4, StillAwake DEF Publish
  <1>5. CASE Shutdown
    BY <1>5 DEF Shutdown, AwakeInv, Awake, ErrorIsTold, ConnectedHears
  <1>6. ASSUME NEW s \in Sockets, Opened(s) PROVE AwakeInv'
    <2>1. authTimer' /\ st' \notin {"error", "connected"}
      BY <1>6 DEF Opened, Reconnect
    <2> QED  BY <2>1 DEF AwakeInv, Awake, ErrorIsTold, ConnectedHears
  <1>7. ASSUME NEW s \in Sockets, GiveUpDial(s) PROVE AwakeInv'
    <2>1. cl'[s] = "closing"
      BY <1>7 DEF GiveUpDial, TypeOK
    <2>2. \/ st' \notin {"error", "connected"}
          \/ shut /\ UNCHANGED <<st, shut, auto, exiting>>
      BY <1>7 DEF GiveUpDial, Reconnect, Dropped
    <2> QED  BY <2>1, <2>2 DEF AwakeInv, Awake, ErrorIsTold, ConnectedHears
  <1>8. ASSUME NEW s \in Sockets, Closed(s) PROVE AwakeInv'
    <2>1. UNCHANGED <<auto, shut>> /\ (IF shut THEN st' = "idle" /\ UNCHANGED timers ELSE Dropped)
      BY <1>8 DEF Closed
    <2>2. CASE shut
      BY <2>1, <2>2 DEF AwakeInv, Awake, ErrorIsTold, ConnectedHears
    <2>3. CASE ~shut
      <3>1. (timers' > 0 \/ ~auto') /\ st' \notin {"error", "connected"}
        BY <2>1, <2>3, DroppedWakes
      <3> QED  BY <3>1 DEF AwakeInv, Awake, ErrorIsTold, ConnectedHears
    <2> QED  BY <2>2, <2>3
  <1>9. ASSUME NEW s \in Sockets, ClientReceives(s) PROVE AwakeInv'
    <2>1. CASE Challenged(s)
      BY <2>1, StillAwake DEF Challenged, client
    <2>2. CASE Succeeds(s)
      <3>1. st' = "connected" /\ cl[s] # "free" /\ UNCHANGED cl
        BY <2>2 DEF Succeeds, Receives
      <3>2. cl'[s] # "free"
        BY <3>1
      <3> QED  BY <3>1, <3>2 DEF AwakeInv, Awake, ErrorIsTold, ConnectedHears
    <2>3. CASE Denied(s)
      <3>1. Rejected(FALSE) /\ UNCHANGED <<auto, shut>> /\ (exiting => exiting')
        BY <2>3 DEF Denied
      <3> QED  BY <3>1, RejectedWakes
    <2>4. CASE DeniedForGood(s)
      <3>1. Rejected(TRUE) /\ UNCHANGED <<auto, shut>> /\ (exiting => exiting') /\ (exiting' \/ shut)
        BY <2>4 DEF DeniedForGood
      <3> QED  BY <3>1, RejectedWakes
    <2>5. CASE ToldToLeave(s)
      BY <2>5, StillAwake DEF ToldToLeave
    <2> QED  BY <1>9, <2>1, <2>2, <2>3, <2>4, <2>5 DEF ClientReceives
  <1> QED  BY <1>1, <1>2, <1>3, <1>4, <1>5, <1>6, <1>7, <1>8, <1>9

LEMMA ServerAwake ==
    ASSUME AwakeInv,
           \/ Move \/ Revoke \/ Pair
           \/ \E s \in Sockets : \/ Hangup(s) \/ Cut(s) \/ ServerReceives(s)
                                 \/ ServerGoesOn(s) \/ ServerFails(s)
    PROVE  AwakeInv'
  <1>1. UNCHANGED <<client, cl>>
    BY ClientLeft
  <1> QED  BY <1>1, StillAwake DEF client

\* A client that is neither shut down nor sent away never comes to rest while
\* it is not connected: whatever sockets closed, timers fired or answers were
\* denied, in whatever order, a reconnect timer, a handshake's timeout or a
\* socket's own end is still to come; and rejected credentials always reach the
\* runtime (handleWebSocketClose, runReconnectAttempt, handleAuthFailure).
THEOREM NeverAsleep == Spec => []AwakeInv
  <1>1. TypeOK /\ AwakeInv /\ [Next]_vars => AwakeInv'
    <2> SUFFICES ASSUME TypeOK, AwakeInv, [Next]_vars PROVE AwakeInv'
      OBVIOUS
    <2>1. CASE UNCHANGED vars
      BY <2>1, StillAwake DEF vars, client, links
    <2>2. CASE Next
      BY <2>2, Steps, ClientAwake, ServerAwake DEF RetryFires, AuthTimeout, Overtake, OpenTimeout
    <2> QED  BY <2>1, <2>2
  <1> QED  BY <1>1, InitAwake, TypeCorrect, PTL DEF Spec
=============================================================================
