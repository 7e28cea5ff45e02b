--------------------------- MODULE GatewayProofs ---------------------------
(***************************************************************************)
(* Theorems of GatewaySessions, for any number of sessions, connections,   *)
(* lives of the process and faults.                                        *)
(*                                                                         *)
(* The argument follows an interrupted session.  It is in one place: what  *)
(* the running process has to do with (Mine), the journal, or handed over  *)
(* (Handed: a list on its way, a recovery's list, a session that continues *)
(* it).  A question excepts what the process has to do with, and what is   *)
(* handed over leaves the journal, so that nothing is in two of them.      *)
(* The journal is compared with the registry session by session: what is   *)
(* queued does to one what it does whatever the others are.  And a session *)
(* whose start is under way is young or was granted, so that a recovery,   *)
(* during which none ages, finds at work what it excepts.                  *)
(* Last, a session that shows as running without an agent is one whose end *)
(* is being told, or one that the recovery of the last connection has yet  *)
(* to come to.                                                             *)
(***************************************************************************)
EXTENDS GatewaySessions, SequenceTheorems, FiniteSetTheorems, WellFoundedInduction, TLAPS

\* The oldest of some sessions is one of them.
LEMMA MinIsIn ==
    ASSUME NEW D, D \subseteq Sessions, D # {}
    PROVE  Min(D) \in D
  <1> DEFINE T == {1..i : i \in D}
             Less == StrictSubsetOrdering(Sessions)
  <1>1. D \subseteq 1..MaxSessions /\ MaxSessions \in Nat
    BY BoundsAssumption DEF Sessions
  <1>2. T \subseteq FiniteSubsetsOf(Sessions) /\ T # {}
    <2>1. ASSUME NEW i \in D PROVE 1..i \in FiniteSubsetsOf(Sessions)
      <3>1. IsFiniteSet(1..i)
        BY <1>1, FS_Interval
      <3> QED  BY <1>1, <3>1 DEF FiniteSubsetsOf, Sessions
    <2> QED  BY <2>1
  <1>3. IsFiniteSet(Sessions)
    BY <1>1, FS_Interval DEF Sessions
  <1>4. PICK M \in T : \A N \in T : <<N, M>> \notin Less
    <2> HIDE DEF T, Less
    <2>1. IsWellFoundedOn(Less, FiniteSubsetsOf(Sessions))
      BY <1>3, FS_StrictSubsetOrderingWellFounded DEF Less
    <2> QED  BY <1>2, <2>1, WFMin
  <1>5. PICK i \in D : M = 1..i
    BY <1>4
  <1>6. ASSUME NEW j \in D PROVE i <= j
    <2>1. SUFFICES ASSUME j < i PROVE FALSE
      BY <1>1
    <2>2. 1..j \subseteq 1..i /\ 1..j # 1..i /\ 1..i \subseteq Sessions
      BY <1>1, <2>1 DEF Sessions
    <2>3. <<1..j, 1..i>> \in Less
      BY <2>2 DEF StrictSubsetOrdering
    <2> QED  BY <1>4, <1>5, <2>3
  <1> QED  BY <1>6 DEF Min

(***************************************************************************)
(* Types                                                                   *)
(***************************************************************************)

LEMMA Bounds ==
    /\ MaxSessions \in Nat \ {0} /\ MaxAsks \in Nat \ {0}
    /\ MaxLives \in Nat \ {0} /\ MaxFaults \in Nat \ {0}
    /\ NoSession \notin Sessions
  BY BoundsAssumption DEF Sessions, NoSession

LEMMA NotesTyped ==
    /\ \A k \in {"started", "refused", "ended"} : \A s \in Sessions : Note(k, s) \in Notes
    /\ \A k \in Asks : \A l \in SUBSET Sessions : [kind |-> "list", of |-> k, list |-> l] \in Notes
  <1>1. \A k \in {"started", "refused", "ended"} : \A s \in Sessions : Note(k, s) \in Notes
    BY DEF Note, Notes
  <1>2. \A k \in Asks : \A l \in SUBSET Sessions : [kind |-> "list", of |-> k, list |-> l] \in Notes
    BY DEF Notes
  <1> QED  BY <1>1, <1>2

LEMMA NotesFields ==
    ASSUME NEW m \in Notes
    PROVE  /\ m.kind = "list" => m.of \in Asks
           /\ m.kind # "list" => m.of \in Sessions /\ m.list = {}
           /\ m.list \subseteq Sessions
           /\ m.kind \in {"started", "refused", "ended", "list"}
  BY DEF Notes

LEMMA OpsTyped ==
    /\ \A op \in {"record", "remove", "forget"} : \A s \in Sessions : Op(op, s, 0, {}) \in Ops
    /\ \A n \in Asks : \A e \in SUBSET Sessions : Op("take", NoSession, n, e) \in Ops
  <1>1. \A op \in {"record", "remove", "forget"} : \A s \in Sessions : Op(op, s, 0, {}) \in Ops
    BY DEF Op, Ops
  <1>2. \A n \in Asks : \A e \in SUBSET Sessions : Op("take", NoSession, n, e) \in Ops
    BY DEF Op, Ops
  <1> QED  BY <1>1, <1>2

LEMMA OpsFields ==
    ASSUME NEW o \in Ops
    PROVE  /\ o.op \in {"record", "remove", "forget", "take"}
           /\ o.op = "take" => o.n \in Asks /\ o.except \subseteq Sessions
           /\ o.op # "take" => o.of \in Sessions /\ o = Op(o.op, o.of, 0, {})
  BY DEF Ops, Op

\* A message or none is added to the news.
LEMMA ToldTyped ==
    ASSUME TypeOK, NEW m \in Notes
    PROVE  Told(m) \in Seq(Notes)
  <1>1. news \in Seq(Notes) /\ Append(news, m) \in Seq(Notes)
    BY AppendProperties DEF TypeOK
  <1> QED  BY <1>1 DEF Told

LEMMA AppendOp ==
    ASSUME TypeOK, NEW o \in Ops
    PROVE  Append(jq, o) \in Seq(Ops)
  BY AppendProperties DEF TypeOK

LEMMA SetsTyped ==
    ASSUME TypeOK
    PROVE  /\ forget \subseteq Sessions /\ creating \subseteq Sessions /\ agent \subseteq Sessions
           /\ journal \subseteq Sessions /\ young \subseteq Sessions /\ approved \subseteq Sessions
           /\ begun \subseteq Sessions /\ purpose \subseteq Sessions /\ forgotten \subseteq Sessions
           /\ spared \subseteq Sessions /\ Registered \subseteq Sessions /\ Working \subseteq Sessions
  BY DEF TypeOK, Registered, Working

LEMMA UsualRare ==
    ASSUME TypeOK, Usual \/ Rare
    PROVE  faults' \in 0..MaxFaults
  BY Bounds DEF TypeOK, Usual, Rare

LEMMA MayRare ==
    ASSUME TypeOK, NEW e, May(e)
    PROVE  faults' \in 0..MaxFaults /\ up
  BY UsualRare DEF May

LEMMA InitTyped == Init => TypeOK
  <1>1. SUFFICES ASSUME Init PROVE TypeOK
    OBVIOUS
  <1>2. jq \in Seq(Ops) /\ news \in Seq(Notes)
    BY <1>1 DEF Init
  <1>3. call \in [Asks -> Recoveries]
    <2>1. Unused \in Recoveries
      BY DEF Unused, Recoveries, CallStates, NoSession
    <2> QED  BY <1>1, <2>1 DEF Init
  <1>4. /\ lives \in 1..MaxLives /\ asks \in 0..MaxAsks /\ faults \in 0..MaxFaults
    BY <1>1, Bounds DEF Init
  <1>5. reg \in [Sessions -> {"none", "running", "over"}] /\ rec \in [Sessions -> RecordStates]
        /\ resumed \in [Sessions -> Sessions \cup {NoSession}]
    BY <1>1 DEF Init, RecordStates
  <1> QED  BY <1>1, <1>2, <1>3, <1>4, <1>5 DEF Init, TypeOK

LEMMA EndsTyped ==
    ASSUME TypeOK, NEW code \in {"ok", "fatal", "killed"}, Ends(code), faults' \in 0..MaxFaults
    PROVE  TypeOK'
  <1>1. jq' \in Seq(Ops) /\ news' \in Seq(Notes)
    BY DEF Ends
  <1>2. reg' \in [Sessions -> {"none", "running", "over"}]
    BY DEF Ends
  <1>3. {forget, creating, agent, journal, young, approved, begun, purpose, forgotten, spared}'
           \subseteq SUBSET Sessions
    BY SetsTyped DEF Ends, plane
  <1>4. UNCHANGED <<lives, rec, resumed, asks, call>>
    BY DEF Ends, plane
  <1>5. /\ up' = FALSE /\ exit' = code /\ phase' = "running" /\ rt' = "online" /\ starts' = {} /\ hello' = FALSE
        /\ stopper' = "no" /\ aborter' = "no" /\ fataler' = "no" /\ shut' = "no"
    BY DEF Ends
  <1> QED  BY <1>1, <1>2, <1>3, <1>4, <1>5 DEF TypeOK

LEMMA LifecycleTyped ==
    ASSUME TypeOK, Lifecycle
    PROVE  TypeOK'
  <1>1. CASE Stop
    BY <1>1, MayRare DEF Stop, Moved, TypeOK, gateway, links, plane, history
  <1>2. CASE DrainEnds
    BY <1>2, UsualRare DEF DrainEnds, Moved, Caller, Shutting, TypeOK, gateway, links, plane, history
  <1>3. CASE Abort
    BY <1>3, MayRare, SetsTyped DEF Abort, Moved, TypeOK, gateway, links, plane
  <1>4. CASE Forget
    <2>1. forget' \subseteq Sessions /\ jq' \in Seq(Ops)
      <3>1. CASE forget # {}
        <4>1. Min(forget) \in Sessions
          BY <3>1, MinIsIn, SetsTyped
        <4>2. Append(jq, Op("forget", Min(forget), 0, {})) \in Seq(Ops)
          BY <4>1, OpsTyped, AppendOp
        <4> QED  BY <1>4, <3>1, <4>2, SetsTyped DEF Forget
      <3>2. CASE forget = {}
        BY <1>4, <3>2 DEF Forget, TypeOK
      <3> QED  BY <3>1, <3>2
    <2>2. /\ aborter' \in {"no", "forgetting", "closing", "cleaning"} /\ shut' \in {"no", "closing", "done"}
          /\ forgotten' \subseteq Sessions
      BY <1>4, SetsTyped DEF Forget, Caller, Shutting, TypeOK
    <2> QED  BY <1>4, <2>1, <2>2, UsualRare DEF Forget, TypeOK, links, plane
  <1>5. CASE Closed
    BY <1>5, UsualRare DEF Closed, TypeOK, links, plane, history
  <1>6. CASE Finish
    BY <1>6, UsualRare, EndsTyped DEF Finish
  <1>7. CASE Fatal
    <2>1. faults' \in 0..MaxFaults
      BY <1>7, MayRare DEF Fatal
    <2>2. CASE Ends("fatal")
      BY <2>1, <2>2, EndsTyped
    <2>3. CASE ~Ends("fatal")
      BY <1>7, <2>1, <2>3 DEF Fatal, TypeOK, gateway, links, plane, history
    <2> QED  BY <2>2, <2>3
  <1>8. CASE FinishFatal
    BY <1>8, UsualRare, EndsTyped DEF FinishFatal
  <1>9. CASE Kill
    BY <1>9, MayRare, EndsTyped DEF Kill
  <1>10. CASE Boot
    <2>1. lives' \in 1..MaxLives
      BY <1>10, Bounds DEF Boot, TypeOK
    <2> QED  BY <1>10, <2>1, UsualRare DEF Boot, TypeOK, gateway, plane
  <1> QED  BY <1>1, <1>2, <1>3, <1>4, <1>5, <1>6, <1>7, <1>8, <1>9, <1>10 DEF Lifecycle

LEMMA OnGatewayTyped ==
    ASSUME TypeOK, JournalStep \/ \E s \in Sessions : OnGateway(s)
    PROVE  TypeOK'
  <1>1. ASSUME NEW s \in Sessions, StartArrives(s) PROVE TypeOK'
    <2>1. news' \in Seq(Notes)
      <3>1. Told(Note("refused", s)) \in Seq(Notes)
        BY NotesTyped, ToldTyped
      <3> QED  BY <1>1, <3>1 DEF StartArrives, TypeOK
    <2>2. creating' \subseteq Sessions
      BY <1>1, SetsTyped DEF StartArrives
    <2> QED  BY <1>1, <2>1, <2>2, UsualRare DEF StartArrives, TypeOK, process, plane, history
  <1>2. ASSUME NEW s \in Sessions, Created(s) PROVE TypeOK'
    <2>1. Told(Note("started", s)) \in Seq(Notes) /\ Append(jq, Op("record", s, 0, {})) \in Seq(Ops)
      BY NotesTyped, OpsTyped, AppendOp, ToldTyped
    <2> QED  BY <1>2, <2>1, UsualRare, SetsTyped DEF Created, TypeOK, process, plane
  <1>3. ASSUME NEW s \in Sessions, NotCreated(s) PROVE TypeOK'
    <2>1. Told(Note("refused", s)) \in Seq(Notes)
      BY NotesTyped, ToldTyped
    <2> QED  BY <1>3, <2>1, UsualRare, SetsTyped DEF NotCreated, TypeOK, process, plane, history
  <1>4. ASSUME NEW s \in Sessions, Ended(s) PROVE TypeOK'
    <2>1. PICK how \in {"completed", "failed"} : AgentEnds(s, how)
      BY <1>4 DEF Ended
    <2>2. Told(Note("ended", s)) \in Seq(Notes) /\ Append(jq, Op("remove", s, 0, {})) \in Seq(Ops)
      BY NotesTyped, OpsTyped, AppendOp, ToldTyped
    <2>3. news' \in Seq(Notes) /\ jq' \in Seq(Ops) /\ agent' \subseteq Sessions
          /\ reg' \in [Sessions -> {"none", "running", "over"}]
      BY <2>1, <2>2, SetsTyped DEF AgentEnds, TypeOK
    <2> QED  BY <1>4, <2>3, UsualRare DEF Ended, TypeOK, process, plane, history
  <1>5. CASE JournalStep
    <2> DEFINE o == Head(jq)
    <2>1. o \in Ops /\ jq' \in Seq(Ops)
      BY <1>5, HeadTailProperties DEF JournalStep, TypeOK
    <2>2. journal' \subseteq Sessions
      <3>1. /\ journal' = Does(journal, o) /\ o.op \in {"record", "remove", "forget", "take"}
            /\ o.op = "record" => o.of \in Sessions
        BY <1>5, <2>1, OpsFields DEF JournalStep
      <3>2. CASE o.op # "record"
        BY <3>1, <3>2, SetsTyped DEF Does
      <3>3. CASE o.op = "record"
        BY <3>1, <3>3, SetsTyped DEF Does
      <3> QED  BY <3>2, <3>3
    <2>3. news' \in Seq(Notes)
      <3>1. CASE o.op = "take"
        <4>1. o.n \in Asks
          BY <2>1, <3>1, OpsFields
        <4> QED  BY <1>5, <3>1, <4>1, NotesTyped, ToldTyped, SetsTyped DEF JournalStep
      <3>2. CASE o.op # "take"
        BY <1>5, <3>2 DEF JournalStep, TypeOK
      <3> QED  BY <3>1, <3>2
    <2> QED  BY <1>5, <2>1, <2>2, <2>3, UsualRare DEF JournalStep, TypeOK, process, plane, history
  <1> QED  BY <1>1, <1>2, <1>3, <1>4, <1>5 DEF OnGateway

(***************************************************************************)
(* Sessions are numbered as they are created                               *)
(***************************************************************************)

\* The sessions that exist are the first ones.
Numbered == \E c \in Nat : Known = 1..c

LEMMA NewIsUnknown ==
    ASSUME Numbered
    PROVE  New \notin Known /\ New # NoSession /\ Known \cup {New} = 1..New /\ New \in Nat
  <1>1. PICK c \in Nat : Known = 1..c
    BY DEF Numbered
  <1>2. Cardinality(Known) = c
    BY <1>1, FS_Interval
  <1> QED  BY <1>1, <1>2 DEF New, NoSession

LEMMA BeginsTyped ==
    ASSUME TypeOK, NEW n \in Sessions, NEW origin \in Sessions \cup {NoSession}, Begins(n, origin)
    PROVE  /\ resumed' = [resumed EXCEPT ![n] = origin] /\ young' = young \cup {n}
           /\ resumed' \in [Sessions -> Sessions \cup {NoSession}] /\ young' \subseteq Sessions
           /\ rec' \in [Sessions -> RecordStates] /\ starts' \subseteq Sessions
           /\ faults' \in 0..MaxFaults
           /\ rec'[n] \in {"over", "held", "starting"} /\ \A s \in Sessions \ {n} : rec'[s] = rec[s]
           /\ starts' = starts \/ (starts' = starts \cup {n} /\ rec'[n] = "starting")
  <1>1. faults' \in 0..MaxFaults
    BY UsualRare DEF Begins
  <1> QED  BY <1>1, SetsTyped DEF Begins, TypeOK, RecordStates, Terminal

\* A recovery moves on.
LEMMA CallTyped ==
    ASSUME TypeOK, NEW k \in Asks
    PROVE  /\ \A c \in Recoveries : [call EXCEPT ![k] = c] \in [Asks -> Recoveries]
           /\ call[k] \in Recoveries /\ call[k].todo \subseteq Sessions /\ call[k].sweep \subseteq Sessions
           /\ call[k].recovered \subseteq Sessions /\ call[k].active \subseteq Sessions
           /\ call[k].from \in Sessions \cup {NoSession}
  <1>1. call \in [Asks -> Recoveries]
    BY DEF TypeOK
  <1>2. call[k] \in Recoveries
    BY <1>1
  <1>3. \A c \in Recoveries : [call EXCEPT ![k] = c] \in [Asks -> Recoveries]
    BY <1>1
  <1> QED  BY ONLY <1>2, <1>3 DEF Recoveries

LEMMA UnstartedTyped ==
    ASSUME TypeOK, NEW s \in Sessions
    PROVE  /\ Answered(s) \in [Asks -> Recoveries]
           /\ Unstarted(s) => rec' \in [Sessions -> RecordStates] /\ call' \in [Asks -> Recoveries]
  <1>1. Answered(s) \in [Asks -> Recoveries]
    <2>1. ASSUME NEW k \in Asks PROVE [call[k] EXCEPT !.at = "ending"] \in Recoveries
      <3>1. call[k] \in Recoveries /\ "ending" \in CallStates
        BY CallTyped DEF CallStates
      <3> QED  BY ONLY <3>1 DEF Recoveries
    <2>2. \A k \in Asks : call[k] \in Recoveries
      BY CallTyped
    <2> QED  BY <2>1, <2>2 DEF Answered
  <1>2. rec \in [Sessions -> RecordStates] /\ "running" \in RecordStates /\ "over" \in RecordStates
    BY DEF TypeOK, RecordStates, Terminal
  <1>3. Unstarted(s) => call' = Answered(s) /\ rec' \in [Sessions -> RecordStates]
    BY <1>2 DEF Unstarted
  <1> QED  BY <1>1, <1>3

LEMMA OnPlaneTyped ==
    ASSUME TypeOK, Starts \/ Hear \/ Ask \/ \E s \in Sessions : OnPlane(s)
    PROVE  TypeOK'
  <1>1. CASE Starts
    <2>1. New \in Sessions /\ Begins(New, NoSession)
      BY <1>1 DEF Starts
    <2> HIDE DEF New
    <2> QED  BY <1>1, <2>1, BeginsTyped, SetsTyped DEF Starts, TypeOK, process, gateway, history
  <1>2. CASE Hear
    <2> DEFINE m == Head(news)
    <2>1. m \in Notes /\ news' \in Seq(Notes)
      BY <1>2, HeadTailProperties DEF Hear, TypeOK
    <2>2. rec' \in [Sessions -> RecordStates] /\ call' \in [Asks -> Recoveries]
      <3>1. CASE m.kind = "started"
        <4>1. m.of \in Sessions
          BY <2>1, <3>1, NotesFields
        <4>2. rec' = [rec EXCEPT ![m.of] = "running"] /\ call' = Answered(m.of)
          BY <1>2, <3>1 DEF Hear
        <4> HIDE DEF m
        <4> QED  BY <4>1, <4>2, UnstartedTyped DEF TypeOK, RecordStates
      <3>2. CASE m.kind = "refused"
        <4>1. Unstarted(m.of) /\ m.of \in Sessions
          BY <1>2, <2>1, <3>2, NotesFields DEF Hear
        <4> QED  BY <4>1, UnstartedTyped
      <3>3. CASE m.kind = "ended"
        <4>1. m.of \in Sessions
          BY <2>1, <3>3, NotesFields
        <4>2. call' = call /\ (rec' = rec \/ rec' = [rec EXCEPT ![m.of] = "over"])
          BY <1>2, <3>3 DEF Hear
        <4> HIDE DEF m
        <4> QED  BY <4>1, <4>2 DEF TypeOK, RecordStates, Terminal
      <3>4. CASE m.kind = "list"
        <4>1. m.of \in Asks /\ m.list \subseteq Sessions
          BY <2>1, <3>4, NotesFields
        <4> DEFINE c == [call[m.of] EXCEPT !.at = "entries", !.todo = m.list, !.recovered = m.list]
        <4>2. c \in Recoveries
          <5>1. call[m.of] \in Recoveries
            BY <4>1, CallTyped
          <5>2. "entries" \in CallStates
            BY DEF CallStates
          <5> HIDE DEF m
          <5> QED  BY ONLY <4>1, <5>1, <5>2 DEF Recoveries
        <4>3. /\ rec' = rec
              /\ call' = call \/ call' = [call EXCEPT ![m.of] = c]
          BY <1>2, <3>4 DEF Hear, TypeOK
        <4> HIDE DEF c, m
        <4>4. rec' \in [Sessions -> RecordStates]
          BY <4>3 DEF TypeOK
        <4>5. CASE call' = call
          BY <4>4, <4>5 DEF TypeOK
        <4>6. CASE call' = [call EXCEPT ![m.of] = c]
          BY <4>1, <4>2, <4>4, <4>6, CallTyped
        <4> QED  BY <4>3, <4>4, <4>5, <4>6
      <3> QED  BY <2>1, <3>1, <3>2, <3>3, <3>4, NotesFields
    <2>3. UNCHANGED <<process, gateway, starts, hello, resumed, young, approved, asks, history>>
          /\ faults' \in 0..MaxFaults
      BY <1>2, UsualRare DEF Hear
    <2> HIDE DEF m
    <2> QED  BY <2>1, <2>2, <2>3 DEF TypeOK, process, gateway, history
  <1>3. CASE Ask
    <2>1. asks + 1 \in Asks /\ asks' \in 0..MaxAsks
      BY <1>3, Bounds DEF Ask, TypeOK, Asks
    <2>2. Append(jq, Op("take", NoSession, asks + 1, Registered)) \in Seq(Ops)
      BY <2>1, OpsTyped, AppendOp, SetsTyped
    <2>3. call' \in [Asks -> Recoveries]
      <3>1. [[call[asks + 1] EXCEPT !.at = "asking"] EXCEPT !.active = Working] \in Recoveries
        BY <2>1, CallTyped, SetsTyped DEF Recoveries, CallStates
      <3>2. call' = [call EXCEPT ![asks + 1] = [[call[asks + 1] EXCEPT !.at = "asking"] EXCEPT !.active = Working]]
        BY <1>3 DEF Ask, TypeOK
      <3> QED  BY <2>1, <3>1, <3>2, CallTyped
    <2>4. faults' \in 0..MaxFaults
      BY <1>3, UsualRare DEF Ask
    <2>5. /\ jq' \in Seq(Ops) /\ hello' = FALSE
          /\ UNCHANGED <<process, creating, reg, agent, journal, starts, news, rec, resumed, young, approved, history>>
      BY <1>3, <2>2 DEF Ask
    <2>6. UNCHANGED <<process, history, reg, rec, resumed, news, starts,
                      creating, agent, journal, young, approved>>
      BY <2>5
    <2>7. {forget, creating, agent, journal, young, approved, begun, purpose, forgotten, spared}'
             \subseteq SUBSET Sessions
      BY <2>6, SetsTyped DEF process, history
    <2>8. /\ lives' = lives /\ up' = up /\ phase' = phase /\ rt' = rt /\ stopper' = stopper
          /\ aborter' = aborter /\ fataler' = fataler /\ shut' = shut /\ exit' = exit
      BY <2>6 DEF process, history
    <2>9. /\ jq' \in Seq(Ops) /\ hello' = FALSE /\ reg' = reg /\ rec' = rec /\ resumed' = resumed
          /\ news' = news /\ starts' = starts
      BY <2>5
    <2>10. /\ lives' \in 1..MaxLives /\ up' \in BOOLEAN
           /\ phase' \in {"running", "draining", "aborting", "stopped"}
           /\ rt' \in {"online", "draining", "aborting", "stopped", "fatal"}
           /\ stopper' \in {"no", "draining", "closing", "cleaning"}
           /\ aborter' \in {"no", "forgetting", "closing", "cleaning"}
           /\ fataler' \in {"no", "closing"} /\ shut' \in {"no", "closing", "done"}
           /\ exit' \in {"none", "ok", "fatal", "killed"}
      BY <2>8 DEF TypeOK
    <2>11. /\ reg' \in [Sessions -> {"none", "running", "over"}]
           /\ news' \in Seq(Notes) /\ starts' \subseteq Sessions
           /\ rec' \in [Sessions -> RecordStates] /\ resumed' \in [Sessions -> Sessions \cup {NoSession}]
      BY <2>9 DEF TypeOK
    <2> QED  BY <2>1, <2>3, <2>4, <2>7, <2>9, <2>10, <2>11 DEF TypeOK
  <1>4. ASSUME NEW s \in Sessions, Approve(s) PROVE TypeOK'
    BY <1>4, UsualRare, SetsTyped DEF Approve, TypeOK, RecordStates, process, gateway, history
  <1>5. ASSUME NEW s \in Sessions, Refuse(s) PROVE TypeOK'
    BY <1>5, UsualRare DEF Refuse, TypeOK, RecordStates, Terminal, process, gateway, links, history
  <1>6. ASSUME NEW s \in Sessions, Age(s) PROVE TypeOK'
    BY <1>6, UsualRare, SetsTyped DEF Age, TypeOK, process, gateway, links, history
  <1>7. ASSUME NEW s \in Sessions, StartTimeout(s) PROVE TypeOK'
    <2>1. faults' \in 0..MaxFaults
      BY <1>7, UsualRare DEF StartTimeout
    <2> QED  BY <1>7, <2>1, UnstartedTyped DEF StartTimeout, TypeOK, process, gateway, links, history
  <1> QED  BY <1>1, <1>2, <1>3, <1>4, <1>5, <1>6, <1>7 DEF OnPlane

LEMMA RecoverTyped ==
    ASSUME TypeOK, NEW k \in Asks, AskTimeout(k) \/ Recover(k)
    PROVE  TypeOK'
  <1>1. CASE AskTimeout(k)
    <2>1. [Unused EXCEPT !.at = "gaveup"] \in Recoveries
      BY DEF Unused, Recoveries, CallStates, NoSession
    <2>2. faults' \in 0..MaxFaults
      BY <1>1, UsualRare DEF AskTimeout
    <2> QED  BY <1>1, <2>1, <2>2, CallTyped DEF AskTimeout, TypeOK, process, gateway, links, history
  <1>2. CASE Continue(k)
    <2> DEFINE s == Min(call[k].todo)
               next == [call[k] EXCEPT !.todo = @ \ {s}, !.from = s, !.to = New]
    <2>1. s \in Sessions /\ call[k].todo # {}
      BY <1>2, CallTyped, MinIsIn DEF Continue
    <2>2. call[k] \in Recoveries /\ call[k].todo \ {s} \subseteq Sessions
      BY CallTyped
    <2> HIDE DEF s
    <2>3. CASE rec[s] \in Terminal
      <3>1. [call[k] EXCEPT !.todo = @ \ {s}] \in Recoveries
        BY <2>2 DEF Recoveries
      <3>2. call' = [call EXCEPT ![k] = [call[k] EXCEPT !.todo = @ \ {s}]]
            /\ UNCHANGED <<starts, rec, resumed, young, faults>>
        BY <1>2, <2>3 DEF Continue, s, TypeOK
      <3>3. call' \in [Asks -> Recoveries]
        BY <3>1, <3>2, CallTyped
      <3> QED  BY <1>2, <3>2, <3>3 DEF Continue, TypeOK, process, gateway, history
    <2>4. CASE rec[s] \notin Terminal /\ New \notin Sessions
      <3>1. [next EXCEPT !.at = "ending", !.to = NoSession] \in Recoveries
        BY <2>1, <2>2 DEF Recoveries, CallStates
      <3>2. call' = [call EXCEPT ![k] = [next EXCEPT !.at = "ending", !.to = NoSession]]
            /\ UNCHANGED <<starts, rec, resumed, young, faults>>
        BY <1>2, <2>4 DEF Continue, s
      <3>3. call' \in [Asks -> Recoveries]
        BY <3>1, <3>2, CallTyped
      <3> QED  BY <1>2, <3>2, <3>3 DEF Continue, TypeOK, process, gateway, history
    <2>5. CASE rec[s] \notin Terminal /\ New \in Sessions
      <3>1. Begins(New, s)
            /\ call' = [call EXCEPT ![k] = [next EXCEPT !.at = IF rec'[New] = "starting" THEN "starting" ELSE "ending"]]
        BY <1>2, <2>5 DEF Continue, s
      <3>2. \A a \in {"starting", "ending"} : [next EXCEPT !.at = a] \in Recoveries
        BY <2>1, <2>2, <2>5 DEF Recoveries, CallStates
      <3>3. call' \in [Asks -> Recoveries]
        BY <3>1, <3>2, CallTyped
      <3> HIDE DEF New
      <3> QED  BY <1>2, <2>1, <2>5, <3>1, <3>3, BeginsTyped DEF Continue, TypeOK, process, gateway, history
    <2> QED  BY <2>3, <2>4, <2>5
  <1>3. CASE End(k)
    <2>1. call' \in [Asks -> Recoveries]
      <3>1. [call[k] EXCEPT !.at = "entries"] \in Recoveries
        BY CallTyped DEF Recoveries, CallStates
      <3> QED  BY <1>3, <3>1, CallTyped DEF End, TypeOK
    <2>2. rec' \in [Sessions -> RecordStates]
      BY <1>3 DEF End, TypeOK, RecordStates, Terminal
    <2> QED  BY <1>3, <2>1, <2>2, UsualRare DEF End, TypeOK, process, gateway, links, history
  <1>4. CASE List(k)
    <2>1. call' \in [Asks -> Recoveries]
      <3> DEFINE w == {s \in Known : rec[s] \notin Terminal} \ (call[k].active \cup call[k].recovered)
      <3>1. w \subseteq Sessions
        BY DEF Known
      <3> HIDE DEF w
      <3>2. [call[k] EXCEPT !.at = "sweeping", !.sweep = w, !.active = {}, !.recovered = {},
                            !.from = NoSession, !.to = NoSession] \in Recoveries
        BY <3>1, CallTyped DEF Recoveries, CallStates
      <3>3. call' = [call EXCEPT ![k] = [call[k] EXCEPT !.at = "sweeping", !.sweep = w, !.active = {},
                            !.recovered = {}, !.from = NoSession, !.to = NoSession]]
        BY <1>4 DEF List, TypeOK, w
      <3> QED  BY <3>2, <3>3, CallTyped
    <2>2. faults' \in 0..MaxFaults /\ UNCHANGED <<process, gateway, links, rec, resumed, young, approved, asks, history>>
      BY <1>4, UsualRare DEF List
    <2> QED  BY <2>1, <2>2 DEF TypeOK, process, gateway, links, history
  <1>5. CASE Sweep(k)
    <2>1. CASE call[k].sweep = {}
      <3>1. [Unused EXCEPT !.at = "done"] \in Recoveries
        BY DEF Unused, Recoveries, CallStates, NoSession
      <3>2. call' \in [Asks -> Recoveries] /\ UNCHANGED <<rec, spared>>
        BY <1>5, <2>1, <3>1, CallTyped DEF Sweep
      <3> QED  BY <1>5, <3>2, UsualRare DEF Sweep, TypeOK, process, gateway, links
    <2>2. CASE call[k].sweep # {}
      <3> DEFINE s == Min(call[k].sweep)
      <3>1. s \in Sessions
        BY <2>2, CallTyped, MinIsIn
      <3> HIDE DEF s
      <3>2. [call[k] EXCEPT !.sweep = @ \ {s}] \in Recoveries
        BY CallTyped DEF Recoveries
      <3>3. call' = [call EXCEPT ![k] = [call[k] EXCEPT !.sweep = @ \ {s}]]
            /\ spared' = (IF s \in young THEN spared \cup {s} ELSE spared)
            /\ rec' = IF s \in young \/ rec[s] = "held" THEN rec ELSE [rec EXCEPT ![s] = "crashed"]
        BY <1>5, <2>2 DEF Sweep, TypeOK, s
      <3>4. /\ call' \in [Asks -> Recoveries] /\ spared' \subseteq Sessions
            /\ rec' \in [Sessions -> RecordStates]
        BY <3>1, <3>2, <3>3, CallTyped, SetsTyped DEF TypeOK, RecordStates, Terminal
      <3> QED  BY <1>5, <3>4, UsualRare DEF Sweep, TypeOK, process, gateway, links
    <2> QED  BY <2>1, <2>2
  <1> QED  BY <1>1, <1>2, <1>3, <1>4, <1>5 DEF Recover

LEMMA StepTyped ==
    ASSUME TypeOK, [Next]_vars
    PROVE  TypeOK'
  <1>1. CASE UNCHANGED vars
    BY <1>1 DEF TypeOK, vars, process, gateway, links, plane, history
  <1>2. CASE Next
    BY <1>2, LifecycleTyped, OnGatewayTyped, OnPlaneTyped, RecoverTyped DEF Next
  <1> QED  BY <1>1, <1>2

\* Types are kept by every step.
THEOREM TypeCorrect == Spec => []TypeOK
  <1>1. Init => TypeOK
    BY InitTyped
  <1>2. TypeOK /\ [Next]_vars => TypeOK'
    BY StepTyped
  <1> QED  BY <1>1, <1>2, PTL DEF Spec

(***************************************************************************)
(* Where an interrupted session is                                         *)
(***************************************************************************)

Lists == UNION {news[i].list : i \in DOMAIN news}
Todos == UNION {call[k].todo : k \in Asks}
Continued == {resumed[n] : n \in Sessions} \ {NoSession}

\* Sessions that were handed over to a recovery.
Handed == Lists \cup Todos \cup Continued

Record(s) == Op("record", s, 0, {})
Forgets(s) == Op("forget", s, 0, {})
Recording == {s \in Sessions : \E i \in DOMAIN jq : jq[i] = Record(s)}

\* Sessions that this life of the process has to do with.
Mine == Registered \cup purpose \cup agent \cup Recording

\* Nobody speaks of a session that has no record.
Spoken ==
    /\ \A i \in DOMAIN news : news[i].kind # "list" => news[i].of \in Known
    /\ \A k \in Asks : /\ call[k].sweep \subseteq Known
                       /\ call[k].at = "starting" => call[k].to \in Known
                       /\ call[k].at \in {"starting", "ending"} => call[k].from \in Known

\* A session is known, then started, and started once.
InTurn ==
    /\ \A n \in Sessions : rec[n] = "none" => resumed[n] = NoSession
    /\ \A n \in Sessions : rec[n] \in {"none", "held"} => n \notin starts \cup creating \cup begun
    /\ starts \cap creating = {} /\ (starts \cup creating) \cap begun = {}

PlaneInv == Numbered /\ InTurn /\ Spoken

\* A session is handed over once: one list has it, or one recovery, or one
\* session continues it.
ListsApart == \A i, j \in DOMAIN news : i # j => news[i].list \cap news[j].list = {}
HandedOnce ==
    /\ ListsApart
    /\ \A k, l \in Asks : k # l => call[k].todo \cap call[l].todo = {}
    /\ Lists \cap Todos = {} /\ (Lists \cup Todos) \cap Continued = {}
    /\ \A m, n \in Sessions : m # n /\ resumed[m] = resumed[n] => resumed[m] = NoSession

\* What the process has to do with is not handed over: a question that does not
\* except a session was asked before that session was recorded.
TakesExcept ==
    \A i \in DOMAIN jq : jq[i].op = "take" =>
       \A s \in Mine \ jq[i].except : s \notin journal /\ \A j \in 1..i : jq[j] # Record(s)
Own ==
    /\ Mine \cup journal \cup Handed \cup forgotten \subseteq begun
    /\ shut # "done" => Mine \subseteq Registered
    /\ (Mine \cup journal) \cap Handed = {}
    /\ TakesExcept

\* What is forgotten is nowhere, and what is being forgotten will leave the
\* journal once the journal has done what it was told.
Leaves(f) ==
    \/ f \notin journal \cup Recording
    \/ \E i \in DOMAIN jq : jq[i] = Forgets(f) /\ \A j \in DOMAIN jq : jq[j] = Record(f) => j < i
Down ==
    /\ forgotten \cap (journal \cup Recording \cup Handed) = {}
    /\ aborter = "forgetting" => forget \subseteq purpose /\ \A f \in purpose \ forget : Leaves(f)

HandoverInv == PlaneInv /\ HandedOnce /\ Own /\ Down

LEMMA BegunKnown ==
    ASSUME TypeOK, HandoverInv
    PROVE  begun \subseteq Known /\ starts \subseteq Known /\ creating \subseteq Known
           /\ journal \cup agent \cup purpose \cup Handed \subseteq Known
  BY SetsTyped DEF HandoverInv, PlaneInv, InTurn, Own, Mine, Known, TypeOK

LEMMA InitHandover == Init => HandoverInv
  <1>1. SUFFICES ASSUME Init PROVE HandoverInv
    OBVIOUS
  <1>2. /\ news = <<>> /\ jq = <<>> /\ starts = {} /\ creating = {} /\ begun = {} /\ agent = {}
        /\ journal = {} /\ purpose = {} /\ forgotten = {} /\ aborter = "no"
        /\ \A s \in Sessions : rec[s] = "none" /\ resumed[s] = NoSession /\ reg[s] = "none"
        /\ \A k \in Asks : call[k] = Unused
    BY <1>1 DEF Init
  <1>3. Known = 1..0 /\ Registered = {} /\ Recording = {} /\ Mine = {}
    BY <1>2 DEF Known, Registered, Recording, Mine
  <1>4. Lists = {} /\ Todos = {} /\ Continued = {} /\ Handed = {}
    BY <1>2 DEF Lists, Todos, Continued, Handed, Unused
  <1>5. PlaneInv
    BY <1>2, <1>3 DEF PlaneInv, Numbered, InTurn, Spoken, Unused
  <1>6. HandedOnce
    BY <1>2, <1>4 DEF HandedOnce, ListsApart, Unused
  <1>7. Own /\ Down
    BY <1>2, <1>3, <1>4 DEF Own, Down, TakesExcept
  <1> QED  BY <1>5, <1>6, <1>7 DEF HandoverInv

(***************************************************************************)
(* Steps that hand nothing over                                            *)
(***************************************************************************)

\* The news stay as they are, lose the first or all, or gain one that names a
\* session.
NewsKept ==
    \/ UNCHANGED news
    \/ news' = <<>>
    \/ news # <<>> /\ news' = Tail(news)
    \/ \E m \in Notes : m.kind # "list" /\ m.of \in Known /\ news' = Append(news, m)

CallsKept ==
    \A k \in Asks :
       /\ call'[k].todo \subseteq call[k].todo /\ call'[k].sweep \subseteq Known
       /\ call'[k].at = "starting" => call'[k].to \in Known
       /\ call'[k].at \in {"starting", "ending"} => call'[k].from \in Known

PlaneKept ==
    /\ \A n \in Sessions : rec'[n] = "none" => rec[n] = "none"
    /\ \A n \in Sessions : rec[n] = "none" => rec'[n] = "none"
    /\ \A n \in Sessions : rec'[n] = "held" => rec[n] = "held"
    /\ starts' \cup creating' \subseteq starts \cup creating /\ starts' \cap creating' = {}
    /\ UNCHANGED resumed

GatewayKept ==
    /\ UNCHANGED <<reg, agent, jq, journal, begun, purpose, forgotten, aborter, forget>>
    /\ shut' # "done" => shut # "done"

LEMMA NewsKeep ==
    ASSUME TypeOK, NewsKept
    PROVE  /\ ListsApart => ListsApart'
           /\ Lists' \subseteq Lists
           /\ (\A i \in DOMAIN news : news[i].kind # "list" => news[i].of \in Known) =>
              \A i \in DOMAIN news' : news'[i].kind # "list" => news'[i].of \in Known
  <1>0. news \in Seq(Notes) /\ DOMAIN news = 1..Len(news) /\ Len(news) \in Nat
    BY LenProperties DEF TypeOK
  <1>1. CASE UNCHANGED news
    BY <1>1 DEF ListsApart, Lists
  <1>2. CASE news' = <<>>
    BY <1>2 DEF ListsApart, Lists
  <1>3. CASE news # <<>> /\ news' = Tail(news)
    <2>1. \A i \in DOMAIN news' : i \in 1..(Len(news) - 1) /\ i + 1 \in DOMAIN news /\ news'[i] = news[i + 1]
      BY <1>0, <1>3, HeadTailProperties
    <2> QED  BY <2>1 DEF ListsApart, Lists
  <1>4. ASSUME NEW m \in Notes, m.kind # "list", m.of \in Known, news' = Append(news, m)
        PROVE  /\ ListsApart => ListsApart'
               /\ Lists' \subseteq Lists
               /\ (\A i \in DOMAIN news : news[i].kind # "list" => news[i].of \in Known) =>
                  \A i \in DOMAIN news' : news'[i].kind # "list" => news'[i].of \in Known
    <2>1. m.list = {}
      BY <1>4, NotesFields
    <2>2. \A i \in DOMAIN news' : (i \in DOMAIN news /\ news'[i] = news[i]) \/ news'[i] = m
      BY <1>0, <1>4, AppendProperties
    <2> QED  BY <1>4, <2>1, <2>2 DEF ListsApart, Lists
  <1> QED  BY <1>1, <1>2, <1>3, <1>4 DEF NewsKept

LEMMA HandedKeep ==
    ASSUME TypeOK, HandedOnce, NewsKept, CallsKept, UNCHANGED resumed
    PROVE  HandedOnce' /\ Handed' \subseteq Handed
  <1>1. ListsApart' /\ Lists' \subseteq Lists
    BY NewsKeep DEF HandedOnce
  <1>2. Todos' \subseteq Todos /\ Continued' = Continued
    BY DEF CallsKept, Todos, Continued
  <1>3. \A k, l \in Asks : k # l => call'[k].todo \cap call'[l].todo = {}
    BY DEF HandedOnce, CallsKept
  <1> QED  BY <1>1, <1>2, <1>3 DEF HandedOnce, Handed

LEMMA PlaneKeep ==
    ASSUME TypeOK, PlaneInv, PlaneKept, NewsKept, CallsKept, UNCHANGED begun
    PROVE  PlaneInv' /\ Known' = Known
  <1>0. /\ \A n \in Sessions : rec'[n] = "held" => rec[n] = "held"
        /\ starts' \cup creating' \subseteq starts \cup creating /\ starts' \cap creating' = {}
        /\ resumed' = resumed
    BY DEF PlaneKept
  <1>1. Known' = Known
    <2>1. Known' \subseteq Known
      BY DEF Known, PlaneKept
    <2>2. Known \subseteq Known'
      BY DEF Known, PlaneKept
    <2> QED  BY <2>1, <2>2
  <1>2. Numbered'
    BY <1>1 DEF PlaneInv, Numbered
  <1>3. InTurn'
    <2>1. \A n \in Sessions : rec'[n] \in {"none", "held"} => rec[n] \in {"none", "held"}
      BY DEF PlaneKept
    <2>2. \A n \in Sessions : rec'[n] = "none" => resumed'[n] = NoSession
      BY DEF PlaneKept, PlaneInv, InTurn
    <2> QED  BY <1>0, <2>1, <2>2 DEF PlaneInv, InTurn
  <1>4. Spoken'
    BY <1>1, NewsKeep DEF PlaneInv, Spoken, CallsKept
  <1> QED  BY <1>1, <1>2, <1>3, <1>4 DEF PlaneInv

LEMMA GatewayKeep ==
    ASSUME TypeOK, Own, Down, GatewayKept, Handed' \subseteq Handed
    PROVE  Own' /\ Down'
  <1>1. Mine' = Mine /\ Registered' = Registered /\ Recording' = Recording
    BY DEF GatewayKept, Mine, Registered, Recording
  <1>2. Own'
    BY <1>1 DEF Own, TakesExcept, GatewayKept
  <1>3. Down'
    BY <1>1 DEF Down, Leaves, GatewayKept
  <1> QED  BY <1>2, <1>3

\* A step that keeps all of it.
LEMMA StillKeeps ==
    ASSUME TypeOK, HandoverInv, NewsKept, CallsKept, PlaneKept, GatewayKept
    PROVE  HandoverInv'
  <1>1. UNCHANGED <<resumed, begun>>
    BY DEF PlaneKept, GatewayKept
  <1> QED  BY <1>1, HandedKeep, PlaneKeep, GatewayKeep DEF HandoverInv

LEMMA CallsSame ==
    ASSUME TypeOK, PlaneInv, UNCHANGED call
    PROVE  CallsKept
  BY DEF PlaneInv, Spoken, CallsKept

LEMMA AnsweredKeeps ==
    ASSUME TypeOK, PlaneInv, NEW s \in Sessions, call' = Answered(s)
    PROVE  CallsKept
  <1>1. ASSUME NEW k \in Asks
        PROVE  /\ call'[k].todo = call[k].todo /\ call'[k].sweep = call[k].sweep
               /\ call'[k].from = call[k].from /\ call'[k].to = call[k].to
               /\ call'[k].at = "starting" => call[k].at = "starting"
               /\ call'[k].at \in {"starting", "ending"} => call[k].at \in {"starting", "ending"}
    <2>1. call[k] \in Recoveries
      BY CallTyped
    <2>2. call'[k] = IF call[k].at = "starting" /\ call[k].to = s
                     THEN [call[k] EXCEPT !.at = "ending"] ELSE call[k]
      BY DEF Answered
    <2> QED  BY <2>1, <2>2 DEF Recoveries
  <1> QED  BY <1>1 DEF PlaneInv, Spoken, CallsKept

\* One recovery changes.
LEMMA CallMoves ==
    ASSUME TypeOK, PlaneInv, NEW k \in Asks, NEW c \in Recoveries, call' = [call EXCEPT ![k] = c],
           c.todo \subseteq call[k].todo, c.sweep \subseteq Known,
           c.at = "starting" => c.to \in Known,
           c.at \in {"starting", "ending"} => c.from \in Known
    PROVE  CallsKept
  <1>1. /\ call'[k] = c
        /\ \A l \in Asks \ {k} : call'[l] = call[l]
    BY DEF TypeOK
  <1> QED  BY <1>1 DEF PlaneInv, Spoken, CallsKept

\* What changes only how the process stands, or what the gateway answers.
LEMMA StandingKeeps ==
    ASSUME TypeOK, HandoverInv,
           \/ Stop \/ DrainEnds \/ Boot
           \/ \E s \in Sessions : StartArrives(s) \/ NotCreated(s) \/ Refuse(s) \/ Age(s)
    PROVE  HandoverInv'
  <1>1. CASE Stop \/ DrainEnds \/ Boot
    <2>1. UNCHANGED <<reg, agent, jq, journal, begun, forgotten, aborter, rec, resumed, call>>
      BY <1>1 DEF Stop, DrainEnds, Boot, gateway, plane, history
    <2>2. UNCHANGED <<purpose, forget, creating, starts, news>> /\ (shut' # "done" => shut # "done")
      BY <1>1 DEF Stop, DrainEnds, Boot, Shutting, gateway, links, history
    <2>3. PlaneKept /\ GatewayKept /\ NewsKept /\ CallsKept
      BY <2>1, <2>2, CallsSame DEF PlaneKept, GatewayKept, NewsKept, HandoverInv, PlaneInv, InTurn
    <2> QED  BY <2>3, StillKeeps
  <1>2. ASSUME NEW s \in Sessions, StartArrives(s) \/ NotCreated(s) PROVE HandoverInv'
    <2>1. GatewayKept /\ UNCHANGED <<rec, resumed, call>>
      BY <1>2 DEF StartArrives, NotCreated, GatewayKept, process, plane, history
    <2>2. s \in starts \cup creating
      BY <1>2 DEF StartArrives, NotCreated
    <2>3. NewsKept
      <3>1. Note("refused", s) \in Notes /\ Note("refused", s).kind # "list" /\ Note("refused", s).of \in Known
        BY <2>2, BegunKnown, NotesTyped DEF Note
      <3> QED  BY <1>2, <3>1 DEF StartArrives, NotCreated, Told, NewsKept
    <2>4. starts' \cup creating' \subseteq starts \cup creating /\ starts' \cap creating' = {}
      BY <1>2 DEF StartArrives, NotCreated, HandoverInv, PlaneInv, InTurn
    <2>5. PlaneKept /\ CallsKept
      BY <2>1, <2>4, CallsSame DEF PlaneKept, HandoverInv
    <2> QED  BY <2>1, <2>3, <2>5, StillKeeps
  <1>3. ASSUME NEW s \in Sessions, Refuse(s) \/ Age(s) PROVE HandoverInv'
    <2>1. GatewayKept /\ UNCHANGED <<news, creating, starts, resumed, call>>
      BY <1>3 DEF Refuse, Age, GatewayKept, process, gateway, links, history
    <2>2. rec' = rec \/ (rec[s] = "held" /\ \E state \in {"waiting", "over"} : rec' = [rec EXCEPT ![s] = state])
      BY <1>3 DEF Refuse, Age
    <2>3. PlaneKept
      BY <2>1, <2>2 DEF PlaneKept, TypeOK, HandoverInv, PlaneInv, InTurn
    <2>4. CallsKept /\ NewsKept
      BY <2>1, CallsSame DEF NewsKept, HandoverInv
    <2> QED  BY <2>1, <2>3, <2>4, StillKeeps
  <1> QED  BY <1>1, <1>2, <1>3

LEMMA UnstartedKeeps ==
    ASSUME TypeOK, PlaneInv, NEW s \in Sessions, Unstarted(s), UNCHANGED <<starts, creating, resumed>>
    PROVE  PlaneKept /\ CallsKept
  <1>1. CallsKept
    BY AnsweredKeeps DEF Unstarted
  <1>2. CASE Awaited(s)
    <2>1. rec[s] \notin {"none", "held"} \/ \E k \in Asks : call[k].at = "starting" /\ call[k].to = s
      BY <1>2 DEF Awaited
    <2>2. rec[s] # "none"
      BY <2>1 DEF PlaneInv, Spoken, Known
    <2>3. \E state \in {"running", "over"} : rec' = [rec EXCEPT ![s] = state]
      BY <1>2 DEF Unstarted
    <2> QED  BY <1>1, <2>2, <2>3 DEF PlaneKept, TypeOK, PlaneInv, InTurn
  <1>3. CASE ~Awaited(s)
    BY <1>1, <1>3 DEF Unstarted, PlaneKept, PlaneInv, InTurn
  <1> QED  BY <1>2, <1>3

LEMMA TimeoutKeeps ==
    ASSUME TypeOK, HandoverInv, NEW s \in Sessions, StartTimeout(s)
    PROVE  HandoverInv'
  <1>1. Unstarted(s) /\ UNCHANGED <<starts, creating, resumed, news>>
    BY DEF StartTimeout, gateway, links
  <1>2. GatewayKept
    BY DEF StartTimeout, GatewayKept, process, gateway, history
  <1>3. NewsKept /\ PlaneKept /\ CallsKept
    BY <1>1, UnstartedKeeps DEF NewsKept, HandoverInv
  <1> QED  BY <1>2, <1>3, StillKeeps

LEMMA HearKeeps ==
    ASSUME TypeOK, HandoverInv, Hear
    PROVE  HandoverInv'
  <1> DEFINE m == Head(news)
  <1>1. /\ m \in Notes /\ m = news[1] /\ 1 \in DOMAIN news /\ news' = Tail(news) /\ news # <<>>
        /\ \A i \in DOMAIN news' : i + 1 \in DOMAIN news /\ i + 1 # 1 /\ news'[i] = news[i + 1]
    <2>1. news \in Seq(Notes) /\ news # <<>> /\ news' = Tail(news)
      BY DEF Hear, TypeOK
    <2> QED  BY <2>1, HeadTailProperties, LenProperties
  <1>2. GatewayKept /\ UNCHANGED <<starts, creating, resumed>>
    BY DEF Hear, GatewayKept, process, gateway, history
  <1>3. NewsKept
    BY <1>1 DEF NewsKept
  <1>4. PlaneInv
    BY DEF HandoverInv
  <1>5. m.kind # "list" => m.of \in Known /\ m.of \in Sessions
    BY <1>1, <1>4, NotesFields DEF PlaneInv, Spoken
  <1>6. CASE m.kind = "started"
    <2>1. rec' = [rec EXCEPT ![m.of] = "running"] /\ call' = Answered(m.of)
      BY <1>6 DEF Hear
    <2>2. PlaneKept
      BY <1>2, <1>4, <1>5, <1>6, <2>1 DEF PlaneKept, TypeOK, PlaneInv, InTurn, Known
    <2> QED  BY <1>2, <1>3, <1>4, <1>5, <1>6, <2>1, <2>2, AnsweredKeeps, StillKeeps
  <1>7. CASE m.kind = "refused"
    <2>1. Unstarted(m.of)
      BY <1>7 DEF Hear
    <2> QED  BY <1>2, <1>3, <1>4, <1>5, <1>7, <2>1, UnstartedKeeps, StillKeeps
  <1>8. CASE m.kind = "ended"
    <2>1. call' = call /\ (rec' = rec \/ rec' = [rec EXCEPT ![m.of] = "over"])
      BY <1>8 DEF Hear
    <2>2. PlaneKept
      BY <1>2, <1>4, <1>5, <1>8, <2>1 DEF PlaneKept, TypeOK, PlaneInv, InTurn, Known
    <2> QED  BY <1>2, <1>3, <1>4, <2>1, <2>2, CallsSame, StillKeeps
  <1>9. CASE m.kind = "list"
    <2>1. m.of \in Asks /\ m.list \subseteq Sessions
      BY <1>1, <1>9, NotesFields
    <2>2. rec' = rec
      BY <1>9 DEF Hear
    <2>3. PlaneKept
      BY <1>2, <1>4, <2>2 DEF PlaneKept, PlaneInv, InTurn
    <2>4. CASE call' = call
      BY <1>2, <1>3, <1>4, <2>3, <2>4, CallsSame, StillKeeps
    <2>5. CASE call' # call
      <3>1. /\ call[m.of].at = "asking"
            /\ call' = [call EXCEPT ![m.of].at = "entries", ![m.of].todo = m.list, ![m.of].recovered = m.list]
        BY <1>9, <2>5 DEF Hear
      <3>2. /\ call'[m.of].todo = m.list /\ call'[m.of].at = "entries" /\ call'[m.of].sweep = call[m.of].sweep
            /\ \A k \in Asks \ {m.of} : call'[k] = call[k]
        BY <2>1, <3>1, CallTyped DEF TypeOK, Recoveries
      <3>3. ListsApart /\ Spoken
        BY DEF HandoverInv, HandedOnce, PlaneInv
      <3>4. ListsApart' /\ Lists' \subseteq Lists
        BY <1>3, <3>3, NewsKeep
      <3>5. m.list \subseteq Lists /\ m.list \cap Lists' = {}
        BY <1>1, <3>3 DEF Lists, ListsApart
      <3>6. Todos' \subseteq Todos \cup m.list /\ Continued' = Continued
        BY <1>2, <3>2 DEF Todos, Continued
      <3> HIDE DEF m
      <3>7. \A k, l \in Asks : k # l => call'[k].todo \cap call'[l].todo = {}
        BY <3>2, <3>5, <2>1 DEF HandoverInv, HandedOnce, Todos
      <3>8. HandedOnce' /\ Handed' \subseteq Handed
        BY <1>2, <3>4, <3>5, <3>6, <3>7 DEF HandoverInv, HandedOnce, Handed
      <3>9. Known' = Known /\ Numbered' /\ InTurn'
        <4>1. UNCHANGED <<rec, resumed, starts, creating, begun>>
          BY <1>2, <2>2 DEF GatewayKept
        <4>2. Known' = Known
          BY <4>1 DEF Known
        <4> QED  BY <1>4, <4>1, <4>2 DEF PlaneInv, Numbered, InTurn
      <3>10. Spoken'
        <4>1. \A i \in DOMAIN news' : news'[i].kind # "list" => news'[i].of \in Known
          BY <1>3, <3>3, NewsKeep DEF Spoken
        <4>2. \A k \in Asks : /\ call'[k].sweep \subseteq Known
                              /\ call'[k].at = "starting" => call'[k].to \in Known
                              /\ call'[k].at \in {"starting", "ending"} => call'[k].from \in Known
          BY <3>2, <3>3 DEF Spoken
        <4> QED  BY <3>9, <4>1, <4>2 DEF Spoken
      <3>11. Own' /\ Down'
        BY <1>2, <3>8, GatewayKeep DEF HandoverInv
      <3> QED  BY <3>8, <3>9, <3>10, <3>11 DEF HandoverInv, PlaneInv
    <2> QED  BY <2>4, <2>5
  <1> QED  BY <1>1, <1>6, <1>7, <1>8, <1>9, NotesFields

(***************************************************************************)
(* Steps of the control plane                                              *)
(***************************************************************************)

\* A granted start is sent, the first time.
LEMMA ApproveKeeps ==
    ASSUME TypeOK, HandoverInv, NEW s \in Sessions, Approve(s)
    PROVE  HandoverInv'
  <1>1. GatewayKept /\ UNCHANGED <<news, creating, resumed, call>>
    BY DEF Approve, GatewayKept, process, gateway, history
  <1>2. NewsKept /\ CallsKept /\ UNCHANGED begun
    BY <1>1, CallsSame DEF NewsKept, HandoverInv, GatewayKept
  <1>3. HandedOnce' /\ Own' /\ Down'
    BY <1>1, <1>2, HandedKeep, GatewayKeep DEF HandoverInv
  <1>4. /\ rec[s] = "held" /\ s \notin starts \cup creating \cup begun
        /\ \E state \in {"starting", "waiting"} : rec' = [rec EXCEPT ![s] = state]
        /\ starts' \subseteq starts \cup {s}
    BY DEF Approve, HandoverInv, PlaneInv, InTurn
  <1>5. Known' = Known
    <2>1. Known' \subseteq Known
      BY <1>4 DEF Known, TypeOK
    <2>2. Known \subseteq Known'
      BY <1>4 DEF Known, TypeOK
    <2> QED  BY <2>1, <2>2
  <1>6. InTurn'
    <2>1. \A n \in Sessions : rec'[n] = "none" => rec[n] = "none"
      BY <1>4 DEF TypeOK
    <2>2. \A n \in Sessions : rec'[n] \in {"none", "held"} => n # s /\ rec[n] \in {"none", "held"}
      BY <1>4 DEF TypeOK
    <2> QED  BY <1>1, <1>2, <1>4, <2>1, <2>2 DEF HandoverInv, PlaneInv, InTurn
  <1>7. Numbered' /\ Spoken'
    BY <1>1, <1>5 DEF HandoverInv, PlaneInv, Numbered, Spoken
  <1> QED  BY <1>3, <1>6, <1>7 DEF HandoverInv, PlaneInv

\* A session gets the next number.
LEMMA BeginsKeeps ==
    ASSUME TypeOK, PlaneInv, New \in Sessions, NEW origin \in Sessions \cup {NoSession},
           Begins(New, origin), begun \subseteq Known, UNCHANGED <<creating, begun>>
    PROVE  /\ Numbered' /\ InTurn' /\ Known' = Known \cup {New}
           /\ resumed[New] = NoSession
  <1> DEFINE n == New
  <1>1. n \in Sessions /\ Begins(n, origin)
    OBVIOUS
  <1>2. n \notin Known /\ Known \cup {n} = 1..n /\ n \in Nat
    BY NewIsUnknown DEF PlaneInv
  <1> HIDE DEF n
  <1>3. /\ resumed' = [resumed EXCEPT ![n] = origin]
        /\ rec'[n] \in {"over", "held", "starting"} /\ \A s \in Sessions \ {n} : rec'[s] = rec[s]
        /\ starts' = starts \/ (starts' = starts \cup {n} /\ rec'[n] = "starting")
    BY <1>1, BeginsTyped
  <1>4. rec[n] = "none" /\ resumed[n] = NoSession /\ n \notin starts \cup creating \cup begun
    BY <1>1, <1>2 DEF Known, PlaneInv, InTurn
  <1>5. Known' = Known \cup {n}
    <2>1. Known' \subseteq Known \cup {n}
      BY <1>3 DEF Known
    <2>2. Known \cup {n} \subseteq Known'
      BY <1>1, <1>3 DEF Known
    <2> QED  BY <2>1, <2>2
  <1>6. Numbered'
    BY <1>2, <1>5 DEF Numbered
  <1>7. InTurn'
    <2>1. \A s \in Sessions : rec'[s] = "none" => s # n /\ resumed'[s] = NoSession
      BY <1>3 DEF PlaneInv, InTurn, TypeOK
    <2>2. ASSUME NEW s \in Sessions, rec'[s] \in {"none", "held"}
          PROVE  s \notin starts' \cup creating' \cup begun'
      <3>1. CASE s = n
        BY <1>3, <1>4, <2>2, <3>1
      <3>2. CASE s # n
        BY <1>3, <2>2, <3>2 DEF PlaneInv, InTurn
      <3> QED  BY <3>1, <3>2
    <2>3. starts' \cap creating' = {} /\ (starts' \cup creating') \cap begun' = {}
      BY <1>3, <1>4 DEF PlaneInv, InTurn
    <2> QED  BY <2>1, <2>2, <2>3 DEF InTurn
  <1> QED  BY <1>4, <1>5, <1>6, <1>7 DEF n

LEMMA StartsKeeps ==
    ASSUME TypeOK, HandoverInv, Starts
    PROVE  HandoverInv'
  <1>1. /\ New \in Sessions /\ Begins(New, NoSession) /\ UNCHANGED <<creating, begun, news, call>>
        /\ GatewayKept
    BY DEF Starts, GatewayKept, process, gateway, history
  <1>2. Numbered' /\ InTurn' /\ Known' = Known \cup {New} /\ resumed[New] = NoSession
    BY <1>1, BeginsKeeps, BegunKnown DEF HandoverInv
  <1>3. Spoken'
    BY <1>1, <1>2 DEF HandoverInv, PlaneInv, Spoken
  <1>4. resumed' = resumed
    BY <1>1, <1>2 DEF Begins, TypeOK
  <1>5. CallsKept /\ NewsKept
    BY <1>1, CallsSame DEF NewsKept, HandoverInv
  <1>6. HandedOnce' /\ Own' /\ Down'
    BY <1>1, <1>4, <1>5, HandedKeep, GatewayKeep DEF HandoverInv
  <1> QED  BY <1>2, <1>3, <1>6 DEF HandoverInv, PlaneInv

(***************************************************************************)
(* Steps of the recoveries                                                 *)
(***************************************************************************)

LEMMA RecoveryKeeps ==
    ASSUME TypeOK, HandoverInv, NEW k \in Asks, AskTimeout(k) \/ End(k) \/ List(k) \/ Sweep(k)
    PROVE  HandoverInv'
  <1>1. GatewayKept /\ UNCHANGED <<news, starts, creating, resumed>>
    BY DEF AskTimeout, End, List, Sweep, GatewayKept, process, gateway, links, history
  <1>2. NewsKept /\ PlaneInv /\ InTurn /\ Spoken
    BY <1>1 DEF NewsKept, HandoverInv, PlaneInv
  <1>3. call[k] \in Recoveries /\ call[k].sweep \subseteq Known
    BY <1>2, CallTyped DEF Spoken
  <1>4. ASSUME NEW s \in Known, rec' = rec \/ rec' = [rec EXCEPT ![s] = "crashed"]
        PROVE  PlaneKept
    BY <1>1, <1>2, <1>4 DEF PlaneKept, Known, TypeOK, InTurn
  <1>5. CASE AskTimeout(k)
    <2> DEFINE c == [Unused EXCEPT !.at = "gaveup"]
    <2>1. c \in Recoveries /\ c.todo = {} /\ c.sweep = {} /\ c.at = "gaveup"
      BY DEF Unused, Recoveries, CallStates, NoSession
    <2>2. call' = [call EXCEPT ![k] = c] /\ rec' = rec
      BY <1>5 DEF AskTimeout
    <2> HIDE DEF c
    <2>3. CallsKept
      BY <1>2, <2>1, <2>2, CallMoves
    <2>4. PlaneKept
      BY <1>1, <1>2, <2>2 DEF PlaneKept, InTurn
    <2> QED  BY <1>1, <1>2, <2>3, <2>4, StillKeeps
  <1>6. CASE End(k)
    <2> DEFINE c == [call[k] EXCEPT !.at = "entries"]
    <2>1. /\ c \in Recoveries /\ c.todo = call[k].todo /\ c.sweep = call[k].sweep /\ c.at = "entries"
          /\ call[k].from \in Known
      BY <1>2, <1>3, <1>6 DEF Recoveries, CallStates, End, Spoken
    <2>2. call' = [call EXCEPT ![k] = c] /\ rec' = [rec EXCEPT ![call[k].from] = "crashed"]
      BY <1>6 DEF End, TypeOK
    <2> HIDE DEF c
    <2>3. CallsKept
      BY <1>2, <1>3, <2>1, <2>2, CallMoves
    <2> QED  BY <1>1, <1>2, <1>4, <2>1, <2>2, <2>3, StillKeeps
  <1>7. CASE List(k)
    <2> DEFINE w == {s \in Known : rec[s] \notin Terminal} \ (call[k].active \cup call[k].recovered)
               c == [call[k] EXCEPT !.at = "sweeping", !.sweep = w, !.active = {}, !.recovered = {},
                                    !.from = NoSession, !.to = NoSession]
    <2>1. w \subseteq Known /\ w \subseteq Sessions
      BY DEF Known
    <2>2. call' = [call EXCEPT ![k] = c] /\ rec' = rec
      BY <1>7 DEF List, TypeOK
    <2> HIDE DEF w
    <2>3. c \in Recoveries /\ c.todo = call[k].todo /\ c.sweep = w /\ c.at = "sweeping"
      BY <1>3, <2>1 DEF Recoveries, CallStates
    <2> HIDE DEF c
    <2>4. CallsKept
      BY <1>2, <2>1, <2>2, <2>3, CallMoves
    <2>5. PlaneKept
      BY <1>1, <1>2, <2>2 DEF PlaneKept, InTurn
    <2> QED  BY <1>1, <1>2, <2>4, <2>5, StillKeeps
  <1>8. CASE Sweep(k) /\ call[k].sweep = {}
    <2> DEFINE c == [Unused EXCEPT !.at = "done"]
    <2>1. c \in Recoveries /\ c.todo = {} /\ c.sweep = {} /\ c.at = "done"
      BY DEF Unused, Recoveries, CallStates, NoSession
    <2>2. call' = [call EXCEPT ![k] = c] /\ rec' = rec
      BY <1>8 DEF Sweep
    <2> HIDE DEF c
    <2>3. CallsKept
      BY <1>2, <2>1, <2>2, CallMoves
    <2>4. PlaneKept
      BY <1>1, <1>2, <2>2 DEF PlaneKept, InTurn
    <2> QED  BY <1>1, <1>2, <2>3, <2>4, StillKeeps
  <1>9. CASE Sweep(k) /\ call[k].sweep # {}
    <2> DEFINE s == Min(call[k].sweep)
               c == [call[k] EXCEPT !.sweep = @ \ {s}]
    <2>1. s \in Known
      BY <1>3, <1>9, CallTyped, MinIsIn
    <2>2. call' = [call EXCEPT ![k] = c] /\ (rec' = rec \/ rec' = [rec EXCEPT ![s] = "crashed"])
      BY <1>9 DEF Sweep, TypeOK
    <2> HIDE DEF s
    <2>3. /\ c \in Recoveries /\ c.todo = call[k].todo /\ c.sweep \subseteq Known /\ c.at = call[k].at
          /\ c.from = call[k].from /\ c.to = call[k].to
      BY <1>3 DEF Recoveries
    <2>4. c.at = "sweeping"
      BY <1>9, <2>3 DEF Sweep
    <2> HIDE DEF c
    <2>5. CallsKept
      BY <1>2, <2>2, <2>3, <2>4, CallMoves
    <2> QED  BY <1>1, <1>2, <1>4, <2>1, <2>2, <2>5, StillKeeps
  <1> QED  BY <1>5, <1>6, <1>7, <1>8, <1>9

\* The session that is continued leaves the list of its recovery.
LEMMA ContinueKeeps ==
    ASSUME TypeOK, HandoverInv, NEW k \in Asks, Continue(k)
    PROVE  HandoverInv'
  <1> DEFINE s == Min(call[k].todo)
             next == [call[k] EXCEPT !.todo = @ \ {s}, !.from = s, !.to = New]
  <1>1. GatewayKept /\ UNCHANGED <<news, creating, begun>> /\ NewsKept /\ PlaneInv /\ InTurn /\ Spoken
    BY DEF Continue, GatewayKept, NewsKept, HandoverInv, PlaneInv, process, gateway, history
  <1>2. /\ call[k] \in Recoveries /\ call[k].sweep \subseteq Known /\ call[k].at = "entries"
        /\ s \in call[k].todo /\ s \in Sessions
    <2>1. call[k].todo # {} /\ call[k].at = "entries"
      BY DEF Continue
    <2> QED  BY <1>1, <2>1, CallTyped, MinIsIn DEF Spoken
  <1>3. s \in Todos /\ s \in Handed /\ s \in Known
    BY <1>2, BegunKnown DEF Todos, Handed
  <1> HIDE DEF s
  <1>4. CASE rec[s] \in Terminal
    <2> DEFINE c == [call[k] EXCEPT !.todo = @ \ {s}]
    <2>1. c \in Recoveries /\ c.todo \subseteq call[k].todo /\ c.sweep = call[k].sweep /\ c.at = "entries"
      BY <1>2 DEF Recoveries
    <2>2. call' = [call EXCEPT ![k] = c] /\ UNCHANGED <<rec, starts, resumed>>
      BY <1>4 DEF Continue, s, TypeOK
    <2> HIDE DEF c
    <2>3. CallsKept
      BY <1>1, <1>2, <2>1, <2>2, CallMoves
    <2>4. PlaneKept
      BY <1>1, <2>2 DEF PlaneKept, InTurn
    <2> QED  BY <1>1, <2>3, <2>4, StillKeeps
  <1>5. CASE rec[s] \notin Terminal /\ New \notin Sessions
    <2> DEFINE c == [next EXCEPT !.at = "ending", !.to = NoSession]
    <2>1. /\ c \in Recoveries /\ c.todo \subseteq call[k].todo /\ c.sweep = call[k].sweep
          /\ c.at = "ending" /\ c.from = s
      BY <1>2 DEF Recoveries, CallStates
    <2>2. call' = [call EXCEPT ![k] = c] /\ UNCHANGED <<rec, starts, resumed>>
      BY <1>5 DEF Continue, s
    <2> HIDE DEF c
    <2>3. CallsKept
      BY <1>1, <1>2, <1>3, <2>1, <2>2, CallMoves
    <2>4. PlaneKept
      BY <1>1, <2>2 DEF PlaneKept, InTurn
    <2> QED  BY <1>1, <2>3, <2>4, StillKeeps
  <1>6. CASE rec[s] \notin Terminal /\ New \in Sessions
    <2>1. /\ Begins(New, s)
          /\ call' = [call EXCEPT ![k] = [next EXCEPT !.at = IF rec'[New] = "starting" THEN "starting" ELSE "ending"]]
      BY <1>6 DEF Continue, s
    <2>2. /\ call'[k].todo = call[k].todo \ {s} /\ call'[k].sweep = call[k].sweep
          /\ call'[k].at \in {"starting", "ending"} /\ call'[k].from = s /\ call'[k].to = New
          /\ \A l \in Asks \ {k} : call'[l] = call[l]
      BY <1>2, <2>1 DEF Recoveries, TypeOK
    <2>3. Numbered' /\ InTurn' /\ Known' = Known \cup {New} /\ resumed[New] = NoSession
      BY <1>1, <1>2, <1>6, <2>1, BeginsKeeps, BegunKnown
    <2>4. resumed' = [resumed EXCEPT ![New] = s]
      BY <2>1 DEF Begins
    <2> HIDE DEF New, next
    <2>5. Spoken'
      BY <1>1, <1>3, <2>2, <2>3 DEF Spoken
    <2>6. HandedOnce
      BY DEF HandoverInv
    <2>7. Lists' = Lists /\ ListsApart'
      BY <1>1, <2>6 DEF Lists, ListsApart, HandedOnce
    <2>8. Todos' \subseteq Todos /\ s \notin Todos'
      BY <1>2, <2>2, <2>6 DEF Todos, HandedOnce
    <2>9. Continued' = Continued \cup {s} /\ s \notin Lists /\ s \notin Continued
      <3>1. s \notin Lists /\ s \notin Continued
        BY <1>3, <2>6 DEF HandedOnce
      <3>2. Continued' = Continued \cup {s}
        BY <1>2, <1>6, <2>3, <2>4, Bounds DEF Continued, TypeOK
      <3> QED  BY <3>1, <3>2
    <2>10. \A m, n \in Sessions : m # n /\ resumed'[m] = resumed'[n] => resumed'[m] = NoSession
      <3>1. \A n \in Sessions : resumed[n] # s
        BY <1>2, <2>9, Bounds DEF Continued
      <3>2. \A n \in Sessions : resumed'[n] = IF n = New THEN s ELSE resumed[n]
        BY <2>4 DEF TypeOK
      <3> QED  BY <2>6, <3>1, <3>2 DEF HandedOnce
    <2>11. \A i, j \in Asks : i # j => call'[i].todo \cap call'[j].todo = {}
      BY <2>2, <2>6 DEF HandedOnce
    <2>12. HandedOnce' /\ Handed' \subseteq Handed
      <3>1. Lists' \cap Todos' = {} /\ (Lists' \cup Todos') \cap Continued' = {}
        BY <2>6, <2>7, <2>8, <2>9 DEF HandedOnce
      <3> QED  BY <1>3, <2>7, <2>8, <2>9, <2>10, <2>11, <3>1 DEF HandedOnce, Handed
    <2> QED  BY <1>1, <2>3, <2>5, <2>12, GatewayKeep DEF HandoverInv, PlaneInv
  <1> QED  BY <1>4, <1>5, <1>6

(***************************************************************************)
(* Steps of the gateway                                                    *)
(***************************************************************************)

LEMMA OpsDiffer ==
    /\ \A s, t : Record(s) = Record(t) => s = t
    /\ \A s, t : Record(s) # Forgets(t)
    /\ \A s : Record(s).op = "record" /\ Forgets(s).op = "forget"
  BY DEF Record, Forgets, Op

LEMMA Queued ==
    ASSUME TypeOK
    PROVE  /\ jq \in Seq(Ops) /\ DOMAIN jq = 1..Len(jq) /\ Len(jq) \in Nat
           /\ \A i \in DOMAIN jq : jq[i] \in Ops
           /\ \A o \in Ops : jq' = Append(jq, o) =>
                 /\ DOMAIN jq' = 1..(Len(jq) + 1) /\ jq'[Len(jq) + 1] = o
                 /\ \A i \in DOMAIN jq : jq'[i] = jq[i]
  <1>1. jq \in Seq(Ops)
    BY DEF TypeOK
  <1> QED  BY <1>1, AppendProperties, LenProperties

\* The journal is told to do one more thing, other than to record a session.
LEMMA ToldMore ==
    ASSUME TypeOK, NEW o \in Ops, o.op # "record", jq' = Append(jq, o), UNCHANGED journal
    PROVE  /\ Recording' = Recording
           /\ \A f : Leaves(f) => Leaves(f)'
           /\ TakesExcept /\ Mine' \subseteq Mine /\ (o.op = "take" => Mine \subseteq o.except)
                 => TakesExcept'
  <1>1. /\ DOMAIN jq = 1..Len(jq) /\ Len(jq) \in Nat
        /\ DOMAIN jq' = 1..(Len(jq) + 1) /\ jq'[Len(jq) + 1] = o
        /\ \A i \in DOMAIN jq : jq'[i] = jq[i]
    BY Queued
  <1>2. \A s : o # Record(s)
    BY OpsDiffer
  <1>3. Recording' = Recording
    BY <1>1, <1>2 DEF Recording
  <1>4. ASSUME NEW f, Leaves(f) PROVE Leaves(f)'
    BY <1>1, <1>2, <1>3, <1>4 DEF Leaves
  <1>5. ASSUME TakesExcept, Mine' \subseteq Mine, o.op = "take" => Mine \subseteq o.except
        PROVE  TakesExcept'
    <2>1. ASSUME NEW i \in DOMAIN jq', jq'[i].op = "take", NEW s \in Mine' \ jq'[i].except
          PROVE  s \notin journal' /\ \A j \in 1..i : jq'[j] # Record(s)
      <3>1. CASE i \in DOMAIN jq
        BY <1>1, <1>5, <2>1, <3>1 DEF TakesExcept
      <3>2. CASE i \notin DOMAIN jq
        BY <1>1, <1>5, <2>1, <3>2
      <3> QED  BY <3>1, <3>2
    <2> QED  BY <2>1 DEF TakesExcept
  <1> QED  BY <1>3, <1>4, <1>5

\* What the control plane knows stays as it is.
LEMMA PlaneSame ==
    ASSUME TypeOK, HandoverInv, NewsKept, UNCHANGED <<rec, resumed, call, begun>>,
           starts' \cup creating' \subseteq starts \cup creating, starts' \cap creating' = {}
    PROVE  PlaneInv' /\ HandedOnce' /\ Handed' \subseteq Handed
  <1>1. CallsKept /\ PlaneKept
    BY CallsSame DEF HandoverInv, PlaneKept
  <1> QED  BY <1>1, PlaneKeep, HandedKeep DEF HandoverInv

\* A session is started once: nothing was written, handed over or forgotten of it.
LEMMA CreatedKeeps ==
    ASSUME TypeOK, HandoverInv, NEW s \in Sessions, Created(s)
    PROVE  HandoverInv'
  <1>1. /\ s \in creating /\ creating' = creating \ {s} /\ agent' = agent \cup {s} /\ begun' = begun \cup {s}
        /\ reg' = [reg EXCEPT ![s] = "running"] /\ jq' = Append(jq, Record(s))
        /\ UNCHANGED <<journal, purpose, forgotten, aborter, forget, shut, starts, rec, resumed, call>>
    BY DEF Created, Record, process, plane
  <1>2. /\ s \notin begun /\ s \notin starts /\ s \in Known /\ rec[s] \notin {"none", "held"}
        /\ InTurn /\ Numbered /\ Spoken
    BY <1>1, BegunKnown DEF HandoverInv, PlaneInv, InTurn
  <1>3. NewsKept
    <2>1. Note("started", s) \in Notes /\ Note("started", s).kind # "list" /\ Note("started", s).of = s
      BY NotesTyped DEF Note
    <2> QED  BY <1>2, <2>1 DEF Created, Told, NewsKept
  <1>4. Record(s) \in Ops
    BY OpsTyped DEF Record
  <1>5. /\ DOMAIN jq = 1..Len(jq) /\ Len(jq) \in Nat
        /\ DOMAIN jq' = 1..(Len(jq) + 1) /\ jq'[Len(jq) + 1] = Record(s)
        /\ \A i \in DOMAIN jq : jq'[i] = jq[i]
    BY <1>1, <1>4, Queued
  <1>6. Recording' = Recording \cup {s}
    <2>1. Recording' \subseteq Recording \cup {s}
      BY <1>5, OpsDiffer DEF Recording
    <2>2. Recording \cup {s} \subseteq Recording'
      <3>1. Len(jq) + 1 \in DOMAIN jq' /\ DOMAIN jq \subseteq DOMAIN jq'
        BY <1>5
      <3> QED  BY <1>5, <3>1 DEF Recording
    <2> QED  BY <2>1, <2>2
  <1>7. Registered' = Registered \cup {s} /\ Mine' = Mine \cup {s}
    <2>1. Registered' = Registered \cup {s}
      BY <1>1 DEF Registered, TypeOK
    <2> QED  BY <1>1, <1>6, <2>1 DEF Mine
  <1>8. Own /\ Down
    BY DEF HandoverInv
  <1>9. s \notin Mine \cup journal \cup Handed \cup forgotten
    BY <1>2, <1>8 DEF Own
  <1>10. CallsKept
    BY <1>1, CallsSame DEF HandoverInv
  <1>11. HandedOnce' /\ Handed' \subseteq Handed
    BY <1>1, <1>3, <1>10, HandedKeep DEF HandoverInv
  <1>12. PlaneInv'
    <2>1. Known' = Known
      BY <1>1 DEF Known
    <2>2. InTurn'
      BY <1>1, <1>2 DEF InTurn
    <2>3. Numbered'
      BY <1>2, <2>1 DEF Numbered
    <2>4. Spoken'
      BY <1>1, <1>2, <1>3, <2>1, NewsKeep DEF Spoken
    <2> QED  BY <2>2, <2>3, <2>4 DEF PlaneInv
  <1>13. TakesExcept'
    <2>1. ASSUME NEW i \in DOMAIN jq', jq'[i].op = "take", NEW t \in Mine' \ jq'[i].except
          PROVE  t \notin journal' /\ \A j \in 1..i : jq'[j] # Record(t)
      <3>1. i \in DOMAIN jq /\ jq'[i] = jq[i] /\ 1..i \subseteq DOMAIN jq
        BY <1>5, <2>1, OpsDiffer
      <3>2. CASE t = s
        BY <1>1, <1>5, <1>9, <3>1, <3>2 DEF Mine, Recording
      <3>3. CASE t # s
        BY <1>1, <1>5, <1>7, <1>8, <2>1, <3>1, <3>3 DEF Own, TakesExcept
      <3> QED  BY <3>2, <3>3
    <2> QED  BY <2>1 DEF TakesExcept
  <1>14. Own'
    BY <1>1, <1>7, <1>8, <1>9, <1>11, <1>13 DEF Own
  <1>15. Down'
    <2>1. ASSUME NEW f \in purpose \ forget, Leaves(f) PROVE Leaves(f)'
      <3>1. f # s
        BY <1>9 DEF Mine
      <3>2. \A j \in DOMAIN jq' : jq'[j] = Record(f) => j \in DOMAIN jq /\ jq[j] = Record(f)
        BY <1>5, <3>1, OpsDiffer
      <3>3. CASE f \notin journal \cup Recording
        BY <1>1, <1>6, <3>1, <3>3 DEF Leaves
      <3>4. CASE f \in journal \cup Recording
        <4>1. PICK i \in DOMAIN jq : jq[i] = Forgets(f) /\ \A j \in DOMAIN jq : jq[j] = Record(f) => j < i
          BY <2>1, <3>4 DEF Leaves
        <4>2. i \in DOMAIN jq' /\ jq'[i] = Forgets(f)
          BY <1>5, <4>1
        <4> QED  BY <3>2, <4>1, <4>2 DEF Leaves
      <3> QED  BY <3>3, <3>4
    <2> QED  BY <1>1, <1>6, <1>8, <1>9, <1>11, <2>1 DEF Down
  <1> QED  BY <1>11, <1>12, <1>14, <1>15 DEF HandoverInv

LEMMA EndedKeeps ==
    ASSUME TypeOK, HandoverInv, NEW s \in Sessions, Ended(s)
    PROVE  HandoverInv'
  <1>1. PICK how \in {"completed", "failed"} : AgentEnds(s, how)
    BY DEF Ended
  <1>2. UNCHANGED <<journal, begun, purpose, forgotten, aborter, forget, shut, creating, starts, rec, resumed, call>>
    BY DEF Ended, process, plane, history
  <1>3. s \in agent /\ agent' = agent \ {s} /\ Own /\ Down /\ s \in Known
    BY <1>1, BegunKnown DEF AgentEnds, HandoverInv
  <1>4. NewsKept
    <2>1. Note("ended", s) \in Notes /\ Note("ended", s).kind # "list" /\ Note("ended", s).of = s
      BY NotesTyped DEF Note
    <2> QED  BY <1>1, <1>3, <2>1 DEF AgentEnds, Told, NewsKept
  <1>5. PlaneInv' /\ HandedOnce' /\ Handed' \subseteq Handed
    BY <1>2, <1>4, PlaneSame DEF HandoverInv, PlaneInv, InTurn
  <1>6. Registered' = Registered
    BY <1>1 DEF AgentEnds, Registered, TypeOK
  <1>7. /\ Recording' = Recording /\ \A f : Leaves(f) => Leaves(f)'
        /\ Mine' \subseteq Mine => TakesExcept'
    <2>1. CASE jq' = jq
      <3>1. Recording' = Recording
        BY <2>1 DEF Recording
      <3> QED  BY <1>2, <1>3, <2>1, <3>1 DEF Leaves, Own, TakesExcept
    <2>2. CASE jq' = Append(jq, Op("remove", s, 0, {}))
      <3>1. Op("remove", s, 0, {}) \in Ops /\ Op("remove", s, 0, {}).op = "remove"
        BY OpsTyped DEF Op
      <3> QED  BY <1>2, <1>3, <2>2, <3>1, ToldMore DEF Own
    <2> QED  BY <1>1, <2>1, <2>2 DEF AgentEnds
  <1>8. Mine' \subseteq Mine
    BY <1>2, <1>3, <1>6, <1>7 DEF Mine
  <1>9. Own' /\ Down'
    BY <1>2, <1>3, <1>5, <1>6, <1>7, <1>8 DEF Own, Down
  <1> QED  BY <1>5, <1>9 DEF HandoverInv

\* The question excepts what the process has to do with.
LEMMA AskKeeps ==
    ASSUME TypeOK, HandoverInv, Ask
    PROVE  HandoverInv'
  <1> DEFINE o == Op("take", NoSession, asks + 1, Registered)
  <1>1. /\ jq' = Append(jq, o) /\ Reachable /\ asks + 1 \in Asks
        /\ UNCHANGED <<journal, begun, purpose, forgotten, aborter, forget, shut, reg, agent,
                       creating, starts, rec, resumed, news>>
    <2>1. asks + 1 \in Asks
      BY Bounds DEF Ask, Asks, TypeOK
    <2> QED  BY <2>1 DEF Ask, process, history
  <1>2. o \in Ops /\ o.op = "take" /\ o.except = Registered
    BY <1>1, OpsTyped, SetsTyped DEF Op
  <1> HIDE DEF o
  <1>3. Own /\ Down /\ PlaneInv /\ Mine \subseteq Registered
    BY <1>1 DEF HandoverInv, Own, Reachable
  <1>4. /\ Recording' = Recording /\ \A f : Leaves(f) => Leaves(f)'
        /\ Mine' \subseteq Mine => TakesExcept'
    BY <1>1, <1>2, <1>3, ToldMore DEF Own
  <1>5. Registered' = Registered /\ Mine' = Mine
    BY <1>1, <1>4 DEF Registered, Mine
  <1>6. CallsKept
    <2> DEFINE c == [call[asks + 1] EXCEPT !.at = "asking", !.active = Working]
    <2>1. c \in Recoveries /\ c.todo = call[asks + 1].todo /\ c.sweep = call[asks + 1].sweep /\ c.at = "asking"
      BY <1>1, CallTyped, SetsTyped DEF Recoveries, CallStates
    <2>2. call' = [call EXCEPT ![asks + 1] = c]
      BY <1>1 DEF Ask, TypeOK
    <2> HIDE DEF c
    <2> QED  BY <1>1, <1>3, <2>1, <2>2, CallMoves DEF PlaneInv, Spoken
  <1>7. NewsKept /\ PlaneKept
    BY <1>1, <1>3 DEF NewsKept, PlaneKept, PlaneInv, InTurn
  <1>8. PlaneInv' /\ HandedOnce' /\ Handed' \subseteq Handed
    BY <1>1, <1>3, <1>6, <1>7, PlaneKeep, HandedKeep DEF HandoverInv
  <1>9. Own' /\ Down'
    BY <1>1, <1>3, <1>4, <1>5, <1>8 DEF Own, Down
  <1> QED  BY <1>8, <1>9 DEF HandoverInv

\* The journal does what it was told first.
LEMMA JournalMoves ==
    ASSUME TypeOK, HandoverInv, JournalStep
    PROVE  /\ Recording' \subseteq Recording /\ Mine' \subseteq Mine /\ Registered' = Registered
           /\ journal' \subseteq journal \cup Recording
           /\ TakesExcept' /\ \A f : Leaves(f) => Leaves(f)'
           /\ Head(jq).op = "take" => (journal \ Head(jq).except) \cap Mine = {}
  <1> DEFINE o == Head(jq)
  <1>1. /\ jq # <<>> /\ jq' = Tail(jq) /\ journal' = Does(journal, o)
        /\ UNCHANGED <<reg, agent, purpose>>
    BY DEF JournalStep, process, history
  <1>2. /\ 1 \in DOMAIN jq /\ jq[1] = o /\ o \in Ops
        /\ DOMAIN jq = 1..Len(jq) /\ Len(jq) \in Nat
        /\ DOMAIN jq' = 1..(Len(jq) - 1)
        /\ \A i \in DOMAIN jq' : i + 1 \in DOMAIN jq /\ jq'[i] = jq[i + 1]
    <2>1. jq \in Seq(Ops)
      BY DEF TypeOK
    <2> QED  BY <1>1, <2>1, HeadTailProperties, LenProperties
  <1>3. \A i \in DOMAIN jq : i = 1 \/ (i - 1 \in DOMAIN jq' /\ jq'[i - 1] = jq[i])
    BY <1>2
  <1> HIDE DEF o
  <1>4. o.op \in {"record", "remove", "forget", "take"} /\ (o.op = "record" => o = Record(o.of) /\ o.of \in Sessions)
    BY <1>2, OpsFields DEF Record
  <1>5. Recording' \subseteq Recording
    BY <1>2 DEF Recording
  <1>6. Registered' = Registered /\ Mine' \subseteq Mine
    <2>1. Registered' = Registered
      BY <1>1 DEF Registered
    <2> QED  BY <1>1, <1>5, <2>1 DEF Mine
  <1>7. CASE o.op = "record"
    <2>1. journal' = journal \cup {o.of} /\ o.of \in Recording /\ o = Record(o.of)
      BY <1>1, <1>2, <1>4, <1>7 DEF Does, Recording
    <2>2. ASSUME NEW i \in DOMAIN jq', jq'[i].op = "take", NEW s \in Mine' \ jq'[i].except
          PROVE  s \notin journal' /\ \A j \in 1..i : jq'[j] # Record(s)
      <3>1. s \notin journal /\ \A j \in 1..(i + 1) : jq[j] # Record(s)
        BY <1>2, <1>6, <2>2 DEF HandoverInv, Own, TakesExcept
      <3>2. \A j \in 1..i : j \in DOMAIN jq' /\ j + 1 \in 1..(i + 1) /\ 1 \in 1..(i + 1)
        BY <1>2
      <3>3. s # o.of
        BY <1>2, <2>1, <3>1
      <3> QED  BY <1>2, <2>1, <3>1, <3>2, <3>3
    <2>3. ASSUME NEW f, Leaves(f) PROVE Leaves(f)'
      <3>1. CASE f \notin journal \cup Recording
        BY <1>5, <2>1, <3>1 DEF Leaves
      <3>2. CASE f \in journal \cup Recording
        <4>1. PICK i \in DOMAIN jq : jq[i] = Forgets(f) /\ \A j \in DOMAIN jq : jq[j] = Record(f) => j < i
          BY <2>3, <3>2 DEF Leaves
        <4>2. i # 1
          BY <1>2, <2>1, <4>1, OpsDiffer
        <4>3. i - 1 \in DOMAIN jq' /\ jq'[i - 1] = Forgets(f)
          BY <1>3, <4>1, <4>2
        <4>4. \A j \in DOMAIN jq' : jq'[j] = Record(f) => j < i - 1
          BY <1>2, <4>1
        <4> QED  BY <4>3, <4>4 DEF Leaves
      <3> QED  BY <3>1, <3>2
    <2> QED  BY <1>5, <1>6, <1>7, <2>1, <2>2, <2>3 DEF TakesExcept, o
  <1>8. CASE o.op # "record"
    <2>1. journal' \subseteq journal /\ \A s : o # Record(s)
      BY <1>1, <1>4, <1>8, OpsDiffer DEF Does
    <2>2. ASSUME NEW i \in DOMAIN jq', jq'[i].op = "take", NEW s \in Mine' \ jq'[i].except
          PROVE  s \notin journal' /\ \A j \in 1..i : jq'[j] # Record(s)
      <3>1. s \notin journal /\ \A j \in 1..(i + 1) : jq[j] # Record(s)
        BY <1>2, <1>6, <2>2 DEF HandoverInv, Own, TakesExcept
      <3>2. \A j \in 1..i : j \in DOMAIN jq' /\ j + 1 \in 1..(i + 1)
        BY <1>2
      <3> QED  BY <1>2, <2>1, <3>1, <3>2
    <2>3. ASSUME NEW f, Leaves(f) PROVE Leaves(f)'
      <3>1. CASE f \notin journal \cup Recording
        BY <1>5, <2>1, <3>1 DEF Leaves
      <3>2. CASE f \in journal \cup Recording
        <4>1. PICK i \in DOMAIN jq : jq[i] = Forgets(f) /\ \A j \in DOMAIN jq : jq[j] = Record(f) => j < i
          BY <2>3, <3>2 DEF Leaves
        <4>2. CASE i = 1
          <5>1. o = Forgets(f) /\ journal' = journal \ {f}
            BY <1>1, <1>2, <4>1, <4>2 DEF Does, Forgets, Op
          <5>2. f \notin Recording
            BY <1>2, <4>1, <4>2 DEF Recording
          <5> QED  BY <1>5, <5>1, <5>2 DEF Leaves
        <4>3. CASE i # 1
          <5>1. i - 1 \in DOMAIN jq' /\ jq'[i - 1] = Forgets(f)
            BY <1>3, <4>1, <4>3
          <5>2. \A j \in DOMAIN jq' : jq'[j] = Record(f) => j < i - 1
            BY <1>2, <4>1
          <5> QED  BY <5>1, <5>2 DEF Leaves
        <4> QED  BY <4>2, <4>3
      <3> QED  BY <3>1, <3>2
    <2>4. o.op = "take" => (journal \ o.except) \cap Mine = {}
      BY <1>2 DEF HandoverInv, Own, TakesExcept
    <2> QED  BY <1>5, <1>6, <2>1, <2>2, <2>3, <2>4 DEF TakesExcept, o
  <1> QED  BY <1>7, <1>8

\* What the journal hands over has left it.
LEMMA JournalKeeps ==
    ASSUME TypeOK, HandoverInv, JournalStep
    PROVE  HandoverInv'
  <1> DEFINE o == Head(jq)
             left == journal \ o.except
  <1>1. /\ journal' = Does(journal, o) /\ jq # <<>>
        /\ news' = IF o.op # "take" THEN news
                   ELSE Told([kind |-> "list", of |-> o.n, list |-> left])
        /\ UNCHANGED <<begun, purpose, forgotten, aborter, forget, shut, creating, starts, rec, resumed, call>>
    BY DEF JournalStep, process, plane, history
  <1>2. /\ Recording' \subseteq Recording /\ Mine' \subseteq Mine /\ Registered' = Registered
        /\ journal' \subseteq journal \cup Recording
        /\ TakesExcept' /\ \A f : Leaves(f) => Leaves(f)'
        /\ o.op = "take" => left \cap Mine = {}
    BY JournalMoves
  <1>3. o \in Ops
    <2>1. jq \in Seq(Ops)
      BY DEF TypeOK
    <2> QED  BY <1>1, <2>1, HeadTailProperties
  <1> HIDE DEF o
  <1>4. Own /\ Down /\ PlaneInv /\ Recording \subseteq Mine
    BY DEF HandoverInv, Mine
  <1>5. CASE news' = news
    <2>1. NewsKept
      BY <1>5 DEF NewsKept
    <2>2. PlaneInv' /\ HandedOnce' /\ Handed' \subseteq Handed
      BY <1>1, <1>4, <2>1, PlaneSame DEF PlaneInv, InTurn
    <2>3. Own' /\ Down'
      BY <1>1, <1>2, <1>4, <2>2 DEF Own, Down
    <2> QED  BY <2>2, <2>3 DEF HandoverInv
  <1>6. CASE news' # news
    <2> DEFINE m == [kind |-> "list", of |-> o.n, list |-> left]
    <2>1. news' = Append(news, m) /\ o.op = "take" /\ journal' = journal \cap o.except
      BY <1>1, <1>6 DEF Told, Does
    <2>2. m \in Notes /\ m.list = left /\ m.kind = "list"
      <3>1. o.n \in Asks /\ left \subseteq Sessions
        BY <1>3, <2>1, OpsFields, SetsTyped
      <3> QED  BY <3>1, NotesTyped
    <2> HIDE DEF m
    <2>3. /\ DOMAIN news = 1..Len(news) /\ Len(news) \in Nat
          /\ DOMAIN news' = 1..(Len(news) + 1) /\ news'[Len(news) + 1] = m
          /\ \A i \in DOMAIN news : news'[i] = news[i]
      <3>1. news \in Seq(Notes)
        BY DEF TypeOK
      <3> QED  BY <2>1, <2>2, <3>1, AppendProperties, LenProperties
    <2>4. left \cap (journal' \cup Mine) = {} /\ left \subseteq journal
      BY <1>2, <2>1
    <2>5. left \cap Handed = {} /\ left \cap forgotten = {} /\ left \subseteq begun
      BY <1>4, <2>4 DEF Own, Down
    <2> HIDE DEF left
    <2>6. Lists' = Lists \cup left
      <3>1. Lists' \subseteq Lists \cup left
        BY <2>2, <2>3 DEF Lists
      <3>2. DOMAIN news \subseteq DOMAIN news' /\ Len(news) + 1 \in DOMAIN news'
        BY <2>3
      <3>3. Lists \cup left \subseteq Lists'
        BY <2>2, <2>3, <3>2 DEF Lists
      <3> QED  BY <3>1, <3>3
    <2>7. Todos' = Todos /\ Continued' = Continued
      BY <1>1 DEF Todos, Continued
    <2>8. ListsApart'
      <3>1. \A i \in DOMAIN news : left \cap news[i].list = {}
        BY <2>5 DEF Handed, Lists
      <3>2. \A i \in DOMAIN news' : i \in DOMAIN news \/ i = Len(news) + 1
        BY <2>3
      <3> QED  BY <2>2, <2>3, <3>1, <3>2 DEF HandoverInv, HandedOnce, ListsApart
    <2>9. HandedOnce' /\ Handed' = Handed \cup left
      BY <1>1, <2>5, <2>6, <2>7, <2>8 DEF HandoverInv, HandedOnce, Handed
    <2>10. PlaneInv'
      <3>1. Known' = Known
        BY <1>1 DEF Known
      <3>2. \A i \in DOMAIN news' : news'[i].kind # "list" => news'[i].of \in Known
        <4>1. ASSUME NEW i \in DOMAIN news', news'[i].kind # "list" PROVE news'[i].of \in Known
          <5>1. i \in DOMAIN news
            BY <2>2, <2>3, <4>1
          <5> QED  BY <1>4, <2>3, <4>1, <5>1 DEF PlaneInv, Spoken
        <4> QED  BY <4>1
      <3> QED  BY <1>1, <1>4, <3>1, <3>2 DEF PlaneInv, Numbered, InTurn, Spoken
    <2>11. Own' /\ Down'
      BY <1>1, <1>2, <1>4, <2>1, <2>4, <2>5, <2>9 DEF Own, Down
    <2> QED  BY <2>9, <2>10, <2>11 DEF HandoverInv
  <1> QED  BY <1>5, <1>6

(***************************************************************************)
(* The end of the process                                                  *)
(***************************************************************************)

LEMMA AbortKeeps ==
    ASSUME TypeOK, HandoverInv, Abort
    PROVE  HandoverInv'
  <1>1. /\ forget' = Registered /\ purpose' = Registered
        /\ UNCHANGED <<journal, begun, forgotten, shut, jq, reg, agent, creating, starts, news, rec, resumed, call>>
    BY DEF Abort, gateway, links, plane
  <1>2. Registered' = Registered /\ Recording' = Recording /\ Mine' \subseteq Mine
    BY <1>1 DEF Registered, Recording, Mine
  <1>3. PlaneInv' /\ HandedOnce' /\ Handed' \subseteq Handed
    BY <1>1, PlaneSame DEF HandoverInv, PlaneInv, InTurn, NewsKept
  <1>4. Own' /\ Down'
    BY <1>1, <1>2, <1>3 DEF HandoverInv, Own, Down, TakesExcept
  <1> QED  BY <1>3, <1>4 DEF HandoverInv

\* Once the journal has no forgetting to do, every session that was to be
\* forgotten is out of it.
LEMMA ForgetKeeps ==
    ASSUME TypeOK, HandoverInv, Forget
    PROVE  HandoverInv'
  <1>1. /\ aborter = "forgetting" /\ \A i \in DOMAIN jq : jq[i].op # "forget"
        /\ UNCHANGED <<journal, begun, purpose, reg, agent, creating, starts, news, rec, resumed, call>>
    BY DEF Forget, links, plane
  <1>2. PlaneInv' /\ HandedOnce' /\ Handed' \subseteq Handed
    BY <1>1, PlaneSame DEF HandoverInv, PlaneInv, InTurn, NewsKept
  <1>3. Own /\ Down /\ Registered' = Registered
    BY <1>1 DEF HandoverInv, Registered
  <1>4. CASE forget # {}
    <2>1. PICK f \in forget : f = Min(forget) /\ f \in Sessions
      BY <1>4, MinIsIn, SetsTyped
    <2>2. forget' = forget \ {f} /\ jq' = Append(jq, Forgets(f)) /\ UNCHANGED <<aborter, shut, forgotten>>
      BY <1>4, <2>1 DEF Forget, Forgets
    <2>3. Forgets(f) \in Ops /\ Forgets(f).op = "forget"
      BY <2>1, OpsTyped, OpsDiffer DEF Forgets
    <2>4. /\ Recording' = Recording /\ \A x : Leaves(x) => Leaves(x)'
          /\ Mine' \subseteq Mine => TakesExcept'
      BY <1>1, <1>3, <2>2, <2>3, ToldMore DEF Own
    <2>5. Mine' = Mine
      BY <1>1, <1>3, <2>4 DEF Mine
    <2>6. Leaves(f)'
      <3>1. /\ DOMAIN jq = 1..Len(jq) /\ Len(jq) \in Nat
            /\ DOMAIN jq' = 1..(Len(jq) + 1) /\ jq'[Len(jq) + 1] = Forgets(f)
        BY <2>2, <2>3, Queued
      <3>2. \A j \in DOMAIN jq' : jq'[j] = Record(f) => j < Len(jq) + 1
        BY <3>1, OpsDiffer
      <3> QED  BY <3>1, <3>2 DEF Leaves
    <2>7. Own'
      BY <1>1, <1>2, <1>3, <2>2, <2>4, <2>5 DEF Own
    <2>8. Down'
      BY <1>1, <1>2, <1>3, <2>1, <2>2, <2>4, <2>6 DEF Down
    <2> QED  BY <1>2, <2>7, <2>8 DEF HandoverInv
  <1>5. CASE forget = {}
    <2>1. /\ aborter' # "forgetting" /\ forgotten' = forgotten \cup purpose /\ jq' = jq
          /\ shut' # "done" => shut # "done"
      BY <1>5 DEF Forget, Caller, Shutting
    <2>2. Recording' = Recording /\ Mine' = Mine /\ TakesExcept'
      <3>1. Recording' = Recording
        BY <2>1 DEF Recording
      <3>2. Mine' = Mine
        BY <1>1, <1>3, <3>1 DEF Mine
      <3> QED  BY <1>1, <1>3, <2>1, <3>1, <3>2 DEF Own, TakesExcept
    <2>3. \A f \in purpose : f \notin journal \cup Recording
      <3>1. \A f : \A i \in DOMAIN jq : jq[i] # Forgets(f)
        BY <1>1, OpsDiffer
      <3> QED  BY <1>1, <1>3, <1>5, <3>1 DEF Down, Leaves
    <2>4. purpose \subseteq Mine
      BY DEF Mine
    <2>5. Own' /\ Down'
      BY <1>1, <1>2, <1>3, <2>1, <2>2, <2>3, <2>4 DEF Own, Down
    <2> QED  BY <1>2, <2>5 DEF HandoverInv
  <1> QED  BY <1>4, <1>5

\* gateway.shutdown clears the registry, or the process ends and everything it
\* held is gone.
LEMMA GoneKeeps ==
    ASSUME TypeOK, HandoverInv, NewsKept, UNCHANGED <<journal, begun, forgotten, rec, resumed, call>>,
           starts' \cup creating' \subseteq starts \cup creating, starts' \cap creating' = {},
           Registered' = {}, purpose' \subseteq purpose, agent' \subseteq agent,
           \/ jq' = jq /\ shut' = "done" /\ UNCHANGED <<aborter, forget, purpose>>
           \/ jq' = <<>> /\ purpose' = {} /\ agent' = {} /\ aborter' = "no"
    PROVE  HandoverInv'
  <1>1. PlaneInv' /\ HandedOnce' /\ Handed' \subseteq Handed
    BY PlaneSame
  <1>2. Own /\ Down
    BY DEF HandoverInv
  <1>3. CASE jq' = jq /\ shut' = "done" /\ UNCHANGED <<aborter, forget, purpose>>
    <2>1. Recording' = Recording /\ Mine' \subseteq Mine
      BY <1>3 DEF Recording, Mine
    <2>2. Own' /\ Down'
      BY <1>1, <1>2, <1>3, <2>1 DEF Own, Down, TakesExcept, Leaves
    <2> QED  BY <1>1, <2>2 DEF HandoverInv
  <1>4. CASE jq' = <<>> /\ purpose' = {} /\ agent' = {} /\ aborter' = "no"
    <2>1. Recording' = {} /\ Mine' = {}
      BY <1>4 DEF Recording, Mine
    <2>2. Own' /\ Down'
      BY <1>1, <1>2, <1>4, <2>1 DEF Own, Down, TakesExcept
    <2> QED  BY <1>1, <2>2 DEF HandoverInv
  <1> QED  BY <1>3, <1>4

LEMMA EndsKeeps ==
    ASSUME TypeOK, HandoverInv, Closed \/ \E code : Ends(code)
    PROVE  HandoverInv'
  <1>1. CASE Closed
    <2>1. /\ UNCHANGED <<journal, begun, forgotten, rec, resumed, call, starts, creating, purpose, agent,
                         jq, aborter, forget, news>>
          /\ shut' = "done" /\ Registered' = {}
      BY <1>1 DEF Closed, links, plane, history, Registered
    <2>2. NewsKept /\ starts' \cap creating' = {}
      BY <2>1 DEF NewsKept, HandoverInv, PlaneInv, InTurn
    <2> QED  BY <2>1, <2>2, GoneKeeps
  <1>2. ASSUME NEW code, Ends(code) PROVE HandoverInv'
    <2>1. /\ UNCHANGED <<journal, begun, forgotten, rec, resumed, call>>
          /\ starts' = {} /\ creating' = {} /\ agent' = {} /\ purpose' = {} /\ jq' = <<>>
          /\ aborter' = "no" /\ news' = <<>> /\ Registered' = {}
      BY <1>2 DEF Ends, plane, Registered
    <2>2. NewsKept
      BY <2>1 DEF NewsKept
    <2> QED  BY <2>1, <2>2, GoneKeeps
  <1> QED  BY <1>1, <1>2

(***************************************************************************)
(* Who ends the process                                                    *)
(***************************************************************************)

\* gateway.shutdown has a caller.  A runtime that failed for good is closed by
\* fatal, and stop was not called.
Reported ==
    /\ shut # "no" => Stopping
    /\ rt = "fatal" => fataler = "closing" /\ stopper = "no"

Says == up /\ ~up' /\ rt = "fatal" => exit' # "ok" \/ aborter # "no"

LEMMA InitReported == Init => Reported
  BY DEF Init, Reported

LEMMA StepReported ==
    ASSUME Reported, [Next]_vars
    PROVE  Reported' /\ (Says \/ UNCHANGED vars)
  <1>1. CASE UNCHANGED vars
    BY <1>1 DEF Reported, Stopping, vars, process
  <1>2. CASE Next /\ UNCHANGED <<process>>
    BY <1>2 DEF Reported, Stopping, Says, process
  <1>3. CASE Stop \/ DrainEnds \/ Abort
    BY <1>3 DEF Stop, DrainEnds, Abort, Stopping, Moved, Caller, Shutting, Reported, Says, May
  <1>4. CASE Forget \/ Closed \/ Boot
    <2>1. CASE Forget
      BY <2>1 DEF Forget, Stopping, Caller, Reported, Says
    <2>2. CASE Closed
      BY <2>2 DEF Closed, Stopping, Reported, Says
    <2>3. CASE Boot
      BY <2>3 DEF Boot, Stopping, Reported, Says
    <2> QED  BY <1>4, <2>1, <2>2, <2>3
  <1>5. CASE Finish
    <2>1. stopper # "no" \/ aborter # "no"
      BY <1>5 DEF Finish
    <2> QED  BY <1>5, <2>1 DEF Finish, Ends, Reported, Says
  <1>6. CASE Fatal
    BY <1>6 DEF Fatal, Ends, Reported, Stopping, Says
  <1>7. CASE FinishFatal \/ Kill
    BY <1>7 DEF FinishFatal, Kill, Ends, Reported, Says
  <1>8. Lifecycle \/ (Next /\ UNCHANGED <<process>>) \/ UNCHANGED vars
    BY DEF Next, OnGateway, OnPlane, Recover, JournalStep, Starts, Hear, Ask, StartArrives,
           Created, NotCreated, Ended, Approve, Refuse, Age, StartTimeout, AskTimeout,
           Continue, End, List, Sweep
  <1> QED  BY <1>1, <1>2, <1>3, <1>4, <1>5, <1>6, <1>7, <1>8 DEF Lifecycle

\* The exit code of a gateway that failed for good says so, unless it was
\* aborted as well (fatal, finish).
THEOREM FatalIsReportedAlways == Spec => FatalIsReported
  <1>1. Reported /\ [Next]_vars => Reported' /\ [Says]_vars
    BY StepReported
  <1> QED  BY InitReported, <1>1, PTL DEF Spec, FatalIsReported, Says

LEMMA FatalKeeps ==
    ASSUME TypeOK, HandoverInv, Reported, Fatal
    PROVE  HandoverInv'
  <1>1. CASE Ends("fatal")
    BY <1>1, EndsKeeps
  <1>2. CASE ~Ends("fatal")
    <2>1. UNCHANGED <<lives, up, stopper, aborter, forget, gateway, links, plane, history>>
          /\ ~Stopping /\ shut' = "closing"
      BY <1>2 DEF Fatal
    <2>2. /\ UNCHANGED <<reg, agent, jq, journal, begun, forgotten, aborter, forget>>
          /\ UNCHANGED <<purpose, rec, resumed, call, creating, starts, news>>
      BY <2>1 DEF gateway, links, plane, history
    <2>3. PlaneInv' /\ HandedOnce' /\ Handed' \subseteq Handed
      BY <2>2, PlaneSame DEF HandoverInv, PlaneInv, InTurn, NewsKept
    <2>4. shut # "done"
      BY <2>1 DEF Reported
    <2>5. Registered' = Registered /\ Recording' = Recording /\ Mine' = Mine
      BY <2>2 DEF Registered, Recording, Mine
    <2>6. Own' /\ Down'
      BY <2>2, <2>3, <2>4, <2>5 DEF HandoverInv, Own, Down, TakesExcept, Leaves
    <2> QED  BY <2>3, <2>6 DEF HandoverInv
  <1> QED  BY <1>1, <1>2

LEMMA StepKeeps ==
    ASSUME TypeOK, HandoverInv, Reported, [Next]_vars
    PROVE  HandoverInv'
  <1>1. CASE UNCHANGED vars
    <2>1. UNCHANGED <<reg, agent, jq, journal, begun, purpose, forgotten, aborter, forget, shut>>
          /\ UNCHANGED <<rec, resumed, call, creating, starts, news>>
      BY <1>1 DEF vars, process, gateway, links, plane, history
    <2>2. NewsKept /\ CallsKept /\ PlaneKept /\ GatewayKept
      BY <2>1, CallsSame DEF NewsKept, PlaneKept, GatewayKept, HandoverInv, PlaneInv, InTurn
    <2> QED  BY <2>2, StillKeeps
  <1>2. CASE Lifecycle
    <2>1. CASE Finish \/ FinishFatal \/ Kill
      BY <2>1, EndsKeeps DEF Finish, FinishFatal, Kill
    <2> QED  BY <1>2, <2>1, StandingKeeps, AbortKeeps, ForgetKeeps, EndsKeeps, FatalKeeps DEF Lifecycle
  <1>3. CASE JournalStep \/ Starts \/ Hear \/ Ask
    BY <1>3, JournalKeeps, StartsKeeps, HearKeeps, AskKeeps
  <1>4. ASSUME NEW s \in Sessions, OnGateway(s) PROVE HandoverInv'
    BY <1>4, StandingKeeps, CreatedKeeps, EndedKeeps DEF OnGateway
  <1>5. ASSUME NEW s \in Sessions, OnPlane(s) PROVE HandoverInv'
    BY <1>5, StandingKeeps, ApproveKeeps, TimeoutKeeps DEF OnPlane
  <1>6. ASSUME NEW k \in Asks, AskTimeout(k) \/ Recover(k) PROVE HandoverInv'
    BY <1>6, RecoveryKeeps, ContinueKeeps DEF Recover
  <1> QED  BY <1>1, <1>2, <1>3, <1>4, <1>5, <1>6 DEF Next

LEMMA HandoverAlways == Spec => [](TypeOK /\ HandoverInv)
  <1> DEFINE IInv == TypeOK /\ HandoverInv /\ Reported
  <1>1. Init => IInv
    BY InitTyped, InitHandover, InitReported
  <1>2. IInv /\ [Next]_vars => IInv'
    BY StepTyped, StepKeeps, StepReported
  <1> QED  BY <1>1, <1>2, PTL DEF Spec

\* An interrupted session is continued in one session at most, and only once
\* its own agent is gone for good, however often the gateway connects, stops or
\* is killed (takeInterrupted, session.interrupted, onGatewayConnected).
THEOREM ContinuedOnceAlways == Spec => []ContinuedOnce
  <1>1. TypeOK /\ HandoverInv => ContinuedOnce
    <2>1. SUFFICES ASSUME TypeOK, HandoverInv, NEW n \in Sessions, resumed[n] # NoSession
                   PROVE  /\ resumed[n] \notin agent \cup creating
                          /\ \A m \in Sessions : resumed[m] = resumed[n] => m = n
      BY DEF ContinuedOnce
    <2>2. resumed[n] \in Handed
      BY <2>1 DEF Handed, Continued
    <2>3. resumed[n] \notin agent
      BY <2>1, <2>2 DEF HandoverInv, Own, Mine
    <2>4. resumed[n] \notin creating
      BY <2>1, <2>2 DEF HandoverInv, Own, PlaneInv, InTurn
    <2> QED  BY <2>1, <2>3, <2>4 DEF HandoverInv, HandedOnce
  <1> QED  BY <1>1, HandoverAlways, PTL

\* What an abort has forgotten is never continued by a later life (abort,
\* forgetRunningSessions, SessionJournal.remove).
THEOREM CancelledWorkStaysDownAlways == Spec => []CancelledWorkStaysDown
  <1>1. TypeOK /\ HandoverInv => CancelledWorkStaysDown
    <2>1. SUFFICES ASSUME TypeOK, HandoverInv, NEW n \in Sessions, resumed[n] \in forgotten
                   PROVE  FALSE
      BY DEF CancelledWorkStaysDown
    <2>2. resumed[n] # NoSession
      BY <2>1, SetsTyped, Bounds
    <2>3. resumed[n] \in Handed
      BY <2>2 DEF Handed, Continued
    <2> QED  BY <2>1, <2>3 DEF HandoverInv, Down
  <1> QED  BY <1>1, HandoverAlways, PTL

(***************************************************************************)
(* The journal follows the registry                                        *)
(***************************************************************************)

\* A process that is down has registered nothing and starts nothing.
FollowsInv ==
    /\ ~up => Registered = {} /\ creating = {}
    /\ JournalFollows

\* What an operation leaves of one session does not depend on the others.
LEMMA DoesEach ==
    ASSUME NEW o \in Ops, NEW j, NEW s
    PROVE  s \in Does(j, o) <=> IF s \in j THEN s \in Does({s}, o) ELSE s \in Does({}, o)
  <1>1. o.op \in {"record", "remove", "forget", "take"}
    BY OpsFields
  <1> QED
    BY <1>1 DEF Does

LEMMA AfterAppend ==
    ASSUME NEW j, NEW q \in Seq(Ops), NEW o \in Ops
    PROVE  After(j, Append(q, o)) = {s \in Sessions : s \in Does(After(j, q), o)}
  <1> DEFINE p == Append(q, o)
             n == Len(q)
  <1>1. /\ n \in Nat /\ DOMAIN q = 1..n /\ DOMAIN p = 1..(n + 1) /\ p[n + 1] = o
        /\ \A i \in 1..n : p[i] = q[i] /\ i < n + 1 /\ ~(i > n + 1)
    OBVIOUS
  <1>2. 1..(n + 1) = 1..n \cup {n + 1} /\ ~(n + 1 > n + 1)
    BY <1>1
  <1> HIDE DEF p, n
  <1>3. ASSUME NEW s \in Sessions
        PROVE  s \in After(j, p) <=> s \in Does(After(j, q), o)
    <2>1. (\A i \in DOMAIN p : s \in Does({s}, p[i]))
             <=> (\A i \in DOMAIN q : s \in Does({s}, q[i])) /\ s \in Does({s}, o)
      BY <1>1, <1>2
    <2>2. (\E i \in DOMAIN p : s \in Does({}, p[i]) /\ \A k \in DOMAIN p : k > i => s \in Does({s}, p[k]))
             <=> \/ s \in Does({}, o)
                 \/ /\ s \in Does({s}, o)
                    /\ \E i \in DOMAIN q : /\ s \in Does({}, q[i])
                                           /\ \A k \in DOMAIN q : k > i => s \in Does({s}, q[k])
      <3>1. ASSUME NEW i \in DOMAIN q
            PROVE  (\A k \in DOMAIN p : k > i => s \in Does({s}, p[k]))
                     <=> s \in Does({s}, o) /\ \A k \in DOMAIN q : k > i => s \in Does({s}, q[k])
        BY <1>1, <1>2, <3>1
      <3>2. \A k \in DOMAIN p : ~(k > n + 1)
        BY <1>1, <1>2
      <3> QED
        BY <1>1, <1>2, <3>1, <3>2
    <2>3. s \in Does(After(j, q), o)
             <=> IF s \in After(j, q) THEN s \in Does({s}, o) ELSE s \in Does({}, o)
      BY DoesEach
    <2>4. s \in Does({}, o) => s \in Does({s}, o)
      <3>1. o.op \in {"record", "remove", "forget", "take"}
        BY OpsFields
      <3> QED
        BY <3>1 DEF Does
    <2> QED
      BY <2>1, <2>2, <2>3, <2>4 DEF After
  <1> QED
    BY <1>3 DEF After, p

\* The journal does what is queued in turn.
LEMMA AfterHead ==
    ASSUME NEW j, NEW q \in Seq(Ops), q # <<>>
    PROVE  After(Does(j, Head(q)), Tail(q)) = After(j, q)
  <1> DEFINE o == Head(q)
             t == Tail(q)
             n == Len(q)
  <1>1. /\ n \in Nat /\ n >= 1 /\ DOMAIN q = 1..n /\ o = q[1] /\ o \in Ops
        /\ DOMAIN t = 1..(n - 1) /\ \A i \in 1..(n - 1) : t[i] = q[i + 1]
    OBVIOUS
  <1> HIDE DEF o, t, n
  <1>2. /\ \A i \in DOMAIN q : i = 1 \/ (i > 1 /\ i - 1 \in DOMAIN t /\ t[i - 1] = q[i])
        /\ \A i \in DOMAIN t : i + 1 \in DOMAIN q /\ i + 1 > 1 /\ t[i] = q[i + 1]
        /\ 1 \in DOMAIN q
    BY <1>1
  <1>3. ASSUME NEW s \in Sessions
        PROVE  s \in After(Does(j, o), t) <=> s \in After(j, q)
    <2> DEFINE Kept == \A i \in DOMAIN t : s \in Does({s}, t[i])
               Put == \E i \in DOMAIN t : s \in Does({}, t[i])
                                          /\ \A k \in DOMAIN t : k > i => s \in Does({s}, t[k])
    <2>1. (\A i \in DOMAIN q : s \in Does({s}, q[i])) <=> s \in Does({s}, o) /\ Kept
      BY <1>1, <1>2
    <2>2. (\A k \in DOMAIN q : k > 1 => s \in Does({s}, q[k])) <=> Kept
      <3>1. ASSUME \A k \in DOMAIN q : k > 1 => s \in Does({s}, q[k]), NEW i \in DOMAIN t
            PROVE  s \in Does({s}, t[i])
        <4>1. i + 1 \in DOMAIN q /\ i + 1 > 1 /\ t[i] = q[i + 1]
          BY <1>2, <3>1
        <4> QED
          BY <3>1, <4>1
      <3>2. ASSUME Kept, NEW k \in DOMAIN q, k > 1
            PROVE  s \in Does({s}, q[k])
        <4>1. k - 1 \in DOMAIN t /\ t[k - 1] = q[k]
          BY <1>1, <1>2, <3>2
        <4> QED
          BY <3>2, <4>1
      <3> QED
        BY <3>1, <3>2
    <2>3. ASSUME NEW i \in DOMAIN t
          PROVE  (\A k \in DOMAIN q : k > i + 1 => s \in Does({s}, q[k]))
                   <=> \A k \in DOMAIN t : k > i => s \in Does({s}, t[k])
      <3>1. ASSUME \A k \in DOMAIN q : k > i + 1 => s \in Does({s}, q[k]), NEW k \in DOMAIN t, k > i
            PROVE  s \in Does({s}, t[k])
        <4>1. k + 1 \in DOMAIN q /\ k + 1 > i + 1 /\ t[k] = q[k + 1]
          BY <1>1, <1>2, <2>3, <3>1
        <4> QED
          BY <3>1, <4>1
      <3>2. ASSUME \A k \in DOMAIN t : k > i => s \in Does({s}, t[k]), NEW k \in DOMAIN q, k > i + 1
            PROVE  s \in Does({s}, q[k])
        <4>1. k - 1 \in DOMAIN t /\ k - 1 > i /\ t[k - 1] = q[k]
          BY <1>1, <1>2, <2>3, <3>2
        <4> QED
          BY <3>2, <4>1
      <3> QED
        BY <3>1, <3>2
    <2>4. (\E i \in DOMAIN q : s \in Does({}, q[i]) /\ \A k \in DOMAIN q : k > i => s \in Does({s}, q[k]))
             <=> (s \in Does({}, o) /\ Kept) \/ Put
      <3>1. ASSUME NEW i \in DOMAIN q, i # 1, s \in Does({}, q[i]),
                   \A k \in DOMAIN q : k > i => s \in Does({s}, q[k])
            PROVE  Put
        <4>1. i - 1 \in DOMAIN t /\ t[i - 1] = q[i] /\ (i - 1) + 1 = i
          BY <1>1, <1>2, <3>1
        <4> QED
          BY <2>3, <3>1, <4>1
      <3>2. ASSUME NEW i \in DOMAIN t, s \in Does({}, t[i]),
                   \A k \in DOMAIN t : k > i => s \in Does({s}, t[k])
            PROVE  \E m \in DOMAIN q : s \in Does({}, q[m]) /\ \A k \in DOMAIN q : k > m => s \in Does({s}, q[k])
        <4>1. i + 1 \in DOMAIN q /\ t[i] = q[i + 1]
          BY <1>2, <3>2
        <4> QED
          BY <2>3, <3>2, <4>1
      <3> QED
        BY <1>1, <1>2, <2>2, <3>1, <3>2
    <2>5. s \in Does(j, o) <=> IF s \in j THEN s \in Does({s}, o) ELSE s \in Does({}, o)
      BY <1>1, DoesEach
    <2>6. s \in Does({}, o) => s \in Does({s}, o)
      <3>1. o.op \in {"record", "remove", "forget", "take"}
        BY <1>1, OpsFields
      <3> QED
        BY <3>1 DEF Does
    <2>7. s \in After(Does(j, o), t) <=> (s \in Does(j, o) /\ Kept) \/ Put
      BY DEF After
    <2>8. s \in After(j, q) <=> (s \in j /\ s \in Does({s}, o) /\ Kept) \/ (s \in Does({}, o) /\ Kept) \/ Put
      BY <2>1, <2>4 DEF After
    <2> QED
      BY <2>5, <2>6, <2>7, <2>8
  <1> QED
    BY <1>3 DEF After, o, t

LEMMA DoesWithin ==
    ASSUME NEW o \in Ops, NEW j, j \subseteq Sessions
    PROVE  Does(j, o) \subseteq Sessions
  <1>1. o.op \in {"record", "remove", "forget", "take"} /\ (o.op # "take" => o.of \in Sessions)
    BY OpsFields
  <1> QED
    BY <1>1 DEF Does

\* An operation more does to what the others leave what it does to a journal.
LEMMA AfterMore ==
    ASSUME NEW j, NEW q \in Seq(Ops), NEW o \in Ops
    PROVE  After(j, Append(q, o)) = Does(After(j, q), o)
  <1>1. After(j, q) \subseteq Sessions
    BY DEF After
  <1>2. Does(After(j, q), o) \subseteq Sessions
    BY <1>1, DoesWithin
  <1>3. After(j, Append(q, o)) = {s \in Sessions : s \in Does(After(j, q), o)}
    BY AfterAppend
  <1> DEFINE X == Does(After(j, q), o)
             Y == After(j, Append(q, o))
  <1>4. X \subseteq Sessions /\ Y = {s \in Sessions : s \in X}
    BY <1>2, <1>3
  <1> HIDE DEF X, Y
  <1>5. Y = X
    BY <1>4
  <1> QED
    BY <1>5 DEF X, Y

LEMMA FollowsSame ==
    ASSUME FollowsInv, UNCHANGED <<journal, jq, reg>>,
           up' => up, ~up' => creating' \subseteq creating /\ ~up,
           shut' = "no" => shut = "no", aborter' = "no" => aborter = "no"
    PROVE  FollowsInv'
  <1>1. Registered' = Registered /\ Working' = Working /\ After(journal, jq)' = After(journal, jq)
    BY DEF Registered, Working, After
  <1> QED
    BY <1>1 DEF FollowsInv, JournalFollows

LEMMA StepFollows ==
    ASSUME TypeOK, FollowsInv, [Next]_vars
    PROVE  FollowsInv'
  <1>1. CASE UNCHANGED vars
    BY <1>1, FollowsSame DEF vars, process, gateway
  <1>2. ASSUME NEW code, Ends(code) PROVE FollowsInv'
    <2>1. ~up' /\ creating' = {} /\ reg' = [s \in Sessions |-> "none"]
      BY <1>2 DEF Ends
    <2>2. Registered' = {}
      BY <2>1 DEF Registered
    <2> QED  BY <2>1, <2>2 DEF FollowsInv, JournalFollows
  <1>3. CASE Stop \/ DrainEnds
    BY <1>3, FollowsSame DEF Stop, DrainEnds, May, Shutting, gateway
  <1>4. CASE Abort
    BY <1>4, FollowsSame DEF Abort, May, gateway
  <1>5. CASE Forget
    <2>1. up' = up /\ reg' = reg /\ creating' = creating /\ aborter' # "no"
      BY <1>5 DEF Forget, Caller
    <2>2. Registered' = Registered
      BY <2>1 DEF Registered
    <2> QED  BY <2>1, <2>2 DEF FollowsInv, JournalFollows
  <1>6. CASE Closed
    <2>1. up' = up /\ creating' = creating /\ shut' = "done" /\ reg' = [s \in Sessions |-> "none"]
      BY <1>6 DEF Closed
    <2>2. Registered' = {}
      BY <2>1 DEF Registered
    <2> QED  BY <2>1, <2>2 DEF FollowsInv, JournalFollows
  <1>7. CASE Fatal /\ ~Ends("fatal")
    BY <1>7, FollowsSame DEF Fatal, May, gateway
  <1>8. CASE Boot
    <2>1. ~up /\ reg' = reg
      BY <1>8 DEF Boot, gateway
    <2>2. Registered' = {} /\ Working' = {}
      BY <2>1 DEF FollowsInv, Registered, Working
    <2> QED  BY <1>8, <2>2 DEF Boot, FollowsInv, JournalFollows
  <1>9. CASE JournalStep
    <2>1. /\ up /\ jq \in Seq(Ops) /\ jq # <<>> /\ jq' = Tail(jq) /\ journal' = Does(journal, Head(jq))
          /\ UNCHANGED <<up, shut, aborter, reg>>
      BY <1>9 DEF JournalStep, process, TypeOK
    <2>2. After(journal, jq)' = After(journal, jq)
      BY <2>1, AfterHead
    <2>3. Registered' = Registered /\ Working' = Working
      BY <2>1 DEF Registered, Working
    <2> QED  BY <2>1, <2>2, <2>3 DEF FollowsInv, JournalFollows
  <1>10. ASSUME NEW s \in Sessions, StartArrives(s) \/ NotCreated(s) PROVE FollowsInv'
    <2>1. UNCHANGED <<journal, jq, reg, up, shut, aborter>> /\ (~up => creating' \subseteq creating)
      BY <1>10 DEF StartArrives, NotCreated, Reachable, process
    <2> QED  BY <2>1, FollowsSame
  <1>11. ASSUME NEW s \in Sessions, Created(s) PROVE FollowsInv'
    <2>1. /\ s \in creating /\ reg' = [reg EXCEPT ![s] = "running"] /\ journal' = journal
          /\ jq' = Append(jq, Op("record", s, 0, {})) /\ UNCHANGED <<up, shut, aborter>>
      BY <1>11 DEF Created, process
    <2>2. up
      BY <2>1 DEF FollowsInv
    <2>3. After(journal, jq)' = After(journal, jq) \cup {s}
      <3>1. Op("record", s, 0, {}) \in Ops /\ jq \in Seq(Ops)
        BY OpsTyped DEF TypeOK
      <3>2. Does(After(journal, jq), Op("record", s, 0, {})) = After(journal, jq) \cup {s}
        BY DEF Does, Op
      <3> QED  BY <2>1, <3>1, <3>2, AfterMore
    <2>4. Registered' = Registered \cup {s} /\ Working' = Working \cup {s}
      BY <2>1 DEF Registered, Working, TypeOK
    <2> QED  BY <2>1, <2>2, <2>3, <2>4 DEF FollowsInv, JournalFollows
  <1>12. ASSUME NEW s \in Sessions, Ended(s) PROVE FollowsInv'
    <2>1. PICK how \in {"completed", "failed"} : AgentEnds(s, how)
      BY <1>12 DEF Ended
    <2>2. UNCHANGED <<up, shut, aborter, journal, creating>>
      BY <1>12 DEF Ended, process
    <2>3. CASE reg[s] = "none"
      BY <2>1, <2>2, <2>3, FollowsSame DEF AgentEnds
    <2>4. CASE reg[s] # "none"
      <3>1. reg' = [reg EXCEPT ![s] = "over"] /\ (shut = "no" => jq' = Append(jq, Op("remove", s, 0, {})))
        BY <2>1, <2>4 DEF AgentEnds
      <3>2. Registered' = Registered /\ Working' = Working \ {s}
        BY <2>4, <3>1 DEF Registered, Working, TypeOK
      <3>3. ASSUME shut = "no" PROVE After(journal, jq)' = After(journal, jq) \ {s}
        <4> DEFINE o == Op("remove", s, 0, {})
        <4>1. o \in Ops /\ jq \in Seq(Ops)
          BY OpsTyped DEF TypeOK
        <4>2. Does(After(journal, jq), o) = After(journal, jq) \ {s}
          BY DEF Does, Op
        <4>3. jq' = Append(jq, o) /\ journal' = journal
          BY <2>2, <3>1, <3>3
        <4> HIDE DEF o
        <4>4. After(journal, Append(jq, o)) = Does(After(journal, jq), o)
          BY <4>1, AfterMore
        <4>5. After(journal, jq)' = After(journal, Append(jq, o))
          BY <4>3 DEF After
        <4> QED  BY <4>2, <4>4, <4>5
      <3> QED  BY <2>2, <3>2, <3>3 DEF FollowsInv, JournalFollows
    <2> QED  BY <2>3, <2>4
  <1>13. CASE Ask
    <2> DEFINE o == Op("take", NoSession, asks + 1, Registered)
    <2>1. jq' = Append(jq, o) /\ UNCHANGED <<up, shut, aborter, journal, creating, reg>> /\ o \in Ops
      <3>1. asks + 1 \in Asks /\ Registered \in SUBSET Sessions
        BY <1>13, Bounds DEF Ask, TypeOK, Asks, Registered
      <3>2. o \in Ops
        BY <3>1, OpsTyped
      <3> QED  BY <1>13, <3>2 DEF Ask, process
    <2>2. Does(After(journal, jq), o) = After(journal, jq) \cap Registered
      BY DEF Does, Op
    <2> HIDE DEF o
    <2>3. After(journal, jq)' = After(journal, jq) \cap Registered
      BY <2>1, <2>2, AfterMore DEF TypeOK
    <2>4. Registered' = Registered /\ Working' = Working
      BY <2>1 DEF Registered, Working
    <2> QED  BY <2>1, <2>3, <2>4 DEF FollowsInv, JournalFollows
  <1>14. CASE Starts \/ Hear
    <2>1. UNCHANGED <<process, gateway>>
      <3>1. CASE Starts  BY <3>1 DEF Starts
      <3>2. CASE Hear    BY <3>2 DEF Hear
      <3> QED  BY <1>14, <3>1, <3>2
    <2> QED  BY <2>1, FollowsSame DEF process, gateway
  <1>15. ASSUME NEW s \in Sessions, OnPlane(s) PROVE FollowsInv'
    <2>1. UNCHANGED <<process, gateway>>
      <3>1. CASE Approve(s)       BY <3>1 DEF Approve
      <3>2. CASE Refuse(s)        BY <3>2 DEF Refuse
      <3>3. CASE Age(s)           BY <3>3 DEF Age
      <3>4. CASE StartTimeout(s)  BY <3>4 DEF StartTimeout
      <3> QED  BY <1>15, <3>1, <3>2, <3>3, <3>4 DEF OnPlane
    <2> QED  BY <2>1, FollowsSame DEF process, gateway
  <1>16. ASSUME NEW k \in Asks, AskTimeout(k) \/ Recover(k) PROVE FollowsInv'
    <2>1. UNCHANGED <<process, gateway>>
      <3>1. CASE AskTimeout(k)  BY <3>1 DEF AskTimeout
      <3>2. CASE Continue(k)    BY <3>2 DEF Continue
      <3>3. CASE End(k)         BY <3>3 DEF End
      <3>4. CASE List(k)        BY <3>4 DEF List
      <3>5. CASE Sweep(k)       BY <3>5 DEF Sweep
      <3> QED  BY <1>16, <3>1, <3>2, <3>3, <3>4, <3>5 DEF Recover
    <2> QED  BY <2>1, FollowsSame DEF process, gateway
  <1>17. CASE Finish \/ FinishFatal \/ Kill
    BY <1>2, <1>17 DEF Finish, FinishFatal, Kill
  <1>18. CASE Lifecycle
    <2>1. CASE Fatal
      BY <1>2, <1>7, <2>1
    <2> QED
      BY <1>3, <1>4, <1>5, <1>6, <1>8, <1>17, <1>18, <2>1 DEF Lifecycle
  <1>19. ASSUME NEW s \in Sessions, OnGateway(s) PROVE FollowsInv'
    BY <1>10, <1>11, <1>12, <1>19 DEF OnGateway
  <1> QED
    BY <1>1, <1>9, <1>13, <1>14, <1>15, <1>16, <1>18, <1>19 DEF Next

\* As long as the gateway neither shuts down nor forgets, its journal and what
\* is queued for it name, of the sessions it has registered, those at work
\* (createSession, wireAdapterEvents, SessionJournal.enqueue), for any number
\* of sessions, connections and lives.
THEOREM JournalFollowsAlways == Spec => []JournalFollows
  <1>1. Init => TypeOK /\ FollowsInv
    <2>1. SUFFICES ASSUME Init PROVE FollowsInv
      BY InitTyped
    <2>2. Registered = {} /\ Working = {} /\ up
      BY <2>1 DEF Init, Registered, Working
    <2> QED  BY <2>2 DEF FollowsInv, JournalFollows
  <1>2. (TypeOK /\ FollowsInv) /\ [Next]_vars => (TypeOK /\ FollowsInv)'
    BY StepTyped, StepFollows
  <1>3. FollowsInv => JournalFollows
    BY DEF FollowsInv
  <1> QED  BY <1>1, <1>2, <1>3, PTL DEF Spec

(***************************************************************************)
(* What counts as lost has no agent                                        *)
(***************************************************************************)

\* A session whose start is under way is young, or was held back and granted.
Excused == young \cup approved
StartsExcused == starts \cup creating \subseteq Excused
AgentsWork == \A s \in agent : reg[s] # "over"

\* As long as a recovery looks for what is lost, what is at work is excused, or
\* was at work when the gateway was asked; and what it ends has no agent.
Asked == {"asking", "entries", "starting", "ending"}
Looking ==
    \A k \in Asks :
       /\ call[k].at \in Asked => agent \subseteq Excused \cup call[k].active
       /\ call[k].at = "sweeping" => agent \cap call[k].sweep \subseteq Excused
       /\ call[k].at \in {"starting", "ending"} => call[k].from \in begun \ agent
CrashedIdle ==
    \A s \in Sessions :
       rec[s] = "crashed" => s \in approved \/ s \notin starts \cup creating \cup agent

LostInv == AgentsWork /\ StartsExcused /\ Looking /\ CrashedIdle

\* The recoveries stay where they look, or look no more.
CallsStand ==
    \A k \in Asks :
       /\ call'[k].at \in Asked => call[k].at \in Asked /\ call'[k].active = call[k].active
       /\ call'[k].at = "sweeping" => call[k].at = "sweeping" /\ call'[k].sweep \subseteq call[k].sweep
       /\ call'[k].at \in {"starting", "ending"} =>
             \/ call'[k].from \in begun \ agent
             \/ call[k].at \in {"starting", "ending"} /\ call'[k].from = call[k].from

LEMMA LookStays ==
    ASSUME Looking, CallsStand, Excused \subseteq Excused', begun \subseteq begun',
           agent' \ agent \subseteq Excused', (agent' \ agent) \cap begun = {}
    PROVE  Looking'
  <1>1. ASSUME NEW k \in Asks
        PROVE  /\ call'[k].at \in Asked => agent' \subseteq Excused' \cup call'[k].active
               /\ call'[k].at = "sweeping" => agent' \cap call'[k].sweep \subseteq Excused'
               /\ call'[k].at \in {"starting", "ending"} => call'[k].from \in begun' \ agent'
    <2>1. CASE call'[k].at \in Asked
      <3>1. agent \subseteq Excused \cup call'[k].active
        BY <2>1 DEF CallsStand, Looking
      <3>2. call'[k].at \in {"starting", "ending"} => call'[k].from \in begun \ agent
        BY <2>1 DEF CallsStand, Looking
      <3> QED  BY <2>1, <3>1, <3>2 DEF Asked
    <2>2. CASE call'[k].at = "sweeping"
      <3>1. agent \cap call'[k].sweep \subseteq Excused
        BY <2>2 DEF CallsStand, Looking
      <3> QED  BY <2>2, <3>1 DEF Asked
    <2> QED  BY <2>1, <2>2 DEF Asked
  <1> QED  BY <1>1 DEF Looking, Asked

LEMMA CrashedStays ==
    ASSUME CrashedIdle, approved \subseteq approved',
           \A s \in Sessions : rec'[s] = "crashed" => rec[s] = "crashed",
           \A s \in Sessions : s \in starts' \cup creating' \cup agent' =>
              s \in starts \cup creating \cup agent \/ rec'[s] # "crashed"
    PROVE  CrashedIdle'
  BY DEF CrashedIdle

\* A step that starts nothing and loses nothing.
LEMMA LostStays ==
    ASSUME LostInv, CallsStand, agent' \subseteq agent, begun \subseteq begun',
           starts' \cup creating' \subseteq starts \cup creating,
           UNCHANGED <<young, approved>>, \A s \in agent' : reg'[s] # "over",
           \A s \in Sessions : rec'[s] = "crashed" => rec[s] = "crashed"
    PROVE  LostInv'
  <1>1. Looking'
    BY LookStays DEF LostInv, Excused
  <1>2. CrashedIdle'
    BY CrashedStays DEF LostInv
  <1>3. AgentsWork' /\ StartsExcused'
    BY DEF LostInv, AgentsWork, StartsExcused, Excused
  <1> QED  BY <1>1, <1>2, <1>3 DEF LostInv

LEMMA CallsStill ==
    ASSUME UNCHANGED call
    PROVE  CallsStand
  BY DEF CallsStand

LEMMA AnsweredStands ==
    ASSUME TypeOK, NEW s \in Sessions, call' = Answered(s)
    PROVE  CallsStand
  <1>1. ASSUME NEW k \in Asks
        PROVE  \/ call'[k] = call[k]
               \/ /\ call[k].at = "starting" /\ call'[k].at = "ending"
                  /\ call'[k].active = call[k].active /\ call'[k].from = call[k].from
    <2>1. call[k] \in Recoveries
      BY CallTyped
    <2>2. call'[k] = IF call[k].at = "starting" /\ call[k].to = s
                     THEN [call[k] EXCEPT !.at = "ending"] ELSE call[k]
      BY DEF Answered
    <2> QED  BY <2>1, <2>2 DEF Recoveries
  <1> QED  BY <1>1 DEF CallsStand, Asked

LEMMA InitLost == Init => LostInv
  <1>1. SUFFICES ASSUME Init PROVE LostInv
    OBVIOUS
  <1>2. /\ agent = {} /\ starts = {} /\ creating = {} /\ \A s \in Sessions : rec[s] = "none"
        /\ \A k \in Asks : call[k].at = "unused"
    BY <1>1 DEF Init, Unused
  <1> QED  BY <1>2 DEF LostInv, AgentsWork, StartsExcused, Looking, CrashedIdle, Asked

LEMMA ProcessLoses ==
    ASSUME TypeOK, LostInv, Lifecycle \/ JournalStep
    PROVE  LostInv'
  <1>1. UNCHANGED plane /\ begun' = begun
    BY DEF Lifecycle, Stop, DrainEnds, Abort, Forget, Closed, Finish, Fatal, FinishFatal, Kill, Boot,
           Ends, JournalStep, gateway, links, history
  <1>2. agent' \subseteq agent /\ (agent' # {} => reg' = reg \/ reg' = [s \in Sessions |-> "none"])
    BY DEF Lifecycle, Stop, DrainEnds, Abort, Forget, Closed, Finish, Fatal, FinishFatal, Kill, Boot,
           Ends, JournalStep, gateway
  <1>3. starts' \cup creating' \subseteq starts \cup creating
    BY DEF Lifecycle, Stop, DrainEnds, Abort, Forget, Closed, Finish, Fatal, FinishFatal, Kill, Boot,
           Ends, JournalStep, gateway, links
  <1>4. UNCHANGED <<call, rec, young, approved>>
    BY <1>1 DEF plane
  <1>5. \A s \in agent' : reg'[s] # "over"
    BY <1>2, SetsTyped DEF LostInv, AgentsWork
  <1>6. CallsStand
    BY <1>4, CallsStill
  <1> QED  BY <1>1, <1>2, <1>3, <1>4, <1>5, <1>6, LostStays

LEMMA GatewayLoses ==
    ASSUME TypeOK, HandoverInv, LostInv, NEW s \in Sessions, OnGateway(s)
    PROVE  LostInv'
  <1>1. UNCHANGED <<call, rec, young, approved>> /\ begun \subseteq begun'
    BY DEF OnGateway, StartArrives, Created, NotCreated, Ended, plane, history
  <1>2. CallsStand
    BY <1>1, CallsStill
  <1>3. CASE StartArrives(s) \/ NotCreated(s)
    <2>1. UNCHANGED <<agent, reg>> /\ starts' \cup creating' \subseteq starts \cup creating
      BY <1>3 DEF StartArrives, NotCreated
    <2> QED  BY <1>1, <1>2, <2>1, LostStays DEF LostInv, AgentsWork
  <1>4. CASE Created(s)
    <2>1. /\ s \in creating /\ creating' = creating \ {s} /\ agent' = agent \cup {s}
          /\ reg' = [reg EXCEPT ![s] = "running"] /\ starts' = starts
      BY <1>4 DEF Created
    <2>2. s \in Excused /\ s \notin begun
      BY <2>1 DEF LostInv, StartsExcused, HandoverInv, PlaneInv, InTurn
    <2>3. Excused' = Excused
      BY <1>1 DEF Excused
    <2>4. Looking'
      BY <1>1, <1>2, <2>1, <2>2, <2>3, LookStays DEF LostInv
    <2>5. CrashedIdle'
      BY <1>1, <2>1, CrashedStays DEF LostInv
    <2>6. AgentsWork' /\ StartsExcused'
      BY <2>1, <2>3, SetsTyped DEF LostInv, AgentsWork, StartsExcused, TypeOK
    <2> QED  BY <2>4, <2>5, <2>6 DEF LostInv
  <1>5. CASE Ended(s)
    <2>1. PICK how \in {"completed", "failed"} : AgentEnds(s, how)
      BY <1>5 DEF Ended
    <2>2. agent' = agent \ {s} /\ (reg' = reg \/ reg' = [reg EXCEPT ![s] = "over"])
      BY <2>1 DEF AgentEnds
    <2>3. \A t \in agent' : reg'[t] # "over"
      BY <2>2, SetsTyped DEF LostInv, AgentsWork, TypeOK
    <2>4. UNCHANGED <<starts, creating>>
      BY <1>5 DEF Ended
    <2> QED  BY <1>1, <1>2, <2>2, <2>3, <2>4, LostStays
  <1> QED  BY <1>3, <1>4, <1>5 DEF OnGateway

\* What the gateway reports, and what it does not, marks nothing as lost.
LEMMA HearLoses ==
    ASSUME TypeOK, LostInv, Hear
    PROVE  LostInv'
  <1> DEFINE m == Head(news)
  <1>1. m \in Notes
    BY HeadTailProperties DEF Hear, TypeOK
  <1>2. UNCHANGED <<agent, begun, starts, creating, young, approved, reg>>
    BY DEF Hear, process, gateway, history
  <1>3. m.kind # "list" => m.of \in Sessions
    BY <1>1, NotesFields
  <1>4. CallsStand /\ \A t \in Sessions : rec'[t] = "crashed" => rec[t] = "crashed"
    <2>1. CASE m.kind = "started"
      <3>1. rec' = [rec EXCEPT ![m.of] = "running"] /\ call' = Answered(m.of)
        BY <2>1 DEF Hear
      <3> HIDE DEF m
      <3> QED  BY <1>3, <2>1, <3>1, AnsweredStands DEF TypeOK
    <2>2. CASE m.kind = "refused"
      <3>1. Unstarted(m.of)
        BY <2>2 DEF Hear
      <3> HIDE DEF m
      <3> QED  BY <1>3, <2>2, <3>1, AnsweredStands DEF Unstarted, TypeOK
    <2>3. CASE m.kind = "ended"
      <3>1. call' = call /\ (rec' = rec \/ rec' = [rec EXCEPT ![m.of] = "over"])
        BY <2>3 DEF Hear
      <3> HIDE DEF m
      <3> QED  BY <1>3, <2>3, <3>1, CallsStill DEF TypeOK
    <2>4. CASE m.kind = "list"
      <3>1. m.of \in Asks /\ rec' = rec
        BY <1>1, <2>4, NotesFields DEF Hear
      <3>2. CASE call' = call
        BY <3>1, <3>2, CallsStill
      <3>3. CASE call' # call
        <4>1. /\ call[m.of].at = "asking"
              /\ call' = [call EXCEPT ![m.of].at = "entries", ![m.of].todo = m.list, ![m.of].recovered = m.list]
          BY <2>4, <3>3 DEF Hear
        <4> HIDE DEF m
        <4>2. /\ call'[m.of].at = "entries" /\ call'[m.of].active = call[m.of].active
              /\ \A k \in Asks \ {m.of} : call'[k] = call[k]
          BY <3>1, <4>1, CallTyped DEF TypeOK, Recoveries
        <4> QED  BY <3>1, <4>1, <4>2 DEF CallsStand, Asked
      <3> QED  BY <3>2, <3>3
    <2> QED  BY <1>1, <2>1, <2>2, <2>3, <2>4, NotesFields
  <1> HIDE DEF m
  <1> QED  BY <1>2, <1>4, LostStays DEF LostInv, AgentsWork

\* A session begins young, with no agent yet.
LEMMA BeginsLoses ==
    ASSUME TypeOK, HandoverInv, LostInv, NEW n \in Sessions, NEW origin \in Sessions \cup {NoSession},
           n \notin Known, Begins(n, origin), CallsStand,
           UNCHANGED <<agent, begun, creating, approved, reg>>
    PROVE  LostInv'
  <1>1. /\ young' = young \cup {n} /\ rec'[n] # "crashed" /\ \A s \in Sessions \ {n} : rec'[s] = rec[s]
        /\ starts' \subseteq starts \cup {n}
    BY BeginsTyped
  <1>2. Looking'
    BY <1>1, LookStays DEF LostInv, Excused
  <1>3. CrashedIdle'
    BY <1>1, CrashedStays DEF LostInv
  <1>4. AgentsWork' /\ StartsExcused'
    BY <1>1 DEF LostInv, AgentsWork, StartsExcused, Excused
  <1> QED  BY <1>2, <1>3, <1>4 DEF LostInv

LEMMA PlaneLoses ==
    ASSUME TypeOK, HandoverInv, LostInv, Starts \/ \E s \in Sessions : OnPlane(s)
    PROVE  LostInv'
  <1>1. CASE Starts
    <2>1. /\ New \in Sessions /\ Begins(New, NoSession)
          /\ UNCHANGED <<agent, begun, creating, approved, reg, call>>
      BY <1>1 DEF Starts, process, gateway, history
    <2>2. New \notin Known
      BY NewIsUnknown DEF HandoverInv, PlaneInv
    <2> HIDE DEF New
    <2> QED  BY <2>1, <2>2, CallsStill, BeginsLoses
  <1>2. ASSUME NEW s \in Sessions, Approve(s) PROVE LostInv'
    <2>1. /\ approved' = approved \cup {s} /\ starts' \subseteq starts \cup {s}
          /\ \E state \in {"starting", "waiting"} : rec' = [rec EXCEPT ![s] = state]
          /\ UNCHANGED <<agent, begun, creating, young, reg, call>>
      BY <1>2 DEF Approve, process, gateway, history
    <2>2. Looking'
      BY <2>1, CallsStill, LookStays DEF LostInv, Excused
    <2>3. rec'[s] # "crashed" /\ \A t \in Sessions \ {s} : rec'[t] = rec[t]
      BY <2>1 DEF TypeOK
    <2>4. CrashedIdle'
      BY <2>1, <2>3, CrashedStays DEF LostInv
    <2>5. AgentsWork' /\ StartsExcused'
      BY <2>1 DEF LostInv, AgentsWork, StartsExcused, Excused
    <2> QED  BY <2>2, <2>4, <2>5 DEF LostInv
  <1>3. ASSUME NEW s \in Sessions, Refuse(s) PROVE LostInv'
    <2>1. /\ UNCHANGED <<agent, begun, starts, creating, young, approved, reg, call>>
          /\ \E state \in {"waiting", "over"} : rec' = [rec EXCEPT ![s] = state]
      BY <1>3 DEF Refuse, process, gateway, links, history
    <2>2. \A t \in Sessions : rec'[t] = "crashed" => rec[t] = "crashed"
      BY <2>1 DEF TypeOK
    <2> QED  BY <2>1, <2>2, CallsStill, LostStays DEF LostInv, AgentsWork
  <1>4. ASSUME NEW s \in Sessions, Age(s) PROVE LostInv'
    <2>1. /\ s \notin starts \cup creating /\ young' = young \ {s} /\ \A k \in Asks : ~Underway(k)
          /\ UNCHANGED <<agent, begun, starts, creating, approved, reg, call, rec>>
      BY <1>4 DEF Age, process, gateway, links, history
    <2>2. Looking'
      BY <2>1 DEF Looking, Asked, Underway
    <2> QED  BY <2>1, <2>2 DEF LostInv, AgentsWork, StartsExcused, CrashedIdle, Excused
  <1>5. ASSUME NEW s \in Sessions, StartTimeout(s) PROVE LostInv'
    <2>1. UNCHANGED <<agent, begun, starts, creating, young, approved, reg>> /\ Unstarted(s)
      BY <1>5 DEF StartTimeout, process, gateway, links, history
    <2>2. CallsStand /\ \A t \in Sessions : rec'[t] = "crashed" => rec[t] = "crashed"
      BY <2>1, AnsweredStands DEF Unstarted, TypeOK
    <2> QED  BY <2>1, <2>2, LostStays DEF LostInv, AgentsWork
  <1> QED  BY <1>1, <1>2, <1>3, <1>4, <1>5 DEF OnPlane

\* The question is put: what is at work is registered as working.
LEMMA AskLoses ==
    ASSUME TypeOK, HandoverInv, LostInv, Ask
    PROVE  LostInv'
  <1>1. /\ asks + 1 \in Asks /\ shut # "done"
        /\ UNCHANGED <<agent, begun, starts, creating, young, approved, reg, rec>>
    BY Bounds DEF Ask, Reachable, TypeOK, Asks, process, history
  <1>2. agent \subseteq Working
    BY <1>1, SetsTyped DEF HandoverInv, Own, Mine, Registered, Working, LostInv, AgentsWork, TypeOK
  <1>3. /\ call'[asks + 1].at = "asking" /\ call'[asks + 1].active = Working
        /\ \A k \in Asks \ {asks + 1} : call'[k] = call[k]
    BY <1>1, CallTyped DEF Ask, TypeOK, Recoveries
  <1>4. Looking'
    BY <1>1, <1>2, <1>3 DEF LostInv, Looking, Excused, Asked
  <1> QED  BY <1>1, <1>4 DEF LostInv, AgentsWork, StartsExcused, CrashedIdle, Excused

LEMMA RecoveryLoses ==
    ASSUME TypeOK, HandoverInv, LostInv, NEW k \in Asks, AskTimeout(k) \/ Recover(k)
    PROVE  LostInv'
  <1>1. UNCHANGED <<agent, begun, creating, approved, reg>>
    BY DEF Recover, AskTimeout, Continue, End, List, Sweep, process, gateway, history
  <1>2. call[k] \in Recoveries
    BY CallTyped
  <1>3. CASE AskTimeout(k)
    <2>1. CallsStand
      BY <1>3 DEF AskTimeout, CallsStand, Unused, Asked, TypeOK
    <2> QED  BY <1>1, <1>3, <2>1, LostStays DEF AskTimeout, links, LostInv, AgentsWork
  <1>4. CASE Continue(k)
    <2> DEFINE s == Min(call[k].todo)
    <2>1. s \in call[k].todo /\ call[k].todo \subseteq Sessions /\ call[k].at = "entries"
      BY <1>4, CallTyped, MinIsIn DEF Continue
    <2>2. s \in begun \ agent
      BY <2>1 DEF HandoverInv, Own, Mine, Handed, Todos
    <2> HIDE DEF s
    <2>3. /\ \A l \in Asks \ {k} : call'[l] = call[l]
          /\ call'[k].at \in Asked /\ call'[k].active = call[k].active
          /\ call'[k].at \in {"starting", "ending"} => call'[k].from = s
      <3> DEFINE next == [call[k] EXCEPT !.todo = @ \ {s}, !.from = s, !.to = New]
                 Follows(c) == /\ c.at \in Asked /\ c.active = call[k].active
                               /\ c.at \in {"starting", "ending"} => c.from = s
      <3>1. Follows([call[k] EXCEPT !.todo = @ \ {s}])
        BY <1>2, <2>1 DEF Recoveries, Asked
      <3>2. Follows([next EXCEPT !.at = "ending", !.to = NoSession])
        BY <1>2 DEF Recoveries, Asked
      <3>3. \A at \in {"starting", "ending"} : Follows([next EXCEPT !.at = at])
        BY <1>2 DEF Recoveries, Asked
      <3>4. \E c \in {[call[k] EXCEPT !.todo = @ \ {s}], [next EXCEPT !.at = "ending", !.to = NoSession],
                     [next EXCEPT !.at = "starting"], [next EXCEPT !.at = "ending"]} :
               call' = [call EXCEPT ![k] = c]
        <4>1. \/ call' = [call EXCEPT ![k].todo = @ \ {s}]
              \/ call' = [call EXCEPT ![k] = [next EXCEPT !.at = "ending", !.to = NoSession]]
              \/ call' = [call EXCEPT ![k] = [next EXCEPT !.at =
                                                  IF rec'[New] = "starting" THEN "starting" ELSE "ending"]]
          BY <1>4 DEF Continue, s
        <4> HIDE DEF next
        <4> QED  BY <4>1 DEF TypeOK
      <3> HIDE DEF next, Follows
      <3>5. PICK c : Follows(c) /\ call' = [call EXCEPT ![k] = c]
        BY <3>1, <3>2, <3>3, <3>4
      <3> QED  BY <3>5 DEF Follows, TypeOK
    <2>4. CallsStand
      BY <2>1, <2>2, <2>3 DEF CallsStand, Asked
    <2>5. CASE UNCHANGED <<starts, rec, resumed, young, faults>>
      BY <1>1, <2>4, <2>5, LostStays DEF LostInv, AgentsWork
    <2>6. CASE ~UNCHANGED <<starts, rec, resumed, young, faults>>
      <3>1. New \in Sessions /\ Begins(New, s) /\ s \in Sessions
        BY <1>4, <2>1, <2>6 DEF Continue, s
      <3>2. New \notin Known
        BY NewIsUnknown DEF HandoverInv, PlaneInv
      <3> HIDE DEF New
      <3> QED  BY <1>1, <2>4, <3>1, <3>2, BeginsLoses
    <2> QED  BY <2>5, <2>6
  <1>5. CASE End(k)
    <2>1. /\ call[k].at = "ending" /\ call' = [call EXCEPT ![k].at = "entries"]
          /\ rec' = [rec EXCEPT ![call[k].from] = "crashed"] /\ UNCHANGED <<starts, young>>
      BY <1>5 DEF End, links
    <2>2. call[k].from \in begun \ agent
      BY <2>1 DEF LostInv, Looking
    <2>3. CallsStand
      BY <1>2, <2>1 DEF CallsStand, TypeOK, Recoveries, Asked
    <2>4. Looking'
      BY <1>1, <2>1, <2>3, LookStays DEF LostInv, Excused
    <2>5. call[k].from \notin starts \cup creating \cup agent
      BY <2>2 DEF HandoverInv, PlaneInv, InTurn
    <2>6. CrashedIdle'
      BY <1>1, <2>1, <2>5 DEF LostInv, CrashedIdle, TypeOK
    <2> QED  BY <1>1, <2>1, <2>4, <2>6 DEF LostInv, AgentsWork, StartsExcused, Excused
  <1>6. CASE List(k)
    <2>1. /\ call[k].at = "entries" /\ UNCHANGED <<starts, rec, young>>
          /\ call'[k].at = "sweeping" /\ call'[k].sweep \cap call[k].active = {}
          /\ \A l \in Asks \ {k} : call'[l] = call[l]
      BY <1>2, <1>6 DEF List, TypeOK, Recoveries, links
    <2>2. agent \subseteq Excused \cup call[k].active
      BY <2>1 DEF LostInv, Looking, Asked
    <2>3. Looking'
      BY <1>1, <2>1, <2>2 DEF LostInv, Looking, Excused, Asked
    <2> QED  BY <1>1, <2>1, <2>3 DEF LostInv, AgentsWork, StartsExcused, CrashedIdle, Excused
  <1>7. CASE Sweep(k) /\ call[k].sweep = {}
    <2>1. CallsStand
      BY <1>7 DEF Sweep, CallsStand, Unused, Asked, TypeOK
    <2> QED  BY <1>1, <1>7, <2>1, LostStays DEF Sweep, links, LostInv, AgentsWork
  <1>8. CASE Sweep(k) /\ call[k].sweep # {}
    <2> DEFINE s == Min(call[k].sweep)
    <2>1. s \in call[k].sweep /\ s \in Sessions
      BY <1>8, CallTyped, MinIsIn
    <2>2. /\ call[k].at = "sweeping" /\ call' = [call EXCEPT ![k].sweep = @ \ {s}]
          /\ rec' = rec \/ (s \notin young /\ rec' = [rec EXCEPT ![s] = "crashed"])
          /\ UNCHANGED <<starts, young>>
      BY <1>8 DEF Sweep, links
    <2> HIDE DEF s
    <2>3. CallsStand
      BY <1>2, <2>2 DEF CallsStand, TypeOK, Recoveries, Asked
    <2>4. Looking'
      BY <1>1, <2>2, <2>3, LookStays DEF LostInv, Excused
    <2>5. s \notin young => s \in approved \/ s \notin starts \cup creating \cup agent
      BY <2>1, <2>2 DEF LostInv, Looking, StartsExcused, Excused
    <2>6. CrashedIdle'
      BY <1>1, <2>1, <2>2, <2>5 DEF LostInv, CrashedIdle, TypeOK
    <2> QED  BY <1>1, <2>2, <2>4, <2>6 DEF LostInv, AgentsWork, StartsExcused, Excused
  <1> QED  BY <1>3, <1>4, <1>5, <1>6, <1>7, <1>8 DEF Recover

\* A record that a recovery marks as crashed has no agent at work, and gets
\* none, unless its start was held back and granted (onGatewayConnected,
\* endSession), for any number of sessions, connections and lives.
THEOREM LostMeansLostAlways == Spec => []LostMeansLost
  <1> DEFINE IInv == TypeOK /\ HandoverInv /\ LostInv
  <1>1. Init => LostInv
    BY InitLost
  <1>2. TypeOK /\ HandoverInv /\ LostInv /\ [Next]_vars => LostInv'
    <2>1. SUFFICES ASSUME TypeOK, HandoverInv, LostInv, [Next]_vars PROVE LostInv'
      OBVIOUS
    <2>2. CASE UNCHANGED vars
      BY <2>1, <2>2, CallsStill, LostStays DEF vars, process, gateway, links, plane, history, LostInv, AgentsWork
    <2>3. CASE Next
      BY <2>1, <2>3, ProcessLoses, GatewayLoses, HearLoses, PlaneLoses, AskLoses, RecoveryLoses DEF Next
    <2> QED  BY <2>1, <2>2, <2>3
  <1>3. LostInv => LostMeansLost
    BY DEF LostInv, CrashedIdle, LostMeansLost
  <1> QED  BY <1>1, <1>2, <1>3, HandoverAlways, PTL DEF Spec

(***************************************************************************)
(* What shows as running without an agent is still sought                  *)
(***************************************************************************)

\* The gateway reports that the agent of session s has ended.
EndTold(s) == \E i \in DOMAIN news : news[i].kind = "ended" /\ news[i].of = s

\* A session that was started shows as running, or will, and has no agent.
Unsettled(s) == s \in begun \ (spared \cup agent) /\ rec[s] \in {"starting", "running"}

\* Recovery c has yet to come to session s, or gave up.
Sought(c, s) ==
    \/ c.at = "gaveup"
    \/ c.at = "asking" /\ s \notin c.active
    \/ /\ c.at \in {"entries", "starting", "ending"} /\ s \notin c.active
       /\ \/ s \in c.todo \/ s \notin c.recovered
          \/ c.at \in {"starting", "ending"} /\ c.from = s
    \/ c.at = "sweeping" /\ s \in c.sweep

SoughtNow(s) == asks > 0 /\ Sought(call[asks], s)

Quiet == up /\ shut = "no" /\ ~hello
Accounted == Quiet => \A s \in Sessions : Unsettled(s) => EndTold(s) \/ SoughtNow(s)

\* Where a start is reported without an agent, its end is reported after it.
EndsTold ==
    shut = "no" => \A i \in DOMAIN news : news[i].kind = "started" =>
       \/ news[i].of \in agent
       \/ \E j \in DOMAIN news : i < j /\ news[j].kind = "ended" /\ news[j].of = news[i].of

\* What the registry has as running is at work.
RegistryWorks == Working \subseteq agent

\* A recovery waits for no start that was held back.
Ungranted ==
    /\ \A s \in approved : rec[s] \notin {"none", "held"}
    /\ \A k \in Asks : call[k].at = "starting" =>
          call[k].to \notin approved /\ rec[call[k].to] # "held"

SettleInv == Accounted /\ EndsTold /\ RegistryWorks /\ Ungranted

LEMMA InitSettle == Init => SettleInv
  <1>1. SUFFICES ASSUME Init PROVE SettleInv
    OBVIOUS
  <1>2. /\ begun = {} /\ news = <<>> /\ approved = {} /\ agent = {}
        /\ \A s \in Sessions : reg[s] = "none"
        /\ \A k \in Asks : call[k].at = "unused"
    BY <1>1 DEF Init, Unused
  <1>3. Accounted
    BY <1>2 DEF Accounted, Unsettled
  <1>4. EndsTold
    BY <1>2, EmptySeq DEF EndsTold
  <1>5. RegistryWorks
    BY <1>2 DEF RegistryWorks, Working
  <1>6. Ungranted
    BY <1>2 DEF Ungranted
  <1> QED  BY <1>3, <1>4, <1>5, <1>6 DEF SettleInv

\* The recovery of the last connection goes on seeking what it sought, and
\* what comes to show as running is reported to have ended.
LEMMA AccountedStays ==
    ASSUME Accounted, Quiet' => Quiet, asks' = asks,
           \A s \in Sessions : (Unsettled(s))' => Unsettled(s) \/ (EndTold(s))',
           \A s \in Sessions : (Unsettled(s))' /\ EndTold(s) => (EndTold(s))',
           \A s \in Sessions : (Unsettled(s))' /\ SoughtNow(s) => (EndTold(s))' \/ (SoughtNow(s))'
    PROVE  Accounted'
  <1>1. SUFFICES ASSUME Quiet', NEW s \in Sessions, (Unsettled(s))'
                 PROVE  (EndTold(s))' \/ (SoughtNow(s))'
    BY DEF Accounted
  <1>2. CASE (EndTold(s))'
    BY <1>2
  <1>3. CASE Unsettled(s)
    <2>1. EndTold(s) \/ SoughtNow(s)
      BY <1>1, <1>3 DEF Accounted
    <2> QED  BY <1>1, <2>1
  <1> QED  BY <1>1, <1>2, <1>3

LEMMA SameSought ==
    ASSUME UNCHANGED <<asks, call>>
    PROVE  \A s \in Sessions : SoughtNow(s) => (SoughtNow(s))'
  BY DEF SoughtNow

LEMMA SameNews ==
    ASSUME UNCHANGED news
    PROVE  /\ \A s \in Sessions : EndTold(s) => (EndTold(s))'
           /\ EndsTold /\ (shut' = "no" => shut = "no") /\ UNCHANGED agent => EndsTold'
  BY DEF EndTold, EndsTold

LEMMA NewsLonger ==
    ASSUME TypeOK, NEW m \in Notes
    PROVE  /\ DOMAIN news = 1..Len(news) /\ Len(news) \in Nat
           /\ news' = Append(news, m) =>
                /\ DOMAIN news' = 1..(Len(news) + 1) /\ news'[Len(news) + 1] = m
                /\ \A i \in DOMAIN news : i < Len(news) + 1 /\ i \in DOMAIN news' /\ news'[i] = news[i]
                /\ \A i \in DOMAIN news' : i \in DOMAIN news \/ i = Len(news) + 1
  <1>1. news \in Seq(Notes)
    BY DEF TypeOK
  <1>2. DOMAIN news = 1..Len(news) /\ Len(news) \in Nat
    BY <1>1, LenProperties
  <1>3. CASE news' = Append(news, m)
    <2>1. /\ DOMAIN news' = 1..(Len(news) + 1) /\ news'[Len(news) + 1] = m
          /\ \A i \in 1..Len(news) : news'[i] = news[i]
      BY <1>1, <1>3, AppendProperties, LenProperties
    <2> QED  BY <1>2, <2>1
  <1> QED  BY <1>2, <1>3

\* The news gain something other than a start.
LEMMA MoreNews ==
    ASSUME TypeOK, NEW m \in Notes, news' = Append(news, m)
    PROVE  /\ \A s \in Sessions : EndTold(s) => (EndTold(s))'
           /\ m.kind = "ended" => \A s \in Sessions : m.of = s => (EndTold(s))'
           /\ /\ EndsTold
              /\ shut' = "no" => shut = "no"
              /\ m.kind = "started" => m.of \in agent'
              /\ \A s \in agent \ agent' : m.kind = "ended" /\ m.of = s
              => EndsTold'
  <1>1. /\ DOMAIN news = 1..Len(news) /\ Len(news) \in Nat
        /\ DOMAIN news' = 1..(Len(news) + 1) /\ news'[Len(news) + 1] = m
        /\ \A i \in DOMAIN news : i < Len(news) + 1 /\ i \in DOMAIN news' /\ news'[i] = news[i]
        /\ \A i \in DOMAIN news' : i \in DOMAIN news \/ i = Len(news) + 1
    BY NewsLonger
  <1>2. Len(news) + 1 \in DOMAIN news'
    BY <1>1
  <1>3. ASSUME NEW s \in Sessions, EndTold(s) PROVE (EndTold(s))'
    BY <1>1, <1>3 DEF EndTold
  <1>4. ASSUME m.kind = "ended", NEW s \in Sessions, m.of = s PROVE (EndTold(s))'
    BY <1>1, <1>2, <1>4 DEF EndTold
  <1>5. ASSUME EndsTold, shut' = "no" => shut = "no", m.kind = "started" => m.of \in agent',
               \A s \in agent \ agent' : m.kind = "ended" /\ m.of = s
        PROVE  EndsTold'
    <2>1. SUFFICES ASSUME shut = "no", NEW i \in DOMAIN news', news'[i].kind = "started"
                   PROVE  \/ news'[i].of \in agent'
                          \/ \E j \in DOMAIN news' : i < j /\ news'[j].kind = "ended"
                                                     /\ news'[j].of = news'[i].of
      BY <1>5 DEF EndsTold
    <2>2. CASE i = Len(news) + 1
      BY <1>1, <1>5, <2>1, <2>2
    <2>3. CASE i \in DOMAIN news /\ news[i].of \in agent
      <3>1. news'[i].of = news[i].of /\ i < Len(news) + 1
        BY <1>1, <2>3
      <3>2. news[i].of \in agent' \/ (m.kind = "ended" /\ m.of = news[i].of)
        BY <1>5, <2>3
      <3> QED  BY <1>1, <1>2, <3>1, <3>2
    <2>4. CASE i \in DOMAIN news /\ news[i].of \notin agent
      <3>1. news'[i] = news[i] /\ news[i].kind = "started"
        BY <1>1, <2>1, <2>4
      <3>2. PICK j \in DOMAIN news : i < j /\ news[j].kind = "ended" /\ news[j].of = news[i].of
        BY <1>5, <2>1, <2>4, <3>1 DEF EndsTold
      <3>3. j \in DOMAIN news' /\ news'[j] = news[j]
        BY <1>1
      <3> QED  BY <3>1, <3>2, <3>3
    <2> QED  BY <1>1, <2>1, <2>2, <2>3, <2>4
  <1> QED  BY <1>3, <1>4, <1>5

\* The first of the news is heard.
LEMMA LessNews ==
    ASSUME TypeOK, news # <<>>, news' = Tail(news)
    PROVE  /\ Head(news) \in Notes
           /\ \A s \in Sessions : EndTold(s) =>
                 (EndTold(s))' \/ (Head(news).kind = "ended" /\ Head(news).of = s)
           /\ EndsTold /\ shut = "no" /\ Head(news).kind = "started" =>
                 \A s \in Sessions : Head(news).of = s => s \in agent \/ (EndTold(s))'
           /\ EndsTold /\ (shut' = "no" => shut = "no") /\ UNCHANGED agent => EndsTold'
  <1>1. /\ news \in Seq(Notes) /\ DOMAIN news = 1..Len(news) /\ Len(news) \in Nat \ {0}
        /\ Head(news) = news[1] /\ Head(news) \in Notes
        /\ DOMAIN news' = 1..(Len(news) - 1)
        /\ \A i \in 1..(Len(news) - 1) : news'[i] = news[i + 1]
    BY HeadTailProperties, LenProperties, EmptySeq DEF TypeOK
  <1>2. \A i \in DOMAIN news' : i + 1 \in DOMAIN news /\ news'[i] = news[i + 1] /\ i \in Nat
    BY <1>1
  <1>3. \A i \in DOMAIN news : i = 1 \/ (i - 1 \in DOMAIN news' /\ news'[i - 1] = news[i])
    BY <1>1
  <1>4. ASSUME NEW s \in Sessions, EndTold(s)
        PROVE  (EndTold(s))' \/ (Head(news).kind = "ended" /\ Head(news).of = s)
    BY <1>1, <1>3, <1>4 DEF EndTold
  <1>5. ASSUME EndsTold, shut = "no", Head(news).kind = "started", NEW s \in Sessions, Head(news).of = s
        PROVE  s \in agent \/ (EndTold(s))'
    <2>1. 1 \in DOMAIN news /\ news[1].kind = "started" /\ news[1].of = s
      BY <1>1, <1>5
    <2>2. CASE s \notin agent
      <3>1. PICK j \in DOMAIN news : 1 < j /\ news[j].kind = "ended" /\ news[j].of = news[1].of
        BY <1>5, <2>1, <2>2 DEF EndsTold
      <3>2. j - 1 \in DOMAIN news' /\ news'[j - 1] = news[j]
        BY <1>3, <3>1
      <3> QED  BY <2>1, <3>1, <3>2 DEF EndTold
    <2> QED  BY <2>2
  <1>6. ASSUME EndsTold, shut' = "no" => shut = "no", UNCHANGED agent
        PROVE  EndsTold'
    <2>1. SUFFICES ASSUME shut = "no", NEW i \in DOMAIN news', news'[i].kind = "started",
                          news'[i].of \notin agent
                   PROVE  \E j \in DOMAIN news' : i < j /\ news'[j].kind = "ended"
                                                  /\ news'[j].of = news'[i].of
      BY <1>6 DEF EndsTold
    <2>2. i + 1 \in DOMAIN news /\ news'[i] = news[i + 1] /\ i \in Nat
      BY <1>2
    <2>3. PICK j \in DOMAIN news : i + 1 < j /\ news[j].kind = "ended" /\ news[j].of = news[i + 1].of
      BY <1>6, <2>1, <2>2 DEF EndsTold
    <2>4. j - 1 \in DOMAIN news' /\ news'[j - 1] = news[j] /\ i < j - 1
      BY <1>1, <1>3, <2>2, <2>3
    <2> QED  BY <2>2, <2>3, <2>4
  <1> QED  BY <1>1, <1>4, <1>5, <1>6

\* What stays the same of the control plane keeps what it waits for.
LEMMA UngrantedStays ==
    ASSUME Ungranted, UNCHANGED <<rec, approved, call>>
    PROVE  Ungranted'
  BY DEF Ungranted

LEMMA ProcessSettles ==
    ASSUME TypeOK, SettleInv, Lifecycle
    PROVE  SettleInv'
  <1>1. UNCHANGED plane
    BY DEF Lifecycle, Stop, DrainEnds, Abort, Forget, Closed, Finish, Fatal, FinishFatal, Kill, Boot,
           Ends, links
  <1>2. Ungranted'
    BY <1>1, UngrantedStays DEF plane, SettleInv
  <1>3. CASE (\E code \in {"ok", "fatal", "killed"} : Ends(code)) \/ Boot
    <2>1. ~Quiet'
      BY <1>3 DEF Ends, Boot, Quiet
    <2>2. CASE \E code \in {"ok", "fatal", "killed"} : Ends(code)
      <3>1. news' = <<>> /\ \A s \in Sessions : reg'[s] = "none"
        BY <2>2 DEF Ends
      <3>2. EndsTold'
        BY <3>1, EmptySeq DEF EndsTold
      <3>3. RegistryWorks'
        BY <3>1 DEF RegistryWorks, Working
      <3> QED  BY <1>2, <2>1, <3>2, <3>3 DEF SettleInv, Accounted
    <2>3. CASE Boot
      <3>1. UNCHANGED <<news, agent, reg, shut>>
        BY <2>3 DEF Boot, gateway
      <3> QED  BY <1>2, <2>1, <3>1, SameNews DEF SettleInv, Accounted, RegistryWorks, Working
    <2> QED  BY <1>3, <2>2, <2>3
  <1>4. CASE Stop \/ DrainEnds \/ Abort \/ Forget \/ Closed
             \/ (Fatal /\ ~\E code \in {"ok", "fatal", "killed"} : Ends(code))
    <2>1. /\ UNCHANGED <<up, hello, news, agent, begun, spared>>
          /\ shut' = "no" => shut = "no"
          /\ reg' = reg \/ reg' = [s \in Sessions |-> "none"]
      BY <1>4 DEF Stop, DrainEnds, Abort, Forget, Closed, Fatal, Shutting, gateway, links, history
    <2>2. UNCHANGED <<rec, call, asks>>
      BY <1>1 DEF plane
    <2>3. Accounted'
      <3>1. Quiet' => Quiet
        BY <2>1 DEF Quiet
      <3>2. \A s \in Sessions : (Unsettled(s))' => Unsettled(s)
        BY <2>1, <2>2 DEF Unsettled
      <3> QED  BY <2>1, <2>2, <3>1, <3>2, AccountedStays, SameNews, SameSought DEF SettleInv
    <2>4. EndsTold'
      BY <2>1, SameNews DEF SettleInv
    <2>5. RegistryWorks'
      BY <2>1 DEF SettleInv, RegistryWorks, Working
    <2> QED  BY <1>2, <2>3, <2>4, <2>5 DEF SettleInv
  <1>5. Finish \/ FinishFatal \/ Kill => \E code \in {"ok", "fatal", "killed"} : Ends(code)
    BY DEF Finish, FinishFatal, Kill
  <1> QED  BY <1>3, <1>4, <1>5 DEF Lifecycle

\* A step of the gateway that moves no agent adds nothing to the news, or
\* something that is no start.
LEMMA SayingSettles ==
    ASSUME TypeOK, SettleInv, UNCHANGED <<up, shut, hello, agent, begun, spared, reg, plane>>,
           news' = news \/ \E m \in Notes : m.kind # "started" /\ news' = Append(news, m)
    PROVE  SettleInv'
  <1>1. UNCHANGED <<rec, call, asks, approved>>
    BY DEF plane
  <1>2. /\ \A s \in Sessions : EndTold(s) => (EndTold(s))'
        /\ EndsTold'
    <2>1. CASE news' = news
      BY <2>1, SameNews DEF SettleInv
    <2>2. CASE news' # news
      <3>1. PICK m \in Notes : m.kind # "started" /\ news' = Append(news, m)
        BY <2>2
      <3> QED  BY <3>1, MoreNews DEF SettleInv
    <2> QED  BY <2>1, <2>2
  <1>3. Accounted'
    <2>1. (Quiet' => Quiet) /\ \A s \in Sessions : (Unsettled(s))' => Unsettled(s)
      BY <1>1 DEF Quiet, Unsettled
    <2> QED  BY <1>1, <1>2, <2>1, AccountedStays, SameSought DEF SettleInv
  <1>4. RegistryWorks' /\ Ungranted'
    BY <1>1, UngrantedStays DEF SettleInv, RegistryWorks, Working
  <1> QED  BY <1>2, <1>3, <1>4 DEF SettleInv

LEMMA JournalSettles ==
    ASSUME TypeOK, SettleInv, JournalStep
    PROVE  SettleInv'
  <1>1. UNCHANGED <<up, shut, hello, agent, begun, spared, reg, plane>>
    BY DEF JournalStep, process, history
  <1>2. news' = news \/ \E m \in Notes : m.kind # "started" /\ news' = Append(news, m)
    <2> DEFINE o == Head(jq)
               m == [kind |-> "list", of |-> o.n, list |-> journal \ o.except]
    <2>1. o \in Ops
      BY HeadTailProperties DEF JournalStep, TypeOK
    <2>2. CASE o.op = "take"
      <3>1. o.n \in Asks /\ journal \ o.except \subseteq Sessions
        BY <2>1, <2>2, OpsFields, SetsTyped
      <3>2. m \in Notes /\ m.kind = "list"
        BY <3>1, NotesTyped
      <3>3. news' = Told(m)
        BY <2>2 DEF JournalStep
      <3> QED  BY <3>2, <3>3 DEF Told
    <2>3. CASE o.op # "take"
      BY <2>3 DEF JournalStep
    <2> QED  BY <2>2, <2>3
  <1> QED  BY <1>1, <1>2, SayingSettles

LEMMA GatewaySettles ==
    ASSUME TypeOK, HandoverInv, SettleInv, NEW s \in Sessions, OnGateway(s)
    PROVE  SettleInv'
  <1>1. UNCHANGED <<up, shut, hello, spared, plane, rec, call, asks, approved>>
    BY DEF OnGateway, StartArrives, Created, NotCreated, Ended, process, plane, history
  <1>2. Ungranted'
    BY <1>1, UngrantedStays DEF SettleInv
  <1>3. Quiet' => Quiet
    BY <1>1 DEF Quiet
  <1>4. CASE StartArrives(s) \/ NotCreated(s)
    <2>1. Note("refused", s) \in Notes /\ Note("refused", s).kind # "started"
      BY NotesTyped DEF Note
    <2>2. news' = news \/ news' = Append(news, Note("refused", s))
      BY <1>4 DEF StartArrives, NotCreated, Told
    <2>3. UNCHANGED <<agent, begun, reg>>
      BY <1>4 DEF StartArrives, NotCreated, history
    <2> QED  BY <1>1, <2>1, <2>2, <2>3, SayingSettles
  <1>5. CASE Created(s)
    <2>1. /\ agent' = agent \cup {s} /\ begun' = begun \cup {s}
          /\ reg' = [reg EXCEPT ![s] = "running"] /\ news' = Told(Note("started", s))
      BY <1>5 DEF Created
    <2>2. PICK m \in Notes : m = Note("started", s) /\ m.of = s /\ m.kind = "started"
      BY NotesTyped DEF Note
    <2>3. /\ \A t \in Sessions : EndTold(t) => (EndTold(t))'
          /\ EndsTold'
      <3>1. CASE news' = news
        <4>1. shut = "done"
          BY <2>1, <2>2, <3>1, NewsLonger DEF Told
        <4> QED  BY <1>1, <3>1, <4>1, SameNews DEF EndsTold
      <3>2. CASE news' = Append(news, m)
        BY <1>1, <2>1, <2>2, <3>2, MoreNews DEF SettleInv
      <3> QED  BY <2>1, <2>2, <3>1, <3>2 DEF Told
    <2>4. \A t \in Sessions : (Unsettled(t))' => Unsettled(t)
      BY <1>1, <2>1 DEF Unsettled
    <2>5. Accounted'
      BY <1>1, <1>3, <2>3, <2>4, AccountedStays, SameSought DEF SettleInv
    <2>6. RegistryWorks'
      BY <2>1 DEF SettleInv, RegistryWorks, Working, TypeOK
    <2> QED  BY <1>2, <2>3, <2>5, <2>6 DEF SettleInv
  <1>6. CASE Ended(s)
    <2>1. s \in agent /\ agent' = agent \ {s} /\ begun' = begun
      BY <1>6 DEF Ended, AgentEnds, history
    <2>2. reg' = reg \/ reg' = [reg EXCEPT ![s] = "over"]
      BY <1>6 DEF Ended, AgentEnds
    <2>3. RegistryWorks'
      <3>1. reg'[s] # "running"
        BY <1>6, <2>2 DEF Ended, AgentEnds, TypeOK
      <3> QED  BY <2>1, <2>2, <3>1 DEF SettleInv, RegistryWorks, Working, TypeOK
    <2>4. CASE shut = "no"
      <3>1. reg[s] # "none"
        BY <2>1, <2>4 DEF HandoverInv, Own, Mine, Registered
      <3>2. PICK m \in Notes : m = Note("ended", s) /\ m.of = s /\ m.kind = "ended"
        BY NotesTyped DEF Note
      <3>3. news' = Append(news, m)
        BY <1>6, <2>4, <3>1, <3>2 DEF Ended, AgentEnds, Told
      <3>4. /\ \A t \in Sessions : EndTold(t) => (EndTold(t))'
            /\ (EndTold(s))'
            /\ EndsTold'
        BY <1>1, <2>1, <3>2, <3>3, MoreNews DEF SettleInv
      <3>5. \A t \in Sessions : (Unsettled(t))' => Unsettled(t) \/ (EndTold(t))'
        BY <1>1, <2>1, <3>4 DEF Unsettled
      <3>6. Accounted'
        BY <1>1, <1>3, <3>4, <3>5, AccountedStays, SameSought DEF SettleInv
      <3> QED  BY <1>2, <2>3, <3>4, <3>6 DEF SettleInv
    <2>5. CASE shut # "no"
      <3>1. Accounted' /\ EndsTold'
        BY <1>1, <2>5 DEF Accounted, Quiet, EndsTold
      <3> QED  BY <1>2, <2>3, <3>1 DEF SettleInv
    <2> QED  BY <2>4, <2>5
  <1> QED  BY <1>4, <1>5, <1>6 DEF OnGateway

\* One step of the control plane, with the gateway as it is.
Apart == UNCHANGED <<up, shut, hello, agent, begun, reg, asks>>

LEMMA ApartSettles ==
    ASSUME TypeOK, SettleInv, Apart, spared \subseteq spared', UNCHANGED news, Ungranted',
           \A s \in Sessions : (Unsettled(s))' => Unsettled(s),
           \A s \in Sessions : (Unsettled(s))' /\ SoughtNow(s) => (SoughtNow(s))'
    PROVE  SettleInv'
  <1>1. Quiet' => Quiet
    BY DEF Apart, Quiet
  <1>2. EndsTold' /\ \A s \in Sessions : EndTold(s) => (EndTold(s))'
    BY SameNews DEF Apart, SettleInv
  <1>3. Accounted'
    BY <1>1, <1>2, AccountedStays DEF SettleInv, Apart
  <1>4. RegistryWorks'
    BY DEF Apart, SettleInv, RegistryWorks, Working
  <1> QED  BY <1>2, <1>3, <1>4 DEF SettleInv

\* The recovery that waits for a start goes on where it was.
LEMMA AnsweredSeeks ==
    ASSUME TypeOK, NEW s \in Sessions, call' = Answered(s), UNCHANGED asks
    PROVE  /\ \A t \in Sessions : SoughtNow(t) => (SoughtNow(t))'
           /\ \A k \in Asks : call'[k].at = "starting" =>
                 call[k].at = "starting" /\ call'[k].to = call[k].to
  <1>1. ASSUME NEW k \in Asks
        PROVE  \/ call'[k] = call[k]
               \/ /\ call[k].at = "starting" /\ call'[k].at = "ending"
                  /\ call'[k].active = call[k].active /\ call'[k].from = call[k].from
                  /\ call'[k].todo = call[k].todo /\ call'[k].recovered = call[k].recovered
    <2>1. call[k] \in Recoveries
      BY CallTyped
    <2>2. call'[k] = IF call[k].at = "starting" /\ call[k].to = s
                     THEN [call[k] EXCEPT !.at = "ending"] ELSE call[k]
      BY DEF Answered
    <2> QED  BY <2>1, <2>2 DEF Recoveries
  <1>2. asks > 0 => asks \in Asks
    BY Bounds DEF TypeOK, Asks
  <1>3. \A t \in Sessions : SoughtNow(t) => (SoughtNow(t))'
    BY <1>1, <1>2 DEF SoughtNow, Sought
  <1>4. \A k \in Asks : call'[k].at = "starting" =>
           call[k].at = "starting" /\ call'[k].to = call[k].to
    BY <1>1
  <1> QED  BY <1>3, <1>4

\* A start that failed: the session shows as running only if it was granted,
\* and then it did not show otherwise before.
LEMMA UnstartedSettles ==
    ASSUME TypeOK, HandoverInv, SettleInv, NEW s \in Sessions, Unstarted(s),
           UNCHANGED <<asks, agent, begun, spared, approved>>
    PROVE  /\ \A t \in Sessions : (Unsettled(t))' => Unsettled(t)
           /\ \A t \in Sessions : SoughtNow(t) => (SoughtNow(t))'
           /\ Ungranted'
  <1>1. call' = Answered(s) /\ (rec' = rec \/ rec' = [rec EXCEPT ![s] = IF s \in approved THEN "running" ELSE "over"])
    BY DEF Unstarted
  <1>2. s \in approved /\ rec' # rec => rec[s] = "starting"
    BY DEF Unstarted, Awaited, SettleInv, Ungranted
  <1>3. \A t \in Sessions : rec'[t] \in {"starting", "running"} => rec[t] \in {"starting", "running"}
    BY <1>1, <1>2 DEF TypeOK
  <1>4. \A t \in Sessions : rec'[t] \in {"none", "held"} => rec[t] = rec'[t]
    BY <1>1 DEF TypeOK
  <1>5. Ungranted'
    <2>1. \A k \in Asks : call[k].at = "starting" => call[k].to \in Sessions
      BY DEF HandoverInv, PlaneInv, Spoken, Known
    <2> QED  BY <1>1, <1>4, <2>1, AnsweredSeeks, SetsTyped DEF SettleInv, Ungranted
  <1>6. \A t \in Sessions : (Unsettled(t))' => Unsettled(t)
    BY <1>3 DEF Unsettled
  <1> QED  BY <1>1, <1>5, <1>6, AnsweredSeeks

LEMMA BeginsSettles ==
    ASSUME TypeOK, HandoverInv, SettleInv, NEW n \in Sessions, NEW origin \in Sessions \cup {NoSession},
           n \notin Known, Begins(n, origin), UNCHANGED <<agent, begun, spared, approved>>,
           \A k \in Asks : call'[k].at = "starting" =>
              \/ call[k].at = "starting" /\ call'[k].to = call[k].to
              \/ call'[k].to = n /\ rec'[n] = "starting"
    PROVE  Ungranted' /\ \A t \in Sessions : (Unsettled(t))' => Unsettled(t)
  <1>1. /\ rec'[n] \in {"over", "held", "starting"} /\ \A s \in Sessions \ {n} : rec'[s] = rec[s]
    BY BeginsTyped
  <1>2. n \notin begun /\ n \notin approved /\ rec[n] = "none"
    BY BegunKnown DEF Known, SettleInv, Ungranted
  <1>3. \A t \in Sessions : (Unsettled(t))' => Unsettled(t)
    BY <1>1, <1>2 DEF Unsettled
  <1>4. \A s \in approved : rec'[s] \notin {"none", "held"}
    BY <1>1, <1>2, SetsTyped DEF SettleInv, Ungranted
  <1>5. ASSUME NEW k \in Asks, call'[k].at = "starting"
        PROVE  call'[k].to \notin approved /\ rec'[call'[k].to] # "held"
    <2>1. CASE call'[k].to = n /\ rec'[n] = "starting"
      BY <1>2, <2>1
    <2>2. CASE call[k].at = "starting" /\ call'[k].to = call[k].to
      <3>1. call[k].to \in Sessions \ {n}
        BY <2>2 DEF HandoverInv, PlaneInv, Spoken, Known
      <3> QED  BY <1>1, <2>2, <3>1 DEF SettleInv, Ungranted
    <2> QED  BY <1>5, <2>1, <2>2
  <1> QED  BY <1>3, <1>4, <1>5 DEF Ungranted

LEMMA PlaneSettles ==
    ASSUME TypeOK, HandoverInv, SettleInv, Starts \/ \E s \in Sessions : OnPlane(s)
    PROVE  SettleInv'
  <1>1. CASE Starts
    <2>1. New \in Sessions /\ Begins(New, NoSession)
      BY <1>1 DEF Starts
    <2>2. New \notin Known
      BY NewIsUnknown DEF HandoverInv, PlaneInv
    <2>3. Apart /\ UNCHANGED <<spared, news, approved, call>>
      BY <1>1 DEF Starts, Apart, process, gateway, history
    <2> HIDE DEF New
    <2>4. Ungranted' /\ \A t \in Sessions : (Unsettled(t))' => Unsettled(t)
      BY <2>1, <2>2, <2>3, BeginsSettles DEF Apart
    <2> QED  BY <2>3, <2>4, ApartSettles, SameSought DEF Apart
  <1>2. ASSUME NEW s \in Sessions, Approve(s) \/ Refuse(s) PROVE SettleInv'
    <2>1. /\ Apart /\ UNCHANGED <<spared, news, call>>
          /\ rec[s] = "held"
          /\ \E state \in {"starting", "waiting", "over"} : rec' = [rec EXCEPT ![s] = state]
          /\ approved' \subseteq approved \cup {s}
      BY <1>2 DEF Approve, Refuse, Apart, process, gateway, links, history
    <2>2. s \notin begun
      BY <2>1 DEF HandoverInv, PlaneInv, InTurn
    <2>3. /\ rec'[s] \notin {"none", "held"} /\ \A t \in Sessions \ {s} : rec'[t] = rec[t]
      BY <2>1 DEF TypeOK
    <2>4. \A t \in Sessions : (Unsettled(t))' => Unsettled(t)
      BY <2>1, <2>2, <2>3 DEF Unsettled, Apart
    <2>5. ASSUME NEW k \in Asks, call[k].at = "starting"
          PROVE  call[k].to \notin approved' /\ rec'[call[k].to] # "held"
      <3>1. call[k].to \in Sessions /\ call[k].to # s
        BY <2>1, <2>5 DEF HandoverInv, PlaneInv, Spoken, Known, SettleInv, Ungranted
      <3> QED  BY <2>1, <2>3, <2>5, <3>1 DEF SettleInv, Ungranted
    <2>6. \A t \in approved' : rec'[t] \notin {"none", "held"}
      BY <2>1, <2>3, SetsTyped DEF SettleInv, Ungranted
    <2>7. Ungranted'
      BY <2>1, <2>5, <2>6 DEF Ungranted
    <2> QED  BY <2>1, <2>4, <2>7, ApartSettles, SameSought DEF Apart
  <1>3. ASSUME NEW s \in Sessions, Age(s) PROVE SettleInv'
    <2>1. Apart /\ UNCHANGED <<spared, news, call, rec, approved>>
      BY <1>3 DEF Age, Apart, process, gateway, links, history
    <2>2. \A t \in Sessions : (Unsettled(t))' => Unsettled(t)
      BY <2>1 DEF Unsettled, Apart
    <2> QED  BY <2>1, <2>2, UngrantedStays, ApartSettles, SameSought DEF Apart, SettleInv
  <1>4. ASSUME NEW s \in Sessions, StartTimeout(s) PROVE SettleInv'
    <2>1. Apart /\ UNCHANGED <<spared, news, approved>> /\ Unstarted(s)
      BY <1>4 DEF StartTimeout, Apart, process, gateway, links, history
    <2> QED  BY <2>1, UnstartedSettles, ApartSettles DEF Apart
  <1> QED  BY <1>1, <1>2, <1>3, <1>4 DEF OnPlane

LEMMA HearSettles ==
    ASSUME TypeOK, HandoverInv, SettleInv, Hear
    PROVE  SettleInv'
  <1> DEFINE m == Head(news)
  <1>1. news # <<>> /\ news' = Tail(news) /\ Apart /\ UNCHANGED <<spared, approved>>
    BY DEF Hear, Apart, process, gateway, history
  <1>2. m \in Notes /\ m.kind \in {"started", "refused", "ended", "list"}
    BY <1>1, LessNews, NotesFields
  <1>3. EndsTold'
    BY <1>1, LessNews DEF Apart, SettleInv
  <1>4. \A t \in Sessions : EndTold(t) => (EndTold(t))' \/ (m.kind = "ended" /\ m.of = t)
    BY <1>1, LessNews
  <1>5. shut = "no" /\ m.kind = "started" => \A t \in Sessions : m.of = t => t \in agent \/ (EndTold(t))'
    BY <1>1, LessNews DEF SettleInv
  <1>6. m.kind # "list" => m.of \in Sessions
    BY <1>2, NotesFields
  <1>7. /\ m.kind = "started" => rec' = [rec EXCEPT ![m.of] = "running"] /\ call' = Answered(m.of)
        /\ m.kind = "refused" => Unstarted(m.of)
        /\ m.kind = "ended" =>
              /\ rec' = IF rec[m.of] \in Terminal THEN rec ELSE [rec EXCEPT ![m.of] = "over"]
              /\ UNCHANGED call
        /\ m.kind = "list" =>
              /\ call' = IF call[m.of].at # "asking" THEN call
                         ELSE [call EXCEPT ![m.of].at = "entries", ![m.of].todo = m.list,
                                           ![m.of].recovered = m.list]
              /\ UNCHANGED rec
    BY DEF Hear
  <1>8. m.kind = "list" => m.of \in Asks
    BY <1>2, NotesFields
  <1>9. \A k \in Asks : call[k].at = "starting" => call[k].to \in Sessions
    BY DEF HandoverInv, PlaneInv, Spoken, Known
  <1> HIDE DEF m
  <1>10. ASSUME \A t \in Sessions : EndTold(t) /\ (Unsettled(t))' => (EndTold(t))',
                shut = "no" => \A t \in Sessions : (Unsettled(t))' => Unsettled(t) \/ (EndTold(t))',
                \A t \in Sessions : (Unsettled(t))' /\ SoughtNow(t) => (SoughtNow(t))',
                Ungranted'
         PROVE  SettleInv'
    <2>1. CASE shut = "no"
      <3>1. Quiet' => Quiet
        BY <1>1 DEF Apart, Quiet
      <3>2. Accounted'
        BY <1>1, <1>10, <2>1, <3>1, AccountedStays DEF SettleInv, Apart
      <3> QED  BY <1>1, <1>3, <1>10, <3>2 DEF SettleInv, RegistryWorks, Working, Apart
    <2>2. CASE shut # "no"
      <3>1. Accounted'
        BY <1>1, <2>2 DEF Accounted, Quiet, Apart
      <3> QED  BY <1>1, <1>3, <1>10, <3>1 DEF SettleInv, RegistryWorks, Working, Apart
    <2> QED  BY <2>1, <2>2
  <1>11. CASE m.kind = "started"
    <2>1. rec'[m.of] = "running" /\ \A t \in Sessions \ {m.of} : rec'[t] = rec[t]
      BY <1>6, <1>7, <1>11 DEF TypeOK
    <2>2. \A t \in Sessions : (Unsettled(t))' => Unsettled(t) \/ t = m.of
      BY <1>1, <2>1 DEF Unsettled, Apart
    <2>3. shut = "no" => \A t \in Sessions : (Unsettled(t))' => Unsettled(t) \/ (EndTold(t))'
      BY <1>1, <1>5, <1>11, <2>2 DEF Unsettled, Apart
    <2>4. \A t \in Sessions : EndTold(t) => (EndTold(t))'
      BY <1>4, <1>11
    <2>5. /\ \A t \in Sessions : SoughtNow(t) => (SoughtNow(t))'
          /\ \A k \in Asks : call'[k].at = "starting" => call[k].at = "starting" /\ call'[k].to = call[k].to
      BY <1>1, <1>6, <1>7, <1>11, AnsweredSeeks DEF Apart
    <2>6. Ungranted'
      BY <1>1, <1>9, <2>1, <2>5, SetsTyped DEF SettleInv, Ungranted
    <2> QED  BY <1>10, <2>3, <2>4, <2>5, <2>6
  <1>12. CASE m.kind = "refused"
    <2>1. m.of \in Sessions /\ Unstarted(m.of)
      BY <1>6, <1>7, <1>12
    <2>2. /\ \A t \in Sessions : (Unsettled(t))' => Unsettled(t)
          /\ \A t \in Sessions : SoughtNow(t) => (SoughtNow(t))'
          /\ Ungranted'
      BY <1>1, <2>1, UnstartedSettles DEF Apart
    <2>3. \A t \in Sessions : EndTold(t) => (EndTold(t))'
      BY <1>4, <1>12
    <2> QED  BY <1>10, <2>2, <2>3
  <1>13. CASE m.kind = "ended"
    <2>1. /\ rec'[m.of] \in Terminal /\ \A t \in Sessions \ {m.of} : rec'[t] = rec[t]
          /\ UNCHANGED call
      BY <1>6, <1>7, <1>13 DEF TypeOK, Terminal
    <2>2. \A t \in Sessions : (Unsettled(t))' => Unsettled(t) /\ t # m.of
      BY <1>1, <2>1 DEF Unsettled, Apart, Terminal
    <2>3. Ungranted'
      BY <1>1, <1>9, <2>1, SetsTyped DEF SettleInv, Ungranted, Terminal
    <2>4. \A t \in Sessions : SoughtNow(t) => (SoughtNow(t))'
      BY <1>1, <2>1, SameSought DEF Apart
    <2> QED  BY <1>4, <1>10, <2>2, <2>3, <2>4
  <1>14. CASE m.kind = "list"
    <2>1. \A t \in Sessions : (Unsettled(t))' => Unsettled(t)
      BY <1>1, <1>7, <1>14 DEF Unsettled, Apart
    <2>2. ASSUME NEW k \in Asks
          PROVE  \/ call'[k] = call[k]
                 \/ /\ call[k].at = "asking" /\ call'[k].at = "entries"
                    /\ call'[k].active = call[k].active /\ call'[k].todo = call'[k].recovered
      <3>1. call[k] \in Recoveries
        BY CallTyped
      <3>2. CASE call[m.of].at = "asking"
        <4>1. call' = [call EXCEPT ![m.of] = [call[m.of] EXCEPT !.at = "entries", !.todo = m.list,
                                                               !.recovered = m.list]]
          BY <1>7, <1>8, <1>14, <3>2 DEF TypeOK
        <4> QED  BY <1>8, <1>14, <3>1, <3>2, <4>1 DEF TypeOK, Recoveries
      <3>3. CASE call[m.of].at # "asking"
        BY <1>7, <1>14, <3>3
      <3> QED  BY <3>2, <3>3
    <2>3. asks > 0 => asks \in Asks
      BY Bounds DEF TypeOK, Asks
    <2>4. \A t \in Sessions : SoughtNow(t) => (SoughtNow(t))'
      BY <1>1, <2>2, <2>3 DEF SoughtNow, Sought, Apart
    <2>5. Ungranted'
      BY <1>1, <1>7, <1>14, <2>2 DEF SettleInv, Ungranted
    <2>6. \A t \in Sessions : EndTold(t) => (EndTold(t))'
      BY <1>4, <1>14
    <2> QED  BY <1>10, <2>1, <2>4, <2>5, <2>6
  <1> QED  BY <1>2, <1>11, <1>12, <1>13, <1>14

\* The question is put: what shows as running and is not will not be told to be
\* at work.
LEMMA AskSettles ==
    ASSUME TypeOK, SettleInv, Ask
    PROVE  SettleInv'
  <1>1. /\ asks + 1 \in Asks /\ asks + 1 > 0 /\ asks' = asks + 1
        /\ UNCHANGED <<shut, agent, begun, spared, news, reg, rec, approved>>
    BY Bounds DEF Ask, TypeOK, Asks, process, history
  <1>2. /\ call'[asks + 1].at = "asking" /\ call'[asks + 1].active = Working
        /\ \A k \in Asks \ {asks + 1} : call'[k] = call[k]
    BY <1>1, CallTyped DEF Ask, TypeOK, Recoveries
  <1>3. \A s \in Sessions : (Unsettled(s))' => (SoughtNow(s))'
    BY <1>1, <1>2 DEF Unsettled, SoughtNow, Sought, SettleInv, RegistryWorks
  <1>4. Accounted'
    BY <1>3 DEF Accounted
  <1>5. EndsTold'
    BY <1>1, SameNews DEF SettleInv
  <1>6. Ungranted'
    BY <1>1, <1>2 DEF SettleInv, Ungranted
  <1>7. RegistryWorks'
    BY <1>1 DEF SettleInv, RegistryWorks, Working
  <1> QED  BY <1>4, <1>5, <1>6, <1>7 DEF SettleInv

\* One recovery goes on and still seeks what it has to.
LEMMA OneSettles ==
    ASSUME TypeOK, SettleInv, Apart, spared \subseteq spared', UNCHANGED <<news, approved>>, Ungranted',
           NEW k \in Asks, \A l \in Asks \ {k} : call'[l] = call[l],
           \A s \in Sessions : (Unsettled(s))' => Unsettled(s),
           \A s \in Sessions : (Unsettled(s))' /\ Sought(call[k], s) => Sought(call'[k], s)
    PROVE  SettleInv'
  <1>1. asks > 0 => asks \in Asks
    BY Bounds DEF TypeOK, Asks
  <1>2. \A s \in Sessions : (Unsettled(s))' /\ SoughtNow(s) => (SoughtNow(s))'
    BY <1>1 DEF SoughtNow, Apart
  <1> QED  BY <1>2, ApartSettles

\* A recovery that waits for no other start than before keeps what is waited for.
LEMMA UngrantedMoves ==
    ASSUME TypeOK, HandoverInv, Ungranted, UNCHANGED approved,
           \A s \in Sessions : rec'[s] \in {"none", "held"} => rec[s] = rec'[s],
           \A l \in Asks : call'[l].at = "starting" =>
              call[l].at = "starting" /\ call'[l].to = call[l].to
    PROVE  Ungranted'
  <1>1. \A l \in Asks : call[l].at = "starting" => call[l].to \in Sessions
    BY DEF HandoverInv, PlaneInv, Spoken, Known
  <1> QED  BY <1>1, SetsTyped DEF Ungranted

LEMMA ContinueSettles ==
    ASSUME TypeOK, HandoverInv, SettleInv, NEW k \in Asks, Continue(k)
    PROVE  SettleInv'
  <1> DEFINE s == Min(call[k].todo)
             next == [call[k] EXCEPT !.todo = @ \ {s}, !.from = s, !.to = New]
  <1>1. s \in call[k].todo /\ s \in Sessions /\ call[k].at = "entries" /\ call[k] \in Recoveries
    BY CallTyped, MinIsIn DEF Continue
  <1>2. Apart /\ UNCHANGED <<spared, news, approved>>
    BY DEF Continue, Apart, process, gateway, history
  <1>3. \A at \in {"starting", "ending"} : \A to :
           LET c == [next EXCEPT !.at = at, !.to = to]
           IN /\ c.at = at /\ c.active = call[k].active /\ c.recovered = call[k].recovered
              /\ c.todo = call[k].todo \ {s} /\ c.from = s /\ c.to = to
    BY <1>1 DEF Recoveries
  <1>4. \A at \in {"starting", "ending"} :
           LET c == [next EXCEPT !.at = at]
           IN /\ c.at = at /\ c.active = call[k].active /\ c.recovered = call[k].recovered
              /\ c.todo = call[k].todo \ {s} /\ c.from = s /\ c.to = New
    BY <1>1 DEF Recoveries
  <1>5. CASE rec[s] \in Terminal
    <2>1. call' = [call EXCEPT ![k].todo = @ \ {s}] /\ UNCHANGED rec
      BY <1>5 DEF Continue
    <2> HIDE DEF s, next
    <2>2. /\ call'[k].at = "entries" /\ call'[k].active = call[k].active
          /\ call'[k].recovered = call[k].recovered /\ call'[k].todo = call[k].todo \ {s}
          /\ \A l \in Asks \ {k} : call'[l] = call[l]
      BY <1>1, <2>1 DEF TypeOK, Recoveries
    <2>3. \A t \in Sessions : (Unsettled(t))' => Unsettled(t) /\ t # s
      BY <1>2, <1>5, <2>1 DEF Unsettled, Apart, Terminal
    <2>4. \A t \in Sessions : (Unsettled(t))' /\ Sought(call[k], t) => Sought(call'[k], t)
      BY <1>1, <2>2, <2>3 DEF Sought
    <2>5. Ungranted'
      BY <1>2, <2>1, <2>2, UngrantedMoves DEF SettleInv
    <2> QED  BY <1>2, <2>2, <2>3, <2>4, <2>5, OneSettles
  <1>6. CASE rec[s] \notin Terminal /\ New \notin Sessions
    <2>1. call' = [call EXCEPT ![k] = [next EXCEPT !.at = "ending", !.to = NoSession]] /\ UNCHANGED rec
      BY <1>6 DEF Continue
    <2>2. PICK c : c = [next EXCEPT !.at = "ending", !.to = NoSession]
      OBVIOUS
    <2>3. /\ c.at = "ending" /\ c.active = call[k].active /\ c.recovered = call[k].recovered
          /\ c.todo = call[k].todo \ {s} /\ c.from = s
      BY <1>3, <2>2
    <2>4. call' = [call EXCEPT ![k] = c]
      BY <2>1, <2>2
    <2> HIDE DEF s, next
    <2>5. call'[k] = c /\ \A l \in Asks \ {k} : call'[l] = call[l]
      BY <2>4 DEF TypeOK
    <2>6. \A t \in Sessions : (Unsettled(t))' => Unsettled(t)
      BY <1>2, <2>1 DEF Unsettled, Apart
    <2>7. \A t \in Sessions : Sought(call[k], t) => Sought(call'[k], t)
      BY <1>1, <2>3, <2>5 DEF Sought
    <2>8. Ungranted'
      BY <1>2, <2>1, <2>3, <2>5, UngrantedMoves DEF SettleInv
    <2> QED  BY <1>2, <2>5, <2>6, <2>7, <2>8, OneSettles
  <1>7. CASE rec[s] \notin Terminal /\ New \in Sessions
    <2>1. /\ Begins(New, s)
          /\ call' = [call EXCEPT ![k] =
                [next EXCEPT !.at = IF rec'[New] = "starting" THEN "starting" ELSE "ending"]]
      BY <1>7 DEF Continue
    <2>2. PICK at \in {"starting", "ending"} : at = IF rec'[New] = "starting" THEN "starting" ELSE "ending"
      OBVIOUS
    <2>3. PICK c : c = [next EXCEPT !.at = at]
      OBVIOUS
    <2>4. PICK n \in Sessions : n = New
      BY <1>7
    <2>5. /\ c.at = at /\ c.active = call[k].active /\ c.recovered = call[k].recovered
          /\ c.todo = call[k].todo \ {s} /\ c.from = s /\ c.to = n
      BY <1>4, <2>3, <2>4
    <2>6. call' = [call EXCEPT ![k] = c]
      BY <2>1, <2>2, <2>3
    <2>7. n \notin Known /\ Begins(n, s)
      BY <2>1, <2>4, NewIsUnknown DEF HandoverInv, PlaneInv
    <2>8. at = "starting" => rec'[n] = "starting"
      BY <2>2, <2>4
    <2> HIDE DEF s, next
    <2>9. call'[k] = c /\ \A l \in Asks \ {k} : call'[l] = call[l]
      BY <2>6 DEF TypeOK
    <2>10. \A l \in Asks : call'[l].at = "starting" =>
              \/ call[l].at = "starting" /\ call'[l].to = call[l].to
              \/ call'[l].to = n /\ rec'[n] = "starting"
      BY <2>5, <2>8, <2>9
    <2>11. Ungranted' /\ \A t \in Sessions : (Unsettled(t))' => Unsettled(t)
      BY <1>1, <1>2, <2>7, <2>10, BeginsSettles DEF Apart
    <2>12. \A t \in Sessions : Sought(call[k], t) => Sought(call'[k], t)
      BY <1>1, <2>5, <2>9 DEF Sought
    <2> QED  BY <1>2, <2>9, <2>11, <2>12, OneSettles
  <1> QED  BY <1>5, <1>6, <1>7

LEMMA SweepSettles ==
    ASSUME TypeOK, HandoverInv, SettleInv, NEW k \in Asks, Sweep(k)
    PROVE  SettleInv'
  <1>1. call[k].at = "sweeping" /\ call[k] \in Recoveries
    BY CallTyped DEF Sweep
  <1>2. Apart /\ UNCHANGED <<news, approved>>
    BY DEF Sweep, Apart, process, gateway, links
  <1>3. CASE call[k].sweep = {}
    <2>1. /\ call' = [call EXCEPT ![k] = [Unused EXCEPT !.at = "done"]] /\ UNCHANGED <<rec, spared>>
      BY <1>3 DEF Sweep
    <2>2. call'[k].at = "done" /\ \A l \in Asks \ {k} : call'[l] = call[l]
      BY <2>1 DEF Unused, TypeOK
    <2>3. \A t \in Sessions : (Unsettled(t))' => Unsettled(t)
      BY <1>2, <2>1 DEF Unsettled, Apart
    <2>4. \A t \in Sessions : ~Sought(call[k], t)
      BY <1>1, <1>3 DEF Sought
    <2>5. Ungranted'
      BY <1>2, <2>1, <2>2, UngrantedMoves DEF SettleInv
    <2> QED  BY <1>2, <2>1, <2>2, <2>3, <2>4, <2>5, OneSettles
  <1>4. CASE call[k].sweep # {}
    <2>1. PICK s \in Sessions : s = Min(call[k].sweep)
      BY <1>4, CallTyped, MinIsIn
    <2>2. /\ call' = [call EXCEPT ![k].sweep = @ \ {s}]
          /\ spared' = IF s \in young THEN spared \cup {s} ELSE spared
          /\ rec' = IF s \in young \/ rec[s] = "held" THEN rec ELSE [rec EXCEPT ![s] = "crashed"]
      BY <1>4, <2>1 DEF Sweep
    <2>3. /\ call'[k].at = "sweeping" /\ call'[k].sweep = call[k].sweep \ {s}
          /\ \A l \in Asks \ {k} : call'[l] = call[l]
      BY <1>1, <2>2 DEF TypeOK, Recoveries
    <2>4. /\ \A t \in Sessions \ {s} : rec'[t] = rec[t]
          /\ rec'[s] = rec[s] \/ rec'[s] = "crashed"
          /\ s \in young \/ rec[s] = "held" \/ rec'[s] = "crashed"
      BY <2>2 DEF TypeOK
    <2>5. spared \subseteq spared' /\ (s \in young => s \in spared')
      BY <2>2
    <2>6. \A t \in Sessions : (Unsettled(t))' => Unsettled(t) /\ t # s
      BY <1>2, <2>4, <2>5 DEF Unsettled, Apart
    <2>7. \A t \in Sessions : (Unsettled(t))' /\ Sought(call[k], t) => Sought(call'[k], t)
      BY <1>1, <2>3, <2>6 DEF Sought
    <2>8. Ungranted'
      BY <1>1, <1>2, <2>3, <2>4, UngrantedMoves DEF SettleInv
    <2> QED  BY <1>2, <2>3, <2>5, <2>6, <2>7, <2>8, OneSettles
  <1> QED  BY <1>3, <1>4

LEMMA RecoverySettles ==
    ASSUME TypeOK, HandoverInv, SettleInv, NEW k \in Asks, AskTimeout(k) \/ Recover(k)
    PROVE  SettleInv'
  <1>1. call[k] \in Recoveries
    BY CallTyped
  <1>2. CASE AskTimeout(k)
    <2>1. /\ call' = [call EXCEPT ![k] = [Unused EXCEPT !.at = "gaveup"]]
          /\ Apart /\ UNCHANGED <<spared, news, approved, rec>>
      BY <1>2 DEF AskTimeout, Apart, process, gateway, links, history
    <2>2. call'[k].at = "gaveup" /\ \A l \in Asks \ {k} : call'[l] = call[l]
      BY <2>1 DEF Unused, TypeOK
    <2>3. \A t \in Sessions : (Unsettled(t))' => Unsettled(t)
      BY <2>1 DEF Unsettled, Apart
    <2>4. \A t \in Sessions : Sought(call'[k], t)
      BY <2>2 DEF Sought
    <2>5. Ungranted'
      BY <2>1, <2>2, UngrantedMoves DEF SettleInv
    <2> QED  BY <2>1, <2>2, <2>3, <2>4, <2>5, OneSettles
  <1>3. CASE End(k)
    <2>1. /\ call[k].at = "ending" /\ call' = [call EXCEPT ![k].at = "entries"]
          /\ rec' = [rec EXCEPT ![call[k].from] = "crashed"]
          /\ Apart /\ UNCHANGED <<spared, news, approved>>
      BY <1>3 DEF End, Apart, process, gateway, links, history
    <2>2. PICK f \in Sessions : f = call[k].from
      BY <2>1 DEF HandoverInv, PlaneInv, Spoken, Known
    <2>3. rec'[f] = "crashed" /\ \A t \in Sessions \ {f} : rec'[t] = rec[t]
      BY <2>1, <2>2 DEF TypeOK
    <2>4. /\ call'[k].at = "entries" /\ call'[k].active = call[k].active
          /\ call'[k].recovered = call[k].recovered /\ call'[k].todo = call[k].todo
          /\ \A l \in Asks \ {k} : call'[l] = call[l]
      BY <1>1, <2>1 DEF TypeOK, Recoveries
    <2>5. \A t \in Sessions : (Unsettled(t))' => Unsettled(t) /\ t # f
      BY <2>1, <2>3 DEF Unsettled, Apart
    <2>6. \A t \in Sessions : (Unsettled(t))' /\ Sought(call[k], t) => Sought(call'[k], t)
      BY <2>1, <2>2, <2>4, <2>5 DEF Sought
    <2>7. Ungranted'
      BY <2>1, <2>3, <2>4, UngrantedMoves DEF SettleInv
    <2> QED  BY <2>1, <2>4, <2>5, <2>6, <2>7, OneSettles
  <1>4. CASE List(k)
    <2>1. /\ call[k].at = "entries" /\ call[k].todo = {} /\ UNCHANGED rec
          /\ Apart /\ UNCHANGED <<spared, news, approved>>
      BY <1>4 DEF List, Apart, process, gateway, links, history
    <2>2. /\ call'[k].at = "sweeping"
          /\ call'[k].sweep = {s \in Known : rec[s] \notin Terminal} \ (call[k].active \cup call[k].recovered)
          /\ \A l \in Asks \ {k} : call'[l] = call[l]
      BY <1>1, <1>4 DEF List, TypeOK, Recoveries
    <2>3. \A t \in Sessions : (Unsettled(t))' => Unsettled(t)
      BY <2>1 DEF Unsettled, Apart
    <2>4. \A t \in Sessions : Unsettled(t) => t \in Known /\ rec[t] \notin Terminal
      BY DEF Unsettled, Known, Terminal
    <2>5. \A t \in Sessions : (Unsettled(t))' /\ Sought(call[k], t) => Sought(call'[k], t)
      BY <2>1, <2>2, <2>3, <2>4 DEF Sought
    <2>6. Ungranted'
      BY <2>1, <2>2, UngrantedMoves DEF SettleInv
    <2> QED  BY <2>1, <2>2, <2>3, <2>5, <2>6, OneSettles
  <1> QED  BY <1>2, <1>3, <1>4, ContinueSettles, SweepSettles DEF Recover

\* What shows as running is at work, or is about to be told to have ended.
SettledOrTold ==
    ~Unrecovered /\ shut = "no" =>
       \A s \in begun \ spared : rec[s] = "running" => s \in agent \/ EndTold(s)

\* Once the recovery of the last connection is over, and as long as the gateway
\* neither shuts down nor ends, no session that was started is forgotten as
\* running, but for one that a recovery left alone as too young: its agent is at
\* work, or the report of its end is on its way (onGatewayConnected, endSession,
\* wireAdapterEvents), for any number of sessions, connections and lives.
THEOREM SettledAlways == Spec => []SettledOrTold
  <1>1. TypeOK /\ HandoverInv /\ SettleInv /\ [Next]_vars => SettleInv'
    <2>1. SUFFICES ASSUME TypeOK, HandoverInv, SettleInv, [Next]_vars PROVE SettleInv'
      OBVIOUS
    <2>2. CASE UNCHANGED vars
      <3>1. /\ UNCHANGED <<up, shut, hello, agent, begun, spared, reg, plane>> /\ news' = news
        BY <2>2 DEF vars, process, gateway, links, plane, history
      <3> QED  BY <2>1, <3>1, SayingSettles
    <2>3. CASE Next
      BY <2>1, <2>3, ProcessSettles, JournalSettles, GatewaySettles, PlaneSettles, HearSettles,
         AskSettles, RecoverySettles DEF Next
    <2> QED  BY <2>1, <2>2, <2>3
  <1>2. TypeOK /\ SettleInv => SettledOrTold
    <2>1. SUFFICES ASSUME TypeOK, SettleInv, ~Unrecovered, shut = "no", NEW s \in begun \ spared,
                          rec[s] = "running", s \notin agent
                   PROVE  EndTold(s)
      BY DEF SettledOrTold
    <2>2. s \in Sessions /\ Unsettled(s) /\ Quiet
      BY <2>1, SetsTyped DEF Unsettled, Quiet, Unrecovered
    <2>3. ~SoughtNow(s)
      BY <2>1 DEF SoughtNow, Sought, Unrecovered
    <2> QED  BY <2>1, <2>2, <2>3 DEF SettleInv, Accounted
  <1> QED  BY <1>1, <1>2, InitSettle, HandoverAlways, PTL DEF Spec
=============================================================================
