--------------------------- MODULE ContestProofs ---------------------------
(***************************************************************************)
(* Proofs about Contest, for any number of agents and any evaluations and  *)
(* scores.                                                                 *)
(***************************************************************************)
EXTENDS Contest, TLAPS

--------------------------------------------------------------------------
(* Types *)

LEMMA SessionIds ==
  ASSUME NEW e \in Entries
  PROVE  /\ Work(e) \in Sessions /\ Review(e) \in Sessions /\ Work(e) # Review(e)
         /\ \A f \in Entries : Work(f) # Review(e) /\ (Work(f) = Work(e) => f = e)
  BY DEF Work, Review, Sessions

LEMMA CallType ==
  ASSUME NEW what \in {"judge", "decide"}, Call(what), calls \in SUBSET {"judge", "decide"}
  PROVE  calls' \in SUBSET {"judge", "decide"}
  BY DEF Call

\* What a start does keeps the types of what it touches.
LEMMA StartsType ==
  ASSUME TypeOK, NEW s \in Sessions, NEW reply \in {"refused", "held", "sent", "late"}, Starts(s, reply)
  PROVE  /\ session' \in [Sessions -> {"none", "open"} \cup Terminal]
         /\ gate' \in SUBSET Sessions /\ agent' \in SUBSET Sessions
         /\ faults' \in 0 .. MaxFaults /\ cut' \in BOOLEAN
         /\ After(reply) \in {"sent", "note", "noteFailed"}
  <1>1. (IF reply \in {"refused", "late"} THEN "failed" ELSE "open") \in {"open"} \cup Terminal
    BY DEF Terminal
  <1>2. session' \in [Sessions -> {"none", "open"} \cup Terminal]
    BY <1>1 DEF Starts, TypeOK
  <1>3. faults' \in 0 .. MaxFaults
    BY FaultsAssumption DEF Starts, Fault, NoFault, TypeOK
  <1>4. After(reply) \in {"sent", "note", "noteFailed"}
    BY DEF After
  <1> QED  BY <1>2, <1>3, <1>4 DEF Starts, TypeOK

LEMMA FaultType ==
  ASSUME TypeOK, Fault
  PROVE  faults' \in 0 .. MaxFaults
  BY FaultsAssumption DEF Fault, TypeOK

LEMMA EndsType ==
  ASSUME TypeOK, NEW s \in Sessions, NEW exit \in Terminal, Ends(s, exit)
  PROVE  /\ session' \in [Sessions -> {"none", "open"} \cup Terminal]
         /\ agent' \in SUBSET Sessions /\ hook' \in SUBSET Sessions
  BY DEF Ends, TypeOK

LEMMA TypeInit == Init => TypeOK
  <1> SUFFICES ASSUME Init PROVE TypeOK
    OBVIOUS
  <1>1. entry \in [Entries -> EntryRecords]
    <2>1. Fresh \in EntryRecords
      BY DEF Fresh, EntryRecords, EntryStates, ReviewStates
    <2> QED  BY <2>1 DEF Init
  <1>2. 0 \in 0 .. N /\ 0 \in 0 .. MaxFaults
    BY EntriesAssumption, FaultsAssumption
  <1>3. judge \in JudgeRecords /\ judge.pc = "idle"
    BY <1>2 DEF Init, JudgeRecords
  <1>4. session \in [Sessions -> {"none", "open"} \cup Terminal]
    BY DEF Init
  <1> QED  BY <1>1, <1>2, <1>3, <1>4 DEF Init, TypeOK

\* An entry stays one when some of its fields are set.
LEMMA FieldsType ==
  ASSUME NEW r \in EntryRecords, NEW s \in EntryStates, NEW v \in ReviewStates,
         NEW f \in Evaluations \cup {"none"}, NEW p \in Scores \cup {0}
  PROVE  /\ [r EXCEPT !.state = s] \in EntryRecords /\ [r EXCEPT !.review = v] \in EntryRecords
         /\ [r EXCEPT !.review = v, !.state = s] \in EntryRecords
         /\ [r EXCEPT !.state = s, !.review = v] \in EntryRecords
         /\ [r EXCEPT !.state = s, !.eval = f] \in EntryRecords
         /\ [r EXCEPT !.review = v, !.score = p, !.state = s] \in EntryRecords
  BY DEF EntryRecords

LEMMA StateNames ==
  /\ \A s \in {"running", "evaluating", "reviewing", "done", "failed", "cancelled"} : s \in EntryStates
  /\ \A v \in {"skipped", "pending", "running", "done", "failed"} : v \in ReviewStates
  BY DEF EntryStates, ReviewStates

LEMMA EntryType ==
  ASSUME TypeOK, NEW e \in Entries
  PROVE  entry[e] \in EntryRecords
  BY DEF TypeOK

LEMMA SetEntryType ==
  ASSUME TypeOK, NEW e \in Entries, NEW s \in EntryStates, SetEntry(e, s)
  PROVE  entry' \in [Entries -> EntryRecords]
  BY DEF SetEntry, TypeOK, EntryRecords

\* The same for any update of one entry.
LEMMA UpdateType ==
  ASSUME TypeOK, NEW e \in Entries, NEW r \in EntryRecords, entry' = [entry EXCEPT ![e] = r]
  PROVE  entry' \in [Entries -> EntryRecords]
  BY DEF TypeOK

LEMMA StartType ==
  ASSUME TypeOK, [Next]_vars, \E e \in Entries : StartSteps(e)
  PROVE  TypeOK'
  <1> PICK e \in Entries : StartSteps(e)
    OBVIOUS
  <1>1. CASE StartEntry(e)
    <2> PICK reply \in {"refused", "held", "sent", "late"} :
               /\ At(e, "start", After(reply)) /\ Starts(Work(e), reply)
               /\ UNCHANGED <<record, judge, grading, calls, hook, asked>>
      BY <1>1 DEF StartEntry
    <2> QED  BY StartsType, SessionIds DEF At, TypeOK, record, asked
  <1>2. CASE EntryRecorded(e)
    BY <1>2, SessionIds DEF EntryRecorded, At, Recorded, TypeOK, record, asked, history
  <1>3. CASE Note(e)
    <2>1. entry' \in [Entries -> EntryRecords]
      BY <1>3, SetEntryType DEF Note, EntryStates, TypeOK
    <2>2. calls' \in SUBSET {"judge", "decide"}
      BY <1>3, CallType DEF Note, TypeOK
    <2>3. start' \in [Entries -> {"start", "sent", "note", "noteFailed", "over"}] /\ named' \in SUBSET Sessions
      BY <1>3, SessionIds DEF Note, TypeOK
    <2> QED  BY <1>3, <2>1, <2>2, <2>3 DEF Note, TypeOK, asked, machine, history
  <1>4. CASE StartThrows(e)
    <2>1. entry' \in [Entries -> EntryRecords]
      BY <1>4, SetEntryType DEF StartThrows, EntryStates
    <2>2. calls' \in SUBSET {"judge", "decide"}
      BY <1>4, CallType DEF StartThrows, TypeOK
    <2> QED  BY <1>4, <2>1, <2>2 DEF StartThrows, At, TypeOK, asked, machine, history
  <1> QED  BY <1>1, <1>2, <1>3, <1>4 DEF StartSteps

LEMMA SessionType ==
  ASSUME TypeOK, NEW s \in Sessions, AgentEnds(s) \/ EndsAgain(s) \/ LoseAgent(s) \/ Answered(s) \/ Revived(s)
  PROVE  TypeOK'
  <1>1. CASE AgentEnds(s)
    <2>1. PICK exit \in Terminal : Ends(s, exit)
      BY <1>1 DEF AgentEnds
    <2> QED  BY <1>1, <2>1, EndsType DEF AgentEnds, TypeOK, record, asked, history
  <1>2. CASE EndsAgain(s)
    BY <1>2, FaultType DEF EndsAgain, TypeOK, record, asked, machine
  <1>3. CASE LoseAgent(s)
    BY <1>3, FaultType DEF LoseAgent, TypeOK, record, running, asked, Terminal
  <1>4. CASE Grant(s)
    BY <1>4, FaultType DEF Grant, TypeOK, record, running, history
  <1>5. CASE GrantRecorded(s)
    BY <1>5 DEF GrantRecorded, Recorded, TypeOK, record, running, history
  <1>6. CASE Refuse(s)
    BY <1>6 DEF Refuse, TypeOK, record, running, asked, Terminal
  <1>7. CASE Revived(s)
    BY <1>7 DEF Revived, TypeOK, record, asked, machine
  <1> QED  BY <1>1, <1>2, <1>3, <1>4, <1>5, <1>6, <1>7 DEF Answered

LEMMA ResultType ==
  ASSUME TypeOK, NEW e \in Entries, EntryEnds(e) \/ Graded(e) \/ ReviewEnds(e)
  PROVE  TypeOK'
  <1>1. CASE EntryEnds(e)
    <2> DEFINE good == session[Work(e)] = "completed"
    <2>1. entry' \in [Entries -> EntryRecords]
      BY <1>1, SetEntryType DEF EntryEnds, EntryStates, TypeOK
    <2>2. calls' \in SUBSET {"judge", "decide"} /\ grading' \in SUBSET Entries
      BY <1>1, CallType DEF EntryEnds, TypeOK
    <2> QED  BY <1>1, <2>1, <2>2, SessionIds DEF EntryEnds, TypeOK, asked, machine, history
  <1>2. CASE Graded(e)
    <2>1. entry' \in [Entries -> EntryRecords]
      <3>1. CASE SetEntry(e, "failed")
        BY <3>1, SetEntryType DEF EntryStates
      <3>2. CASE \E found \in Evaluations :
                   entry' = [entry EXCEPT ![e] = [@ EXCEPT !.state = "done", !.eval = found]]
        <4>1. PICK found \in Evaluations :
                     entry' = [entry EXCEPT ![e] = [@ EXCEPT !.state = "done", !.eval = found]]
          BY <3>2
        <4>2. [entry[e] EXCEPT !.state = "done", !.eval = found] \in EntryRecords
          BY EntryType, FieldsType, StateNames
        <4>3. entry' = [entry EXCEPT ![e] = [entry[e] EXCEPT !.state = "done", !.eval = found]]
          BY <4>1
        <4> QED  BY <4>2, <4>3, UpdateType
      <3> QED  BY <1>2, <3>1, <3>2 DEF Graded
    <2>2. calls' \in SUBSET {"judge", "decide"}
      BY <1>2, CallType DEF Graded, TypeOK
    <2> QED  BY <1>2, <2>1, <2>2 DEF Graded, TypeOK, asked, machine, history
  <1>3. CASE ReviewEnds(e)
    <2>1. entry' \in [Entries -> EntryRecords]
      <3>1. CASE \E points \in Scores :
                   entry' = [entry EXCEPT ![e] = [@ EXCEPT !.review = "done", !.score = points, !.state = "done"]]
        <4>1. PICK points \in Scores :
                   entry' = [entry EXCEPT ![e] = [@ EXCEPT !.review = "done", !.score = points, !.state = "done"]]
          BY <3>1
        <4>2. [entry[e] EXCEPT !.review = "done", !.score = points, !.state = "done"] \in EntryRecords
          BY EntryType, FieldsType, StateNames
        <4>3. entry' = [entry EXCEPT ![e] = [entry[e] EXCEPT !.review = "done", !.score = points, !.state = "done"]]
          BY <4>1
        <4> QED  BY <4>2, <4>3, UpdateType
      <3>2. CASE entry' = [entry EXCEPT ![e] = [@ EXCEPT !.review = "failed", !.state = "done"]]
        <4>1. [entry[e] EXCEPT !.review = "failed", !.state = "done"] \in EntryRecords
          BY EntryType, FieldsType, StateNames
        <4>2. entry' = [entry EXCEPT ![e] = [entry[e] EXCEPT !.review = "failed", !.state = "done"]]
          BY <3>2
        <4> QED  BY <4>1, <4>2, UpdateType
      <3> QED  BY <1>3, <3>1, <3>2 DEF ReviewEnds, TypeOK
    <2>2. named' \in SUBSET Sessions /\ hook' \in SUBSET Sessions
      <3>1. named' \in {named, named \cup {Review(e)}} /\ hook' = hook \ {Review(e)}
        BY <1>3 DEF ReviewEnds
      <3> QED  BY <3>1, SessionIds DEF TypeOK
    <2>3. calls' \in SUBSET {"judge", "decide"}
      BY <1>3, CallType DEF ReviewEnds, TypeOK
    <2> QED  BY <1>3, <2>1, <2>2, <2>3 DEF ReviewEnds, TypeOK, asked, machine, history
  <1> QED  BY <1>1, <1>2, <1>3

LEMMA JudgeType ==
  ASSUME TypeOK, JudgeSteps \/ MaybeJudge \/ MaybeDecide
  PROVE  TypeOK'
  <1>1. CASE StartReview
    <2> PICK e \in judge.todo, reply \in {"refused", "held", "sent", "late"} :
               /\ judge' = [pc |-> After(reply), at |-> e, todo |-> judge.todo \ {e}]
               /\ Starts(Review(e), reply)
      BY <1>1 DEF StartReview
    <2>1. e \in Entries /\ e # 0 /\ e \in 0 .. N
      BY EntriesAssumption DEF TypeOK, JudgeRecords, Entries
    <2>2. judge' \in JudgeRecords /\ judge'.at # 0
      BY <2>1, StartsType, SessionIds DEF TypeOK, JudgeRecords
    <2> QED  BY <1>1, <2>1, <2>2, StartsType, SessionIds DEF StartReview, TypeOK, record, asked
  <1>2. CASE ReviewRecorded
    <2>1. judge.at \in Entries
      BY <1>2, EntriesAssumption DEF ReviewRecorded, TypeOK, JudgeRecords, Entries
    <2> QED  BY <1>2, <2>1, SessionIds DEF ReviewRecorded, Recorded, TypeOK, JudgeRecords, record, asked, history
  <1>3. CASE NoteReview
    <2>1. judge.at \in Entries
      BY <1>3, EntriesAssumption DEF NoteReview, TypeOK, JudgeRecords, Entries
    <2>2. entry' \in [Entries -> EntryRecords]
      <3> DEFINE r == IF entry[judge.at].review # "pending" THEN entry[judge.at]
                      ELSE IF judge.pc = "note" THEN [entry[judge.at] EXCEPT !.review = "running"]
                      ELSE [entry[judge.at] EXCEPT !.review = "failed", !.state = "done"]
      <3>1. r \in EntryRecords
        BY <2>1, EntryType, FieldsType, StateNames
      <3>2. entry' = [entry EXCEPT ![judge.at] = r]
        BY <1>3, <2>1 DEF NoteReview, TypeOK
      <3> HIDE DEF r
      <3> QED  BY <2>1, <3>1, <3>2, UpdateType
    <2>3. named' \in SUBSET Sessions /\ judge' \in JudgeRecords /\ judge'.pc = "start"
      BY <1>3, <2>1, SessionIds DEF NoteReview, TypeOK, JudgeRecords
    <2> QED  BY <1>3, <2>2, <2>3 DEF NoteReview, TypeOK, asked, machine, history
  <1>4. CASE JudgeEnds
    <2>1. calls' \in SUBSET {"judge", "decide"}
      BY <1>4, CallType DEF JudgeEnds, TypeOK
    <2> QED  BY <1>4, <2>1 DEF JudgeEnds, TypeOK, JudgeRecords, record, asked, machine, history
  <1>5. CASE JudgeThrows
    BY <1>5, FaultType DEF JudgeThrows, TypeOK, JudgeRecords, record, asked, machine
  <1>6. CASE MaybeJudge
    <2>1. entry' \in [Entries -> EntryRecords]
      <3>1. \A e \in Entries : /\ entry[e] \in EntryRecords /\ [entry[e] EXCEPT !.review = "skipped"] \in EntryRecords
                               /\ [entry[e] EXCEPT !.state = "reviewing", !.review = "pending"] \in EntryRecords
        BY EntryType, FieldsType, StateNames
      <3> QED  BY <1>6, <3>1 DEF MaybeJudge, TypeOK
    <2>2. judge' = judge \/ judge' = [pc |-> "start", at |-> 0, todo |-> {e \in Done : Changed(e)}]
      BY <1>6 DEF MaybeJudge
    <2>3. judge' \in JudgeRecords /\ (judge'.pc \notin {"idle", "start"} => judge'.at # 0)
      BY <2>2, EntriesAssumption DEF TypeOK, JudgeRecords, Done
    <2>4. state' \in {"running", "judging"} \cup Over /\ calls' \in SUBSET {"judge", "decide"}
      BY <1>6 DEF MaybeJudge, TypeOK, Over
    <2> QED  BY <1>6, <2>1, <2>3, <2>4 DEF MaybeJudge, TypeOK, asked, machine, history
  <1>7. CASE MaybeDecide
    <2>1. winner' \in 0 .. N
      BY <1>7, EntriesAssumption DEF MaybeDecide, Best, Usable, Done, Entries, TypeOK
    <2> QED  BY <1>7, <2>1 DEF MaybeDecide, TypeOK, Over, asked, machine, history
  <1> QED  BY <1>1, <1>2, <1>3, <1>4, <1>5, <1>6, <1>7 DEF JudgeSteps

LEMMA UserType ==
  ASSUME TypeOK, UserSteps \/ Restart
  PROVE  TypeOK'
  <1>1. CASE CancelLook
    BY <1>1, FaultType DEF CancelLook, TypeOK, record, running, machine
  <1>2. ASSUME NEW s \in Sessions, CancelStop(s) PROVE TypeOK'
    <2>1. session' \in [Sessions -> {"none", "open"} \cup Terminal]
          /\ agent' \in SUBSET Sessions /\ hook' \in SUBSET Sessions
      <3>1. "failed" \in Terminal
        BY DEF Terminal
      <3> QED  BY <1>2, <3>1, EndsType DEF CancelStop, TypeOK
    <2> QED  BY <1>2, <2>1 DEF CancelStop, TypeOK, record, history
  <1>3. CASE CancelMark
    <2>1. entry' \in [Entries -> EntryRecords]
      <3>1. \A e \in Entries : entry[e] \in EntryRecords /\ [entry[e] EXCEPT !.state = "cancelled"] \in EntryRecords
        BY EntryType, FieldsType, StateNames
      <3> QED  BY <1>3, <3>1 DEF CancelMark
    <2> QED  BY <1>3, <2>1 DEF CancelMark, TypeOK, Over, running, machine, history
  <1>4. CASE Restart
    <2>1. judge' \in JudgeRecords /\ judge'.pc = "idle"
      BY <1>4, EntriesAssumption DEF Restart, JudgeRecords
    <2>2. cut' \in BOOLEAN
      BY <1>4 DEF Restart, TypeOK
    <2> QED  BY <1>4, <2>1, <2>2, FaultType DEF Restart, TypeOK, record, machine
  <1> QED  BY <1>1, <1>2, <1>3, <1>4 DEF UserSteps

LEMMA TypeStep == TypeOK /\ [Next]_vars => TypeOK'
  <1> SUFFICES ASSUME TypeOK, [Next]_vars PROVE TypeOK'
    OBVIOUS
  <1>1. CASE UNCHANGED vars
    BY <1>1 DEF TypeOK, vars, record, running, asked, machine, history
  <1>2. CASE Next
    BY <1>2, StartType, SessionType, ResultType, JudgeType, UserType, SessionIds DEF Next, HookSteps
  <1> QED  BY <1>1, <1>2

\* Every variable of a contest keeps its type, for any number of agents and
\* faults: what the loop over reviews works on is an entry (maybeJudge).
THEOREM TypeCorrect == Spec => []TypeOK
  BY TypeInit, TypeStep, PTL DEF Spec
--------------------------------------------------------------------------
(* What calls under way may still find *)

\* Nothing knows a session that was not started.
Untouched(s) ==
    /\ s \notin named \cup cancel.stop \cup hook \cup agent \cup gate \cup granted
    /\ session[s] \notin Terminal

\* A start that was not sent finds its entry as it was created, or cancelled.
StartInv ==
    \A e \in Entries : start[e] = "start" =>
        /\ Untouched(Work(e)) /\ e \notin grading
        /\ entry[e].state \in {"preparing", "cancelled"}
        /\ entry[e].review = "none" /\ entry[e].eval = "none"

\* An evaluation finds its entry waiting for it, or cancelled.
GradingInv ==
    \A e \in grading :
        /\ entry[e].state \in {"evaluating", "cancelled"}
        /\ entry[e].review \notin {"pending", "running"} /\ entry[e].eval = "none"

\* A review that is out is of a change, and its entry waits for it or was
\* cancelled; what did not finish has no evaluation.
ReviewInv ==
    \A e \in Entries :
        /\ entry[e].review \in {"pending", "running"} => entry[e].state \in {"reviewing", "cancelled"} /\ Changed(e)
        /\ entry[e].state \in {"preparing", "running", "evaluating", "failed"} => entry[e].eval = "none"

Reviewed(e) == entry[e].review \in (IF Changed(e) THEN {"done", "failed"} ELSE {"skipped"})

\* While it judges, every entry has its result, and what is done was reviewed.
JudgingInv ==
    /\ state = "judging" =>
          \A e \in Entries : /\ entry[e].state \in {"done", "failed", "reviewing"}
                             /\ entry[e].state = "done" => Reviewed(e)
    /\ state \in {"decided", "failed"} => \A e \in Entries : entry[e].state \in {"done", "failed"}

IInv == StartInv /\ GradingInv /\ ReviewInv /\ JudgingInv

LEMMA InvInit == Init => IInv
  BY DEF Init, IInv, StartInv, Untouched, GradingInv, ReviewInv, JudgingInv, Fresh, Terminal, Work, Sessions

\* The record is only kept from steps that leave it and the evaluations alone.
LEMMA RecordKept ==
  ASSUME TypeOK, IInv, UNCHANGED record, grading' \subseteq grading
  PROVE  GradingInv' /\ ReviewInv' /\ JudgingInv'
  BY DEF IInv, GradingInv, ReviewInv, JudgingInv, Reviewed, Changed, record, TypeOK

\* The steps of a session touch the session they are about and no other.
LEMMA SessionKeeps ==
  ASSUME TypeOK, IInv, NEW s \in Sessions,
         AgentEnds(s) \/ EndsAgain(s) \/ LoseAgent(s) \/ Answered(s) \/ Revived(s)
  PROVE  IInv'
  <1>1. UNCHANGED <<record, start, grading, cancel>>
    BY DEF AgentEnds, EndsAgain, LoseAgent, Answered, Grant, GrantRecorded, Refuse, Revived, running, asked
  <1>2. s \in agent \cup gate \cup granted \cup hook \/ session[s] \in Terminal
    BY DEF AgentEnds, EndsAgain, LoseAgent, Answered, Grant, GrantRecorded, Refuse, Revived
  <1>3. \A t \in Sessions \ {s} : session'[t] = session[t] /\ (Untouched(t) => Untouched(t)')
    <2>1. /\ hook' \subseteq hook \cup {s} /\ agent' \subseteq agent \cup {s} /\ gate' \subseteq gate \cup {s}
          /\ granted' \subseteq granted \cup {s}
      BY DEF AgentEnds, EndsAgain, LoseAgent, Answered, Grant, GrantRecorded, Refuse, Revived, Ends,
             running, asked, machine
    <2>2. \A t \in Sessions \ {s} : session'[t] = session[t]
      BY DEF AgentEnds, EndsAgain, LoseAgent, Answered, Grant, GrantRecorded, Refuse, Revived, Ends, Recorded,
             TypeOK, machine
    <2> QED  BY <1>1, <2>1, <2>2 DEF Untouched, record
  <1>4. StartInv'
    <2> SUFFICES ASSUME NEW e \in Entries, start[e] = "start" PROVE Work(e) # s
      BY <1>1, <1>3, SessionIds DEF IInv, StartInv, record
    <2> QED  BY <1>2 DEF IInv, StartInv, Untouched
  <1> QED  BY <1>1, <1>4, RecordKept DEF IInv

LEMMA StartKeeps ==
  ASSUME TypeOK, IInv, NEW e \in Entries, StartSteps(e)
  PROVE  IInv'
  <1>1. CASE StartEntry(e)
    <2> PICK reply \in {"refused", "held", "sent", "late"} :
               /\ At(e, "start", After(reply)) /\ Starts(Work(e), reply)
               /\ UNCHANGED <<record, judge, grading, calls, hook, asked>>
      BY <1>1 DEF StartEntry
    <2>1. \A t \in Sessions \ {Work(e)} : Untouched(t) => Untouched(t)'
      BY DEF Starts, Untouched, TypeOK, record, asked
    <2>2. start'[e] # "start" /\ \A f \in Entries \ {e} : start'[f] = start[f]
      BY StartsType, SessionIds DEF At, TypeOK
    <2>3. StartInv'
      BY <2>1, <2>2, SessionIds DEF IInv, StartInv, record
    <2> QED  BY <2>3, RecordKept DEF IInv
  <1>2. CASE EntryRecorded(e)
    <2>1. \A t \in Sessions \ {Work(e)} : Untouched(t) => Untouched(t)'
      BY <1>2, SessionIds DEF EntryRecorded, Recorded, Untouched, TypeOK, record, asked
    <2>2. start'[e] # "start" /\ \A f \in Entries \ {e} : start'[f] = start[f]
      BY <1>2 DEF EntryRecorded, At, TypeOK
    <2>3. UNCHANGED <<record, grading>>
      BY <1>2 DEF EntryRecorded
    <2>4. StartInv'
      BY <2>1, <2>2, <2>3, SessionIds DEF IInv, StartInv, record
    <2> QED  BY <2>3, <2>4, RecordKept DEF IInv
  <1>3. CASE Note(e) \/ StartThrows(e)
    <2>1. UNCHANGED <<state, grading>> /\ named' \subseteq named \cup {Work(e)}
          /\ UNCHANGED <<hook, asked, machine>>
      BY <1>3 DEF Note, StartThrows
    <2>2. start'[e] # "start" /\ \A f \in Entries \ {e} : start'[f] = start[f] /\ entry'[f] = entry[f]
      BY <1>3 DEF Note, StartThrows, At, SetEntry, TypeOK
    <2>3. \A t \in Sessions \ {Work(e)} : Untouched(t) => Untouched(t)'
      BY <2>1 DEF Untouched, asked, machine
    <2>4. StartInv'
      BY <2>1, <2>2, <2>3, SessionIds DEF IInv, StartInv
    <2>5. \/ entry' = entry
          \/ /\ entry[e].state \in {"preparing", "cancelled"} /\ entry'[e].state \in {"running", "failed"}
             /\ entry'[e].review = entry[e].review /\ entry'[e].eval = entry[e].eval /\ entry[e].eval = "none"
             /\ entry[e].review \notin {"pending", "running"} /\ e \notin grading
      <3>1. CASE StartThrows(e)
        BY <3>1, SessionIds DEF StartThrows, At, SetEntry, TypeOK, EntryRecords, IInv, StartInv
      <3>2. CASE Note(e)
        BY <3>2 DEF Note, SetEntry, TypeOK, EntryRecords, IInv, ReviewInv, GradingInv
      <3> QED  BY <1>3, <3>1, <3>2
    <2>6. GradingInv' /\ ReviewInv' /\ JudgingInv'
      BY <2>1, <2>2, <2>5 DEF IInv, GradingInv, ReviewInv, JudgingInv, Reviewed, Changed, TypeOK
    <2> QED  BY <2>4, <2>6 DEF IInv
  <1> QED  BY <1>1, <1>2, <1>3 DEF StartSteps
\* What the hooks write: the entry's result, its evaluation, its review.
LEMMA ResultKeeps ==
  ASSUME TypeOK, IInv, NEW e \in Entries, EntryEnds(e) \/ Graded(e) \/ ReviewEnds(e)
  PROVE  IInv'
  <1>1. UNCHANGED <<state, start, asked, machine>> /\ hook' \subseteq hook
    BY DEF EntryEnds, Graded, ReviewEnds
  <1>2. \A f \in Entries \ {e} : entry'[f] = entry[f] /\ (f \in grading' <=> f \in grading)
    BY DEF EntryEnds, Graded, ReviewEnds, SetEntry, TypeOK
  <1>3. start[e] = "start" => UNCHANGED <<entry, grading>>
    BY SessionIds DEF EntryEnds, Graded, ReviewEnds, IInv, StartInv, Untouched
  <1>4. \A f \in Entries : start[f] = "start" => (Work(f) \in named' => Work(f) \in named)
    <2>1. named' \in {named, named \cup {Work(e)}, named \cup {Review(e)}}
          /\ (named' = named \cup {Work(e)} => start[e] # "start" \/ named' = named)
      BY SessionIds DEF EntryEnds, Graded, ReviewEnds, IInv, StartInv, Untouched
    <2> QED  BY <2>1, SessionIds
  <1>5. StartInv'
    <2> SUFFICES ASSUME NEW f \in Entries, start[f] = "start"
                 PROVE  /\ Untouched(Work(f))' /\ f \notin grading'
                        /\ entry'[f] = entry[f]
      BY <1>1 DEF IInv, StartInv
    <2>1. Untouched(Work(f))'
      BY <1>1, <1>4 DEF IInv, StartInv, Untouched, asked, machine
    <2> QED  BY <1>2, <1>3, <2>1 DEF IInv, StartInv
  <1>6. CASE EntryEnds(e)
    <2>1. \/ UNCHANGED <<entry, grading>>
          \/ /\ entry[e].state \in {"running", "preparing"}
             /\ \/ entry'[e].state = "evaluating" /\ grading' = grading \cup {e} /\ session[Work(e)] = "completed"
                \/ entry'[e].state = "failed" /\ grading' = grading
             /\ entry'[e].review = entry[e].review /\ entry'[e].eval = entry[e].eval
      BY <1>6 DEF EntryEnds, SetEntry, TypeOK, EntryRecords
    <2> QED  BY <1>1, <1>2, <1>5, <1>6, <2>1
             DEF IInv, GradingInv, ReviewInv, JudgingInv, Reviewed, Changed, TypeOK
  <1>7. CASE Graded(e)
    <2>1. e \notin grading' /\ entry'[e].state \in {"done", "failed"} /\ entry'[e].review = entry[e].review
          /\ (entry'[e].state = "failed" => entry'[e].eval = entry[e].eval)
      <3>1. CASE SetEntry(e, "failed")
        BY <1>7, <3>1 DEF Graded, SetEntry, TypeOK, EntryRecords
      <3>2. CASE \E found \in Evaluations :
                   entry' = [entry EXCEPT ![e] = [@ EXCEPT !.state = "done", !.eval = found]]
        <4>1. PICK found \in Evaluations :
                     entry' = [entry EXCEPT ![e] = [@ EXCEPT !.state = "done", !.eval = found]]
          BY <3>2
        <4>2. entry'[e] = [entry[e] EXCEPT !.state = "done", !.eval = found]
          BY <4>1 DEF TypeOK
        <4>3. entry'[e].state = "done" /\ entry'[e].review = entry[e].review
          BY <4>2, EntryType DEF EntryRecords
        <4> QED  BY <1>7, <4>3 DEF Graded
      <3> QED  BY <1>7, <3>1, <3>2 DEF Graded
    <2>2. /\ entry[e].state \in {"evaluating", "cancelled"} /\ entry[e].eval = "none"
          /\ entry[e].review \notin {"pending", "running"}
      BY <1>7 DEF Graded, IInv, GradingInv
    <2>3. GradingInv'
      <3>1. grading' = grading \ {e} /\ grading \subseteq Entries
        BY <1>7 DEF Graded, TypeOK
      <3>2. \A f \in grading' : f \in grading /\ entry'[f] = entry[f]
        BY <1>2, <3>1
      <3> QED  BY <3>2 DEF IInv, GradingInv
    <2>4. ReviewInv'
      BY <1>2, <2>1, <2>2 DEF IInv, ReviewInv, Changed
    <2>5. JudgingInv'
      BY <1>1, <2>2 DEF IInv, JudgingInv
    <2> QED  BY <1>5, <2>3, <2>4, <2>5 DEF IInv
  <1>8. CASE ReviewEnds(e)
    <2>1. grading' = grading
      BY <1>8 DEF ReviewEnds
    <2>2. \/ entry' = entry
          \/ /\ entry[e].review \in {"pending", "running"}
             /\ entry'[e].review \in {"done", "failed"} /\ entry'[e].state = "done" /\ entry'[e].eval = entry[e].eval
      <3>1. CASE \E points \in Scores :
                   entry' = [entry EXCEPT ![e] = [@ EXCEPT !.review = "done", !.score = points, !.state = "done"]]
        <4>1. PICK points \in Scores :
                   entry'[e] = [entry[e] EXCEPT !.review = "done", !.score = points, !.state = "done"]
          BY <3>1 DEF TypeOK
        <4>2. entry'[e].review = "done" /\ entry'[e].state = "done" /\ entry'[e].eval = entry[e].eval
          BY <4>1, EntryType DEF EntryRecords
        <4> QED  BY <1>8, <4>2 DEF ReviewEnds
      <3>2. CASE entry' = [entry EXCEPT ![e] = [@ EXCEPT !.review = "failed", !.state = "done"]]
        <4>1. entry'[e] = [entry[e] EXCEPT !.review = "failed", !.state = "done"]
          BY <3>2 DEF TypeOK
        <4>2. entry'[e].review = "failed" /\ entry'[e].state = "done" /\ entry'[e].eval = entry[e].eval
          BY <4>1, EntryType DEF EntryRecords
        <4> QED  BY <1>8, <4>2 DEF ReviewEnds
      <3> QED  BY <1>8, <3>1, <3>2 DEF ReviewEnds
    <2> QED  BY <1>1, <1>2, <1>5, <2>1, <2>2
             DEF IInv, GradingInv, ReviewInv, JudgingInv, Reviewed, Changed, TypeOK
  <1> QED  BY <1>6, <1>7, <1>8
\* The loop of maybeJudge touches reviews, which wait; its start is a pass over
\* entries that all have their result, and its decision comes when none waits.
LEMMA JudgeKeeps ==
  ASSUME TypeOK, IInv, JudgeSteps \/ MaybeJudge \/ MaybeDecide
  PROVE  IInv'
  <1>1. UNCHANGED <<start, grading, hook, asked>>
    BY DEF JudgeSteps, StartReview, ReviewRecorded, NoteReview, JudgeEnds, JudgeThrows, MaybeJudge, MaybeDecide
  <1>2. CASE StartReview
    <2> PICK e \in judge.todo, reply \in {"refused", "held", "sent", "late"} : Starts(Review(e), reply)
      BY <1>2 DEF StartReview
    <2>1. e \in Entries
      BY DEF TypeOK, JudgeRecords
    <2>2. \A f \in Entries : Untouched(Work(f)) => Untouched(Work(f))'
      BY <1>1, <1>2, <2>1, SessionIds DEF StartReview, Starts, Untouched, TypeOK, record, asked
    <2>3. UNCHANGED record
      BY <1>2 DEF StartReview
    <2> QED  BY <1>1, <2>2, <2>3, RecordKept DEF IInv, StartInv, record
  <1>3. CASE ReviewRecorded
    <2>1. judge.at \in Entries
      BY <1>3, EntriesAssumption DEF ReviewRecorded, TypeOK, JudgeRecords, Entries
    <2>2. \A f \in Entries : Untouched(Work(f)) => Untouched(Work(f))'
      BY <1>1, <1>3, <2>1, SessionIds DEF ReviewRecorded, Recorded, Untouched, TypeOK, record, asked
    <2>3. UNCHANGED record
      BY <1>3 DEF ReviewRecorded
    <2> QED  BY <1>1, <2>2, <2>3, RecordKept DEF IInv, StartInv, record
  <1>4. CASE JudgeEnds \/ JudgeThrows
    <2>1. UNCHANGED <<record, machine>>
      BY <1>4 DEF JudgeEnds, JudgeThrows
    <2> QED  BY <1>1, <2>1, RecordKept DEF IInv, StartInv, Untouched, record, asked, machine
  <1>5. CASE NoteReview
    <2> DEFINE e == judge.at
    <2>1. e \in Entries
      BY <1>5, EntriesAssumption DEF NoteReview, TypeOK, JudgeRecords, Entries
    <2>2. UNCHANGED <<state, machine>> /\ named' = named \cup {Review(e)}
      BY <1>5 DEF NoteReview
    <2>3. \A f \in Entries \ {e} : entry'[f] = entry[f]
      BY <1>5, <2>1 DEF NoteReview, TypeOK
    <2>4. \/ entry' = entry
          \/ /\ entry[e].review = "pending" /\ entry'[e].eval = entry[e].eval
             /\ \/ entry'[e].review = "running" /\ entry'[e].state = entry[e].state
                \/ entry'[e].review = "failed" /\ entry'[e].state = "done"
      <3>1. CASE entry[e].review # "pending"
        BY <1>5, <3>1 DEF NoteReview
      <3>2. CASE entry[e].review = "pending" /\ judge.pc = "note"
        <4>1. entry'[e] = [entry[e] EXCEPT !.review = "running"]
          BY <1>5, <2>1, <3>2 DEF NoteReview, TypeOK
        <4> QED  BY <2>1, <3>2, <4>1, EntryType DEF EntryRecords
      <3>3. CASE entry[e].review = "pending" /\ judge.pc # "note"
        <4>1. entry'[e] = [entry[e] EXCEPT !.review = "failed", !.state = "done"]
          BY <1>5, <2>1, <3>3 DEF NoteReview, TypeOK
        <4>2. entry'[e].review = "failed" /\ entry'[e].state = "done" /\ entry'[e].eval = entry[e].eval
          BY <2>1, <4>1, EntryType DEF EntryRecords
        <4> QED  BY <3>3, <4>2
      <3> QED  BY <3>1, <3>2, <3>3
    <2> HIDE DEF e
    <2>5. StartInv'
      BY <1>1, <2>1, <2>2, <2>3, <2>4, SessionIds DEF IInv, StartInv, Untouched, asked, machine
    <2>6. GradingInv'
      BY <1>1, <2>1, <2>3, <2>4 DEF IInv, GradingInv, TypeOK
    <2>7. ReviewInv'
      BY <2>1, <2>3, <2>4 DEF IInv, ReviewInv, Changed
    <2>8. JudgingInv'
      BY <2>1, <2>2, <2>3, <2>4 DEF IInv, JudgingInv, ReviewInv, Reviewed, Changed
    <2> QED  BY <2>5, <2>6, <2>7, <2>8 DEF IInv
  <1>6. CASE MaybeJudge /\ ~ToJudge
    <2>1. UNCHANGED <<record, machine>>
      BY <1>6 DEF MaybeJudge, record
    <2> QED  BY <1>1, <2>1, RecordKept DEF IInv, StartInv, Untouched, record, asked, machine
  <1>7. CASE MaybeJudge /\ ToJudge
    <2>1. \A e \in Entries : start[e] # "start" /\ e \notin grading
      BY <1>7 DEF ToJudge, Settled, IInv, StartInv, GradingInv
    <2>2. \A e \in Entries :
             /\ e \notin Done => entry'[e] = entry[e] /\ entry[e].state = "failed"
             /\ e \in Done /\ Changed(e) =>
                   entry'[e].state = "reviewing" /\ entry'[e].review = "pending" /\ entry'[e].eval = entry[e].eval
             /\ e \in Done /\ ~Changed(e) =>
                   entry'[e].state = "done" /\ entry'[e].review = "skipped" /\ entry'[e].eval = entry[e].eval
      <3> SUFFICES ASSUME NEW e \in Entries
                   PROVE  /\ e \notin Done => entry'[e] = entry[e] /\ entry[e].state = "failed"
                          /\ e \in Done /\ Changed(e) =>
                                /\ entry'[e].state = "reviewing" /\ entry'[e].review = "pending"
                                /\ entry'[e].eval = entry[e].eval
                          /\ e \in Done /\ ~Changed(e) =>
                                /\ entry'[e].state = "done" /\ entry'[e].review = "skipped"
                                /\ entry'[e].eval = entry[e].eval
        OBVIOUS
      <3>1. entry'[e] = IF e \notin Done THEN entry[e]
                        ELSE IF Changed(e)
                             THEN [entry[e] EXCEPT !.state = "reviewing", !.review = "pending"]
                             ELSE [entry[e] EXCEPT !.review = "skipped"]
        BY <1>7 DEF MaybeJudge
      <3>2. e \in Done <=> entry[e].state = "done"
        BY DEF Done
      <3>3. entry[e].state \in {"done", "failed"}
        BY <1>7 DEF ToJudge, Settled
      <3>4. CASE e \in Done /\ Changed(e)
        <4>1. entry'[e] = [entry[e] EXCEPT !.state = "reviewing", !.review = "pending"]
          BY <3>1, <3>4
        <4> QED  BY <3>4, <4>1, EntryType DEF EntryRecords
      <3>5. CASE e \in Done /\ ~Changed(e)
        <4>1. entry'[e] = [entry[e] EXCEPT !.review = "skipped"]
          BY <3>1, <3>5
        <4> QED  BY <3>2, <3>5, <4>1, EntryType DEF EntryRecords
      <3> QED  BY <3>1, <3>2, <3>3, <3>4, <3>5
    <2>3. StartInv' /\ GradingInv'
      BY <1>1, <2>1 DEF StartInv, GradingInv, TypeOK
    <2>4. ReviewInv'
      BY <2>2 DEF IInv, ReviewInv, Changed
    <2>5. state' = IF Done = {} THEN "failed" ELSE "judging"
      BY <1>7 DEF MaybeJudge
    <2>6. JudgingInv'
      BY <2>2, <2>5 DEF JudgingInv, Reviewed, Changed, Done
    <2> QED  BY <2>3, <2>4, <2>6 DEF IInv
  <1>8. CASE MaybeDecide
    <2>1. UNCHANGED <<entry, named, machine>> /\ (state' = state \/ (state' = "decided" /\ ToDecide))
      BY <1>8 DEF MaybeDecide
    <2>2. StartInv' /\ GradingInv' /\ ReviewInv'
      BY <1>1, <2>1 DEF IInv, StartInv, GradingInv, ReviewInv, Untouched, Changed, asked, machine
    <2>3. JudgingInv'
      BY <2>1 DEF IInv, JudgingInv, ToDecide, Reviewed, Changed
    <2> QED  BY <2>2, <2>3 DEF IInv
  <1> QED  BY <1>2, <1>3, <1>4, <1>5, <1>6, <1>7, <1>8 DEF JudgeSteps

LEMMA UserKeeps ==
  ASSUME TypeOK, IInv, UserSteps \/ Restart
  PROVE  IInv'
  <1>1. CASE CancelLook
    <2>1. UNCHANGED <<record, running, granted, machine>> /\ cancel'.stop = named
      BY <1>1 DEF CancelLook
    <2>2. StartInv'
      BY <2>1 DEF IInv, StartInv, Untouched, record, running, machine
    <2> QED  BY <2>1, <2>2, RecordKept DEF IInv, running
  <1>2. ASSUME NEW s \in Sessions, CancelStop(s) PROVE IInv'
    <2>1. UNCHANGED <<record, start, grading, granted, gate>> /\ cancel'.stop \subseteq cancel.stop /\ s \in cancel.stop
      BY <1>2 DEF CancelStop, TypeOK
    <2>2. agent' \subseteq agent /\ hook' \subseteq hook \cup {s} /\ \A t \in Sessions \ {s} : session'[t] = session[t]
      BY <1>2 DEF CancelStop, Ends, TypeOK
    <2>3. \A e \in Entries : start[e] = "start" => Work(e) # s
      BY <2>1 DEF IInv, StartInv, Untouched
    <2>4. StartInv'
      BY <2>1, <2>2, <2>3, SessionIds DEF IInv, StartInv, Untouched, record
    <2> QED  BY <2>1, <2>4, RecordKept DEF IInv
  <1>3. CASE CancelMark
    <2>1. UNCHANGED <<named, running, granted, machine>> /\ cancel'.stop = cancel.stop
      BY <1>3 DEF CancelMark, TypeOK
    <2>2. \A e \in Entries : \/ entry'[e] = entry[e] /\ entry[e].state \in {"done", "failed"}
                             \/ /\ entry'[e].state = "cancelled" /\ entry[e].state \notin {"done", "failed"}
                                /\ entry'[e].review = entry[e].review /\ entry'[e].eval = entry[e].eval
      BY <1>3, EntryType DEF CancelMark, EntryRecords
    <2>3. StartInv'
      BY <2>1, <2>2 DEF IInv, StartInv, Untouched, running, machine
    <2>4. GradingInv'
      BY <2>1, <2>2 DEF IInv, GradingInv, running, TypeOK
    <2>5. ReviewInv'
      BY <2>2 DEF IInv, ReviewInv, Changed
    <2>6. state' \notin {"judging"} /\ (state' \in {"decided", "failed"} => state' = state)
      BY <1>3 DEF CancelMark
    <2>7. JudgingInv'
      BY <2>2, <2>6 DEF IInv, JudgingInv
    <2> QED  BY <2>3, <2>4, <2>5, <2>7 DEF IInv
  <1>4. CASE Restart
    <2>1. UNCHANGED record /\ grading' = {} /\ \A e \in Entries : start'[e] # "start"
      BY <1>4 DEF Restart
    <2> QED  BY <2>1, RecordKept DEF IInv, StartInv
  <1> QED  BY <1>1, <1>2, <1>3, <1>4 DEF UserSteps

LEMMA InvStep == TypeOK /\ IInv /\ [Next]_vars => IInv'
  <1> SUFFICES ASSUME TypeOK, IInv, [Next]_vars PROVE IInv'
    OBVIOUS
  <1>1. CASE UNCHANGED vars
    BY <1>1 DEF IInv, StartInv, GradingInv, ReviewInv, JudgingInv, Untouched, Reviewed, Changed,
                vars, record, running, asked, machine
  <1>2. CASE Next
    BY <1>2, StartKeeps, SessionKeeps, ResultKeeps, JudgeKeeps, UserKeeps, SessionIds DEF Next, HookSteps
  <1> QED  BY <1>1, <1>2
--------------------------------------------------------------------------
(* What is decided *)

\* From a contest that is over, no step goes anywhere else.
LEMMA OverStep ==
  ASSUME TypeOK, IInv, [Next]_vars
  PROVE  /\ state \in Over => state' = state /\ winner' = winner
         /\ state \in {"decided", "failed"} => entry' = entry
  <1>1. state \in Over => state' = state /\ winner' = winner
    BY DEF Over, Next, StartSteps, StartEntry, EntryRecorded, Note, StartThrows, HookSteps, EntryEnds, ReviewEnds,
           Revived, Graded, JudgeSteps, StartReview, ReviewRecorded, NoteReview, JudgeEnds, JudgeThrows,
           MaybeJudge, MaybeDecide, ToJudge, ToDecide, AgentEnds, EndsAgain, LoseAgent, Answered, Grant,
           GrantRecorded, Refuse, UserSteps, CancelLook, CancelStop, CancelMark, Restart, vars, record
  <1>2. ASSUME state \in {"decided", "failed"} PROVE entry' = entry
    <2>1. \A e \in Entries : entry[e].state \in {"done", "failed"}
      BY <1>2 DEF IInv, JudgingInv
    <2>2. \A e \in Entries : /\ start[e] # "start" /\ e \notin grading
                             /\ entry[e].review \notin {"pending", "running"}
      BY <2>1 DEF IInv, StartInv, GradingInv, ReviewInv
    <2>3. ASSUME NEW e \in Entries, StartSteps(e) PROVE entry' = entry
      BY <2>1, <2>2, <2>3 DEF StartSteps, StartEntry, EntryRecorded, Note, StartThrows, At, record
    <2>4. ASSUME NEW e \in Entries, EntryEnds(e) \/ Graded(e) \/ ReviewEnds(e) PROVE entry' = entry
      BY <2>1, <2>2, <2>4 DEF EntryEnds, Graded, ReviewEnds
    <2>5. CASE JudgeSteps \/ MaybeJudge \/ MaybeDecide
      <3>1. CASE NoteReview
        <4>1. judge.at \in Entries
          BY <3>1, EntriesAssumption DEF NoteReview, TypeOK, JudgeRecords, Entries
        <4> QED  BY <2>2, <3>1, <4>1 DEF NoteReview
      <3>2. CASE MaybeJudge \/ MaybeDecide
        BY <1>2, <3>2 DEF MaybeJudge, MaybeDecide, ToJudge
      <3> QED  BY <2>5, <3>1, <3>2 DEF JudgeSteps, StartReview, ReviewRecorded, JudgeEnds, JudgeThrows, record
    <2>6. CASE CancelMark
      BY <2>1, <2>6 DEF CancelMark, TypeOK
    <2>7. CASE UNCHANGED record
      BY <2>7 DEF record
    <2>8. ASSUME NEW s \in Sessions,
                 AgentEnds(s) \/ EndsAgain(s) \/ LoseAgent(s) \/ Answered(s) \/ Revived(s) \/ CancelStop(s)
          PROVE  entry' = entry
      BY <2>8 DEF AgentEnds, EndsAgain, LoseAgent, Answered, Grant, GrantRecorded, Refuse, Revived, CancelStop, record
    <2>9. CASE CancelLook \/ Restart \/ UNCHANGED vars
      BY <2>9 DEF CancelLook, Restart, vars, record
    <2> QED  BY <2>3, <2>4, <2>5, <2>6, <2>8, <2>9, SessionIds DEF Next, HookSteps, UserSteps
  <1> QED  BY <1>1, <1>2

\* What is over stays as it is: outcome, winner and the results they rest on.
THEOREM DecisionStandsAlways == Spec => DecisionStands
  <1>1. Spec => [](TypeOK /\ IInv)
    BY TypeInit, TypeStep, InvInit, InvStep, PTL DEF Spec
  <1>2. TypeOK /\ IInv /\ [Next]_vars =>
           [/\ state \in Over => state' = state /\ winner' = winner
            /\ state \in {"decided", "failed"} => entry' = entry]_vars
    BY OverStep
  <1> QED  BY <1>1, <1>2, PTL DEF Spec, DecisionStands

\* A review is worth at most 40 points, less than what passing tests are.
LEMMA PointsBounds ==
  ASSUME TypeOK, NEW e \in Entries
  PROVE  /\ ReviewPoints(e) \in 0 .. 40 /\ TestPoints(e) \in {0, 30, 60}
         /\ (entry[e].eval = "passed" => TestPoints(e) = 60) /\ (entry[e].eval = "failed" => TestPoints(e) = 0)
  <1>1. entry[e].score \in 0 .. 100
    <2>1. entry[e].score \in Scores \cup {0}
      BY EntryType DEF EntryRecords
    <2>2. 0 \in 0 .. 100
      OBVIOUS
    <2> QED  BY <2>1, <2>2, ScoresAssumption
  <1>2. \A n \in 0 .. 100 : (4 * n + 5) \div 10 \in 0 .. 40
    OBVIOUS
  <1>3. ReviewPoints(e) \in 0 .. 40
    BY <1>1, <1>2 DEF ReviewPoints
  <1> QED  BY <1>3 DEF TestPoints

LEMMA VerdictInit == Init => VerdictIsSound
  BY DEF Init, VerdictIsSound

LEMMA VerdictStep == TypeOK /\ IInv /\ VerdictIsSound /\ [Next]_vars => VerdictIsSound'
  <1> SUFFICES ASSUME TypeOK, IInv, VerdictIsSound, [Next]_vars, state' = "decided" PROVE VerdictIsSound'
    BY DEF VerdictIsSound
  <1>1. CASE state = "decided"
    <2>1. UNCHANGED <<state, winner, entry>>
      BY <1>1, OverStep DEF Over
    <2> QED  BY <2>1 DEF VerdictIsSound, Usable, Done, Changed, Total, TestPoints, ReviewPoints
  <1>2. CASE state # "decided"
    <2>1. MaybeDecide /\ ToDecide
      BY <1>2 DEF Next, StartSteps, StartEntry, EntryRecorded, Note, StartThrows, HookSteps, EntryEnds, ReviewEnds,
           Revived, Graded, JudgeSteps, StartReview, ReviewRecorded, NoteReview, JudgeEnds, JudgeThrows,
           MaybeJudge, MaybeDecide, AgentEnds, EndsAgain, LoseAgent, Answered, Grant,
           GrantRecorded, Refuse, UserSteps, CancelLook, CancelStop, CancelMark, Restart, vars, record
    <2>2. UNCHANGED entry /\ winner' \in IF Usable = {} THEN {0} ELSE Best
      BY <2>1 DEF MaybeDecide
    <2>3. \A e \in Entries : \/ entry[e].state = "failed" /\ entry[e].eval = "none"
                             \/ entry[e].state = "done" /\ Reviewed(e)
      BY <2>1 DEF ToDecide, IInv, JudgingInv, ReviewInv
    <2>4. Usable = {} => winner' = 0
      BY <2>2
    <2>5. Usable # {} => winner' \in Best
      BY <2>2
    <2>6. Usable # {} =>
            /\ winner' # 0 /\ winner' \in Usable /\ \A e \in Usable : Total(e) <= Total(winner')
            /\ entry[winner'].eval = "failed" => \A e \in Usable : entry[e].eval # "passed"
      <3> SUFFICES ASSUME Usable # {}
                   PROVE  /\ winner' # 0 /\ winner' \in Usable /\ \A e \in Usable : Total(e) <= Total(winner')
                          /\ entry[winner'].eval = "failed" => \A e \in Usable : entry[e].eval # "passed"
        OBVIOUS
      <3>1. winner' \in Usable /\ \A e \in Usable : Total(e) <= Total(winner')
        BY <2>5 DEF Best
      <3>2. Usable \subseteq Entries /\ 0 \notin Entries
        BY EntriesAssumption DEF Usable, Done, Entries
      <3>3. ASSUME entry[winner'].eval = "failed", NEW e \in Usable, entry[e].eval = "passed" PROVE FALSE
        BY <3>1, <3>2, <3>3, PointsBounds DEF Total
      <3> QED  BY <3>1, <3>2, <3>3
    <2>7. /\ Usable' = Usable /\ \A e \in Entries : Total(e)' = Total(e) /\ Changed(e)' = Changed(e)
      BY <2>2 DEF Usable, Done, Changed, Total, TestPoints, ReviewPoints
    <2>8. Usable \subseteq Entries
      BY DEF Usable, Done
    <2> QED  BY <2>2, <2>3, <2>4, <2>6, <2>7, <2>8 DEF VerdictIsSound, Reviewed
  <1> QED  BY <1>1, <1>2

\* A contest is decided on all results and all reviews; the winner has the most
\* points, and no review lets failing tests win over passing ones.
THEOREM VerdictIsSoundAlways == Spec => []VerdictIsSound
  <1>1. Spec => [](TypeOK /\ IInv /\ VerdictIsSound)
    BY TypeInit, TypeStep, InvInit, InvStep, VerdictInit, VerdictStep, PTL DEF Spec
  <1> QED  BY <1>1, PTL

--------------------------------------------------------------------------
(* Somebody is still to act *)

\* A session that an agent, an approval or the hook of its end will be heard of.
Owed(s) == s \in agent \cup gate \cup hook

\* Whoever an entry waits for, by its state.
EntryAwaits(e) ==
    /\ entry[e].state # "cancelled"
    /\ entry[e].state = "preparing" => start[e] # "over"
    /\ entry[e].state = "preparing" /\ start[e] \in {"sent", "note"} => Owed(Work(e))
    /\ entry[e].state = "running" => Owed(Work(e))
    /\ entry[e].state = "evaluating" => e \in grading

\* A review is still to be started, or is at work.
ReviewAwaits(e) ==
    /\ entry[e].state = "reviewing" => entry[e].review \in {"pending", "running"}
    /\ entry[e].review = "pending" => judge.pc # "idle" /\ (e \in judge.todo \/ (judge.at = e /\ judge.pc # "start"))
    /\ entry[e].review = "pending" /\ judge.at = e /\ judge.pc \in {"sent", "note"} => Owed(Review(e))
    /\ entry[e].review = "running" => Owed(Review(e))

\* Once there is something to judge or decide, somebody is due to.
CallsDue ==
    /\ ToJudge => "judge" \in calls
    /\ ToDecide => "decide" \in calls \/ judge.pc # "idle"

\* Nothing is reviewed before all have run.
ReviewsLast == state = "running" => \A e \in Entries : entry[e].review = "none"

Awaits == (\A e \in Entries : EntryAwaits(e) /\ ReviewAwaits(e)) /\ CallsDue /\ ReviewsLast
AwaitsInv == state \in Over \/ cut \/ Awaits

LEMMA AwaitsInit == Init => AwaitsInv
  <1> SUFFICES ASSUME Init PROVE Awaits
    BY DEF AwaitsInv
  <1>1. \A e \in Entries : entry[e].state = "preparing" /\ entry[e].review = "none" /\ start[e] = "start"
    BY DEF Init, Fresh
  <1>2. ~ToJudge
    <2>1. 1 \in Entries
      BY EntriesAssumption DEF Entries
    <2> QED  BY <1>1, <2>1 DEF ToJudge, Settled
  <1>3. ~ToDecide
    BY DEF Init, ToDecide
  <1> QED  BY <1>1, <1>2, <1>3 DEF Awaits, EntryAwaits, ReviewAwaits, CallsDue, ReviewsLast

LEMMA CallMakesDue ==
  ASSUME NEW what \in {"judge", "decide"}, Call(what)
  PROVE  /\ calls \subseteq calls'
         /\ what = "judge" /\ ToJudge' => "judge" \in calls'
         /\ what = "decide" /\ ToDecide' => "decide" \in calls'
  BY DEF Call

\* Steps that leave the record alone need only keep the sessions owed.
LEMMA OwedKept ==
  ASSUME Awaits, UNCHANGED <<record, start, judge, grading>>, calls \subseteq calls',
         \A s \in Sessions : Owed(s) => Owed(s)'
  PROVE  Awaits'
  <1>1. \A e \in Entries : EntryAwaits(e)' /\ ReviewAwaits(e)'
    BY SessionIds DEF Awaits, EntryAwaits, ReviewAwaits, record
  <1>2. CallsDue'
    BY DEF Awaits, CallsDue, ToJudge, Settled, ToDecide, record
  <1>3. ReviewsLast'
    BY DEF Awaits, ReviewsLast, record
  <1> QED  BY <1>1, <1>2, <1>3 DEF Awaits

LEMMA SessionAwaits ==
  ASSUME TypeOK, Awaits, NEW s \in Sessions, ~cut',
         AgentEnds(s) \/ EndsAgain(s) \/ LoseAgent(s) \/ Answered(s) \/ Revived(s)
  PROVE  Awaits'
  <1>1. UNCHANGED <<record, start, judge, grading, calls>>
    BY DEF AgentEnds, EndsAgain, LoseAgent, Answered, Grant, GrantRecorded, Refuse, Revived, running
  <1>2. \A t \in Sessions : Owed(t) => Owed(t)'
    <2>1. CASE AgentEnds(s)
      BY <2>1 DEF AgentEnds, Ends, Owed
    <2>2. CASE EndsAgain(s)
      BY <2>2 DEF EndsAgain, machine, Owed
    <2>3. CASE Grant(s)
      BY <2>3 DEF Grant, running, Owed
    <2>4. CASE GrantRecorded(s)
      BY <2>4 DEF GrantRecorded, running, Owed
    <2> QED  BY <2>1, <2>2, <2>3, <2>4 DEF LoseAgent, Answered, Refuse, Revived
  <1> QED  BY <1>1, <1>2, OwedKept

LEMMA StartAwaits ==
  ASSUME TypeOK, IInv, Awaits, state \notin Over, NEW e \in Entries, StartSteps(e)
  PROVE  Awaits'
  <1>0. entry[e].state # "cancelled" /\ \A f \in Entries : EntryAwaits(f) /\ ReviewAwaits(f)
    BY DEF Awaits, EntryAwaits
  <1>1. CASE StartEntry(e)
    <2> PICK reply \in {"refused", "held", "sent", "late"} :
               /\ At(e, "start", After(reply)) /\ Starts(Work(e), reply)
               /\ UNCHANGED <<record, judge, grading, calls, hook, asked>>
      BY <1>1 DEF StartEntry
    <2>1. /\ \A t \in Sessions : Owed(t) => Owed(t)'
          /\ After(reply) \in {"sent", "note"} => Owed(Work(e))'
      BY DEF Starts, After, Owed
    <2>2. start'[e] = After(reply) /\ After(reply) # "over" /\ \A f \in Entries \ {e} : start'[f] = start[f]
      BY StartsType, SessionIds DEF At, TypeOK
    <2>3. entry[e].state = "preparing"
      BY <1>0 DEF At, IInv, StartInv
    <2>4. EntryAwaits(e)'
      BY <1>0, <2>1, <2>2, <2>3 DEF EntryAwaits, record
    <2>5. ASSUME NEW f \in Entries PROVE (f # e => EntryAwaits(f)') /\ ReviewAwaits(f)'
      <3>1. f # e => start'[f] = start[f]
        BY <2>2
      <3>2. Work(f) \in Sessions /\ Review(f) \in Sessions
        BY SessionIds
      <3>3. (Owed(Work(f)) => Owed(Work(f))') /\ (Owed(Review(f)) => Owed(Review(f))')
        BY <2>1, <3>2
      <3>4. EntryAwaits(f) /\ ReviewAwaits(f) /\ UNCHANGED <<entry, judge, grading>>
        BY <1>0 DEF record
      <3> QED  BY <3>1, <3>3, <3>4 DEF EntryAwaits, ReviewAwaits
    <2>6. CallsDue' /\ ReviewsLast'
      BY DEF Awaits, CallsDue, ToJudge, Settled, ToDecide, ReviewsLast, record
    <2> QED  BY <2>4, <2>5, <2>6 DEF Awaits
  <1>2. CASE EntryRecorded(e)
    <2>1. UNCHANGED <<record, judge, grading, calls, hook, gate, agent>>
      BY <1>2 DEF EntryRecorded
    <2>2. start[e] = "sent" /\ start'[e] = "note" /\ \A f \in Entries \ {e} : start'[f] = start[f]
      BY <1>2 DEF EntryRecorded, At, TypeOK
    <2>3. \A f \in Entries : EntryAwaits(f)' /\ ReviewAwaits(f)'
      BY <1>0, <2>1, <2>2 DEF EntryAwaits, ReviewAwaits, Owed, record
    <2>4. CallsDue' /\ ReviewsLast'
      BY <2>1 DEF Awaits, CallsDue, ToJudge, Settled, ToDecide, ReviewsLast, record
    <2> QED  BY <2>3, <2>4 DEF Awaits
  <1>3. CASE Note(e) \/ StartThrows(e)
    <2>1. UNCHANGED <<state, judge, grading, hook, gate, agent>>
      BY <1>3 DEF Note, StartThrows, machine
    <2>2. Call("judge")
      BY <1>3 DEF Note, StartThrows
    <2>3. start'[e] = "over" /\ \A f \in Entries \ {e} : start'[f] = start[f] /\ entry'[f] = entry[f]
      BY <1>3 DEF Note, StartThrows, At, SetEntry, TypeOK
    <2>4. \/ UNCHANGED entry /\ entry[e].state # "preparing"
          \/ /\ entry[e].state = "preparing" /\ entry'[e].review = entry[e].review
             /\ \/ entry'[e].state = "failed"
                \/ entry'[e].state = "running" /\ start[e] = "note"
      <3>1. CASE StartThrows(e)
        BY <1>0, <3>1, EntryType DEF StartThrows, At, SetEntry, TypeOK, EntryRecords, IInv, StartInv
      <3>2. CASE Note(e)
        BY <3>2 DEF Note, SetEntry, TypeOK, EntryRecords
      <3> QED  BY <1>3, <3>1, <3>2
    <2>5. EntryAwaits(e)'
      BY <1>0, <2>1, <2>3, <2>4 DEF EntryAwaits, Owed
    <2>6. ReviewAwaits(e)'
      BY <1>0, <2>1, <2>4 DEF ReviewAwaits, Owed
    <2>7. \A f \in Entries \ {e} : EntryAwaits(f)' /\ ReviewAwaits(f)'
      BY <1>0, <2>1, <2>3 DEF EntryAwaits, ReviewAwaits, Owed
    <2>8. CallsDue'
      <3>1. calls \subseteq calls' /\ (ToJudge' => "judge" \in calls')
        BY <2>2, CallMakesDue
      <3>2. state = "judging" => entry[e].state # "preparing"
        BY DEF IInv, JudgingInv
      <3>3. ToDecide' => ToDecide
        BY <2>1, <2>4, <3>2 DEF ToDecide
      <3> QED  BY <2>1, <3>1, <3>3 DEF Awaits, CallsDue
    <2>9. ReviewsLast'
      BY <2>1, <2>3, <2>4 DEF Awaits, ReviewsLast
    <2> QED  BY <2>5, <2>6, <2>7, <2>8, <2>9 DEF Awaits
  <1> QED  BY <1>1, <1>2, <1>3 DEF StartSteps

LEMMA ResultAwaits ==
  ASSUME TypeOK, IInv, Awaits, state \notin Over, NEW e \in Entries,
         EntryEnds(e) \/ Graded(e) \/ ReviewEnds(e)
  PROVE  Awaits'
  <1>0. \A f \in Entries : EntryAwaits(f) /\ ReviewAwaits(f)
    BY DEF Awaits
  <1>1. UNCHANGED <<state, start, judge, gate, agent>>
    BY DEF EntryEnds, Graded, ReviewEnds, machine
  <1>2. \A f \in Entries \ {e} : entry'[f] = entry[f] /\ (f \in grading => f \in grading')
    BY DEF EntryEnds, Graded, ReviewEnds, SetEntry, TypeOK
  <1>3. \A f \in Entries \ {e} : EntryAwaits(f)' /\ ReviewAwaits(f)'
    <2> SUFFICES ASSUME NEW f \in Entries \ {e} PROVE EntryAwaits(f)' /\ ReviewAwaits(f)'
      OBVIOUS
    <2>1. (Owed(Work(f)) => Owed(Work(f))') /\ (Owed(Review(f)) => Owed(Review(f))')
      <3>1. Work(f) \notin {Work(e), Review(e)} /\ Review(f) \notin {Work(e), Review(e)}
        BY SessionIds DEF Review
      <3>2. hook' \in {hook, hook \ {Work(e)}, hook \ {Review(e)}}
        BY DEF EntryEnds, Graded, ReviewEnds
      <3> QED  BY <1>1, <3>1, <3>2 DEF Owed
    <2> QED  BY <1>0, <1>1, <1>2, <2>1 DEF EntryAwaits, ReviewAwaits
  <1>4. state \in {"running", "judging"}
    BY DEF TypeOK
  <1>5. CASE EntryEnds(e)
    <2>1. hook' = hook \ {Work(e)} /\ Review(e) # Work(e)
      BY <1>5, SessionIds DEF EntryEnds
    <2>2. Owed(Review(e)) => Owed(Review(e))'
      BY <1>1, <2>1 DEF Owed
    <2>3. \/ UNCHANGED <<entry, grading>> /\ entry[e].state \notin {"running", "preparing"} /\ Call("judge")
          \/ /\ entry[e].state \in {"running", "preparing"} /\ entry'[e].review = entry[e].review
             /\ \/ entry'[e].state = "evaluating" /\ e \in grading' /\ UNCHANGED calls
                \/ entry'[e].state = "failed" /\ Call("judge")
      BY <1>5 DEF EntryEnds, SetEntry, TypeOK, EntryRecords
    <2>4. EntryAwaits(e)'
      BY <1>0, <1>1, <2>3 DEF EntryAwaits
    <2>5. ReviewAwaits(e)'
      BY <1>0, <1>1, <2>2, <2>3 DEF ReviewAwaits
    <2>6. ToDecide' => ToDecide
      BY <1>1, <2>3 DEF ToDecide, IInv, JudgingInv
    <2>7. calls \subseteq calls' /\ (ToJudge' => "judge" \in calls')
      <3>1. entry'[e].state = "evaluating" => ~ToJudge'
        BY DEF ToJudge, Settled
      <3> QED  BY <2>3, <3>1, CallMakesDue
    <2>8. CallsDue' /\ ReviewsLast'
      BY <1>1, <1>2, <2>3, <2>6, <2>7 DEF Awaits, CallsDue, ReviewsLast
    <2> QED  BY <1>3, <2>4, <2>5, <2>8 DEF Awaits
  <1>6. CASE Graded(e)
    <2>1. hook' = hook /\ Call("judge")
      BY <1>6 DEF Graded
    <2>2. entry[e].state = "evaluating" /\ state = "running"
      BY <1>0, <1>4, <1>6 DEF Graded, IInv, GradingInv, JudgingInv, EntryAwaits
    <2>3. entry'[e].state \in {"done", "failed"} /\ entry'[e].review = entry[e].review
      <3>1. CASE SetEntry(e, "failed")
        BY <3>1, EntryType DEF SetEntry, TypeOK, EntryRecords
      <3>2. CASE \E found \in Evaluations :
                   entry' = [entry EXCEPT ![e] = [@ EXCEPT !.state = "done", !.eval = found]]
        <4>1. PICK found \in Evaluations : entry'[e] = [entry[e] EXCEPT !.state = "done", !.eval = found]
          BY <3>2 DEF TypeOK
        <4> QED  BY <4>1, EntryType DEF EntryRecords
      <3> QED  BY <1>6, <3>1, <3>2 DEF Graded
    <2>4. entry[e].review = "none"
      BY <2>2 DEF Awaits, ReviewsLast
    <2>5. EntryAwaits(e)' /\ ReviewAwaits(e)'
      BY <2>3, <2>4 DEF EntryAwaits, ReviewAwaits
    <2>6. CallsDue'
      BY <1>1, <2>1, <2>2, CallMakesDue DEF CallsDue, ToDecide
    <2>7. ReviewsLast'
      BY <1>1, <1>2, <2>3 DEF Awaits, ReviewsLast
    <2> QED  BY <1>3, <2>5, <2>6, <2>7 DEF Awaits
  <1>7. CASE ReviewEnds(e)
    <2>1. hook' = hook \ {Review(e)} /\ Review(e) # Work(e) /\ UNCHANGED grading /\ Call("decide")
      BY <1>7, SessionIds DEF ReviewEnds
    <2>2. Owed(Work(e)) => Owed(Work(e))'
      BY <1>1, <2>1 DEF Owed
    <2>3. \/ UNCHANGED entry /\ entry[e].review \notin {"pending", "running"}
          \/ /\ entry[e].review \in {"pending", "running"}
             /\ entry'[e].review \in {"done", "failed"} /\ entry'[e].state = "done"
      <3>1. CASE \E points \in Scores :
                   entry' = [entry EXCEPT ![e] = [@ EXCEPT !.review = "done", !.score = points, !.state = "done"]]
        <4>1. PICK points \in Scores :
                   entry'[e] = [entry[e] EXCEPT !.review = "done", !.score = points, !.state = "done"]
          BY <3>1 DEF TypeOK
        <4>2. entry'[e].review = "done" /\ entry'[e].state = "done"
          BY <4>1, EntryType DEF EntryRecords
        <4> QED  BY <1>7, <4>2 DEF ReviewEnds
      <3>2. CASE entry' = [entry EXCEPT ![e] = [@ EXCEPT !.review = "failed", !.state = "done"]]
        <4>1. entry'[e] = [entry[e] EXCEPT !.review = "failed", !.state = "done"]
          BY <3>2 DEF TypeOK
        <4>2. entry'[e].review = "failed" /\ entry'[e].state = "done"
          BY <4>1, EntryType DEF EntryRecords
        <4> QED  BY <1>7, <4>2 DEF ReviewEnds
      <3> QED  BY <1>7, <3>1, <3>2 DEF ReviewEnds
    <2>4. EntryAwaits(e)'
      BY <1>0, <1>1, <2>1, <2>2, <2>3 DEF EntryAwaits
    <2>5. ReviewAwaits(e)'
      BY <1>0, <1>1, <2>3 DEF ReviewAwaits
    <2>6. state = "running" => UNCHANGED entry
      BY <2>3 DEF Awaits, ReviewsLast
    <2>7. CallsDue'
      <3>1. calls \subseteq calls' /\ (ToDecide' => "decide" \in calls')
        BY <2>1, CallMakesDue
      <3>2. ToJudge' => ToJudge
        BY <1>1, <2>6 DEF ToJudge, Settled
      <3> QED  BY <3>1, <3>2 DEF Awaits, CallsDue
    <2>8. ReviewsLast'
      BY <1>1, <2>6 DEF Awaits, ReviewsLast
    <2> QED  BY <1>3, <2>4, <2>5, <2>7, <2>8 DEF Awaits
  <1> QED  BY <1>5, <1>6, <1>7

LEMMA JudgeAwaits ==
  ASSUME TypeOK, IInv, Awaits, state \notin Over, ~cut', state' \notin Over,
         JudgeSteps \/ MaybeJudge \/ MaybeDecide
  PROVE  Awaits'
  <1>0. \A f \in Entries : EntryAwaits(f) /\ ReviewAwaits(f)
    BY DEF Awaits
  <1>1. UNCHANGED <<start, grading, hook>>
    BY DEF JudgeSteps, StartReview, ReviewRecorded, NoteReview, JudgeEnds, JudgeThrows, MaybeJudge, MaybeDecide
  <1>2. CASE StartReview
    <2> PICK e \in judge.todo, reply \in {"refused", "held", "sent", "late"} :
           /\ judge' = [pc |-> After(reply), at |-> e, todo |-> judge.todo \ {e}]
           /\ Starts(Review(e), reply)
      BY <1>2 DEF StartReview
    <2>1. e \in Entries /\ After(reply) \in {"sent", "note", "noteFailed"} /\ UNCHANGED <<record, calls>>
      BY <1>2 DEF StartReview, TypeOK, JudgeRecords, After
    <2>2. /\ \A t \in Sessions : Owed(t) => Owed(t)'
          /\ After(reply) \in {"sent", "note"} => Owed(Review(e))'
      BY <1>1 DEF Starts, After, Owed
    <2>3. judge'.pc = After(reply) /\ judge'.at = e /\ judge'.todo = judge.todo \ {e} /\ judge.pc = "start"
      BY <1>2 DEF StartReview
    <2>4. ASSUME NEW f \in Entries PROVE EntryAwaits(f)' /\ ReviewAwaits(f)'
      <3>1. Work(f) \in Sessions /\ Review(f) \in Sessions
        BY SessionIds
      <3>2. (Owed(Work(f)) => Owed(Work(f))') /\ (Owed(Review(f)) => Owed(Review(f))')
        BY <2>2, <3>1
      <3>3. EntryAwaits(f) /\ ReviewAwaits(f) /\ UNCHANGED entry
        BY <1>0, <2>1 DEF record
      <3>4. EntryAwaits(f)'
        BY <1>1, <3>2, <3>3 DEF EntryAwaits
      <3>5. ReviewAwaits(f)'
        <4>1. CASE f = e
          BY <2>1, <2>2, <2>3, <3>2, <3>3, <4>1 DEF ReviewAwaits
        <4>2. CASE f # e
          BY <2>1, <2>3, <3>2, <3>3, <4>2 DEF ReviewAwaits
        <4> QED  BY <4>1, <4>2
      <3> QED  BY <3>4, <3>5
    <2>5. CallsDue' /\ ReviewsLast'
      BY <2>1, <2>3 DEF Awaits, CallsDue, ToJudge, Settled, ToDecide, ReviewsLast, record
    <2> QED  BY <2>4, <2>5 DEF Awaits
  <1>3. CASE ReviewRecorded
    <2>1. /\ UNCHANGED <<record, calls, gate, agent>> /\ judge.pc = "sent"
          /\ judge'.pc = "note" /\ judge'.at = judge.at /\ judge'.todo = judge.todo
      BY <1>3 DEF ReviewRecorded, TypeOK, JudgeRecords
    <2>2. \A f \in Entries : EntryAwaits(f)' /\ ReviewAwaits(f)'
      BY <1>0, <1>1, <2>1 DEF EntryAwaits, ReviewAwaits, Owed, record
    <2>3. CallsDue' /\ ReviewsLast'
      BY <2>1 DEF Awaits, CallsDue, ToJudge, Settled, ToDecide, ReviewsLast, record
    <2> QED  BY <2>2, <2>3 DEF Awaits
  <1>4. CASE JudgeThrows
    BY <1>4 DEF JudgeThrows
  <1>5. CASE JudgeEnds
    <2>1. /\ UNCHANGED <<record, gate, agent>> /\ judge.pc = "start" /\ judge.todo = {}
          /\ judge'.pc = "idle" /\ judge'.at = judge.at /\ Call("decide")
      BY <1>5 DEF JudgeEnds, TypeOK, JudgeRecords, machine
    <2>2. \A f \in Entries : EntryAwaits(f)' /\ ReviewAwaits(f)'
      BY <1>0, <1>1, <2>1 DEF EntryAwaits, ReviewAwaits, Owed, record
    <2>3. CallsDue'
      <3>1. calls \subseteq calls' /\ (ToDecide' => "decide" \in calls')
        BY <2>1, CallMakesDue
      <3> QED  BY <2>1, <3>1 DEF Awaits, CallsDue, ToJudge, Settled, record
    <2>4. ReviewsLast'
      BY <2>1 DEF Awaits, ReviewsLast, record
    <2> QED  BY <2>2, <2>3, <2>4 DEF Awaits
  <1>6. CASE NoteReview
    <2>1. PICK e \in Entries : e = judge.at
      BY <1>6, EntriesAssumption DEF NoteReview, TypeOK, JudgeRecords, Entries
    <2>2. /\ UNCHANGED <<state, calls, gate, agent>> /\ judge.pc \in {"note", "noteFailed"}
          /\ judge'.pc = "start" /\ judge'.at = e /\ judge'.todo = judge.todo
      BY <1>6, <2>1 DEF NoteReview, TypeOK, JudgeRecords, machine
    <2>3. \A f \in Entries \ {e} : entry'[f] = entry[f]
      BY <1>6, <2>1 DEF NoteReview, TypeOK
    <2>4. \/ entry' = entry /\ entry[e].review # "pending"
          \/ /\ entry[e].review = "pending"
             /\ \/ judge.pc = "note" /\ entry'[e].review = "running" /\ entry'[e].state = entry[e].state
                \/ entry'[e].review = "failed" /\ entry'[e].state = "done"
      <3>1. CASE entry[e].review # "pending"
        BY <1>6, <2>1, <3>1 DEF NoteReview
      <3>2. CASE entry[e].review = "pending" /\ judge.pc = "note"
        <4>1. entry'[e] = [entry[e] EXCEPT !.review = "running"]
          BY <1>6, <2>1, <3>2 DEF NoteReview, TypeOK
        <4> QED  BY <2>1, <3>2, <4>1, EntryType DEF EntryRecords
      <3>3. CASE entry[e].review = "pending" /\ judge.pc # "note"
        <4>1. entry'[e] = [entry[e] EXCEPT !.review = "failed", !.state = "done"]
          BY <1>6, <2>1, <3>3 DEF NoteReview, TypeOK
        <4>2. entry'[e].review = "failed" /\ entry'[e].state = "done"
          BY <2>1, <4>1, EntryType DEF EntryRecords
        <4> QED  BY <3>3, <4>2
      <3> QED  BY <3>1, <3>2, <3>3
    <2>5. state = "running" => UNCHANGED entry
      BY <2>1, <2>4 DEF Awaits, ReviewsLast
    <2>6. \A f \in Entries : Owed(Work(f))' = Owed(Work(f)) /\ Owed(Review(f))' = Owed(Review(f))
      BY <1>1, <2>2 DEF Owed
    <2>7. EntryAwaits(e)'
      <3>1. entry'[e].state \in {entry[e].state, "done"}
        BY <2>4
      <3> QED  BY <1>0, <1>1, <2>1, <2>6, <3>1 DEF EntryAwaits
    <2>8. ReviewAwaits(e)'
      <3>1. entry[e].review = "pending" /\ judge.pc = "note" => Owed(Review(e))
        BY <1>0, <2>1 DEF ReviewAwaits
      <3> QED  BY <1>0, <2>1, <2>2, <2>4, <2>6, <3>1 DEF ReviewAwaits
    <2>9. \A f \in Entries \ {e} : EntryAwaits(f)' /\ ReviewAwaits(f)'
      BY <1>0, <1>1, <2>1, <2>2, <2>3, <2>6 DEF EntryAwaits, ReviewAwaits
    <2>10. CallsDue'
      <3>1. ToJudge' => ToJudge
        BY <2>2, <2>5 DEF ToJudge, Settled
      <3> QED  BY <2>2, <3>1 DEF Awaits, CallsDue
    <2>11. ReviewsLast'
      BY <2>2, <2>5 DEF Awaits, ReviewsLast
    <2> QED  BY <2>7, <2>8, <2>9, <2>10, <2>11 DEF Awaits
  <1>7. CASE MaybeJudge /\ ~ToJudge
    <2>1. UNCHANGED <<state, entry, judge, gate, agent>> /\ calls' = calls \ {"judge"}
      BY <1>7 DEF MaybeJudge, machine
    <2>2. \A f \in Entries : EntryAwaits(f)' /\ ReviewAwaits(f)'
      BY <1>0, <1>1, <2>1 DEF EntryAwaits, ReviewAwaits, Owed
    <2>3. ToJudge' = ToJudge /\ ToDecide' = ToDecide
      BY <2>1 DEF ToJudge, Settled, ToDecide
    <2>4. CallsDue' /\ ReviewsLast'
      BY <1>7, <2>1, <2>3 DEF Awaits, CallsDue, ReviewsLast
    <2> QED  BY <2>2, <2>4 DEF Awaits
  <1>8. CASE MaybeJudge /\ ToJudge
    <2>1. state' = "judging" /\ judge' = [pc |-> "start", at |-> 0, todo |-> {e \in Done : Changed(e)}]
      BY <1>8 DEF MaybeJudge, Over
    <2>2. ASSUME NEW e \in Entries PROVE EntryAwaits(e)' /\ ReviewAwaits(e)'
      <3>1. entry'[e] = IF e \notin Done THEN entry[e]
                        ELSE IF Changed(e)
                             THEN [entry[e] EXCEPT !.state = "reviewing", !.review = "pending"]
                             ELSE [entry[e] EXCEPT !.review = "skipped"]
        BY <1>8 DEF MaybeJudge
      <3>2. e \in Done <=> entry[e].state = "done"
        BY DEF Done
      <3>3. entry[e].state \in {"done", "failed"} /\ entry[e].review = "none"
        BY <1>8 DEF ToJudge, Settled, Awaits, ReviewsLast
      <3>4. \/ entry'[e].state \in {"done", "failed"} /\ entry'[e].review \in {"none", "skipped"}
            \/ entry'[e].state = "reviewing" /\ entry'[e].review = "pending" /\ e \in judge'.todo
        <4>1. CASE e \notin Done
          BY <3>1, <3>2, <3>3, <4>1
        <4>2. CASE e \in Done /\ Changed(e)
          <5>1. entry'[e] = [entry[e] EXCEPT !.state = "reviewing", !.review = "pending"]
            BY <3>1, <4>2
          <5> QED  BY <2>1, <4>2, <5>1, EntryType DEF EntryRecords
        <4>3. CASE e \in Done /\ ~Changed(e)
          <5>1. entry'[e] = [entry[e] EXCEPT !.review = "skipped"]
            BY <3>1, <4>3
          <5> QED  BY <3>3, <5>1, EntryType DEF EntryRecords
        <4> QED  BY <4>1, <4>2, <4>3
      <3>5. judge'.pc = "start"
        BY <2>1
      <3> QED  BY <3>4, <3>5 DEF EntryAwaits, ReviewAwaits
    <2>3. CallsDue' /\ ReviewsLast'
      BY <2>1 DEF CallsDue, ToJudge, ReviewsLast
    <2> QED  BY <2>2, <2>3 DEF Awaits
  <1>9. CASE MaybeDecide
    <2>1. UNCHANGED <<state, entry, judge, gate, agent>> /\ calls' = calls \ {"decide"} /\ ~ToDecide
      BY <1>9 DEF MaybeDecide, machine, Over
    <2>2. \A f \in Entries : EntryAwaits(f)' /\ ReviewAwaits(f)'
      BY <1>0, <1>1, <2>1 DEF EntryAwaits, ReviewAwaits, Owed
    <2>3. ToJudge' = ToJudge /\ ToDecide' = ToDecide
      BY <2>1 DEF ToJudge, Settled, ToDecide
    <2>4. CallsDue' /\ ReviewsLast'
      BY <2>1, <2>3 DEF Awaits, CallsDue, ReviewsLast
    <2> QED  BY <2>2, <2>4 DEF Awaits
  <1> QED  BY <1>2, <1>3, <1>4, <1>5, <1>6, <1>7, <1>8, <1>9 DEF JudgeSteps

LEMMA UserAwaits ==
  ASSUME TypeOK, Awaits, state \notin Over, ~cut', state' \notin Over, UserSteps \/ Restart
  PROVE  Awaits'
  <1>1. CASE CancelLook
    BY <1>1, OwedKept DEF CancelLook, running, machine, Owed
  <1>2. ASSUME NEW s \in Sessions, CancelStop(s) PROVE Awaits'
    <2>1. UNCHANGED <<record, start, judge, grading, calls>>
      BY <1>2 DEF CancelStop
    <2>2. \A t \in Sessions : Owed(t) => Owed(t)'
      BY <1>2 DEF CancelStop, Ends, Owed
    <2> QED  BY <2>1, <2>2, OwedKept
  <1>3. CASE CancelMark
    BY <1>3 DEF CancelMark, TypeOK, Over
  <1>4. CASE Restart
    <2>1. /\ UNCHANGED <<record, machine>> /\ judge.pc = "idle" /\ judge'.pc = "idle" /\ grading = {}
          /\ grading' = {} /\ calls = {} /\ calls' = {} /\ hook = {} /\ hook' = {}
          /\ \A e \in Entries : start[e] = "over"
      BY <1>4 DEF Restart
    <2>2. \A e \in Entries : EntryAwaits(e) /\ ReviewAwaits(e) /\ start'[e] = "over"
      BY <1>4 DEF Awaits, Restart
    <2>3. \A e \in Entries : EntryAwaits(e)' /\ ReviewAwaits(e)'
      BY <2>1, <2>2 DEF EntryAwaits, ReviewAwaits, Owed, record, machine
    <2>4. CallsDue' /\ ReviewsLast'
      BY <2>1 DEF Awaits, CallsDue, ToJudge, Settled, ToDecide, ReviewsLast, record
    <2> QED  BY <2>3, <2>4 DEF Awaits
  <1> QED  BY <1>1, <1>2, <1>3, <1>4 DEF UserSteps

\* What was lost stays lost.
LEMMA CutStays ==
  ASSUME TypeOK, [Next]_vars
  PROVE  cut => cut'
  BY DEF Next, StartSteps, StartEntry, Starts, EntryRecorded, Note, StartThrows, HookSteps, EntryEnds, ReviewEnds,
         Revived, Graded, JudgeSteps, StartReview, ReviewRecorded, NoteReview, JudgeEnds, JudgeThrows,
         MaybeJudge, MaybeDecide, AgentEnds, EndsAgain, LoseAgent, Answered, Grant,
         GrantRecorded, Refuse, UserSteps, CancelLook, CancelStop, CancelMark, Restart, vars, history

LEMMA AwaitsStep == TypeOK /\ IInv /\ AwaitsInv /\ [Next]_vars => AwaitsInv'
  <1> SUFFICES ASSUME TypeOK, IInv, AwaitsInv, [Next]_vars, state' \notin Over, ~cut' PROVE Awaits'
    BY DEF AwaitsInv
  <1>1. state \notin Over /\ Awaits
    BY OverStep, CutStays DEF AwaitsInv
  <1>2. CASE UNCHANGED vars
    BY <1>1, <1>2, OwedKept DEF vars, running, machine, Owed
  <1>3. CASE Next
    BY <1>1, <1>3, StartAwaits, SessionAwaits, ResultAwaits, JudgeAwaits, UserAwaits, SessionIds
       DEF Next, HookSteps
  <1> QED  BY <1>2, <1>3

\* Somebody has yet to do something: a call under way in the control plane, an
\* agent, an approval, or the hook of an end.
SomebodyActs ==
    \/ \E e \in Entries : start[e] # "over"
    \/ judge.pc # "idle" \/ grading # {} \/ calls # {}
    \/ \E s \in Sessions : Owed(s)

\* As long as a contest is not over and nothing it waits for was lost, somebody
\* is still to act on it: it never comes to rest with an entry that no call, no
\* agent and no approval will settle (maybeJudge is called after every update
\* that may be the last, contest.ts).
THEOREM SomebodyActsAlways == Spec => [](state \in Over \/ cut \/ SomebodyActs)
  <1>1. TypeOK /\ AwaitsInv => state \in Over \/ cut \/ SomebodyActs
    <2> SUFFICES ASSUME TypeOK, Awaits, state \notin Over PROVE SomebodyActs
      BY DEF AwaitsInv
    <2>1. CASE ToJudge \/ ToDecide
      BY <2>1 DEF Awaits, CallsDue, SomebodyActs
    <2>2. CASE ~ToJudge /\ ~ToDecide
      <3>1. PICK e \in Entries : entry[e].state \notin {"done", "failed"}
        BY <2>2 DEF ToJudge, Settled, ToDecide, TypeOK
      <3>2. EntryAwaits(e) /\ ReviewAwaits(e) /\ entry[e].state \in EntryStates
        BY EntryType DEF Awaits, EntryRecords
      <3> QED  BY <3>1, <3>2, SessionIds DEF EntryAwaits, ReviewAwaits, EntryStates, SomebodyActs
    <2> QED  BY <2>1, <2>2
  <1>2. Spec => [](TypeOK /\ IInv /\ AwaitsInv)
    BY TypeInit, TypeStep, InvInit, InvStep, AwaitsInit, AwaitsStep, PTL DEF Spec
  <1> QED  BY <1>1, <1>2, PTL
=============================================================================
