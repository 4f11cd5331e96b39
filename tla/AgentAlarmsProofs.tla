-------------------------- MODULE AgentAlarmsProofs --------------------------
(***************************************************************************)
(* What AgentAlarms guarantees for every number of alarms, runs, editors   *)
(* and faults.                                                             *)
(***************************************************************************)
EXTENDS AgentAlarms, TLAPS

-----------------------------------------------------------------------------
(* Types *)

\* A new alarm is an alarm.
LEMMA NewAlarmType ==
  ASSUME NEW def \in Defs, NEW at \in Times, NEW on \in BOOLEAN
  PROVE  NewAlarm(def, at, on) \in Alarm
BY DEF NewAlarm, Alarm, Statuses

LEMMA NoAlarmType == NoAlarm \in Alarm
<1>1. (CHOOSE d \in Defs : TRUE) \in Defs
  BY DefsAssumption
<1>2. 0 \in Times
  BY BoundsAssumption DEF Times
<1> QED  BY <1>1, <1>2, NewAlarmType DEF NoAlarm

\* The forms that the scheduler writes are alarms.
LEMMA FormTypes ==
  ASSUME NEW alarm \in Alarm
  PROVE  /\ ClaimedForm(alarm) \in Alarm
         /\ CompletedForm(alarm) \in Alarm
         /\ FailedForm(alarm) \in Alarm
         /\ \A r \in RunIds : [alarm EXCEPT !.run = r] \in Alarm
BY DEF Alarm, Statuses, ClaimedForm, CompletedForm, FailedForm

\* So is what an edit writes.
LEMMA ApplyUpdatesType ==
  ASSUME NEW alarm \in Alarm, NEW req \in Request
  PROVE  ApplyUpdates(alarm, req) \in Alarm
<1>1. Merged(alarm, req) \in Alarm
  BY DEF Alarm, Request, Merged
<1>2. req.def \in Defs /\ req.at \in Times
  BY DEF Request
<1> QED  BY <1>1, NewAlarmType DEF ApplyUpdates, Alarm, Statuses

\* The scheduler's locals while it waits, an editor's between two edits.
LEMMA RestTypes ==
  /\ Idle \in PollLocals /\ Idle.pc = "wait"
  /\ Resting \in EditLocals /\ Resting.pc = "idle"
BY BoundsAssumption, NoAlarmType
DEF Idle, Resting, PollLocals, EditLocals, PollPcs, Times

\* What a live row holds is an alarm.
LEMMA LiveRowType ==
  ASSUME TypeOK, NEW a \in Ids, rows[a] # NoRow
  PROVE  rows[a] \in Alarm
BY DEF TypeOK

LEMMA TypeInit == Init => TypeOK
<1> SUFFICES ASSUME Init PROVE TypeOK
  OBVIOUS
<1>1. NoAlarm.def \in Defs
  BY NoAlarmType DEF Alarm
<1>2. runs \in [RunIds -> Run]
  BY <1>1 DEF Init, Run, RunStates
<1>3. count \in Counters
  BY BoundsAssumption DEF Init, Counters
<1>4. poll \in PollLocals /\ poll.pc = "wait"
  BY RestTypes DEF Init
<1>5. edit \in [Editors -> EditLocals] /\ \A e \in Editors : edit[e].pc = "idle"
  BY RestTypes DEF Init
<1>6. clock \in Times
  BY BoundsAssumption DEF Init, Times
<1>7. rows \in [Ids -> Alarm \cup {NoRow}] /\ lastId \in Ids \cup {0}
  BY DEF Init
<1>8. /\ births \in Nat /\ lost \in SUBSET Ids
      /\ birth \in [Ids -> Nat] /\ arms \in [Ids -> Nat]
      /\ launches \in [Ids -> Nat]
  BY DEF Init
<1> QED  BY <1>2, <1>3, <1>4, <1>5, <1>6, <1>7, <1>8 DEF TypeOK

LEMMA TypePoll ==
  ASSUME TypeOK, Poll PROVE TypeOK'
<1> USE DEF TypeOK
<1>1. ASSUME PollBegin PROVE TypeOK'
  <2>1. poll' \in PollLocals /\ poll'.pc = "launch"
    <3>1. {a \in Live : Due(rows[a], clock)} \in SUBSET Ids
      BY DEF Live
    <3> QED  BY <1>1, <3>1, RestTypes DEF PollBegin, PollLocals, PollPcs
  <2> QED  BY <1>1, <2>1 DEF PollBegin, store, history
<1>2. ASSUME NEW a \in Ids, Claim(a) PROVE TypeOK'
  <2>1. poll.due \ {a} \in SUBSET Ids
    BY DEF PollLocals
  <2>2. CASE Claimable(a)
    <3>1. ClaimedForm(rows[a]) \in Alarm
      BY <2>2, LiveRowType, FormTypes DEF Claimable
    <3>2. [poll EXCEPT !.pc = "start", !.due = @ \ {a}, !.id = a,
                       !.copy = ClaimedForm(rows[a])] \in PollLocals
      BY <2>1, <3>1 DEF PollLocals, PollPcs
    <3>3. poll' \in PollLocals /\ poll'.id = a
      BY <1>2, <2>2, <3>2 DEF Claim, PollLocals
    <3>4. rows' \in [Ids -> Alarm \cup {NoRow}]
      BY <1>2, <2>2, <3>1 DEF Claim
    <3> QED  BY <1>2, <3>3, <3>4 DEF Claim, history
  <2>3. CASE ~Claimable(a)
    <3>1. poll' \in PollLocals /\ poll'.pc = "launch"
      BY <1>2, <2>1, <2>3 DEF Claim, PollLocals
    <3> QED  BY <1>2, <2>3, <3>1 DEF Claim, history
  <2> QED  BY <2>2, <2>3
<1>3. ASSUME NEW r \in RunIds, StartLoop(r) PROVE TypeOK'
  <2>1. poll.id \in Ids /\ poll.copy.def \in Defs
    BY <1>3 DEF StartLoop, PollLocals, Alarm
  <2>2. poll' \in PollLocals /\ poll'.id = poll.id
    BY <1>3 DEF StartLoop, PollLocals, PollPcs
  <2>3. [alarm |-> poll.id, birth |-> birth[poll.id], def |-> poll.copy.def,
         state |-> "running", known |-> TRUE] \in Run
    BY <2>1 DEF Run, RunStates
  <2>4. runs' \in [RunIds -> Run]
    BY <1>3, <2>3 DEF StartLoop
  <2>5. launches' \in [Ids -> Nat]
    BY <1>3, <2>1 DEF StartLoop
  <2> QED  BY <1>3, <2>1, <2>2, <2>4, <2>5 DEF StartLoop, store
<1>4. ASSUME StartLoopFails PROVE TypeOK'
  <2>1. poll.id \in Ids
    BY <1>4 DEF StartLoopFails
  <2>2. poll' \in PollLocals /\ poll'.id = poll.id
    BY <1>4 DEF StartLoopFails, PollLocals, PollPcs
  <2>3. launches' \in [Ids -> Nat]
    BY <1>4, <2>1 DEF StartLoopFails
  <2> QED  BY <1>4, <2>1, <2>2, <2>3 DEF StartLoopFails, store
<1>5. ASSUME RecordRun PROVE TypeOK'
  <2>1. poll.id \in Ids /\ poll.copy \in Alarm /\ poll.run \in RunIds \cup {NoRun}
    BY <1>5 DEF RecordRun, PollLocals
  <2>2. [poll.copy EXCEPT !.run = poll.run] \in Alarm
    BY <2>1 DEF Alarm
  <2>3. rows' \in [Ids -> Alarm \cup {NoRow}]
    BY <1>5, <2>2 DEF RecordRun
  <2>4. Launched \in PollLocals /\ Launched.pc = "launch"
    BY NoAlarmType DEF Launched, PollLocals, PollPcs
  <2>5. [poll EXCEPT !.pc = "fail"] \in PollLocals
    BY DEF PollLocals, PollPcs
  <2>6. poll' \in PollLocals /\ (poll'.pc = "launch" \/ poll'.id = poll.id)
    BY <1>5, <2>4, <2>5 DEF RecordRun, PollLocals
  <2> QED  BY <1>5, <2>1, <2>3, <2>6 DEF RecordRun, history
<1>6. ASSUME RecordFailure PROVE TypeOK'
  <2>1. FailedForm(poll.copy) \in Alarm
    BY FormTypes DEF PollLocals
  <2>2. rows' \in [Ids -> Alarm \cup {NoRow}]
    BY <1>6, <2>1 DEF RecordFailure
  <2>3. Launched \in PollLocals /\ Launched.pc = "launch"
    BY NoAlarmType DEF Launched, PollLocals, PollPcs
  <2>4. poll' \in PollLocals /\ poll'.pc \in {"launch", "wait"}
    BY <1>6, <2>3, RestTypes DEF RecordFailure, Abandon
  <2> QED  BY <1>6, <2>2, <2>4 DEF RecordFailure, history
<1>7. ASSUME RefreshBegin PROVE TypeOK'
  <2>1. {[id |-> a, alarm |-> rows[a]] : a \in {b \in Live : rows[b].run # NoRun}}
          \in SUBSET [id: Ids, alarm: Alarm]
    BY LiveRowType DEF Live
  <2>2. poll' \in PollLocals /\ poll'.pc = "refresh"
    BY <1>7, <2>1 DEF RefreshBegin, PollLocals, PollPcs
  <2> QED  BY <1>7, <2>2 DEF RefreshBegin, store, history
<1>8. ASSUME NEW t \in poll.tracked, RefreshRead(t) PROVE TypeOK'
  <2>1. t.id \in Ids /\ t.alarm \in Alarm
    BY DEF PollLocals
  <2>2. Outcome(t.alarm, Answer(t.alarm.run)) \in Alarm
    BY <2>1, FormTypes DEF Outcome
  <2>3. poll.tracked \ {t} \in SUBSET [id: Ids, alarm: Alarm]
    BY DEF PollLocals
  <2>4. [poll EXCEPT !.tracked = @ \ {t}] \in PollLocals
    BY <2>3 DEF PollLocals
  <2>5. [poll EXCEPT !.pc = "report", !.tracked = @ \ {t}, !.id = t.id,
           !.copy = Outcome(t.alarm, Answer(t.alarm.run))] \in PollLocals
    BY <2>1, <2>2, <2>3 DEF PollLocals, PollPcs
  <2>6. poll' \in PollLocals /\ (poll'.pc = "refresh" \/ poll'.id = t.id)
    BY <1>8, <2>4, <2>5 DEF RefreshRead, PollLocals
  <2> QED  BY <1>8, <2>1, <2>6 DEF RefreshRead, store, history
<1>9. ASSUME RefreshRaises PROVE TypeOK'
  <2>1. count' \in Counters
    BY <1>9, BoundsAssumption DEF RefreshRaises, Counters
  <2>2. poll' \in PollLocals /\ poll'.pc = "wait"
    BY <1>9, RestTypes DEF RefreshRaises, Abandon
  <2> QED  BY <1>9, <2>1, <2>2 DEF RefreshRaises, store, history
<1>10. ASSUME Report PROVE TypeOK'
  <2>1. rows' \in [Ids -> Alarm \cup {NoRow}]
    BY <1>10 DEF Report, PollLocals
  <2>2. [poll EXCEPT !.pc = "refresh", !.id = 0, !.copy = NoAlarm] \in PollLocals
    BY NoAlarmType DEF PollLocals, PollPcs
  <2>3. poll' \in PollLocals /\ poll'.pc \in {"refresh", "wait"}
    BY <1>10, <2>2, RestTypes DEF Report, Abandon, PollLocals
  <2> QED  BY <1>10, <2>1, <2>3 DEF Report, history
<1>11. ASSUME PollEnd PROVE TypeOK'
  <2>1. poll' \in PollLocals /\ poll'.pc = "wait"
    BY <1>11, RestTypes DEF PollEnd
  <2> QED  BY <1>11, <2>1 DEF PollEnd, store, history
<1> QED
  BY <1>1, <1>2, <1>3, <1>4, <1>5, <1>6, <1>7, <1>8, <1>9, <1>10, <1>11
  DEF Poll

LEMMA TypeRequests ==
  ASSUME TypeOK, Requests PROVE TypeOK'
<1> USE DEF TypeOK
<1>1. ASSUME NEW def \in Defs, NEW at \in Times, NEW on \in BOOLEAN,
             CreateAlarm(def, at, on)
      PROVE  TypeOK'
  <2>1. rows' \in [Ids -> Alarm \cup {NoRow}]
    BY <1>1, NewAlarmType DEF CreateAlarm
  <2>2. birth' \in [Ids -> Nat] /\ births' \in Nat /\ arms' \in [Ids -> Nat]
    BY <1>1 DEF CreateAlarm
  <2>3. lastId' \in Ids \cup {0}
    BY <1>1 DEF CreateAlarm
  <2> QED  BY <1>1, <2>1, <2>2, <2>3 DEF CreateAlarm
<1>2. ASSUME NEW e \in Editors, NEW a \in Ids, NEW req \in Request,
             EditRead(e, a, req)
      PROVE  TypeOK'
  <2>1. ApplyUpdates(rows[a], req) \in Alarm
    BY <1>2, LiveRowType, ApplyUpdatesType DEF EditRead
  <2>2. [pc |-> "write", id |-> a, copy |-> ApplyUpdates(rows[a], req)] \in EditLocals
    BY <2>1 DEF EditLocals
  <2>3. edit' \in [Editors -> EditLocals]
    BY <1>2, <2>2 DEF EditRead
  <2>4. ASSUME NEW f \in Editors, edit'[f].pc = "write"
        PROVE  edit'[f].id \in Ids
    <3>1. edit'[f] = IF f = e
                     THEN [pc |-> "write", id |-> a, copy |-> ApplyUpdates(rows[a], req)]
                     ELSE edit[f]
      BY <1>2 DEF EditRead
    <3> QED  BY <2>4, <3>1
  <2>5. count' \in Counters
    BY <1>2, BoundsAssumption DEF EditRead, Counters
  <2> QED  BY <1>2, <2>3, <2>4, <2>5 DEF EditRead, store, history
<1>3. ASSUME NEW e \in Editors, EditWrite(e) PROVE TypeOK'
  <2>1. edit[e].id \in Ids /\ edit[e].copy \in Alarm
    BY <1>3 DEF EditWrite, EditLocals
  <2>2. edit' \in [Editors -> EditLocals]
    BY <1>3, RestTypes DEF EditWrite
  <2>3. \A f \in Editors : edit'[f].pc = "write" => edit'[f].id \in Ids
    BY <1>3, RestTypes DEF EditWrite
  <2>4. rows' \in [Ids -> Alarm \cup {NoRow}]
    BY <1>3, <2>1 DEF EditWrite
  <2>5. arms' \in [Ids -> Nat] /\ lost' \in SUBSET Ids
    BY <1>3, <2>1 DEF EditWrite
  <2> QED  BY <1>3, <2>2, <2>3, <2>4, <2>5 DEF EditWrite
<1>4. ASSUME NEW a \in Ids, DeleteAlarm(a) PROVE TypeOK'
  BY <1>4 DEF DeleteAlarm
<1> QED  BY <1>1, <1>2, <1>3, <1>4 DEF Requests

LEMMA TypeEnvironment ==
  ASSUME TypeOK, Environment PROVE TypeOK'
<1> USE DEF TypeOK
<1>1. ASSUME Tick PROVE TypeOK'
  <2>1. clock' \in Times
    BY <1>1, BoundsAssumption DEF Tick, Times
  <2> QED  BY <1>1, <2>1 DEF Tick, store, history
<1>2. ASSUME NEW r \in RunIds, NEW state \in {"completed", "failed"},
             RunEnds(r, state)
      PROVE  TypeOK'
  <2>1. [runs[r] EXCEPT !.state = state] \in Run
    BY DEF Run, RunStates
  <2>2. runs' \in [RunIds -> Run]
    BY <1>2, <2>1 DEF RunEnds
  <2> QED  BY <1>2, <2>2 DEF RunEnds, store, history
<1>3. ASSUME NEW r \in RunIds, RunForgotten(r) PROVE TypeOK'
  <2>1. [runs[r] EXCEPT !.known = FALSE] \in Run
    BY DEF Run
  <2>2. runs' \in [RunIds -> Run]
    BY <1>3, <2>1 DEF RunForgotten
  <2>3. count' \in Counters
    BY <1>3, BoundsAssumption DEF RunForgotten, Counters
  <2> QED  BY <1>3, <2>2, <2>3 DEF RunForgotten, store, history
<1>4. ASSUME Restart PROVE TypeOK'
  <2>1. count' \in Counters
    BY <1>4, BoundsAssumption DEF Restart, Counters
  <2>2. poll' \in PollLocals /\ poll'.pc = "wait"
    BY <1>4, RestTypes DEF Restart
  <2>3. /\ edit' \in [Editors -> EditLocals]
        /\ \A e \in Editors : edit'[e].pc = "idle"
    BY <1>4, RestTypes DEF Restart
  <2>4. lost' \in SUBSET Ids
    BY <1>4 DEF Restart, Live
  <2> QED  BY <1>4, <2>1, <2>2, <2>3, <2>4 DEF Restart, store
<1> QED  BY <1>1, <1>2, <1>3, <1>4 DEF Environment

\* Every step of the module, and a stuttering step, keeps the types.
LEMMA TypeStep ==
  ASSUME TypeOK, [Next]_vars PROVE TypeOK'
<1>1. CASE UNCHANGED vars
  BY <1>1 DEF TypeOK, vars, history
<1> QED
  BY <1>1, TypePoll, TypeRequests, TypeEnvironment DEF Next

\* The rows, the locals of the threads and the runs always have their types:
\* no write of the scheduler or an edit stores anything but an alarm.
THEOREM TypeCorrect == Spec => []TypeOK
<1>1. TypeOK /\ [Next]_vars => TypeOK'
  BY TypeStep
<1> QED  BY TypeInit, <1>1, PTL DEF Spec

-----------------------------------------------------------------------------
(* The inductive invariant *)

\* A copy of alarm a, in the table or in a thread's locals, that may be
\* written at any time: the fields agree with each other and with the run
\* the alarm names. rs are the runs, b is the number of a's birth.
Sound(alarm, a, rs, b) ==
  /\ alarm.enabled <=> alarm.status \in {"scheduled", "running"}
  /\ alarm.status = "scheduled" =>
       alarm.run = NoRun /\ ~alarm.completed /\ ~alarm.error
  /\ alarm.run # NoRun =>
       /\ rs[alarm.run].state # "unborn"
       /\ rs[alarm.run].alarm = a
       /\ rs[alarm.run].birth = b
  /\ alarm.status = "completed" =>
       alarm.run # NoRun /\ rs[alarm.run].state = "completed"
  /\ alarm.status = "running" /\ alarm.run # NoRun =>
       rs[alarm.run].def = alarm.def

\* The ids are those of rows that were created, and copies are sound.
RowInv ==
  \A a \in Ids : rows[a] # NoRow =>
    a <= lastId /\ Sound(rows[a], a, runs, birth[a])

EditInv ==
  \A e \in Editors : edit[e].pc = "write" =>
    /\ edit[e].id <= lastId
    /\ edit[e].copy.status \in {"scheduled", "disabled"}
    /\ Sound(edit[e].copy, edit[e].id, runs, birth[edit[e].id])

\* From the claim to the write after it the scheduler holds a running alarm
\* without a run, and the run it has started is the one of that alarm.
LaunchInv ==
  /\ poll.pc \in {"start", "record", "fail"} =>
       /\ poll.id <= lastId
       /\ poll.copy.status = "running" /\ poll.copy.enabled
       /\ poll.copy.run = NoRun
  /\ poll.pc = "record" =>
       /\ poll.run # NoRun
       /\ runs[poll.run].state # "unborn"
       /\ runs[poll.run].alarm = poll.id
       /\ runs[poll.run].birth = birth[poll.id]
       /\ runs[poll.run].def = poll.copy.def

RefreshInv ==
  /\ \A t \in poll.tracked :
       /\ t.id <= lastId /\ t.alarm.run # NoRun
       /\ Sound(t.alarm, t.id, runs, birth[t.id])
  /\ poll.pc = "report" =>
       /\ poll.id <= lastId
       /\ poll.copy.status \in {"completed", "failed"}
       /\ Sound(poll.copy, poll.id, runs, birth[poll.id])

\* An armed alarm and an open claim each stand for one launch still to come.
Armed(a)   == rows[a] # NoRow /\ rows[a].status = "scheduled"
Claimed(a) == poll.pc = "start" /\ poll.id = a

DutyInv ==
  \A a \in Ids :
    launches[a] + (IF Armed(a) THEN 1 ELSE 0) + (IF Claimed(a) THEN 1 ELSE 0)
      <= arms[a]

IInv ==
  TypeOK /\ RowInv /\ EditInv /\ LaunchInv /\ RefreshInv
    /\ UntrackedOnlyByCrash /\ DutyInv

-----------------------------------------------------------------------------
(* What every step keeps *)

\* The runs of the loop service after a step: what is started stays started,
\* for the same alarm and definition, and completion is final.
Extends(rs, ss) ==
  \A r \in RunIds : rs[r].state # "unborn" =>
    /\ ss[r].state # "unborn"
    /\ ss[r].alarm = rs[r].alarm
    /\ ss[r].birth = rs[r].birth
    /\ ss[r].def = rs[r].def
    /\ rs[r].state = "completed" => ss[r].state = "completed"

\* So a copy that is sound stays so.
LEMMA SoundStable ==
  ASSUME NEW alarm \in Alarm, NEW a, NEW b, NEW rs, NEW ss,
         Extends(rs, ss), Sound(alarm, a, rs, b)
  PROVE  Sound(alarm, a, ss, b)
<1>1. alarm.run # NoRun => alarm.run \in RunIds
  BY DEF Alarm
<1> QED  BY <1>1 DEF Extends, Sound

LEMMA RunsExtend ==
  ASSUME TypeOK, [Next]_vars PROVE Extends(runs, runs')
<1> USE DEF Extends
<1>1. CASE runs' = runs
  BY <1>1
<1>2. ASSUME NEW r \in RunIds, StartLoop(r) PROVE Extends(runs, runs')
  BY <1>2 DEF StartLoop, TypeOK
<1>3. ASSUME NEW r \in RunIds, NEW state \in {"completed", "failed"},
             RunEnds(r, state)
      PROVE  Extends(runs, runs')
  <2>1. runs' \in [RunIds -> Run]
    BY <1>3, TypeStep DEF TypeOK
  <2>2. \A q \in RunIds : runs'[q] = IF q = r THEN [runs[r] EXCEPT !.state = state]
                                    ELSE runs[q]
    BY <1>3 DEF RunEnds, TypeOK
  <2>3. runs[r] \in Run /\ runs[r].state = "running"
    BY <1>3 DEF RunEnds, TypeOK
  <2> QED  BY <2>2, <2>3 DEF Run
<1>4. ASSUME NEW r \in RunIds, RunForgotten(r) PROVE Extends(runs, runs')
  <2>1. \A q \in RunIds : runs'[q] = IF q = r THEN [runs[r] EXCEPT !.known = FALSE]
                                    ELSE runs[q]
    BY <1>4 DEF RunForgotten, TypeOK
  <2>2. runs[r] \in Run
    BY DEF TypeOK
  <2> QED  BY <2>1, <2>2 DEF Run
<1>5. ASSUME Poll, ~\E r \in RunIds : StartLoop(r) PROVE runs' = runs
  BY <1>5 DEF Poll, PollBegin, Claim, StartLoopFails, RecordRun, RecordFailure,
              RefreshBegin, RefreshRead, RefreshRaises, Report, PollEnd
<1>6. ASSUME Requests PROVE runs' = runs
  BY <1>6 DEF Requests, CreateAlarm, EditRead, EditWrite, DeleteAlarm
<1>7. ASSUME Tick \/ Restart PROVE runs' = runs
  BY <1>7 DEF Tick, Restart
<1>8. ASSUME UNCHANGED vars PROVE runs' = runs
  BY <1>8 DEF vars
<1> QED
  BY <1>1, <1>2, <1>3, <1>4, <1>5, <1>6, <1>7, <1>8 DEF Next, Environment

\* Ids are never handed out twice.
LEMMA BirthStable ==
  ASSUME TypeOK, [Next]_vars
  PROVE  /\ lastId <= lastId'
         /\ \A a \in Ids : a <= lastId => birth'[a] = birth[a]
<1>1. ASSUME NEW def \in Defs, NEW at \in Times, NEW on \in BOOLEAN,
             CreateAlarm(def, at, on)
      PROVE  /\ lastId <= lastId'
             /\ \A a \in Ids : a <= lastId => birth'[a] = birth[a]
  <2>1. lastId \in Int /\ \A a \in Ids : a \in Int
    BY DEF TypeOK, Ids
  <2>2. lastId' = lastId + 1
    BY <1>1 DEF CreateAlarm, NextRowId
  <2>3. \A a \in Ids : a # lastId + 1 => birth'[a] = birth[a]
    BY <1>1 DEF CreateAlarm, NextRowId, TypeOK
  <2> QED  BY <2>1, <2>2, <2>3
<1>2. ASSUME UNCHANGED <<lastId, birth>>
      PROVE  /\ lastId <= lastId'
             /\ \A a \in Ids : a <= lastId => birth'[a] = birth[a]
  BY <1>2 DEF TypeOK, Ids
<1>3. ASSUME Poll PROVE UNCHANGED <<lastId, birth>>
  BY <1>3 DEF Poll, PollBegin, Claim, StartLoop, StartLoopFails, RecordRun,
              RecordFailure, RefreshBegin, RefreshRead, RefreshRaises, Report,
              PollEnd, store, history
<1>4. ASSUME Requests,
             ~\E def \in Defs, at \in Times, on \in BOOLEAN : CreateAlarm(def, at, on)
      PROVE  UNCHANGED <<lastId, birth>>
  BY <1>4 DEF Requests, EditRead, EditWrite, DeleteAlarm, store, history
<1>5. ASSUME Environment PROVE UNCHANGED <<lastId, birth>>
  BY <1>5 DEF Environment, Tick, RunEnds, RunForgotten, Restart, store, history
<1>6. ASSUME UNCHANGED vars PROVE UNCHANGED <<lastId, birth>>
  BY <1>6 DEF vars, history
<1> QED  BY <1>1, <1>2, <1>3, <1>4, <1>5, <1>6 DEF Next

\* Both together: a sound copy of a created alarm is sound after the step.
LEMMA SoundStep ==
  ASSUME TypeOK, [Next]_vars, NEW alarm \in Alarm, NEW a \in Ids,
         a <= lastId, Sound(alarm, a, runs, birth[a])
  PROVE  a <= lastId' /\ Sound(alarm, a, runs', birth'[a])
<1>1. birth'[a] = birth[a] /\ lastId <= lastId'
  BY BirthStable
<1>2. lastId \in Int /\ lastId' \in Int /\ a \in Int
  BY TypeStep DEF TypeOK, Ids
<1>3. Sound(alarm, a, runs', birth[a])
  BY RunsExtend, SoundStable
<1> QED  BY <1>1, <1>2, <1>3

-----------------------------------------------------------------------------
(* Who writes rows *)

\* A row that a step changes was written by one of six actions.
LEMMA RowWritten ==
  ASSUME TypeOK, [Next]_vars, NEW a \in Ids,
         rows'[a] # NoRow, rows'[a] # rows[a]
  PROVE  \/ Claim(a) /\ Claimable(a) /\ rows'[a] = ClaimedForm(rows[a])
         \/ /\ RecordRun /\ a = poll.id
            /\ rows'[a] = [poll.copy EXCEPT !.run = poll.run]
         \/ RecordFailure /\ a = poll.id /\ rows'[a] = FailedForm(poll.copy)
         \/ Report /\ a = poll.id /\ rows'[a] = poll.copy
         \/ \E def \in Defs, at \in Times, on \in BOOLEAN :
              /\ CreateAlarm(def, at, on) /\ a = NextRowId
              /\ rows'[a] = NewAlarm(def, at, on)
         \/ \E e \in Editors :
              EditWrite(e) /\ a = edit[e].id /\ rows'[a] = edit[e].copy
<1> USE DEF TypeOK
<1>1. ASSUME NEW b \in Ids, Claim(b)
      PROVE  Claim(a) /\ Claimable(a) /\ rows'[a] = ClaimedForm(rows[a])
  BY <1>1 DEF Claim
<1>2. ASSUME RecordRun
      PROVE  a = poll.id /\ rows'[a] = [poll.copy EXCEPT !.run = poll.run]
  BY <1>2 DEF RecordRun
<1>3. ASSUME RecordFailure
      PROVE  a = poll.id /\ rows'[a] = FailedForm(poll.copy)
  BY <1>3 DEF RecordFailure
<1>4. ASSUME Report PROVE a = poll.id /\ rows'[a] = poll.copy
  BY <1>4 DEF Report
<1>5. ASSUME NEW def \in Defs, NEW at \in Times, NEW on \in BOOLEAN,
             CreateAlarm(def, at, on)
      PROVE  a = NextRowId /\ rows'[a] = NewAlarm(def, at, on)
  BY <1>5 DEF CreateAlarm
<1>6. ASSUME NEW e \in Editors, EditWrite(e)
      PROVE  a = edit[e].id /\ rows'[a] = edit[e].copy
  BY <1>6 DEF EditWrite
<1>7. ASSUME NEW b \in Ids, DeleteAlarm(b) PROVE FALSE
  BY <1>7 DEF DeleteAlarm
<1>8. ASSUME \/ PollBegin \/ \E r \in RunIds : StartLoop(r)
             \/ StartLoopFails \/ RefreshBegin
             \/ \E t \in poll.tracked : RefreshRead(t)
             \/ RefreshRaises \/ PollEnd
      PROVE  FALSE
  BY <1>8 DEF PollBegin, StartLoop, StartLoopFails, RefreshBegin, RefreshRead,
              RefreshRaises, PollEnd, store
<1>9. ASSUME \E e \in Editors, b \in Ids, req \in Request : EditRead(e, b, req)
      PROVE  FALSE
  BY <1>9 DEF EditRead, store
<1>10. ASSUME Environment PROVE FALSE
  BY <1>10 DEF Environment, Tick, RunEnds, RunForgotten, Restart, store
<1>11. ASSUME UNCHANGED vars PROVE FALSE
  BY <1>11 DEF vars
<1>12. CASE Poll
  BY <1>12, <1>1, <1>2, <1>3, <1>4, <1>8 DEF Poll
<1>13. CASE Requests
  BY <1>13, <1>5, <1>6, <1>7, <1>9 DEF Requests
<1> QED  BY <1>10, <1>11, <1>12, <1>13 DEF Next

\* Every write keeps the rows sound.
LEMMA RowStep ==
  ASSUME IInv, [Next]_vars PROVE RowInv'
<1> SUFFICES ASSUME NEW a \in Ids, rows'[a] # NoRow
             PROVE  a <= lastId' /\ Sound(rows'[a], a, runs', birth'[a])
  BY DEF RowInv
<1> USE DEF IInv
<1>1. CASE rows'[a] = rows[a]
  <2>1. rows[a] \in Alarm
    BY <1>1, LiveRowType
  <2> QED  BY <1>1, <2>1, SoundStep DEF RowInv
<1>2. ASSUME Claim(a), Claimable(a), rows'[a] = ClaimedForm(rows[a])
      PROVE  a <= lastId' /\ Sound(rows'[a], a, runs', birth'[a])
  <2>1. rows[a] \in Alarm /\ ClaimedForm(rows[a]) \in Alarm
    BY <1>2, LiveRowType, FormTypes DEF Claimable
  <2>2. rows[a].enabled
    BY <1>2 DEF Claimable, Due
  <2>3. Sound(ClaimedForm(rows[a]), a, runs, birth[a])
    BY <2>1, <2>2 DEF Sound, ClaimedForm, Alarm
  <2>4. a <= lastId
    BY <1>2 DEF RowInv, Claimable
  <2> QED  BY <1>2, <2>1, <2>3, <2>4, SoundStep
<1>3. ASSUME RecordRun, a = poll.id,
             rows'[a] = [poll.copy EXCEPT !.run = poll.run]
      PROVE  a <= lastId' /\ Sound(rows'[a], a, runs', birth'[a])
  <2> DEFINE new == [poll.copy EXCEPT !.run = poll.run]
  <2>1. poll.copy \in Alarm /\ poll.run \in RunIds
    BY <1>3 DEF RecordRun, LaunchInv, TypeOK, PollLocals
  <2>2. new \in Alarm
    BY <2>1, FormTypes
  <2>3. Sound(new, a, runs, birth[a]) /\ a <= lastId
    BY <1>3, <2>1 DEF RecordRun, LaunchInv, Sound, Alarm
  <2> QED  BY <1>3, <2>2, <2>3, SoundStep
<1>4. ASSUME RecordFailure, a = poll.id, rows'[a] = FailedForm(poll.copy)
      PROVE  a <= lastId' /\ Sound(rows'[a], a, runs', birth'[a])
  <2>1. poll.copy \in Alarm /\ FailedForm(poll.copy) \in Alarm
    BY FormTypes DEF TypeOK, PollLocals
  <2>2. Sound(FailedForm(poll.copy), a, runs, birth[a]) /\ a <= lastId
    BY <1>4, <2>1 DEF RecordFailure, LaunchInv, Sound, FailedForm, Alarm
  <2> QED  BY <1>4, <2>1, <2>2, SoundStep
<1>5. ASSUME Report, a = poll.id, rows'[a] = poll.copy
      PROVE  a <= lastId' /\ Sound(rows'[a], a, runs', birth'[a])
  <2>1. poll.copy \in Alarm
    BY DEF TypeOK, PollLocals
  <2>2. Sound(poll.copy, a, runs, birth[a]) /\ a <= lastId
    BY <1>5 DEF Report, RefreshInv
  <2> QED  BY <1>5, <2>1, <2>2, SoundStep
<1>6. ASSUME NEW def \in Defs, NEW at \in Times, NEW on \in BOOLEAN,
             CreateAlarm(def, at, on), a = NextRowId,
             rows'[a] = NewAlarm(def, at, on)
      PROVE  a <= lastId' /\ Sound(rows'[a], a, runs', birth'[a])
  <2>1. Sound(NewAlarm(def, at, on), a, runs', birth'[a])
    BY DEF Sound, NewAlarm
  <2>2. lastId' = a /\ a \in Int
    BY <1>6 DEF CreateAlarm, Ids
  <2> QED  BY <1>6, <2>1, <2>2
<1>7. ASSUME NEW e \in Editors, EditWrite(e), a = edit[e].id,
             rows'[a] = edit[e].copy
      PROVE  a <= lastId' /\ Sound(rows'[a], a, runs', birth'[a])
  <2>1. edit[e].copy \in Alarm
    BY DEF TypeOK, EditLocals
  <2>2. Sound(edit[e].copy, a, runs, birth[a]) /\ a <= lastId
    BY <1>7 DEF EditWrite, EditInv
  <2> QED  BY <1>7, <2>1, <2>2, SoundStep
<1>8. TypeOK
  OBVIOUS
<1> QED
  BY <1>1, <1>2, <1>3, <1>4, <1>5, <1>6, <1>7, <1>8, RowWritten

-----------------------------------------------------------------------------
(* The threads' copies *)

\* An edit of a sound alarm writes a sound one, scheduled or disabled.
LEMMA ApplyUpdatesSound ==
  ASSUME NEW alarm \in Alarm, NEW req \in Request, NEW a, NEW rs, NEW b,
         Sound(alarm, a, rs, b)
  PROVE  /\ Sound(ApplyUpdates(alarm, req), a, rs, b)
         /\ ApplyUpdates(alarm, req).status \in {"scheduled", "disabled"}
<1> DEFINE merged == Merged(alarm, req)
<1>1. merged \in Alarm /\ merged.status = alarm.status /\ merged.run = alarm.run
  BY DEF Merged, Alarm, Request
<1>2. CASE merged.status = "scheduled" \/ merged.enabled
  <2>1. ApplyUpdates(alarm, req) = NewAlarm(merged.def, merged.at, TRUE)
    BY <1>2 DEF ApplyUpdates
  <2> QED  BY <2>1 DEF Sound, NewAlarm
<1>3. CASE ~(merged.status = "scheduled" \/ merged.enabled)
  <2>1. ApplyUpdates(alarm, req)
          = [merged EXCEPT !.status = "disabled", !.enabled = FALSE]
    BY <1>3 DEF ApplyUpdates
  <2> HIDE DEF merged
  <2> QED  BY <1>1, <2>1 DEF Sound, Alarm
<1> QED  BY <1>2, <1>3

LEMMA EditStep ==
  ASSUME IInv, [Next]_vars PROVE EditInv'
<1> SUFFICES ASSUME NEW e \in Editors, edit'[e].pc = "write"
             PROVE  /\ edit'[e].id <= lastId'
                    /\ edit'[e].copy.status \in {"scheduled", "disabled"}
                    /\ Sound(edit'[e].copy, edit'[e].id, runs', birth'[edit'[e].id])
  BY DEF EditInv
<1> USE DEF IInv
<1>1. CASE edit'[e] = edit[e]
  <2>1. edit[e].copy \in Alarm /\ edit[e].id \in Ids
    BY <1>1 DEF TypeOK, EditLocals
  <2> QED  BY <1>1, <2>1, SoundStep DEF EditInv
<1>2. ASSUME NEW f \in Editors, NEW a \in Ids, NEW req \in Request,
             EditRead(f, a, req), edit'[e] # edit[e]
      PROVE  /\ edit'[e].id <= lastId'
             /\ edit'[e].copy.status \in {"scheduled", "disabled"}
             /\ Sound(edit'[e].copy, edit'[e].id, runs', birth'[edit'[e].id])
  <2>1. rows[a] \in Alarm /\ Sound(rows[a], a, runs, birth[a]) /\ a <= lastId
    BY <1>2, LiveRowType DEF EditRead, RowInv
  <2>2. edit'[e].id = a /\ edit'[e].copy = ApplyUpdates(rows[a], req)
    BY <1>2 DEF EditRead, TypeOK
  <2>3. ApplyUpdates(rows[a], req) \in Alarm
    BY <2>1, ApplyUpdatesType
  <2>4. /\ Sound(ApplyUpdates(rows[a], req), a, runs, birth[a])
        /\ ApplyUpdates(rows[a], req).status \in {"scheduled", "disabled"}
    BY <2>1, ApplyUpdatesSound
  <2> QED  BY <2>1, <2>2, <2>3, <2>4, SoundStep
<1>3. ASSUME NEW f \in Editors, EditWrite(f) PROVE edit'[e] = edit[e]
  BY <1>3, RestTypes DEF EditWrite, TypeOK
<1>4. ASSUME Restart PROVE FALSE
  BY <1>4, RestTypes DEF Restart
<1>5. ASSUME Poll PROVE edit' = edit
  BY <1>5 DEF Poll, PollBegin, Claim, StartLoop, StartLoopFails, RecordRun,
              RecordFailure, RefreshBegin, RefreshRead, RefreshRaises, Report,
              PollEnd
<1>6. ASSUME \/ \E def \in Defs, at \in Times, on \in BOOLEAN : CreateAlarm(def, at, on)
             \/ \E a \in Ids : DeleteAlarm(a)
             \/ Tick
             \/ \E r \in RunIds, state \in {"completed", "failed"} : RunEnds(r, state)
             \/ \E r \in RunIds : RunForgotten(r)
             \/ UNCHANGED vars
      PROVE  edit' = edit
  BY <1>6 DEF CreateAlarm, DeleteAlarm, Tick, RunEnds, RunForgotten, vars
<1> QED
  BY <1>1, <1>2, <1>3, <1>4, <1>5, <1>6 DEF Next, Requests, Environment

\* Only the scheduler and a restart touch the scheduler's locals.
LEMMA PollSame ==
  ASSUME [Next]_vars PROVE Poll \/ poll' = poll \/ poll' = Idle
BY DEF Next, Requests, Environment, CreateAlarm, EditRead, EditWrite,
       DeleteAlarm, Tick, RunEnds, RunForgotten, Restart, vars

LEMMA LaunchStep ==
  ASSUME IInv, [Next]_vars PROVE LaunchInv'
<1> USE DEF IInv
<1>1. CASE poll' = poll
  <2>1. lastId \in Int /\ lastId' \in Int /\ lastId <= lastId'
    BY BirthStable, TypeStep DEF TypeOK, Ids
  <2>2. poll.pc \in {"start", "record", "fail"} =>
          poll.id \in Ids /\ poll.id \in Int /\ poll.id <= lastId'
    BY <2>1 DEF LaunchInv, TypeOK, Ids
  <2>3. ASSUME poll.pc = "record"
        PROVE  /\ runs'[poll.run].state # "unborn"
               /\ runs'[poll.run].alarm = poll.id
               /\ runs'[poll.run].birth = birth'[poll.id]
               /\ runs'[poll.run].def = poll.copy.def
    <3>1. poll.run \in RunIds /\ poll.id \in Ids /\ poll.id <= lastId
      BY <2>3 DEF LaunchInv, TypeOK, PollLocals
    <3>2. birth'[poll.id] = birth[poll.id]
      BY <3>1, BirthStable
    <3> QED  BY <2>3, <3>1, <3>2, RunsExtend DEF Extends, LaunchInv
  <2> QED  BY <1>1, <2>2, <2>3 DEF LaunchInv
<1>2. CASE poll'.pc \notin {"start", "record", "fail"}
  BY <1>2 DEF LaunchInv
<1>3. ASSUME NEW a \in Ids, Claim(a) PROVE LaunchInv'
  <2>1. CASE Claimable(a)
    <3>1. rows[a] \in Alarm /\ a <= lastId /\ rows[a].enabled
      BY <2>1, LiveRowType DEF Claimable, RowInv, Due
    <3>2. /\ poll'.pc = "start" /\ poll'.id = a
          /\ poll'.copy = ClaimedForm(rows[a]) /\ lastId' = lastId
      BY <1>3, <2>1 DEF Claim, TypeOK, PollLocals
    <3>3. /\ ClaimedForm(rows[a]).status = "running"
          /\ ClaimedForm(rows[a]).enabled
          /\ ClaimedForm(rows[a]).run = NoRun
      BY <3>1 DEF ClaimedForm, Alarm
    <3> QED  BY <3>1, <3>2, <3>3 DEF LaunchInv
  <2>2. CASE ~Claimable(a)
    BY <1>2, <1>3, <2>2 DEF Claim, TypeOK, PollLocals
  <2> QED  BY <2>1, <2>2
<1>4. ASSUME NEW r \in RunIds, StartLoop(r) PROVE LaunchInv'
  <2>1. /\ poll'.pc = "record" /\ poll'.id = poll.id
        /\ poll'.copy = poll.copy /\ poll'.run = r
        /\ lastId' = lastId /\ birth' = birth
    BY <1>4 DEF StartLoop, store, TypeOK, PollLocals
  <2>2. /\ runs'[r].state = "running" /\ runs'[r].alarm = poll.id
        /\ runs'[r].birth = birth[poll.id] /\ runs'[r].def = poll.copy.def
    BY <1>4 DEF StartLoop, TypeOK
  <2>3. r # NoRun
    BY DEF RunIds, NoRun
  <2> QED  BY <1>4, <2>1, <2>2, <2>3 DEF LaunchInv, StartLoop
<1>5. ASSUME StartLoopFails \/ (RecordRun /\ rows[poll.id] = NoRow) PROVE LaunchInv'
  <2>1. /\ poll.pc \in {"start", "record"} /\ poll'.pc = "fail"
        /\ poll'.id = poll.id /\ poll'.copy = poll.copy /\ lastId' = lastId
    BY <1>5 DEF StartLoopFails, RecordRun, store, TypeOK, PollLocals
  <2> QED  BY <2>1 DEF LaunchInv
<1>6. ASSUME \/ PollBegin \/ RefreshBegin \/ RefreshRaises \/ PollEnd \/ Report
             \/ \E t \in poll.tracked : RefreshRead(t)
             \/ RecordFailure \/ (RecordRun /\ rows[poll.id] # NoRow)
      PROVE  poll'.pc \notin {"start", "record", "fail"}
  <2>1. poll \in PollLocals
    BY DEF TypeOK
  <2>2. Idle \in PollLocals
    BY RestTypes
  <2> QED
    BY <1>6, <2>1, <2>2, RestTypes
    DEF PollBegin, RefreshBegin, RefreshRaises, PollEnd, Report, RefreshRead,
        RecordFailure, RecordRun, Abandon, Launched, PollLocals
<1>7. CASE poll' = Idle
  BY <1>2, <1>7, RestTypes
<1>8. CASE Poll
  BY <1>2, <1>3, <1>4, <1>5, <1>6, <1>8 DEF Poll
<1> QED  BY <1>1, <1>7, <1>8, PollSame

\* A tracked or reported copy stays sound whatever the step does.
LEMMA RefreshKept ==
  ASSUME IInv, [Next]_vars
  PROVE  /\ \A t \in poll.tracked :
              /\ t.id <= lastId' /\ t.alarm.run # NoRun
              /\ Sound(t.alarm, t.id, runs', birth'[t.id])
         /\ poll.pc = "report" =>
              /\ poll.id <= lastId'
              /\ poll.copy.status \in {"completed", "failed"}
              /\ Sound(poll.copy, poll.id, runs', birth'[poll.id])
<1> USE DEF IInv
<1>1. ASSUME NEW t \in poll.tracked
      PROVE  /\ t.id <= lastId' /\ t.alarm.run # NoRun
             /\ Sound(t.alarm, t.id, runs', birth'[t.id])
  <2>1. t.id \in Ids /\ t.alarm \in Alarm
    BY DEF TypeOK, PollLocals
  <2>2. t.id <= lastId /\ t.alarm.run # NoRun /\ Sound(t.alarm, t.id, runs, birth[t.id])
    BY DEF RefreshInv
  <2> QED  BY <2>1, <2>2, SoundStep
<1>2. ASSUME poll.pc = "report"
      PROVE  /\ poll.id <= lastId'
             /\ poll.copy.status \in {"completed", "failed"}
             /\ Sound(poll.copy, poll.id, runs', birth'[poll.id])
  <2>1. poll.id \in Ids /\ poll.copy \in Alarm
    BY <1>2 DEF TypeOK, PollLocals
  <2>2. /\ poll.id <= lastId /\ poll.copy.status \in {"completed", "failed"}
        /\ Sound(poll.copy, poll.id, runs, birth[poll.id])
    BY <1>2 DEF RefreshInv
  <2> QED  BY <2>1, <2>2, SoundStep
<1> QED  BY <1>1, <1>2

\* What the refresh reports of a sound tracked alarm is sound: it reports
\* completion only on the answer "completed".
LEMMA OutcomeSound ==
  ASSUME TypeOK, NEW alarm \in Alarm, alarm.run # NoRun, NEW a, NEW b,
         Sound(alarm, a, runs, b)
  PROVE  LET outcome == Outcome(alarm, Answer(alarm.run)) IN
         /\ outcome \in Alarm /\ outcome.status \in {"completed", "failed"}
         /\ Sound(outcome, a, runs, b)
<1>1. CompletedForm(alarm) \in Alarm /\ FailedForm(alarm) \in Alarm
  BY FormTypes
<1>2. CASE Answer(alarm.run) = "completed"
  <2>1. runs[alarm.run].state = "completed"
    BY <1>2 DEF Answer
  <2>2. Outcome(alarm, Answer(alarm.run)) = CompletedForm(alarm)
    BY <1>2 DEF Outcome
  <2>3. Sound(CompletedForm(alarm), a, runs, b) /\ CompletedForm(alarm).status = "completed"
    BY <2>1 DEF Sound, CompletedForm, Alarm
  <2> QED  BY <1>1, <2>2, <2>3
<1>3. CASE Answer(alarm.run) # "completed"
  <2>1. Outcome(alarm, Answer(alarm.run)) = FailedForm(alarm)
    BY <1>3 DEF Outcome
  <2>2. Sound(FailedForm(alarm), a, runs, b) /\ FailedForm(alarm).status = "failed"
    BY DEF Sound, FailedForm, Alarm
  <2> QED  BY <1>1, <2>1, <2>2
<1> QED  BY <1>2, <1>3

LEMMA RefreshStep ==
  ASSUME IInv, [Next]_vars PROVE RefreshInv'
<1> USE DEF IInv
<1>1. ASSUME poll'.tracked \subseteq poll.tracked,
             poll'.pc # "report" \/ poll' = poll
      PROVE  RefreshInv'
  BY <1>1, RefreshKept DEF RefreshInv
<1>2. CASE poll' = Idle
  <2>1. Idle.tracked = {} /\ Idle.pc = "wait"
    BY DEF Idle
  <2> QED  BY <1>1, <1>2, <2>1
<1>3. ASSUME PollBegin PROVE poll'.tracked = {} /\ poll'.pc = "launch"
  BY <1>3 DEF PollBegin, Idle
<1>4. ASSUME \/ \E a \in Ids : Claim(a)
             \/ \E r \in RunIds : StartLoop(r)
             \/ StartLoopFails \/ RecordRun \/ Report
             \/ RecordFailure /\ rows[poll.id] # NoRow
      PROVE  poll' = Idle \/ (poll'.tracked = poll.tracked /\ poll'.pc # "report")
  <2>1. poll \in PollLocals
    BY DEF TypeOK
  <2> QED
    BY <1>4, <2>1
    DEF Claim, StartLoop, StartLoopFails, RecordRun, Report, RecordFailure,
        Abandon, Launched, PollLocals
<1>5. ASSUME \/ RecordFailure /\ rows[poll.id] = NoRow
             \/ RefreshRaises \/ PollEnd
      PROVE  poll' = Idle
  BY <1>5 DEF RecordFailure, RefreshRaises, PollEnd, Abandon
<1>6. ASSUME RefreshBegin PROVE RefreshInv'
  <2>1. /\ poll'.pc = "refresh"
        /\ poll'.tracked = {[id |-> a, alarm |-> rows[a]] :
                            a \in {b \in Live : rows[b].run # NoRun}}
    BY <1>6 DEF RefreshBegin, TypeOK, PollLocals
  <2>2. ASSUME NEW a \in Live, rows[a].run # NoRun
        PROVE  a <= lastId' /\ Sound(rows[a], a, runs', birth'[a])
    <3>1. a \in Ids /\ rows[a] \in Alarm
      BY LiveRowType DEF Live
    <3>2. a <= lastId /\ Sound(rows[a], a, runs, birth[a])
      BY DEF Live, RowInv
    <3> QED  BY <3>1, <3>2, SoundStep
  <2> QED  BY <2>1, <2>2 DEF RefreshInv
<1>7. ASSUME NEW t \in poll.tracked, RefreshRead(t) PROVE RefreshInv'
  <2> DEFINE outcome == Outcome(t.alarm, Answer(t.alarm.run))
  <2>1. t.id \in Ids /\ t.alarm \in Alarm
    BY DEF TypeOK, PollLocals
  <2>2. t.id <= lastId /\ t.alarm.run # NoRun /\ Sound(t.alarm, t.id, runs, birth[t.id])
    BY DEF RefreshInv
  <2>3. outcome \in Alarm /\ outcome.status \in {"completed", "failed"}
        /\ Sound(outcome, t.id, runs, birth[t.id])
    BY <2>1, <2>2, OutcomeSound
  <2> HIDE DEF outcome
  <2>4. t.id <= lastId' /\ Sound(outcome, t.id, runs', birth'[t.id])
    BY <2>1, <2>2, <2>3, SoundStep
  <2>5. CASE InProgress(Answer(t.alarm.run))
    <3>1. poll'.tracked \subseteq poll.tracked /\ poll'.pc = "refresh"
      BY <1>7, <2>5 DEF RefreshRead, TypeOK, PollLocals
    <3> QED  BY <1>1, <3>1
  <2>6. CASE ~InProgress(Answer(t.alarm.run))
    <3>1. /\ poll'.tracked \subseteq poll.tracked
          /\ poll'.id = t.id /\ poll'.copy = outcome
      BY <1>7, <2>6 DEF RefreshRead, TypeOK, PollLocals, outcome
    <3> QED  BY <2>3, <2>4, <3>1, RefreshKept DEF RefreshInv
  <2> QED  BY <2>5, <2>6
<1>8. CASE poll' = poll
  BY <1>1, <1>8
<1>9. CASE Poll
  BY <1>1, <1>2, <1>3, <1>4, <1>5, <1>6, <1>7, <1>9 DEF Poll
<1> QED  BY <1>2, <1>8, <1>9, PollSame

-----------------------------------------------------------------------------
(* Alarms that no poll looks at, and launches still to come *)

\* A running alarm without a run stays explained: its launch ends in a write
\* that names a run or a failure, and a restart before that is a loss.
LEMMA UntrackedStep ==
  ASSUME IInv, [Next]_vars PROVE UntrackedOnlyByCrash'
<1> SUFFICES ASSUME NEW a \in Ids, rows'[a] # NoRow,
                    rows'[a].status = "running", rows'[a].run = NoRun
             PROVE  Launching(a)' \/ a \in lost'
  BY DEF UntrackedOnlyByCrash, Live, Untracked
<1> USE DEF IInv
<1>1. TypeOK /\ poll \in PollLocals
  BY DEF TypeOK
<1>2. CASE rows'[a] = rows[a]
  <2>1. Launching(a) \/ a \in lost
    BY <1>2 DEF UntrackedOnlyByCrash, Live, Untracked
  <2>2. ASSUME NEW e \in Editors, EditWrite(e), edit[e].id = a PROVE FALSE
    <3>1. rows'[a] = edit[e].copy
      BY <1>2, <2>2 DEF EditWrite, TypeOK
    <3>2. edit[e].copy.status \in {"scheduled", "disabled"}
      BY <2>2 DEF EditWrite, EditInv
    <3> QED  BY <3>1, <3>2
  <2>3. ASSUME DeleteAlarm(a) PROVE FALSE
    BY <2>3 DEF DeleteAlarm, TypeOK
  <2>4. CASE a \in lost
    <3>1. ASSUME NEW e \in Editors, EditWrite(e) PROVE a \in lost'
      BY <2>2, <2>4, <3>1 DEF EditWrite
    <3>2. ASSUME NEW b \in Ids, DeleteAlarm(b) PROVE a \in lost'
      BY <2>3, <2>4, <3>2 DEF DeleteAlarm
    <3>3. ASSUME Restart PROVE a \in lost'
      BY <2>4, <3>3 DEF Restart
    <3>4. ASSUME Poll PROVE lost' = lost
      BY <3>4 DEF Poll, PollBegin, Claim, StartLoop, StartLoopFails, RecordRun,
                  RecordFailure, RefreshBegin, RefreshRead, RefreshRaises,
                  Report, PollEnd, history
    <3>5. ASSUME \/ \E def \in Defs, at \in Times, on \in BOOLEAN :
                      CreateAlarm(def, at, on)
                 \/ \E e \in Editors, b \in Ids, req \in Request : EditRead(e, b, req)
                 \/ Tick
                 \/ \E r \in RunIds, s \in {"completed", "failed"} : RunEnds(r, s)
                 \/ \E r \in RunIds : RunForgotten(r)
                 \/ UNCHANGED vars
          PROVE  lost' = lost
      BY <3>5 DEF CreateAlarm, EditRead, Tick, RunEnds, RunForgotten, vars, history
    <3> QED
      BY <2>4, <3>1, <3>2, <3>3, <3>4, <3>5 DEF Next, Requests, Environment
  <2>5. CASE Launching(a)
    <3>1. poll.pc \in {"start", "record", "fail"} /\ poll.id = a /\ rows[a] # NoRow
      BY <1>2, <2>5 DEF Launching
    <3>2. ASSUME \/ \E r \in RunIds : StartLoop(r)
                 \/ StartLoopFails
          PROVE  Launching(a)'
      BY <1>1, <3>1, <3>2 DEF StartLoop, StartLoopFails, Launching, PollLocals
    <3>3. ASSUME RecordRun PROVE FALSE
      <4>1. rows'[a] = [poll.copy EXCEPT !.run = poll.run]
        BY <3>1, <3>3 DEF RecordRun, TypeOK
      <4>2. poll.copy \in Alarm /\ poll.run # NoRun
        BY <1>1, <3>3 DEF RecordRun, LaunchInv, PollLocals
      <4> QED  BY <4>1, <4>2 DEF Alarm
    <3>4. ASSUME RecordFailure PROVE FALSE
      <4>1. rows'[a] = FailedForm(poll.copy)
        BY <3>1, <3>4 DEF RecordFailure, TypeOK
      <4>2. poll.copy \in Alarm
        BY <1>1 DEF PollLocals
      <4> QED  BY <4>1, <4>2 DEF Alarm, FailedForm
    <3>5. ASSUME Poll PROVE Launching(a)'
      BY <3>1, <3>2, <3>3, <3>4, <3>5
      DEF Poll, PollBegin, Claim, RefreshBegin, RefreshRead, RefreshRaises,
          Report, PollEnd
    <3>6. ASSUME Restart PROVE a \in lost'
      BY <1>2, <3>1, <3>6 DEF Restart, Live, Launching, Untracked
    <3>7. ASSUME poll' = poll PROVE Launching(a)'
      BY <3>1, <3>7 DEF Launching
    <3>8. ASSUME \/ Requests \/ Tick
                 \/ \E r \in RunIds, s \in {"completed", "failed"} : RunEnds(r, s)
                 \/ \E r \in RunIds : RunForgotten(r)
                 \/ UNCHANGED vars
          PROVE  poll' = poll
      BY <3>8 DEF Requests, CreateAlarm, EditRead, EditWrite, DeleteAlarm, Tick,
                  RunEnds, RunForgotten, vars
    <3> QED  BY <3>5, <3>6, <3>7, <3>8 DEF Next, Environment
  <2> QED  BY <2>1, <2>4, <2>5
<1>3. ASSUME Claim(a), Claimable(a) PROVE Launching(a)'
  BY <1>1, <1>3 DEF Claim, Launching, PollLocals
<1>4. ASSUME RecordRun, rows'[a] = [poll.copy EXCEPT !.run = poll.run] PROVE FALSE
  <2>1. poll.copy \in Alarm /\ poll.run # NoRun
    BY <1>1, <1>4 DEF RecordRun, LaunchInv, PollLocals
  <2> QED  BY <1>4, <2>1 DEF Alarm
<1>5. ASSUME rows'[a] = FailedForm(poll.copy) PROVE FALSE
  <2>1. poll.copy \in Alarm
    BY <1>1 DEF PollLocals
  <2> QED  BY <1>5, <2>1 DEF Alarm, FailedForm
<1>6. ASSUME Report, rows'[a] = poll.copy PROVE FALSE
  BY <1>6 DEF Report, RefreshInv
<1>7. ASSUME NEW def \in Defs, NEW at \in Times, NEW on \in BOOLEAN,
             rows'[a] = NewAlarm(def, at, on)
      PROVE  FALSE
  BY <1>7 DEF NewAlarm
<1>8. ASSUME NEW e \in Editors, EditWrite(e), rows'[a] = edit[e].copy PROVE FALSE
  BY <1>8 DEF EditWrite, EditInv
<1> QED
  BY <1>1, <1>2, <1>3, <1>4, <1>5, <1>6, <1>7, <1>8, RowWritten

\* Launching uses up an arming that was counted, and an alarm is armed again
\* only by a write that counts a new one.
LEMMA DutyStep ==
  ASSUME IInv, [Next]_vars PROVE DutyInv'
<1> SUFFICES ASSUME NEW a \in Ids
             PROVE  launches'[a] + (IF Armed(a)' THEN 1 ELSE 0)
                      + (IF Claimed(a)' THEN 1 ELSE 0) <= arms'[a]
  BY DEF DutyInv
<1> DEFINE Goal == launches'[a] + (IF Armed(a)' THEN 1 ELSE 0)
                     + (IF Claimed(a)' THEN 1 ELSE 0) <= arms'[a]
<1> USE DEF IInv
<1>1. /\ launches[a] \in Nat /\ arms[a] \in Nat
      /\ launches[a] + (IF Armed(a) THEN 1 ELSE 0)
           + (IF Claimed(a) THEN 1 ELSE 0) <= arms[a]
  BY DEF TypeOK, DutyInv
<1>2. /\ TypeOK /\ poll \in PollLocals
      /\ rows \in [Ids -> Alarm \cup {NoRow}]
      /\ launches \in [Ids -> Nat] /\ arms \in [Ids -> Nat]
  BY DEF TypeOK
<1>3. ASSUME launches'[a] = launches[a], arms'[a] = arms[a],
             Armed(a)' => Armed(a), Claimed(a)' => Claimed(a)
      PROVE  Goal
  BY <1>1, <1>3
<1>4. ASSUME UNCHANGED <<launches, arms, rows>>, Claimed(a)' => Claimed(a)
      PROVE  Goal
  <2>1. Armed(a)' => Armed(a)
    BY <1>4 DEF Armed
  <2> QED  BY <1>3, <1>4, <2>1
<1>5. ASSUME NEW b \in Ids, Claim(b) PROVE Goal
  <2>1. launches' = launches /\ arms' = arms /\ poll.pc = "launch" /\ ~Claimed(a)
    BY <1>5 DEF Claim, history, Claimed
  <2>2. CASE Claimable(b)
    <3>1. rows[b] \in Alarm /\ rows[b].status = "scheduled" /\ rows[b] # NoRow
      BY <2>2, LiveRowType DEF Claimable, Due
    <3>2. rows' = [rows EXCEPT ![b] = ClaimedForm(rows[b])]
      BY <1>5, <2>2 DEF Claim
    <3>3. poll'.id = b
      BY <1>2, <1>5, <2>2 DEF Claim, PollLocals
    <3>4. ClaimedForm(rows[b]).status = "running"
      BY <3>1 DEF ClaimedForm, Alarm
    <3>5. CASE a = b
      <4>1. Armed(a) /\ ~Armed(a)'
        BY <1>2, <3>1, <3>2, <3>4, <3>5 DEF Armed
      <4> QED  BY <1>1, <2>1, <4>1
    <3>6. CASE a # b
      <4>1. Armed(a)' => Armed(a)
        BY <1>2, <3>2, <3>6 DEF Armed
      <4>2. ~Claimed(a)'
        BY <3>3, <3>6 DEF Claimed
      <4> QED  BY <1>3, <2>1, <4>1, <4>2
    <3> QED  BY <3>5, <3>6
  <2>3. CASE ~Claimable(b)
    <3>1. rows' = rows /\ poll'.pc = "launch"
      BY <1>2, <1>5, <2>3 DEF Claim, PollLocals
    <3> QED  BY <1>4, <2>1, <3>1 DEF Claimed
  <2> QED  BY <2>2, <2>3
<1>6. ASSUME \/ \E r \in RunIds : StartLoop(r)
             \/ StartLoopFails
      PROVE  Goal
  <2>1. poll.pc = "start" /\ poll'.pc # "start" /\ rows' = rows /\ arms' = arms
    BY <1>2, <1>6 DEF StartLoop, StartLoopFails, store, PollLocals
  <2>2. \/ launches' = launches
        \/ launches' = [launches EXCEPT ![poll.id] = @ + 1]
    BY <1>6 DEF StartLoop, StartLoopFails
  <2>3. ~Claimed(a)' /\ (Armed(a)' <=> Armed(a)) /\ (Claimed(a) <=> poll.id = a)
    BY <2>1 DEF Claimed, Armed
  <2>4. \/ launches'[a] = launches[a]
        \/ launches'[a] = launches[a] + 1 /\ Claimed(a)
    BY <1>2, <2>2, <2>3
  <2> QED  BY <1>1, <2>1, <2>3, <2>4
<1>7. ASSUME RecordRun \/ RecordFailure \/ Report PROVE Goal
  <2>1. launches' = launches /\ arms' = arms
    BY <1>7 DEF RecordRun, RecordFailure, Report, history
  <2>2. Idle.pc # "start"
    BY RestTypes
  <2>3. ~Claimed(a)'
    BY <1>2, <1>7, <2>2
    DEF RecordRun, RecordFailure, Report, Launched, Abandon, Claimed, PollLocals
  <2>4. ASSUME Armed(a)' PROVE Armed(a)
    <3>1. CASE rows'[a] = rows[a]
      BY <2>4, <3>1 DEF Armed
    <3>2. CASE rows'[a] # rows[a]
      <4>1. poll.copy \in Alarm
        BY <1>2 DEF PollLocals
      <4>2. \/ RecordRun /\ rows'[a] = [poll.copy EXCEPT !.run = poll.run]
            \/ rows'[a] = FailedForm(poll.copy)
            \/ Report /\ rows'[a] = poll.copy
        BY <1>2, <1>7, <3>2 DEF RecordRun, RecordFailure, Report
      <4>3. rows'[a].status # "scheduled"
        BY <4>1, <4>2
        DEF RecordRun, Report, LaunchInv, RefreshInv, FailedForm, Alarm
      <4> QED  BY <2>4, <4>3 DEF Armed
    <3> QED  BY <3>1, <3>2
  <2> QED  BY <1>3, <2>1, <2>3, <2>4
<1>8. ASSUME PollBegin \/ RefreshBegin \/ RefreshRaises \/ PollEnd
             \/ \E t \in poll.tracked : RefreshRead(t)
      PROVE  Goal
  <2>1. UNCHANGED <<launches, arms, rows>>
    BY <1>8 DEF PollBegin, RefreshBegin, RefreshRaises, PollEnd, RefreshRead,
                store, history
  <2>2. Idle \in PollLocals /\ Idle.pc # "start"
    BY RestTypes
  <2>3. poll'.pc # "start"
    BY <1>2, <1>8, <2>2
    DEF PollBegin, RefreshBegin, RefreshRaises, PollEnd, RefreshRead, Abandon,
        PollLocals
  <2> QED  BY <1>4, <2>1, <2>3 DEF Claimed
<1>9. ASSUME NEW def \in Defs, NEW at \in Times, NEW on \in BOOLEAN,
             CreateAlarm(def, at, on)
      PROVE  Goal
  <2>1. launches' = launches /\ (Claimed(a)' <=> Claimed(a))
    BY <1>9 DEF CreateAlarm, Claimed
  <2>2. CASE a = NextRowId
    <3>1. a = lastId + 1 /\ lastId \in Int
      BY <2>2 DEF NextRowId, TypeOK, Ids
    <3>2. rows[a] = NoRow
      BY <3>1 DEF RowInv
    <3>3. ~Armed(a)
      BY <3>2 DEF Armed
    <3>4. rows'[a] = NewAlarm(def, at, on)
          /\ arms'[a] = IF on THEN arms[a] + 1 ELSE arms[a]
      BY <1>2, <1>9, <2>2 DEF CreateAlarm
    <3>5. Armed(a)' => on
      BY <3>4 DEF Armed, NewAlarm
    <3> QED  BY <1>1, <2>1, <3>3, <3>4, <3>5
  <2>3. CASE a # NextRowId
    <3>1. rows'[a] = rows[a] /\ arms'[a] = arms[a]
      BY <1>2, <1>9, <2>3 DEF CreateAlarm
    <3> QED  BY <1>3, <2>1, <3>1 DEF Armed
  <2> QED  BY <2>2, <2>3
<1>10. ASSUME NEW e \in Editors, EditWrite(e) PROVE Goal
  <2>1. launches' = launches /\ (Claimed(a)' <=> Claimed(a))
    BY <1>10 DEF EditWrite, Claimed
  <2>2. CASE a = edit[e].id /\ rows[a] # NoRow
    <3>1. rows'[a] = edit[e].copy
          /\ arms'[a] = IF edit[e].copy.status = "scheduled" THEN arms[a] + 1
                        ELSE arms[a]
      BY <1>2, <1>10, <2>2 DEF EditWrite
    <3>2. Armed(a)' => edit[e].copy.status = "scheduled"
      BY <3>1 DEF Armed
    <3> QED  BY <1>1, <2>1, <3>1, <3>2
  <2>3. CASE ~(a = edit[e].id /\ rows[a] # NoRow)
    <3>1. rows'[a] = rows[a] /\ arms'[a] = arms[a]
      BY <1>2, <1>10, <2>3 DEF EditWrite
    <3> QED  BY <1>3, <2>1, <3>1 DEF Armed
  <2> QED  BY <2>2, <2>3
<1>11. ASSUME NEW b \in Ids, DeleteAlarm(b) PROVE Goal
  <2>1. launches' = launches /\ arms' = arms /\ (Claimed(a)' <=> Claimed(a))
    BY <1>11 DEF DeleteAlarm, Claimed
  <2>2. Armed(a)' => Armed(a)
    BY <1>2, <1>11 DEF DeleteAlarm, Armed
  <2> QED  BY <1>3, <2>1, <2>2
<1>12. ASSUME Restart PROVE Goal
  <2>1. Idle.pc # "start"
    BY RestTypes
  <2>2. UNCHANGED <<launches, arms, rows>> /\ ~Claimed(a)'
    BY <1>12, <2>1 DEF Restart, store, Claimed
  <2> QED  BY <1>4, <2>2
<1>13. ASSUME \/ \E e \in Editors, b \in Ids, req \in Request : EditRead(e, b, req)
              \/ Tick
              \/ \E r \in RunIds, s \in {"completed", "failed"} : RunEnds(r, s)
              \/ \E r \in RunIds : RunForgotten(r)
              \/ UNCHANGED vars
       PROVE  Goal
  <2>1. UNCHANGED <<launches, arms, rows>> /\ poll' = poll
    BY <1>13 DEF EditRead, Tick, RunEnds, RunForgotten, vars, store, history
  <2> QED  BY <1>4, <2>1 DEF Claimed
<1> HIDE DEF Goal
<1>14. Goal
  BY <1>5, <1>6, <1>7, <1>8, <1>9, <1>10, <1>11, <1>12, <1>13
  DEF Next, Poll, Requests, Environment
<1> QED  BY <1>14 DEF Goal

-----------------------------------------------------------------------------
(* The theorems *)

LEMMA InductiveInit == Init => IInv
<1> SUFFICES ASSUME Init PROVE IInv
  OBVIOUS
<1>1. TypeOK
  BY TypeInit
<1>2. poll.pc = "wait" /\ poll.tracked = {}
  BY DEF Init, Idle
<1>3. \A e \in Editors : edit[e].pc = "idle"
  BY RestTypes DEF Init
<1>4. \A a \in Ids : rows[a] = NoRow /\ launches[a] = 0 /\ arms[a] = 0
  BY DEF Init
<1>5. RowInv /\ EditInv /\ LaunchInv /\ RefreshInv
  BY <1>2, <1>3, <1>4 DEF RowInv, EditInv, LaunchInv, RefreshInv
<1>6. UntrackedOnlyByCrash /\ DutyInv
  BY <1>2, <1>4 DEF UntrackedOnlyByCrash, Live, DutyInv, Armed, Claimed
<1> QED  BY <1>1, <1>5, <1>6 DEF IInv

\* The invariant holds of every behaviour of the scheduler and its editors.
THEOREM Inductive == Spec => []IInv
<1>1. IInv /\ [Next]_vars => IInv'
  BY TypeStep, RowStep, EditStep, LaunchStep, RefreshStep, UntrackedStep,
     DutyStep
  DEF IInv
<1> QED  BY InductiveInit, <1>1, PTL DEF Spec

\* One arming of an alarm starts at most one loop, in _launch_alarm and after
\* any interleaving with update_alarm, delete_alarm and restarts.
THEOREM OneLaunch == Spec => []OneLaunchPerArming
<1>1. IInv => OneLaunchPerArming
  <2> SUFFICES ASSUME IInv, NEW a \in Ids PROVE launches[a] <= arms[a]
    BY DEF OneLaunchPerArming
  <2>1. launches[a] \in Nat /\ arms[a] \in Nat
    BY DEF IInv, TypeOK
  <2> QED  BY <2>1 DEF IInv, DutyInv
<1> QED  BY Inductive, <1>1, PTL

\* A stored alarm is enabled exactly while it waits or runs, and a waiting one
\* carries nothing over from an earlier run, whoever wrote the row last.
THEOREM StatusSound == Spec => []StatusConsistent
<1>1. IInv => StatusConsistent
  BY DEF IInv, RowInv, Sound, StatusConsistent, Live
<1> QED  BY Inductive, <1>1, PTL

\* The run id in a row, written after start_loop by the alarm's id alone, is
\* that of a run started for this very alarm.
THEOREM RunOwned == Spec => []RunIdOwned
<1>1. IInv => RunIdOwned
  BY DEF IInv, RowInv, Sound, RunIdOwned, Live
<1> QED  BY Inductive, <1>1, PTL

\* A running alarm shows the definition its loop was started with.
THEOREM RunningShown == Spec => []RunningShowsItsLoop
<1>1. IInv => RunningShowsItsLoop
  BY DEF IInv, RowInv, Sound, RunningShowsItsLoop, Live
<1> QED  BY Inductive, <1>1, PTL

\* An alarm is shown completed only when its loop run has completed.
THEOREM CompletedSound == Spec => []CompletedIsTrue
<1>1. IInv => CompletedIsTrue
  BY DEF IInv, RowInv, Sound, CompletedIsTrue, Live
<1> QED  BY Inductive, <1>1, PTL

\* A running alarm without a run id is being launched, or its launch died
\* with the process.
THEOREM UntrackedExplained == Spec => []UntrackedOnlyByCrash
<1>1. IInv => UntrackedOnlyByCrash
  BY DEF IInv
<1> QED  BY Inductive, <1>1, PTL

-----------------------------------------------------------------------------
(* The scheduler implements AlarmDuty *)

ArmedSet   == {a \in Live : rows[a].status = "scheduled"}
ClaimedSet == IF poll.pc = "start" THEN {poll.id} ELSE {}

\* How the set of armed alarms follows one write of a row.
LEMMA ArmedAfterWrite ==
  ASSUME TypeOK, NEW a \in Ids, NEW alarm \in Alarm,
         rows' = [rows EXCEPT ![a] = alarm]
  PROVE  ArmedSet' = IF alarm.status = "scheduled" THEN ArmedSet \cup {a}
                     ELSE ArmedSet \ {a}
<1>1. rows \in [Ids -> Alarm \cup {NoRow}] /\ alarm # NoRow
  BY NoRowAssumption DEF TypeOK
<1>2. \A b \in Ids : rows'[b] = IF b = a THEN alarm ELSE rows[b]
  BY <1>1
<1> QED  BY <1>1, <1>2 DEF ArmedSet, Live

LEMMA DutyInitial == Init => Duty!Init
<1> SUFFICES ASSUME Init PROVE Duty!Init
  OBVIOUS
<1>1. poll.pc = "wait" /\ \A a \in Ids : rows[a] = NoRow
  BY DEF Init, Idle
<1> QED  BY <1>1 DEF Init, Duty!Init, Live

\* Every step of the scheduler, an editor or a restart arms, disarms, claims,
\* fires or drops the claim of one alarm, or leaves all of them alone.
LEMMA DutyNext ==
  ASSUME IInv, [Next]_vars PROVE [Duty!Next]_Duty!dutyVars
<1> USE DEF IInv
<1> DEFINE Stutter == UNCHANGED <<ArmedSet, ClaimedSet, arms, launches>>
<1>0. Stutter => [Duty!Next]_Duty!dutyVars
  BY DEF ArmedSet, ClaimedSet, Duty!dutyVars
<1>1. /\ TypeOK /\ poll \in PollLocals
      /\ rows \in [Ids -> Alarm \cup {NoRow}]
      /\ launches \in [Ids -> Nat] /\ arms \in [Ids -> Nat]
  BY DEF TypeOK
<1>2. ASSUME UNCHANGED <<rows, arms, launches>>,
             poll'.pc # "start", poll.pc # "start"
      PROVE  Stutter
  BY <1>2 DEF ArmedSet, ClaimedSet, Live
<1>3. ASSUME UNCHANGED <<rows, arms, launches, poll>> PROVE Stutter
  BY <1>3 DEF ArmedSet, ClaimedSet, Live
<1>4. ASSUME NEW a \in Ids, Claim(a) PROVE [Duty!Next]_Duty!dutyVars
  <2>1. arms' = arms /\ launches' = launches /\ poll.pc = "launch"
    BY <1>4 DEF Claim, history
  <2>2. CASE Claimable(a)
    <3>1. /\ rows[a] \in Alarm /\ ClaimedForm(rows[a]) \in Alarm
          /\ a \in ArmedSet /\ ClaimedForm(rows[a]).status = "running"
      <4>1. rows[a] # NoRow /\ rows[a].status = "scheduled"
        BY <2>2 DEF Claimable, Due
      <4>2. rows[a] \in Alarm /\ ClaimedForm(rows[a]) \in Alarm
        BY <4>1, LiveRowType, FormTypes
      <4>3. ClaimedForm(rows[a]).status = "running"
        BY <4>2 DEF ClaimedForm, Alarm
      <4> QED  BY <4>1, <4>2, <4>3 DEF ArmedSet, Live
    <3>2. rows' = [rows EXCEPT ![a] = ClaimedForm(rows[a])]
      BY <1>4, <2>2 DEF Claim
    <3>3. ArmedSet' = ArmedSet \ {a}
      BY <1>1, <3>1, <3>2, ArmedAfterWrite
    <3>4. ClaimedSet = {} /\ ClaimedSet' = {a}
      BY <1>1, <1>4, <2>1, <2>2 DEF Claim, ClaimedSet, PollLocals
    <3>5. Duty!Claim(a)
      BY <2>1, <3>1, <3>3, <3>4 DEF Duty!Claim, ArmedSet, ClaimedSet
    <3> QED  BY <3>5 DEF Duty!Next
  <2>3. CASE ~Claimable(a)
    <3>1. rows' = rows /\ poll'.pc = "launch"
      BY <1>1, <1>4, <2>3 DEF Claim, PollLocals
    <3> QED  BY <1>0, <1>2, <2>1, <3>1
  <2> QED  BY <2>2, <2>3
<1>5. ASSUME \/ \E r \in RunIds : StartLoop(r)
             \/ StartLoopFails
      PROVE  [Duty!Next]_Duty!dutyVars
  <2>1. poll.pc = "start" /\ poll'.pc # "start" /\ rows' = rows /\ arms' = arms
    BY <1>1, <1>5 DEF StartLoop, StartLoopFails, store, PollLocals
  <2>2. ArmedSet' = ArmedSet /\ ClaimedSet = {poll.id} /\ ClaimedSet' = {}
    BY <2>1 DEF ArmedSet, ClaimedSet, Live
  <2>3. poll.id \in Ids
    BY <1>1, <2>1 DEF TypeOK
  <2>4. CASE launches' = launches
    <3>1. Duty!DropClaim
      BY <2>1, <2>2, <2>4 DEF Duty!DropClaim, ArmedSet, ClaimedSet
    <3> QED  BY <3>1 DEF Duty!Next
  <2>5. CASE launches' = [launches EXCEPT ![poll.id] = @ + 1]
    <3>1. PICK a \in Ids : a = poll.id
      BY <2>3
    <3>2. Duty!Fire(a)
      BY <2>1, <2>2, <2>5, <3>1 DEF Duty!Fire, ArmedSet, ClaimedSet
    <3> QED  BY <3>2 DEF Duty!Next
  <2> QED  BY <1>5, <2>4, <2>5 DEF StartLoop, StartLoopFails
<1>6. ASSUME RecordRun \/ RecordFailure \/ Report
      PROVE  [Duty!Next]_Duty!dutyVars
  <2>1. arms' = arms /\ launches' = launches /\ poll.id \in Ids /\ poll.pc # "start"
    BY <1>1, <1>6 DEF RecordRun, RecordFailure, Report, history, TypeOK
  <2>2. poll'.pc # "start"
    BY <1>1, <1>6, RestTypes
    DEF RecordRun, RecordFailure, Report, Launched, Abandon, PollLocals
  <2>3. ClaimedSet = {} /\ ClaimedSet' = {}
    BY <2>1, <2>2 DEF ClaimedSet
  <2>4. CASE rows[poll.id] = NoRow
    <3>1. rows' = rows
      BY <1>6, <2>4 DEF RecordRun, RecordFailure, Report
    <3> QED  BY <1>0, <1>2, <2>1, <2>2, <3>1
  <2>5. CASE rows[poll.id] # NoRow
    <3>1. PICK alarm \in Alarm : /\ rows' = [rows EXCEPT ![poll.id] = alarm]
                                 /\ alarm.status # "scheduled"
      <4>1. poll.copy \in Alarm /\ poll.run \in RunIds \cup {NoRun}
        BY <1>1 DEF PollLocals
      <4>2. CASE RecordRun
        <5>1. /\ [poll.copy EXCEPT !.run = poll.run] \in Alarm
              /\ [poll.copy EXCEPT !.run = poll.run].status = "running"
          BY <4>1, <4>2 DEF RecordRun, LaunchInv, Alarm
        <5> QED  BY <2>5, <4>2, <5>1 DEF RecordRun
      <4>3. CASE RecordFailure
        <5>1. FailedForm(poll.copy) \in Alarm /\ FailedForm(poll.copy).status = "failed"
          BY <4>1, FormTypes DEF FailedForm, Alarm
        <5> QED  BY <2>5, <4>3, <5>1 DEF RecordFailure
      <4>4. CASE Report
        BY <2>5, <4>1, <4>4 DEF Report, RefreshInv
      <4> QED  BY <1>6, <4>2, <4>3, <4>4
    <3>2. ArmedSet' = ArmedSet \ {poll.id}
      BY <1>1, <2>1, <3>1, ArmedAfterWrite
    <3>3. PICK a \in Ids : a = poll.id
      BY <2>1
    <3>4. Duty!Disarm(a)
      BY <2>1, <2>3, <3>2, <3>3 DEF Duty!Disarm, ArmedSet, ClaimedSet
    <3> QED  BY <3>4 DEF Duty!Next
  <2> QED  BY <2>4, <2>5
<1>7. ASSUME PollBegin \/ RefreshBegin \/ RefreshRaises \/ PollEnd
             \/ \E t \in poll.tracked : RefreshRead(t)
      PROVE  Stutter
  <2>1. UNCHANGED <<launches, arms, rows>> /\ poll.pc # "start"
    BY <1>7 DEF PollBegin, RefreshBegin, RefreshRaises, PollEnd, RefreshRead,
                store, history
  <2>2. poll'.pc # "start"
    BY <1>1, <1>7, RestTypes
    DEF PollBegin, RefreshBegin, RefreshRaises, PollEnd, RefreshRead, Abandon,
        PollLocals
  <2> QED  BY <1>2, <2>1, <2>2
<1>8. ASSUME NEW def \in Defs, NEW at \in Times, NEW on \in BOOLEAN,
             CreateAlarm(def, at, on)
      PROVE  [Duty!Next]_Duty!dutyVars
  <2>0. PICK a \in Ids : a = NextRowId
    BY <1>8 DEF CreateAlarm
  <2>1. /\ launches' = launches /\ poll' = poll
        /\ rows' = [rows EXCEPT ![a] = NewAlarm(def, at, on)]
        /\ arms' = [arms EXCEPT ![a] = IF on THEN @ + 1 ELSE @]
    BY <1>8, <2>0 DEF CreateAlarm
  <2>2. NewAlarm(def, at, on) \in Alarm
        /\ (NewAlarm(def, at, on).status = "scheduled" <=> on)
    BY NewAlarmType DEF NewAlarm
  <2>3. ClaimedSet' = ClaimedSet
    BY <2>1 DEF ClaimedSet
  <2>4. a \notin ArmedSet
    <3>1. a = lastId + 1 /\ lastId \in Int
      BY <2>0 DEF NextRowId, TypeOK, Ids
    <3> QED  BY <3>1 DEF RowInv, ArmedSet, Live
  <2>5. CASE on
    <3>1. ArmedSet' = ArmedSet \cup {a}
      BY <1>1, <2>1, <2>2, <2>5, ArmedAfterWrite
    <3>2. arms' = [arms EXCEPT ![a] = @ + 1]
      BY <2>1, <2>5
    <3>3. Duty!Arm(a)
      BY <2>1, <2>3, <3>1, <3>2 DEF Duty!Arm, ArmedSet, ClaimedSet
    <3> QED  BY <3>3 DEF Duty!Next
  <2>6. CASE ~on
    <3>1. ArmedSet' = ArmedSet \ {a}
      BY <1>1, <2>1, <2>2, <2>6, ArmedAfterWrite
    <3>2. arms' = arms
      BY <1>1, <2>1, <2>6
    <3> QED  BY <1>0, <2>1, <2>3, <2>4, <3>1, <3>2
  <2> QED  BY <2>5, <2>6
<1>9. ASSUME NEW e \in Editors, EditWrite(e) PROVE [Duty!Next]_Duty!dutyVars
  <2>0. PICK a \in Ids : a = edit[e].id
    BY <1>9 DEF EditWrite, TypeOK
  <2>1. launches' = launches /\ poll' = poll /\ edit[e].copy \in Alarm
    BY <1>1, <1>9 DEF EditWrite, TypeOK, EditLocals
  <2>2. ClaimedSet' = ClaimedSet
    BY <2>1 DEF ClaimedSet
  <2>3. CASE rows[a] = NoRow
    <3>1. UNCHANGED <<rows, arms>>
      BY <1>9, <2>0, <2>3 DEF EditWrite
    <3> QED  BY <1>0, <1>3, <2>1, <3>1
  <2>4. CASE rows[a] # NoRow
    <3>1. /\ rows' = [rows EXCEPT ![a] = edit[e].copy]
          /\ arms' = [arms EXCEPT ![a] = IF edit[e].copy.status = "scheduled"
                                         THEN @ + 1 ELSE @]
      BY <1>9, <2>0, <2>4 DEF EditWrite
    <3>2. CASE edit[e].copy.status = "scheduled"
      <4>1. ArmedSet' = ArmedSet \cup {a} /\ arms' = [arms EXCEPT ![a] = @ + 1]
        BY <1>1, <2>1, <3>1, <3>2, ArmedAfterWrite
      <4>2. Duty!Arm(a)
        BY <2>1, <2>2, <4>1 DEF Duty!Arm, ArmedSet, ClaimedSet
      <4> QED  BY <4>2 DEF Duty!Next
    <3>3. CASE edit[e].copy.status # "scheduled"
      <4>1. ArmedSet' = ArmedSet \ {a} /\ arms' = arms
        BY <1>1, <2>1, <3>1, <3>3, ArmedAfterWrite
      <4>2. Duty!Disarm(a)
        BY <2>1, <2>2, <4>1 DEF Duty!Disarm, ArmedSet, ClaimedSet
      <4> QED  BY <4>2 DEF Duty!Next
    <3> QED  BY <3>2, <3>3
  <2> QED  BY <2>3, <2>4
<1>10. ASSUME NEW a \in Ids, DeleteAlarm(a) PROVE [Duty!Next]_Duty!dutyVars
  <2>1. UNCHANGED <<launches, arms, poll>> /\ rows' = [rows EXCEPT ![a] = NoRow]
    BY <1>10 DEF DeleteAlarm
  <2>2. ArmedSet' = ArmedSet \ {a} /\ ClaimedSet' = ClaimedSet
    BY <1>1, <2>1 DEF ArmedSet, ClaimedSet, Live
  <2>3. Duty!Disarm(a)
    BY <2>1, <2>2 DEF Duty!Disarm, ArmedSet, ClaimedSet
  <2> QED  BY <2>3 DEF Duty!Next
<1>11. ASSUME Restart PROVE [Duty!Next]_Duty!dutyVars
  <2>1. UNCHANGED <<rows, launches, arms>> /\ poll' = Idle
    BY <1>11 DEF Restart, store
  <2>2. ArmedSet' = ArmedSet /\ ClaimedSet' = {}
    BY <2>1, RestTypes DEF ArmedSet, ClaimedSet, Live
  <2>3. Duty!DropClaim
    BY <2>1, <2>2 DEF Duty!DropClaim, ArmedSet, ClaimedSet
  <2> QED  BY <2>3 DEF Duty!Next
<1>12. ASSUME \/ \E e \in Editors, b \in Ids, req \in Request : EditRead(e, b, req)
              \/ Tick
              \/ \E r \in RunIds, s \in {"completed", "failed"} : RunEnds(r, s)
              \/ \E r \in RunIds : RunForgotten(r)
              \/ UNCHANGED vars
       PROVE  Stutter
  <2>1. UNCHANGED <<launches, arms, rows, poll>>
    BY <1>12 DEF EditRead, Tick, RunEnds, RunForgotten, vars, store, history
  <2> QED  BY <1>3, <2>1
<1> HIDE DEF Stutter
<1> QED
  BY <1>0, <1>4, <1>5, <1>6, <1>7, <1>8, <1>9, <1>10, <1>11, <1>12
  DEF Next, Poll, Requests, Environment

\* The table, the scheduler, the editors and restarts together implement the
\* promise of AlarmDuty: an alarm fires, through a claim, at most once for
\* each time it was armed.
THEOREM Implementation == Spec => ImplementsDuty
<1>1. IInv /\ [Next]_vars => [Duty!Next]_Duty!dutyVars
  BY DutyNext
<1> QED  BY DutyInitial, Inductive, <1>1, PTL DEF Spec, ImplementsDuty, Duty!Spec

-----------------------------------------------------------------------------
(* Completion is final *)

Completed(row) == row # NoRow /\ row.status = "completed"

\* What the scheduler holds about alarms that are completed: it launches none
\* of them, it tracks the run each of them names, once, and it is about to
\* report a failure of one only if the loop service has forgotten that run.
TrackInv ==
  /\ poll.pc \in {"start", "record", "fail"} => ~Completed(rows[poll.id])
  /\ \A t \in poll.tracked :
       Completed(rows[t.id]) => rows[t.id].run = t.alarm.run
  /\ \A t, u \in poll.tracked : t.id = u.id => t = u
  /\ poll.pc = "report" => \A t \in poll.tracked : t.id # poll.id
  /\ poll.pc = "report" /\ poll.copy.status = "failed"
       /\ Completed(rows[poll.id]) => ~runs[rows[poll.id].run].known

\* Only a report completes an alarm.
LEMMA CompletedBy ==
  ASSUME IInv, [Next]_vars, NEW a \in Ids, Completed(rows'[a])
  PROVE  \/ rows'[a] = rows[a]
         \/ Report /\ a = poll.id /\ rows'[a] = poll.copy
<1> SUFFICES ASSUME rows'[a] # rows[a]
             PROVE  Report /\ a = poll.id /\ rows'[a] = poll.copy
  OBVIOUS
<1> USE DEF IInv
<1>1. rows'[a] # NoRow /\ rows'[a].status = "completed"
  BY DEF Completed
<1>2. ASSUME Claimable(a), rows'[a] = ClaimedForm(rows[a]) PROVE FALSE
  <2>1. rows[a] \in Alarm
    BY <1>2, LiveRowType DEF Claimable
  <2> QED  BY <1>1, <1>2, <2>1 DEF ClaimedForm, Alarm
<1>3. ASSUME RecordRun, rows'[a] = [poll.copy EXCEPT !.run = poll.run] PROVE FALSE
  <2>1. poll.copy \in Alarm /\ poll.copy.status = "running"
    BY <1>3 DEF RecordRun, LaunchInv, TypeOK, PollLocals
  <2> QED  BY <1>1, <1>3, <2>1 DEF Alarm
<1>4. ASSUME rows'[a] = FailedForm(poll.copy) PROVE FALSE
  <2>1. poll.copy \in Alarm
    BY DEF TypeOK, PollLocals
  <2> QED  BY <1>1, <1>4, <2>1 DEF FailedForm, Alarm
<1>5. ASSUME NEW def \in Defs, NEW at \in Times, NEW on \in BOOLEAN,
             rows'[a] = NewAlarm(def, at, on)
      PROVE  FALSE
  BY <1>1, <1>5 DEF NewAlarm
<1>6. ASSUME NEW e \in Editors, EditWrite(e), rows'[a] = edit[e].copy PROVE FALSE
  BY <1>1, <1>6 DEF EditWrite, EditInv
<1>7. TypeOK
  OBVIOUS
<1> QED  BY <1>1, <1>2, <1>3, <1>4, <1>5, <1>6, <1>7, RowWritten

\* A run that was forgotten is not remembered.
LEMMA ForgottenStays ==
  ASSUME TypeOK, [Next]_vars, NEW r \in RunIds,
         runs[r].state # "unborn", ~runs[r].known
  PROVE  ~runs'[r].known
<1>1. CASE runs' = runs
  BY <1>1
<1>2. ASSUME NEW q \in RunIds, StartLoop(q) PROVE ~runs'[r].known
  BY <1>2 DEF StartLoop, TypeOK
<1>3. ASSUME NEW q \in RunIds, NEW state \in {"completed", "failed"}, RunEnds(q, state)
      PROVE  ~runs'[r].known
  <2>1. runs[r] \in Run
    BY DEF TypeOK
  <2>2. runs'[r] = IF r = q THEN [runs[r] EXCEPT !.state = state] ELSE runs[r]
    BY <1>3 DEF RunEnds, TypeOK
  <2> QED  BY <2>1, <2>2 DEF Run
<1>4. ASSUME NEW q \in RunIds, RunForgotten(q) PROVE ~runs'[r].known
  <2>1. runs[r] \in Run
    BY DEF TypeOK
  <2>2. runs'[r] = IF r = q THEN [runs[r] EXCEPT !.known = FALSE] ELSE runs[r]
    BY <1>4 DEF RunForgotten, TypeOK
  <2> QED  BY <2>1, <2>2 DEF Run
<1>5. ASSUME Poll, ~\E q \in RunIds : StartLoop(q) PROVE runs' = runs
  BY <1>5 DEF Poll, PollBegin, Claim, StartLoopFails, RecordRun, RecordFailure,
              RefreshBegin, RefreshRead, RefreshRaises, Report, PollEnd
<1>6. ASSUME Requests \/ Tick \/ Restart \/ UNCHANGED vars PROVE runs' = runs
  BY <1>6 DEF Requests, CreateAlarm, EditRead, EditWrite, DeleteAlarm, Tick,
              Restart, vars
<1> QED  BY <1>1, <1>2, <1>3, <1>4, <1>5, <1>6 DEF Next, Environment

\* The tracked copies of completed alarms keep naming their runs.
LEMMA TrackedKept ==
  ASSUME IInv, TrackInv, [Next]_vars, NEW t \in poll.tracked, Completed(rows'[t.id])
  PROVE  rows'[t.id].run = t.alarm.run
<1> USE DEF IInv
<1>1. t.id \in Ids
  BY DEF TypeOK, PollLocals
<1>2. ~(Report /\ t.id = poll.id)
  BY DEF TrackInv, Report
<1>3. rows'[t.id] = rows[t.id]
  BY <1>1, <1>2, CompletedBy
<1> QED  BY <1>3 DEF TrackInv, Completed

\* A report of failure about a completed alarm stays one that is owed to a
\* forgotten run.
LEMMA ReportKept ==
  ASSUME IInv, TrackInv, [Next]_vars, ~Report, poll.pc = "report",
         poll.copy.status = "failed", Completed(rows'[poll.id])
  PROVE  ~runs'[rows'[poll.id].run].known
<1> USE DEF IInv
<1>1. poll.id \in Ids /\ TypeOK
  BY DEF TypeOK
<1>2. rows'[poll.id] = rows[poll.id] /\ Completed(rows[poll.id])
  BY <1>1, CompletedBy DEF Completed
<1>3. rows[poll.id].run \in RunIds /\ runs[rows[poll.id].run].state # "unborn"
  <2>1. rows[poll.id] \in Alarm
    BY <1>1, <1>2, LiveRowType DEF Completed
  <2> QED  BY <1>1, <1>2, <2>1 DEF RowInv, Sound, Completed, Alarm
<1>4. ~runs[rows[poll.id].run].known
  BY <1>2 DEF TrackInv
<1> QED  BY <1>1, <1>2, <1>3, <1>4, ForgottenStays

LEMMA TrackStep ==
  ASSUME IInv, TrackInv, [Next]_vars PROVE TrackInv'
<1> USE DEF IInv
<1>0. TypeOK /\ poll \in PollLocals
  BY DEF TypeOK
<1>1. ASSUME poll'.tracked \subseteq poll.tracked,
             poll'.pc \in {"start", "record", "fail"} => ~Completed(rows'[poll'.id]),
             poll'.pc # "report"
      PROVE  TrackInv'
  BY <1>1, TrackedKept DEF TrackInv
<1>2. CASE poll' = poll
  <2>1. ~Report
    BY <1>2, <1>0, RestTypes DEF Report, Abandon, PollLocals
  <2>2. ASSUME poll.pc \in {"start", "record", "fail"} PROVE ~Completed(rows'[poll.id])
    <3>1. poll.id \in Ids /\ ~Completed(rows[poll.id])
      BY <1>0, <2>2 DEF TypeOK, TrackInv
    <3> QED  BY <2>1, <3>1, CompletedBy DEF Completed
  <2> QED  BY <1>2, <2>1, <2>2, TrackedKept, ReportKept DEF TrackInv
<1>3. CASE poll' = Idle
  <2>1. Idle.tracked = {} /\ Idle.pc = "wait"
    BY DEF Idle
  <2> QED  BY <1>1, <1>3, <2>1
<1>4. ASSUME PollBegin PROVE TrackInv'
  <2>1. poll'.tracked = {} /\ poll'.pc = "launch"
    BY <1>4 DEF PollBegin, Idle
  <2> QED  BY <1>1, <2>1
<1>5. ASSUME NEW a \in Ids, Claim(a) PROVE TrackInv'
  <2>1. CASE Claimable(a)
    <3>1. rows[a] \in Alarm /\ ClaimedForm(rows[a]).status = "running"
      BY <1>0, <2>1, LiveRowType DEF Claimable, ClaimedForm, Alarm
    <3>2. /\ poll'.pc = "start" /\ poll'.id = a /\ poll'.tracked = poll.tracked
          /\ rows'[a] = ClaimedForm(rows[a])
      BY <1>0, <1>5, <2>1 DEF Claim, TypeOK, PollLocals
    <3> QED  BY <1>1, <3>1, <3>2 DEF Completed
  <2>2. CASE ~Claimable(a)
    <3>1. poll'.pc = "launch" /\ poll'.tracked = poll.tracked
      BY <1>0, <1>5, <2>2 DEF Claim, PollLocals
    <3> QED  BY <1>1, <3>1
  <2> QED  BY <2>1, <2>2
<1>6. ASSUME StartLoopFails \/ \E r \in RunIds : StartLoop(r) PROVE TrackInv'
  <2>1. /\ poll'.pc \in {"record", "fail"} /\ poll'.id = poll.id
        /\ poll'.tracked = poll.tracked /\ rows' = rows /\ poll.pc = "start"
    BY <1>0, <1>6 DEF StartLoop, StartLoopFails, store, PollLocals
  <2> QED  BY <1>1, <2>1 DEF TrackInv, Completed
<1>7. ASSUME RecordRun \/ (RecordFailure /\ rows[poll.id] # NoRow)
      PROVE  TrackInv'
  <2>1. CASE rows[poll.id] # NoRow
    <3>1. poll'.pc = "launch" /\ poll'.tracked = poll.tracked
      BY <1>0, <1>7, <2>1 DEF RecordRun, RecordFailure, Launched, PollLocals
    <3> QED  BY <1>1, <3>1
  <2>2. CASE rows[poll.id] = NoRow
    <3>1. /\ poll'.pc = "fail" /\ poll'.id = poll.id
          /\ poll'.tracked = poll.tracked /\ rows' = rows
      BY <1>0, <1>7, <2>2 DEF RecordRun, PollLocals
    <3> QED  BY <1>1, <2>2, <3>1 DEF Completed
  <2> QED  BY <2>1, <2>2
<1>8. ASSUME \/ RecordFailure /\ rows[poll.id] = NoRow
             \/ Report /\ rows[poll.id] = NoRow
             \/ RefreshRaises \/ PollEnd
      PROVE  poll' = Idle
  BY <1>8 DEF RecordFailure, Report, RefreshRaises, PollEnd, Abandon
<1>9. ASSUME RefreshBegin PROVE TrackInv'
  <2>1. /\ poll'.pc = "refresh" /\ rows' = rows
        /\ poll'.tracked = {[id |-> a, alarm |-> rows[a]] :
                            a \in {b \in Live : rows[b].run # NoRun}}
    BY <1>0, <1>9 DEF RefreshBegin, store, PollLocals
  <2> QED  BY <2>1 DEF TrackInv
<1>10. ASSUME NEW t \in poll.tracked, RefreshRead(t) PROVE TrackInv'
  <2> DEFINE answer == Answer(t.alarm.run)
  <2>1. t.id \in Ids /\ t.alarm \in Alarm /\ rows' = rows /\ runs' = runs
    BY <1>0, <1>10 DEF PollLocals, RefreshRead, store
  <2>2. poll'.tracked = poll.tracked \ {t}
    BY <1>0, <1>10 DEF RefreshRead, PollLocals
  <2>3. CASE InProgress(answer)
    <3>1. poll'.pc = "refresh"
      BY <1>0, <1>10, <2>3 DEF RefreshRead, PollLocals
    <3> QED  BY <1>1, <2>2, <3>1
  <2>4. CASE ~InProgress(answer)
    <3>1. /\ poll'.pc = "report" /\ poll'.id = t.id
          /\ poll'.copy = Outcome(t.alarm, answer)
      BY <1>0, <1>10, <2>4 DEF RefreshRead, PollLocals
    <3>2. ASSUME Outcome(t.alarm, answer).status = "failed", Completed(rows[t.id])
          PROVE  ~runs[rows[t.id].run].known
      <4>1. rows[t.id].run = t.alarm.run
        BY <3>2 DEF TrackInv
      <4>2. runs[rows[t.id].run].state = "completed"
        BY <2>1, <3>2 DEF RowInv, Sound, Completed
      <4>3. answer # "completed"
        BY <2>1, <3>2 DEF Outcome, CompletedForm, Alarm
      <4> QED  BY <4>1, <4>2, <4>3 DEF Answer
    <3>3. \A u \in poll'.tracked : u.id # t.id
      BY <2>2 DEF TrackInv
    <3> QED  BY <2>1, <2>2, <3>1, <3>2, <3>3 DEF TrackInv, Completed
  <2> QED  BY <2>3, <2>4
<1>11. ASSUME Report, rows[poll.id] # NoRow PROVE TrackInv'
  <2>1. poll'.pc = "refresh" /\ poll'.tracked = poll.tracked
    BY <1>0, <1>11 DEF Report, PollLocals
  <2> QED  BY <1>1, <2>1
<1>12. CASE Poll
  BY <1>3, <1>4, <1>5, <1>6, <1>7, <1>8, <1>9, <1>10, <1>11, <1>12 DEF Poll
<1> QED  BY <1>2, <1>3, <1>12, PollSame

\* In every state the inductive invariant holds, and what the scheduler holds
\* about completed alarms is what TrackInv says.
THEOREM TrackInvariant == Spec => [](IInv /\ TrackInv)
<1>1. Init => TrackInv
  BY DEF Init, Idle, TrackInv
<1>2. IInv /\ TrackInv /\ [Next]_vars => TrackInv'
  BY TrackStep
<1>3. IInv /\ TrackInv /\ [Next]_vars => (IInv /\ TrackInv)'
  BY <1>2, TypeStep, RowStep, EditStep, LaunchStep, RefreshStep, UntrackedStep,
     DutyStep
  DEF IInv
<1> QED  BY InductiveInit, <1>1, <1>3, PTL DEF Spec

\* The scheduler turns a completed alarm into anything else only when the loop
\* service lost its run; otherwise only an edit changes the status.
THEOREM CompletedFinal == Spec => CompletedStays
<1>1. ASSUME IInv, TrackInv, [Next]_vars, NEW a \in Ids
      PROVE  /\ rows[a] # NoRow /\ rows[a].status = "completed"
             /\ rows'[a] # NoRow /\ rows'[a].status # "completed"
             => \/ rows'[a].status \in {"scheduled", "disabled"}
                \/ /\ rows'[a].status = "failed"
                   /\ ~runs[rows[a].run].known
  <2> SUFFICES ASSUME Completed(rows[a]), rows'[a] # NoRow, rows'[a].status # "completed"
               PROVE  \/ rows'[a].status \in {"scheduled", "disabled"}
                      \/ rows'[a].status = "failed" /\ ~runs[rows[a].run].known
    BY DEF Completed
  <2>1. TypeOK /\ rows'[a] # rows[a]
    BY <1>1 DEF IInv, Completed
  <2>2. ~Claimable(a)
    BY DEF Claimable, Due, Completed
  <2>3. ~(RecordRun /\ a = poll.id) /\ ~(RecordFailure /\ a = poll.id)
    BY <1>1 DEF TrackInv, RecordRun, RecordFailure
  <2>4. ASSUME Report, a = poll.id, rows'[a] = poll.copy
        PROVE  rows'[a].status = "failed" /\ ~runs[rows[a].run].known
    BY <1>1, <2>4 DEF Report, IInv, RefreshInv, TrackInv
  <2>5. ASSUME NEW def \in Defs, NEW at \in Times, NEW on \in BOOLEAN,
               rows'[a] = NewAlarm(def, at, on)
        PROVE  rows'[a].status \in {"scheduled", "disabled"}
    BY <2>5 DEF NewAlarm
  <2>6. ASSUME NEW e \in Editors, EditWrite(e), rows'[a] = edit[e].copy
        PROVE  rows'[a].status \in {"scheduled", "disabled"}
    BY <1>1, <2>6 DEF EditWrite, IInv, EditInv
  <2> QED  BY <1>1, <2>1, <2>2, <2>3, <2>4, <2>5, <2>6, RowWritten
<1>2. IInv /\ TrackInv /\ [Next]_vars =>
      [\A a \in Ids :
         /\ rows[a] # NoRow /\ rows[a].status = "completed"
         /\ rows'[a] # NoRow /\ rows'[a].status # "completed"
         => \/ rows'[a].status \in {"scheduled", "disabled"}
            \/ /\ rows'[a].status = "failed"
               /\ ~runs[rows[a].run].known]_vars
  BY <1>1
<1> QED  BY TrackInvariant, <1>2, PTL DEF Spec, CompletedStays

=============================================================================
