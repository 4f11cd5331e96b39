---------------------------- MODULE AgentAlarms ----------------------------
(***************************************************************************)
(* The agent_alarms module: alarms are rows of an SQLite table, a single   *)
(* scheduler thread polls the table, launches what is due through the      *)
(* external loop service and reports how the launched runs ended, while    *)
(* request handlers create, edit and delete alarms from other threads.     *)
(*                                                                         *)
(* Every repository call is atomic (one connection under an RLock); the    *)
(* service composes calls without a lock of its own, so each action below  *)
(* is one repository call or one call of the loop service.                 *)
(***************************************************************************)
EXTENDS Integers, FiniteSets

CONSTANTS
  Defs,       \* what an alarm runs: (name, agent_id, prompt, model_id)
  Editors,    \* request threads that may be inside update_alarm
  NoRow,      \* the row of an id that is unused or deleted
  MaxId,      \* bound: ids handed out by AUTOINCREMENT
  MaxRuns,    \* bound: identified runs the loop service starts
  MaxClock,   \* bound: ticks of the clock
  MaxEdits,   \* bound: edits requested
  MaxFaults,  \* bound: get_loop_run calls that raise, runs forgotten
  MaxCrashes  \* bound: restarts of the process

Ids    == 1 .. MaxId
RunIds == 1 .. MaxRuns
Times  == 0 .. MaxClock
NoRun  == 0

Statuses  == {"scheduled", "running", "completed", "failed", "disabled"}
RunStates == {"unborn", "running", "completed", "failed"}

\* An alarm. completed and error say whether completed_at and last_error are
\* set; started_at and last_result are left out.
Alarm == [def: Defs, at: Times, enabled: BOOLEAN, status: Statuses,
          run: RunIds \cup {NoRun},
          completed: BOOLEAN, error: BOOLEAN]

Request == [def: Defs, at: Times, enabled: {"on", "off", "absent"}]

ASSUME DefsAssumption == Defs # {}
ASSUME BoundsAssumption ==
  /\ MaxId \in Nat /\ MaxRuns \in Nat /\ MaxClock \in Nat
  /\ MaxEdits \in Nat /\ MaxFaults \in Nat /\ MaxCrashes \in Nat
ASSUME NoRowAssumption == NoRow \notin Alarm

VARIABLES
  rows,     \* the table: Ids -> Alarm or NoRow
  lastId,   \* the AUTOINCREMENT sequence
  clock,    \* utc_now
  runs,     \* the loop service: RunIds -> [alarm, birth, def, state, known]
  poll,     \* the scheduler thread's locals
  edit,     \* each request thread's locals inside update_alarm
  count,    \* the counters behind the bounds
  \* History, read by the properties only:
  births,   \* how many times create_alarm inserted a row
  birth,    \* Ids -> the number of the create_alarm that made the row
  arms,     \* Ids -> how often the row was written "scheduled"
  launches, \* Ids -> how often start_loop was called and started a loop
  lost      \* ids claimed by a scheduler that died before it wrote again

store   == <<rows, lastId>>
history == <<births, birth, arms, launches, lost>>
vars    == <<rows, lastId, clock, runs, poll, edit, count, history>>

-----------------------------------------------------------------------------
(* Records *)

Live == {a \in Ids : rows[a] # NoRow}

\* Mutant: an alarm that runs already is due again.
DueAnyStatus(alarm, now) == alarm.enabled /\ alarm.at <= now

Due(alarm, now) ==
  alarm.enabled /\ alarm.status = "scheduled" /\ alarm.at <= now

NewAlarm(def, at, on) ==
  [def |-> def, at |-> at, enabled |-> on,
   status |-> IF on THEN "scheduled" ELSE "disabled", run |-> NoRun,
   completed |-> FALSE, error |-> FALSE]

\* Mutant: the claim is not visible in the stored status.
ClaimedStillScheduled(alarm) ==
  [alarm EXCEPT !.completed = FALSE, !.run = NoRun, !.error = FALSE]

\* What claim_due_alarm stores.
ClaimedForm(alarm) ==
  [alarm EXCEPT !.status = "running", !.completed = FALSE, !.run = NoRun,
                !.error = FALSE]

CompletedForm(alarm) ==
  [alarm EXCEPT !.status = "completed", !.enabled = FALSE,
                !.completed = TRUE, !.error = FALSE]

\* Mutant: a failed alarm is not switched off.
FailedStillEnabled(alarm) ==
  [alarm EXCEPT !.status = "failed", !.completed = TRUE, !.error = TRUE]

FailedForm(alarm) ==
  [alarm EXCEPT !.status = "failed", !.enabled = FALSE,
                !.completed = TRUE, !.error = TRUE]

\* _apply_updates: whatever ends up scheduled or enabled is re-armed from
\* scratch, everything else is disabled.
Merged(alarm, req) ==
  [alarm EXCEPT !.def = req.def, !.at = req.at,
                !.enabled = IF req.enabled = "absent" THEN @
                            ELSE req.enabled = "on"]

\* Mutant: an edit leaves an alarm that runs running.
ApplyUpdatesWhileRunning(alarm, req) ==
  LET merged == Merged(alarm, req) IN
  IF merged.status = "running" /\ merged.enabled THEN merged
  ELSE IF merged.status = "scheduled" \/ merged.enabled
  THEN NewAlarm(merged.def, merged.at, TRUE)
  ELSE [merged EXCEPT !.status = "disabled", !.enabled = FALSE]

ApplyUpdates(alarm, req) ==
  LET merged == Merged(alarm, req) IN
  IF merged.status = "scheduled" \/ merged.enabled
  THEN NewAlarm(merged.def, merged.at, TRUE)
  ELSE [merged EXCEPT !.status = "disabled", !.enabled = FALSE]

-----------------------------------------------------------------------------
(* Initial state *)

NoAlarm == NewAlarm(CHOOSE d \in Defs : TRUE, 0, FALSE)

Idle == [pc |-> "wait", now |-> 0, due |-> {}, tracked |-> {},
         id |-> 0, copy |-> NoAlarm, run |-> NoRun]

Resting == [pc |-> "idle", id |-> 0, copy |-> NoAlarm]

Init ==
  /\ rows = [a \in Ids |-> NoRow]
  /\ lastId = 0
  /\ clock = 0
  /\ runs = [r \in RunIds |-> [alarm |-> 0, birth |-> 0,
                               def |-> NoAlarm.def, state |-> "unborn",
                               known |-> FALSE]]
  /\ poll = Idle
  /\ edit = [e \in Editors |-> Resting]
  /\ count = [edits |-> 0, faults |-> 0, crashes |-> 0]
  /\ births = 0
  /\ birth = [a \in Ids |-> 0]
  /\ arms = [a \in Ids |-> 0]
  /\ launches = [a \in Ids |-> 0]
  /\ lost = {}

-----------------------------------------------------------------------------
(* The scheduler thread: poll_once *)

\* list_due. Only the ids are used afterwards; their order is left open.
PollBegin ==
  /\ poll.pc = "wait"
  /\ poll' = [Idle EXCEPT !.pc = "launch", !.now = clock,
                          !.due = {a \in Live : Due(rows[a], clock)}]
  /\ UNCHANGED <<store, clock, runs, edit, count, history>>

\* claim_due_alarm reads the row again: an alarm that was edited or deleted
\* since list_due is left alone.
Claimable(a) == rows[a] # NoRow /\ Due(rows[a], poll.now)

Claim(a) ==
  /\ poll.pc = "launch" /\ a \in poll.due
  /\ IF Claimable(a)
     THEN /\ rows' = [rows EXCEPT ![a] = ClaimedForm(@)]
          /\ poll' = [poll EXCEPT !.pc = "start", !.due = @ \ {a}, !.id = a,
                                  !.copy = ClaimedForm(rows[a])]
     ELSE /\ poll' = [poll EXCEPT !.due = @ \ {a}]
          /\ UNCHANGED rows
  /\ UNCHANGED <<lastId, clock, runs, edit, count, history>>

\* start_loop returns an identified run.
StartLoop(r) ==
  /\ poll.pc = "start" /\ runs[r].state = "unborn"
  /\ runs' = [runs EXCEPT ![r] = [alarm |-> poll.id, birth |-> birth[poll.id],
                                  def |-> poll.copy.def, state |-> "running",
                                  known |-> TRUE]]
  /\ launches' = [launches EXCEPT ![poll.id] = @ + 1]
  /\ poll' = [poll EXCEPT !.pc = "record", !.run = r]
  /\ UNCHANGED <<store, clock, edit, count, births, birth, arms, lost>>

\* Mutant: an exception of start_loop is not turned into a failed alarm.
StartLoopAbandoned ==
  /\ poll.pc = "start"
  /\ poll' = Idle
  /\ UNCHANGED <<store, clock, runs, edit, count, history>>

\* start_loop raises, or starts a loop it returns no identifier of.
StartLoopFails ==
  /\ poll.pc = "start"
  /\ \/ UNCHANGED launches
     \/ launches' = [launches EXCEPT ![poll.id] = @ + 1]
  /\ poll' = [poll EXCEPT !.pc = "fail"]
  /\ UNCHANGED <<store, clock, runs, edit, count, births, birth, arms, lost>>

\* Mutant: an exception ends the scheduler thread.
Die == poll' = [Idle EXCEPT !.pc = "dead"]

\* An exception reaches _run_scheduler, which swallows it: the rest of the
\* poll is given up and the thread waits for the next one.
Abandon == poll' = Idle

Launched == [poll EXCEPT !.pc = "launch", !.id = 0, !.copy = NoAlarm,
                         !.run = NoRun]

\* Mutant: the run id is written into the row as it is now.
RecordRunInRow ==
  /\ poll.pc = "record"
  /\ IF rows[poll.id] # NoRow
     THEN /\ rows' = [rows EXCEPT ![poll.id].run = poll.run,
                                  ![poll.id].status = "running",
                                  ![poll.id].enabled = TRUE]
          /\ poll' = Launched
     ELSE /\ poll' = [poll EXCEPT !.pc = "fail"]
          /\ UNCHANGED rows
  /\ UNCHANGED <<lastId, clock, runs, edit, count, history>>

\* update(claimed + run id); a deleted row raises into the except branch.
RecordRun ==
  /\ poll.pc = "record"
  /\ IF rows[poll.id] # NoRow
     THEN /\ rows' = [rows EXCEPT ![poll.id] = [poll.copy EXCEPT !.run = poll.run]]
          /\ poll' = Launched
     ELSE /\ poll' = [poll EXCEPT !.pc = "fail"]
          /\ UNCHANGED rows
  /\ UNCHANGED <<lastId, clock, runs, edit, count, history>>

\* The except branch of _launch_alarm, whose own update may raise.
RecordFailure ==
  /\ poll.pc = "fail"
  /\ IF rows[poll.id] # NoRow
     THEN rows' = [rows EXCEPT ![poll.id] = FailedForm(poll.copy)] /\ poll' = Launched
     ELSE Abandon /\ UNCHANGED rows
  /\ UNCHANGED <<lastId, clock, runs, edit, count, history>>

\* list_tracking: whole records, written back later.
RefreshBegin ==
  /\ poll.pc = "launch" /\ poll.due = {}
  /\ poll' = [poll EXCEPT !.pc = "refresh",
                !.tracked = {[id |-> a, alarm |-> rows[a]] :
                             a \in {b \in Live : rows[b].run # NoRun}}]
  /\ UNCHANGED <<store, clock, runs, edit, count, history>>

\* What get_loop_run answers.
Answer(r) == IF runs[r].known THEN runs[r].state ELSE "unknown"

\* Mutant: whatever did not fail is taken to have completed.
OutcomeUnlessFailed(alarm, answer) ==
  IF answer = "failed" THEN FailedForm(alarm) ELSE CompletedForm(alarm)

Outcome(alarm, answer) ==
  IF answer = "completed" THEN CompletedForm(alarm) ELSE FailedForm(alarm)

\* Mutant: a run the loop service does not know is taken to be still running.
InProgressOrUnknown(answer) == answer \in {"running", "unknown"}

InProgress(answer) == answer = "running"

\* A run in progress is left alone, an unknown one has failed.
RefreshRead(t) ==
  /\ poll.pc = "refresh" /\ t \in poll.tracked
  /\ LET answer == Answer(t.alarm.run) IN
     poll' = IF InProgress(answer)
             THEN [poll EXCEPT !.tracked = @ \ {t}]
             ELSE [poll EXCEPT !.pc = "report", !.tracked = @ \ {t},
                     !.id = t.id, !.copy = Outcome(t.alarm, answer)]
  /\ UNCHANGED <<store, clock, runs, edit, count, history>>

\* get_loop_run raises.
RefreshRaises ==
  /\ poll.pc = "refresh" /\ poll.tracked # {}
  /\ count.faults < MaxFaults
  /\ count' = [count EXCEPT !.faults = @ + 1]
  /\ Abandon
  /\ UNCHANGED <<store, clock, runs, edit, history>>

\* update(completed) or update(failed).
Report ==
  /\ poll.pc = "report"
  /\ IF rows[poll.id] # NoRow
     THEN /\ rows' = [rows EXCEPT ![poll.id] = poll.copy]
          /\ poll' = [poll EXCEPT !.pc = "refresh", !.id = 0, !.copy = NoAlarm]
     ELSE Abandon /\ UNCHANGED rows
  /\ UNCHANGED <<lastId, clock, runs, edit, count, history>>

PollEnd ==
  /\ poll.pc = "refresh" /\ poll.tracked = {}
  /\ poll' = Idle
  /\ UNCHANGED <<store, clock, runs, edit, count, history>>

Poll ==
  \/ PollBegin
  \/ \E a \in Ids : Claim(a)
  \/ \E r \in RunIds : StartLoop(r)
  \/ StartLoopFails
  \/ RecordRun
  \/ RecordFailure
  \/ RefreshBegin
  \/ \E t \in poll.tracked : RefreshRead(t)
  \/ RefreshRaises
  \/ Report
  \/ PollEnd

-----------------------------------------------------------------------------
(* Request threads *)

\* Mutant: the id of a deleted alarm is handed out again.
NextFreeRowId == 1 + Cardinality(Live)

NextRowId == lastId + 1

CreateAlarm(def, at, on) ==
  LET a == NextRowId IN
  /\ a \in Ids
  /\ rows' = [rows EXCEPT ![a] = NewAlarm(def, at, on)]
  /\ lastId' = a
  /\ births' = births + 1
  /\ birth' = [birth EXCEPT ![a] = births + 1]
  /\ arms' = [arms EXCEPT ![a] = IF on THEN @ + 1 ELSE @]
  /\ UNCHANGED <<clock, runs, poll, edit, count, launches, lost>>

\* update_alarm: the row is read ...
EditRead(e, a, req) ==
  /\ edit[e].pc = "idle" /\ rows[a] # NoRow
  /\ count.edits < MaxEdits
  /\ count' = [count EXCEPT !.edits = @ + 1]
  /\ edit' = [edit EXCEPT ![e] = [pc |-> "write", id |-> a,
                                  copy |-> ApplyUpdates(rows[a], req)]]
  /\ UNCHANGED <<store, clock, runs, poll, history>>

\* ... and written whole, whatever happened to it in between.
EditWrite(e) ==
  LET a == edit[e].id IN
  /\ edit[e].pc = "write"
  /\ edit' = [edit EXCEPT ![e] = Resting]
  /\ IF rows[a] # NoRow
     THEN /\ rows' = [rows EXCEPT ![a] = edit[e].copy]
          /\ arms' = [arms EXCEPT ![a] = IF edit[e].copy.status = "scheduled"
                                         THEN @ + 1 ELSE @]
          /\ lost' = lost \ {a}
     ELSE UNCHANGED <<rows, arms, lost>>
  /\ UNCHANGED <<lastId, clock, runs, poll, count, births, birth, launches>>

DeleteAlarm(a) ==
  /\ rows[a] # NoRow
  /\ rows' = [rows EXCEPT ![a] = NoRow]
  /\ lost' = lost \ {a}
  /\ UNCHANGED <<lastId, clock, runs, poll, edit, count, births, birth, arms,
                 launches>>

-----------------------------------------------------------------------------
(* Environment *)

\* The scheduler thread is between the claim of a and the write after it.
Launching(a) == poll.pc \in {"start", "record", "fail"} /\ poll.id = a

Untracked(a) == rows[a].status = "running" /\ rows[a].run = NoRun

Tick ==
  /\ clock < MaxClock
  /\ clock' = clock + 1
  /\ UNCHANGED <<store, runs, poll, edit, count, history>>

RunEnds(r, state) ==
  /\ runs[r].state = "running"
  /\ runs' = [runs EXCEPT ![r].state = state]
  /\ UNCHANGED <<store, clock, poll, edit, count, history>>

\* The loop service no longer knows the run.
RunForgotten(r) ==
  /\ runs[r].known
  /\ count.faults < MaxFaults
  /\ count' = [count EXCEPT !.faults = @ + 1]
  /\ runs' = [runs EXCEPT ![r].known = FALSE]
  /\ UNCHANGED <<store, clock, poll, edit, history>>

\* The process dies and is started again: the threads lose their locals.
Restart ==
  /\ count.crashes < MaxCrashes
  /\ count' = [count EXCEPT !.crashes = @ + 1]
  /\ poll' = Idle
  /\ edit' = [e \in Editors |-> Resting]
  /\ lost' = lost \cup {a \in Live : Launching(a) /\ Untracked(a)}
  /\ UNCHANGED <<store, clock, runs, births, birth, arms, launches>>

Requests ==
  \/ \E def \in Defs, at \in Times, on \in BOOLEAN : CreateAlarm(def, at, on)
  \/ \E e \in Editors, a \in Ids, req \in Request : EditRead(e, a, req)
  \/ \E e \in Editors : EditWrite(e)
  \/ \E a \in Ids : DeleteAlarm(a)

Environment ==
  \/ Tick
  \/ \E r \in RunIds, state \in {"completed", "failed"} : RunEnds(r, state)
  \/ \E r \in RunIds : RunForgotten(r)
  \/ Restart

Next == Poll \/ Requests \/ Environment

Spec == Init /\ [][Next]_vars

\* The scheduler thread runs forever and each call it makes returns, a
\* request handler that has read the row goes on to write it, and the loop
\* service ends every run. Users and failures need not act.
Fairness ==
  /\ WF_vars(Poll)
  /\ \A e \in Editors : WF_vars(EditWrite(e))
  /\ \A r \in RunIds : WF_vars(\E s \in {"completed", "failed"} : RunEnds(r, s))
  /\ WF_vars(Tick)

FairSpec == Spec /\ Fairness

-----------------------------------------------------------------------------
(* Properties *)

PollPcs == {"wait", "launch", "start", "record", "fail", "refresh", "report"}

PollLocals ==
  [pc: PollPcs, now: Times, due: SUBSET Ids,
   tracked: SUBSET [id: Ids, alarm: Alarm],
   id: Ids \cup {0}, copy: Alarm, run: RunIds \cup {NoRun}]

EditLocals == [pc: {"idle", "write"}, id: Ids \cup {0}, copy: Alarm]

Run == [alarm: Ids \cup {0}, birth: Nat, def: Defs, state: RunStates,
        known: BOOLEAN]

Counters == [edits: 0 .. MaxEdits, faults: 0 .. MaxFaults,
             crashes: 0 .. MaxCrashes]

TypeOK ==
  /\ rows \in [Ids -> Alarm \cup {NoRow}]
  /\ lastId \in Ids \cup {0}
  /\ clock \in Times
  /\ runs \in [RunIds -> Run]
  /\ poll \in PollLocals
  /\ poll.pc \in {"start", "record", "fail", "report"} => poll.id \in Ids
  /\ edit \in [Editors -> EditLocals]
  /\ \A e \in Editors : edit[e].pc = "write" => edit[e].id \in Ids
  /\ count \in Counters
  /\ births \in Nat
  /\ birth \in [Ids -> Nat]
  /\ arms \in [Ids -> Nat]
  /\ launches \in [Ids -> Nat]
  /\ lost \in SUBSET Ids

\* Each time an alarm is armed (created enabled, or saved by an edit that
\* re-arms it) it starts at most one loop: list_due, claim, launch, stale
\* writes and restarts never let one arming fire twice.
OneLaunchPerArming == \A a \in Ids : launches[a] <= arms[a]

\* An alarm is enabled exactly while it waits for its time or runs, and one
\* that waits carries nothing over from an earlier run, although three
\* writers overwrite the row with copies they read earlier.
StatusConsistent ==
  \A a \in Live :
    /\ rows[a].enabled <=> rows[a].status \in {"scheduled", "running"}
    /\ rows[a].status = "scheduled" =>
         rows[a].run = NoRun /\ ~rows[a].completed /\ ~rows[a].error

\* The run id in a row names a run that was started for that very alarm, not
\* for a deleted alarm that had the id before: the write after start_loop
\* and the refresh go by the id alone.
RunIdOwned ==
  \A a \in Live : rows[a].run # NoRun =>
    /\ runs[rows[a].run].alarm = a
    /\ runs[rows[a].run].birth = birth[a]

\* A running alarm shows the definition its loop was started with, also when
\* the alarm was edited while start_loop was under way.
RunningShowsItsLoop ==
  \A a \in Live : rows[a].status = "running" /\ rows[a].run # NoRun =>
    runs[rows[a].run].def = rows[a].def

\* An alarm is reported completed only when its loop run did complete.
CompletedIsTrue ==
  \A a \in Live : rows[a].status = "completed" =>
    /\ rows[a].run # NoRun
    /\ runs[rows[a].run].state = "completed"

\* A running alarm without a run id, which no poll will ever look at again,
\* is being launched right now or was claimed by a process that died.
UntrackedOnlyByCrash ==
  \A a \in Live : Untracked(a) => Launching(a) \/ a \in lost

\* The scheduler turns a completed alarm into anything else only when the
\* loop service lost the run; otherwise only an edit changes the status.
CompletedStays ==
  [][\A a \in Ids :
       /\ rows[a] # NoRow /\ rows[a].status = "completed"
       /\ rows'[a] # NoRow /\ rows'[a].status # "completed"
       => \/ rows'[a].status \in {"scheduled", "disabled"}
          \/ /\ rows'[a].status = "failed"
             /\ ~runs[rows[a].run].known]_vars

\* A due alarm is claimed, or edited or deleted first, even if every look at
\* a running loop fails: launching comes first in poll_once.
DueAlarmLeavesQueue ==
  \A a \in Ids :
    rows[a] # NoRow /\ rows[a].status = "scheduled" /\ rows[a].at <= clock
      ~> rows[a] = NoRow \/ rows[a].status # "scheduled" \/ rows[a].at > clock

\* A running alarm does not stay so, unless its launch died with the process.
RunningEnds ==
  \A a \in Ids :
    rows[a] # NoRow /\ rows[a].status = "running"
      ~> rows[a] = NoRow \/ rows[a].status # "running" \/ a \in lost

\* An edit that clears the Enabled box leaves the alarm disabled.
ClearedBoxDisables ==
  [][\A e \in Editors, a \in Ids, def \in Defs, at \in Times :
       EditRead(e, a, [def |-> def, at |-> at, enabled |-> "off"])
         => ~edit'[e].copy.enabled]_vars

-----------------------------------------------------------------------------
(* Refinement *)

Duty == INSTANCE AlarmDuty WITH
  Alarms  <- Ids,
  armed   <- {a \in Live : rows[a].status = "scheduled"},
  claimed <- IF poll.pc = "start" THEN {poll.id} ELSE {},
  armings <- arms,
  firings <- launches

\* The scheduler, the request threads and restarts together keep the promise
\* of AlarmDuty: an alarm fires at most once for each arming, through a claim.
ImplementsDuty == Duty!Spec

=============================================================================
