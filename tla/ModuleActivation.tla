-------------------------- MODULE ModuleActivation --------------------------
(***************************************************************************)
(* Switching the application between stable-only and all-modules mode: the *)
(* application registry is rebuilt under a lock, the only module with a    *)
(* background service (agent_alarms) is deactivated before and registered  *)
(* after, and its scheduler thread is started and stopped accordingly.     *)
(*                                                                         *)
(* Request threads run get_application_registry, toggle the setting, or    *)
(* use the alarms view, whose provider starts the service on first use.    *)
(***************************************************************************)
EXTENDS Integers, FiniteSets

CONSTANTS
  Requests,     \* request threads
  Kinds,        \* what they may ask: a subset of AllKinds
  MaxRequests,  \* bound: requests started
  MaxThreads,   \* bound: scheduler threads created
  MaxBuilds,    \* bound: alarm providers registered
  MaxFaults     \* bound: rebuilds that raise

Modes    == {"stable", "dev"}
AllKinds == {"toggle", "list", "use"}
Threads  == 1 .. MaxThreads

ASSUME KindsAssumption == Kinds \subseteq AllKinds
ASSUME RequestsAssumption == "free" \notin Requests
ASSUME BoundsAssumption ==
  {MaxRequests, MaxThreads, MaxBuilds, MaxFaults} \subseteq Nat

VARIABLES
  setting,   \* ui.show_development_modules
  mode,      \* _application_registry_mode
  active,    \* agent_alarms is in _active_module_names
  provider,  \* the alarms entry of _providers: 0 or the build it is from
  cached,    \* builds whose provider object holds the service already
  builds,    \* alarm providers registered so far
  lock,      \* who holds _registry_lock: a request or "free"
  req,       \* the locals of each request thread
  stop,      \* the service's _stop_event
  current,   \* the service's _scheduler_thread: 0 or a thread
  thread,    \* what each scheduler thread does
  count,     \* the counters behind the bounds
  late       \* history: a view started the service during a rebuild, or
             \* through a provider that a rebuild had dropped

registry == <<mode, active, provider, cached, builds>>
service  == <<stop, current, thread>>
vars     == <<setting, registry, lock, req, service, count, late>>

Resting == [pc |-> "idle", kind |-> "list", seen |-> "stable",
            looked |-> FALSE, held |-> 0]

Init ==
  /\ setting \in Modes
  /\ mode = "none"
  /\ active = FALSE
  /\ provider = 0
  /\ cached = {}
  /\ builds = 0
  /\ lock = "free"
  /\ req = [q \in Requests |-> Resting]
  /\ stop = FALSE
  /\ current = 0
  /\ thread = [t \in Threads |-> "unborn"]
  /\ count = [requests |-> 0, faults |-> 0]
  /\ late = FALSE

Goto(q, pc) == req' = [req EXCEPT ![q].pc = pc]

\* Mutant: a request that is done is not ready for the next one.
Finished(q) == req' = [req EXCEPT ![q].pc = "done"]

Finish(q)   == req' = [req EXCEPT ![q] = Resting]
At(q, pc)   == req[q].pc = pc

Alive(t) == t # 0 /\ thread[t] \in {"check", "poll"}

-----------------------------------------------------------------------------
(* The service *)

NextThread == Cardinality({t \in Threads : thread[t] # "unborn"}) + 1

\* Mutant: whether the thread is alive is not looked at.
StartedAnyway ==
  /\ stop' = FALSE
  /\ NextThread \in Threads
  /\ current' = NextThread
  /\ thread' = [thread EXCEPT ![NextThread] = "check"]

\* ensure_started: under the service's lock, so one step.
EnsureStarted ==
  IF Alive(current)
  THEN UNCHANGED service
  ELSE /\ stop' = FALSE
       /\ NextThread \in Threads
       /\ current' = NextThread
       /\ thread' = [thread EXCEPT ![NextThread] = "check"]

\* _run_scheduler: the stop event is looked at only between polls, and a
\* poll takes as long as the loops it starts take to start.
Check(t) ==
  /\ thread[t] = "check"
  /\ thread' = [thread EXCEPT ![t] = IF stop THEN "exited" ELSE "poll"]
  /\ UNCHANGED <<setting, registry, lock, req, stop, current, count, late>>

PollReturns(t) ==
  /\ thread[t] = "poll"
  /\ thread' = [thread EXCEPT ![t] = "check"]
  /\ UNCHANGED <<setting, registry, lock, req, stop, current, count, late>>

-----------------------------------------------------------------------------
(* Requests *)

\* set_development_modules_enabled stores the setting, then refreshes.
StartToggle(q, value) ==
  /\ At(q, "idle") /\ "toggle" \in Kinds
  /\ count.requests < MaxRequests
  /\ count' = [count EXCEPT !.requests = @ + 1]
  /\ setting' = value
  /\ req' = [req EXCEPT ![q] = [Resting EXCEPT !.pc = "refresh", !.kind = "toggle"]]
  /\ UNCHANGED <<registry, lock, service, late>>

Start(q, kind) ==
  /\ At(q, "idle") /\ kind \in Kinds \ {"toggle"}
  /\ count.requests < MaxRequests
  /\ count' = [count EXCEPT !.requests = @ + 1]
  /\ req' = [req EXCEPT ![q] = [Resting EXCEPT !.pc = "read", !.kind = kind]]
  /\ UNCHANGED <<setting, registry, lock, service, late>>

\* get_application_registry reads the setting before it takes the lock.
ReadSetting(q) ==
  /\ At(q, "read")
  /\ req' = [req EXCEPT ![q] = [@ EXCEPT !.pc = "get", !.seen = setting]]
  /\ UNCHANGED <<setting, registry, lock, service, count, late>>

\* What a request does with the registry it got: a list ends, the alarms
\* view is looked up first (unknown outside dev mode), then its provider.
AfterGet(q, got) ==
  CASE req[q].kind = "use" /\ ~req[q].looked /\ got = "dev" ->
         req' = [req EXCEPT ![q] = [@ EXCEPT !.pc = "read", !.looked = TRUE]]
    [] req[q].kind = "use" /\ req[q].looked -> Goto(q, "fetch")
    [] OTHER -> Finish(q)

Get(q) ==
  /\ At(q, "get") /\ lock = "free"
  /\ IF mode = req[q].seen
     THEN AfterGet(q, mode) /\ UNCHANGED lock
     ELSE lock' = q /\ Goto(q, "stop")
  /\ UNCHANGED <<setting, registry, service, count, late>>

\* refresh_application_registry reads the setting under the lock.
Refresh(q) ==
  /\ At(q, "refresh") /\ lock = "free"
  /\ lock' = q
  /\ req' = [req EXCEPT ![q] = [@ EXCEPT !.pc = "stop", !.seen = setting]]
  /\ UNCHANGED <<setting, registry, service, count, late>>

\* Mutant: the stop event is not set.
DeactivateUnheard(q) ==
  /\ At(q, "stop")
  /\ Goto(q, IF active THEN "join" ELSE "clear")
  /\ UNCHANGED <<setting, registry, lock, service, count, late>>

\* _deactivate_loaded_modules: shutdown sets the event ...
Deactivate(q) ==
  /\ At(q, "stop")
  /\ IF active THEN stop' = TRUE /\ Goto(q, "join")
               ELSE UNCHANGED stop /\ Goto(q, "clear")
  /\ UNCHANGED <<setting, registry, lock, current, thread, count, late>>

\* Mutant: join without a timeout.
JoinUntilExit(q) ==
  /\ At(q, "join")
  /\ ~Alive(current)
  /\ Goto(q, "clear")
  /\ UNCHANGED <<setting, registry, lock, service, count, late>>

\* ... and waits until the thread has exited or five seconds have passed. A
\* thread that is not in a poll sees the event at once.
Join(q) ==
  /\ At(q, "join")
  /\ Alive(current) /\ thread[current] = "check" => ~stop
  /\ Goto(q, "clear")
  /\ UNCHANGED <<setting, registry, lock, service, count, late>>

\* Mutant: the providers of the modules that go are kept.
ClearActiveOnly(q) ==
  /\ At(q, "clear")
  /\ active' = FALSE
  /\ Goto(q, IF req[q].seen = "dev" THEN "register" ELSE "publish")
  /\ UNCHANGED <<setting, mode, provider, cached, builds, lock, service, count, late>>

ClearProviders(q) ==
  /\ At(q, "clear")
  /\ active' = FALSE
  /\ provider' = 0
  /\ Goto(q, IF req[q].seen = "dev" THEN "register" ELSE "publish")
  /\ UNCHANGED <<setting, mode, cached, builds, lock, service, count, late>>

\* register of agent_alarms: the provider first, then the service.
Register(q) ==
  /\ At(q, "register") /\ builds < MaxBuilds
  /\ builds' = builds + 1
  /\ provider' = builds + 1
  /\ Goto(q, "start")
  /\ UNCHANGED <<setting, mode, active, cached, lock, service, count, late>>

StartService(q) ==
  /\ At(q, "start")
  /\ EnsureStarted
  /\ Goto(q, "publish")
  /\ UNCHANGED <<setting, registry, lock, count, late>>

\* The rebuild is done; a toggle goes on to get_module_activation.
Publish(q) ==
  /\ At(q, "publish")
  /\ mode' = req[q].seen
  /\ active' = (req[q].seen = "dev")
  /\ lock' = "free"
  /\ IF req[q].kind = "toggle"
     THEN req' = [req EXCEPT ![q] = [@ EXCEPT !.pc = "read", !.kind = "list"]]
     ELSE AfterGet(q, req[q].seen)
  /\ UNCHANGED <<setting, provider, cached, builds, service, count, late>>

\* Another module's manifest or register raises: the lock is released and
\* what was done so far stays.
BuildFails(q) ==
  /\ req[q].pc \in {"register", "publish"}
  /\ count.faults < MaxFaults
  /\ count' = [count EXCEPT !.faults = @ + 1]
  /\ lock' = "free"
  /\ Finish(q)
  /\ UNCHANGED <<setting, registry, service, late>>

\* _providers is read without the lock.
Fetch(q) ==
  /\ At(q, "fetch")
  /\ IF provider = 0
     THEN Finish(q)
     ELSE req' = [req EXCEPT ![q] = [@ EXCEPT !.pc = "service", !.held = provider]]
  /\ UNCHANGED <<setting, registry, lock, service, count, late>>

\* AgentAlarmsModuleViewProvider.service: the first use of a provider calls
\* get_agent_alarm_service, which starts the scheduler.
UseService(q) ==
  /\ At(q, "service")
  /\ IF req[q].held \in cached
     THEN UNCHANGED <<cached, service>>
     ELSE EnsureStarted /\ cached' = cached \cup {req[q].held}
  /\ late' = (late \/ (req[q].held \notin cached /\ ~Alive(current)
                        /\ (lock # "free" \/ req[q].held # provider)))
  /\ Finish(q)
  /\ UNCHANGED <<setting, mode, active, provider, builds, lock, count>>

\* What a request thread does by itself, once started.
Proceed(q) ==
  \/ ReadSetting(q) \/ Get(q) \/ Refresh(q) \/ Deactivate(q) \/ Join(q)
  \/ ClearProviders(q) \/ Register(q) \/ StartService(q) \/ Publish(q)
  \/ BuildFails(q) \/ Fetch(q) \/ UseService(q)

Next ==
  \/ \E q \in Requests :
       \/ \E value \in Modes : StartToggle(q, value)
       \/ \E kind \in AllKinds : Start(q, kind)
       \/ Proceed(q)
  \/ \E t \in Threads : Check(t) \/ PollReturns(t)

Spec == Init /\ [][Next]_vars

-----------------------------------------------------------------------------
(* Fairness: a request that was started runs on, and the scheduler thread   *)
(* is scheduled. That polls return is a separate assumption: start_loop may *)
(* hang.                                                                    *)

ThreadsRun ==
  /\ \A q \in Requests : WF_vars(Proceed(q))
  /\ \A t \in Threads : WF_vars(Check(t))

PollsReturn == \A t \in Threads : WF_vars(PollReturns(t))

RunSpec  == Spec /\ ThreadsRun
FairSpec == Spec /\ ThreadsRun /\ PollsReturn

-----------------------------------------------------------------------------
(* Properties *)

TypeOK ==
  /\ setting \in Modes
  /\ mode \in Modes \cup {"none"}
  /\ active \in BOOLEAN
  /\ provider \in 0 .. MaxBuilds
  /\ cached \in SUBSET (0 .. MaxBuilds)
  /\ builds \in 0 .. MaxBuilds
  /\ lock \in Requests \cup {"free"}
  /\ req \in [Requests ->
       [pc: {"idle", "read", "get", "refresh", "stop", "join", "clear",
             "register", "start", "publish", "fetch", "service"},
        kind: AllKinds, seen: Modes, looked: BOOLEAN, held: 0 .. MaxBuilds]]
  /\ stop \in BOOLEAN
  /\ current \in 0 .. MaxThreads
  /\ thread \in [Threads -> {"unborn", "check", "poll", "exited"}]
  /\ count \in [requests: 0 .. MaxRequests, faults: 0 .. MaxFaults]
  /\ late \in BOOLEAN

\* There is never more than one scheduler thread, although register and any
\* number of view requests call ensure_started and a shutdown may give up on
\* a thread that is still in a poll.
AtMostOneThread == Cardinality({t \in Threads : Alive(t)}) <= 1

\* Between rebuilds the registry, the providers and the set of modules to
\* deactivate belong to the same mode, whoever rebuilt and in which order,
\* until a rebuild raises half way.
ActivationMatches ==
  lock = "free" /\ count.faults = 0 => /\ active <=> mode = "dev"
                                      /\ provider # 0 <=> mode = "dev"

\* Every request ends, even while start_loop hangs in the scheduler thread:
\* deactivation waits for it only so long.
RequestsEnd == \A q \in Requests : ~At(q, "idle") ~> At(q, "idle")

SomeAlive == \E t \in Threads : Alive(t)

\* While polls return, the scheduler thread of a published stable-only
\* registry ends although deactivation stops waiting for it, unless a rebuild
\* raised or a late view request started the service again.
StableStops ==
  PollsReturn =>
    (mode = "stable" /\ lock = "free" /\ count.faults = 0 /\ ~late
       ~> mode # "stable" \/ ~SomeAlive)

Quiet(value) == setting = value /\ \A q \in Requests : At(q, "idle")

\* In stable-only mode, with every request done, no scheduler thread is left.
StableOnlyIsQuiet == <>[]Quiet("stable") => <>[]~SomeAlive

=============================================================================
