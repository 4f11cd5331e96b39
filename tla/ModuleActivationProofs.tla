----------------------- MODULE ModuleActivationProofs -----------------------
(***************************************************************************)
(* What ModuleActivation guarantees for every number of request threads,   *)
(* requests, rebuilds and scheduler threads.                               *)
(***************************************************************************)
EXTENDS ModuleActivation, FiniteSetTheorems, TLAPS

-----------------------------------------------------------------------------
(* The inductive invariant *)

\* Where the code is between taking the registry lock and releasing it.
Rebuilding == {"stop", "join", "clear", "register", "start", "publish"}

\* Whoever is in a rebuild holds the lock.
LockInv == \A q \in Requests : req[q].pc \in Rebuilding => lock = q

\* The only scheduler thread that may be alive is the one the service knows.
ThreadInv == \A t \in Threads : Alive(t) => t = current

Together(m) == (active <=> m = "dev") /\ (provider # 0 <=> m = "dev")

\* What a rebuild has done when it is at a step, as long as none has raised.
RebuildInv ==
  count.faults = 0 =>
    /\ lock = "free" => Together(mode)
    /\ \A q \in Requests :
         /\ At(q, "register") => req[q].seen = "dev"
         /\ At(q, "start") => req[q].seen = "dev" /\ provider # 0
         /\ At(q, "publish") => (provider # 0 <=> req[q].seen = "dev")

IInv == TypeOK /\ LockInv /\ ThreadInv /\ RebuildInv

-----------------------------------------------------------------------------
(* Types *)

Locals == [pc: {"idle", "read", "get", "refresh", "stop", "join", "clear",
                "register", "start", "publish", "fetch", "service"},
           kind: AllKinds, seen: Modes, looked: BOOLEAN, held: 0 .. MaxBuilds]

\* The locals of a thread without a request.
LEMMA RestingType == Resting \in Locals
BY BoundsAssumption DEF Resting, Locals, AllKinds, Modes

LEMMA InitInv == Init => IInv
<1> SUFFICES ASSUME Init PROVE IInv
  OBVIOUS
<1>1. TypeOK
  <2>1. req \in [Requests -> Locals]
    BY RestingType DEF Init
  <2>2. /\ current \in 0 .. MaxThreads /\ provider \in 0 .. MaxBuilds
        /\ builds \in 0 .. MaxBuilds
        /\ count \in [requests: 0 .. MaxRequests, faults: 0 .. MaxFaults]
    BY BoundsAssumption DEF Init
  <2> QED  BY <2>1, <2>2 DEF Init, TypeOK, Locals
<1>2. LockInv
  BY DEF Init, LockInv, Rebuilding, Resting
<1>3. ThreadInv
  BY DEF Init, ThreadInv, Alive
<1>4. RebuildInv
  BY DEF Init, RebuildInv, Together, Resting, At
<1> QED  BY <1>1, <1>2, <1>3, <1>4 DEF IInv

\* Starting the service keeps its types, and leaves no second thread.
LEMMA EnsureStartedKeeps ==
  ASSUME TypeOK, ThreadInv, EnsureStarted
  PROVE  /\ stop' \in BOOLEAN /\ current' \in 0 .. MaxThreads
         /\ thread' \in [Threads -> {"unborn", "check", "poll", "exited"}]
         /\ ThreadInv'
<1>1. CASE Alive(current)
  BY <1>1 DEF EnsureStarted, service, TypeOK, ThreadInv, Alive
<1>2. CASE ~Alive(current)
  <2> DEFINE new == NextThread
  <2>1. new \in Threads /\ current' = new /\ stop' = FALSE
        /\ thread' = [thread EXCEPT ![new] = "check"]
    BY <1>2 DEF EnsureStarted
  <2> HIDE DEF new
  <2>2. new \in 0 .. MaxThreads
    BY <2>1, BoundsAssumption DEF Threads
  <2>3. \A t \in Threads : ~Alive(t)
    BY <1>2 DEF ThreadInv
  <2>4. ThreadInv'
    BY <2>1, <2>3 DEF ThreadInv, Alive, TypeOK
  <2> QED  BY <2>1, <2>2, <2>4 DEF TypeOK
<1> QED  BY <1>1, <1>2

\* What AfterGet may do to the locals of a request.
LEMMA AfterGetKeeps ==
  ASSUME TypeOK, NEW q \in Requests, NEW got \in Modes, AfterGet(q, got)
  PROVE  /\ req' \in [Requests -> Locals]
         /\ req'[q].pc \in {"read", "fetch", "idle"}
         /\ \A r \in Requests \ {q} : req'[r] = req[r]
<1> USE RestingType DEF TypeOK, Locals
<1>1. \/ req' = [req EXCEPT ![q] = [@ EXCEPT !.pc = "read", !.looked = TRUE]]
      \/ req' = [req EXCEPT ![q].pc = "fetch"]
      \/ req' = [req EXCEPT ![q] = Resting]
  BY DEF AfterGet, Goto, Finish
<1>2. CASE req' = [req EXCEPT ![q] = [@ EXCEPT !.pc = "read", !.looked = TRUE]]
  BY <1>2
<1>3. CASE req' = [req EXCEPT ![q].pc = "fetch"]
  BY <1>3
<1>4. CASE req' = [req EXCEPT ![q] = Resting]
  BY <1>4 DEF Resting
<1> QED  BY <1>1, <1>2, <1>3, <1>4

\* A step of the code to another step keeps the locals' types.
LEMMA GotoKeeps ==
  ASSUME TypeOK, NEW q \in Requests,
         NEW pc \in {"join", "clear", "register", "start", "publish", "fetch", "stop"},
         Goto(q, pc)
  PROVE  /\ req' \in [Requests -> Locals]
         /\ req'[q] = [req[q] EXCEPT !.pc = pc] /\ req'[q].pc = pc
         /\ req'[q].seen = req[q].seen /\ req'[q].kind = req[q].kind
         /\ \A r \in Requests \ {q} : req'[r] = req[r]
BY DEF Goto, TypeOK, Locals

\* So does the end of a request.
LEMMA FinishKeeps ==
  ASSUME TypeOK, NEW q \in Requests, Finish(q)
  PROVE  /\ req' \in [Requests -> Locals]
         /\ req'[q].pc = "idle"
         /\ \A r \in Requests \ {q} : req'[r] = req[r]
BY RestingType DEF Finish, TypeOK, Locals, Resting

-----------------------------------------------------------------------------
(* Every step keeps it *)

\* A step that leaves the rebuild, its lock and its locals alone.
LEMMA NotRebuilding ==
  ASSUME IInv, NEW q \in Requests,
         req[q].pc \notin Rebuilding, req'[q].pc \notin Rebuilding,
         \A r \in Requests \ {q} : req'[r] = req[r],
         UNCHANGED <<mode, active, provider, lock>>, count'.faults = count.faults
  PROVE  LockInv' /\ RebuildInv'
<1>1. LockInv'
  BY DEF IInv, LockInv
<1>2. ASSUME count'.faults = 0, NEW r \in Requests
      PROVE  /\ At(r, "register")' => req'[r].seen = "dev"
             /\ At(r, "start")' => req'[r].seen = "dev" /\ provider' # 0
             /\ At(r, "publish")' => (provider' # 0 <=> req'[r].seen = "dev")
  <2>1. CASE r = q
    BY <2>1 DEF At, Rebuilding
  <2>2. CASE r # q
    BY <1>2, <2>2 DEF IInv, RebuildInv, At
  <2> QED  BY <2>1, <2>2
<1>3. count'.faults = 0 /\ lock' = "free" => Together(mode)'
  BY DEF IInv, RebuildInv, Together
<1> QED  BY <1>1, <1>2, <1>3 DEF RebuildInv

\* A step of the holder of the lock from one step of the rebuild to the next.
LEMMA HolderSteps ==
  ASSUME IInv, NEW q \in Requests, lock = q, UNCHANGED lock,
         \A r \in Requests \ {q} : req'[r] = req[r],
         count'.faults = 0 =>
           /\ At(q, "register")' => req'[q].seen = "dev"
           /\ At(q, "start")' => req'[q].seen = "dev" /\ provider' # 0
           /\ At(q, "publish")' => (provider' # 0 <=> req'[q].seen = "dev")
  PROVE  LockInv' /\ RebuildInv'
<1>1. \A r \in Requests \ {q} : req[r].pc \notin Rebuilding
  BY DEF IInv, LockInv
<1>2. LockInv'
  BY <1>1 DEF LockInv
<1>3. ASSUME count'.faults = 0, NEW r \in Requests
      PROVE  /\ At(r, "register")' => req'[r].seen = "dev"
             /\ At(r, "start")' => req'[r].seen = "dev" /\ provider' # 0
             /\ At(r, "publish")' => (provider' # 0 <=> req'[r].seen = "dev")
  <2>1. CASE r = q
    BY <1>3, <2>1
  <2>2. CASE r # q
    BY <1>1, <2>2 DEF At, Rebuilding
  <2> QED  BY <2>1, <2>2
<1>4. lock' # "free"
  BY RequestsAssumption
<1> QED  BY <1>2, <1>3, <1>4 DEF RebuildInv

\* The end of a rebuild: nobody is in one afterwards.
LEMMA HolderLeaves ==
  ASSUME IInv, NEW q \in Requests, lock = q, lock' = "free",
         \A r \in Requests \ {q} : req'[r] = req[r],
         req'[q].pc \notin Rebuilding,
         count'.faults = 0 => Together(mode)'
  PROVE  LockInv' /\ RebuildInv'
<1>1. \A r \in Requests : req'[r].pc \notin Rebuilding
  BY DEF IInv, LockInv
<1>2. LockInv'
  BY <1>1 DEF LockInv
<1>3. \A r \in Requests : ~At(r, "register")' /\ ~At(r, "start")' /\ ~At(r, "publish")'
  BY <1>1 DEF At, Rebuilding
<1> QED  BY <1>2, <1>3 DEF RebuildInv

\* The steps outside of the rebuild and of the service.
LEMMA RequestSteps ==
  ASSUME IInv, NEW q \in Requests,
         \/ \E value \in Modes : StartToggle(q, value)
         \/ \E kind \in AllKinds : Start(q, kind)
         \/ ReadSetting(q) \/ Fetch(q)
  PROVE  IInv'
<1> USE RestingType DEF IInv
<1>1. ASSUME NEW value \in Modes, StartToggle(q, value) PROVE IInv'
  <2>1. [Resting EXCEPT !.pc = "refresh", !.kind = "toggle"] \in Locals
    BY DEF Locals, AllKinds, Resting
  <2>2. TypeOK'
    <3>1. req' \in [Requests -> Locals]
      BY <1>1, <2>1 DEF StartToggle, TypeOK, Locals
    <3>2. count' \in [requests: 0 .. MaxRequests, faults: 0 .. MaxFaults]
      BY <1>1, BoundsAssumption DEF StartToggle, TypeOK
    <3> QED  BY <1>1, <3>1, <3>2 DEF StartToggle, TypeOK, Locals, registry, service
  <2>3. req[q].pc \notin Rebuilding /\ req'[q].pc \notin Rebuilding
    BY <1>1 DEF StartToggle, At, Rebuilding, TypeOK, Resting
  <2>4. \A r \in Requests \ {q} : req'[r] = req[r]
    BY <1>1 DEF StartToggle, TypeOK
  <2>5. UNCHANGED <<mode, active, provider, lock>> /\ count'.faults = count.faults
    BY <1>1 DEF StartToggle, registry, TypeOK
  <2>6. LockInv' /\ RebuildInv'
    BY <2>3, <2>4, <2>5, NotRebuilding
  <2> QED  BY <1>1, <2>2, <2>6 DEF StartToggle, service, ThreadInv, Alive
<1>2. ASSUME NEW kind \in AllKinds, Start(q, kind) PROVE IInv'
  <2>1. [Resting EXCEPT !.pc = "read", !.kind = kind] \in Locals
    BY DEF Locals, Resting
  <2>2. TypeOK'
    <3>1. req' \in [Requests -> Locals]
      BY <1>2, <2>1 DEF Start, TypeOK, Locals
    <3>2. count.requests < MaxRequests /\ count' = [count EXCEPT !.requests = @ + 1]
      BY <1>2 DEF Start
    <3>3. count' \in [requests: 0 .. MaxRequests, faults: 0 .. MaxFaults]
      BY <3>2, BoundsAssumption DEF TypeOK
    <3> QED  BY <1>2, <3>1, <3>3 DEF Start, TypeOK, Locals, registry, service
  <2>3. req[q].pc \notin Rebuilding /\ req'[q].pc \notin Rebuilding
    BY <1>2 DEF Start, At, Rebuilding, TypeOK, Resting
  <2>4. \A r \in Requests \ {q} : req'[r] = req[r]
    BY <1>2 DEF Start, TypeOK
  <2>5. UNCHANGED <<mode, active, provider, lock>> /\ count'.faults = count.faults
    BY <1>2 DEF Start, registry, TypeOK
  <2>6. LockInv' /\ RebuildInv'
    BY <2>3, <2>4, <2>5, NotRebuilding
  <2> QED  BY <1>2, <2>2, <2>6 DEF Start, service, ThreadInv, Alive
<1>3. ASSUME ReadSetting(q) PROVE IInv'
  <2>1. TypeOK'
    <3>1. req' \in [Requests -> Locals]
      BY <1>3 DEF ReadSetting, TypeOK, Locals
    <3> QED  BY <1>3, <3>1 DEF ReadSetting, TypeOK, Locals, registry, service
  <2>2. /\ req[q].pc \notin Rebuilding /\ req'[q].pc \notin Rebuilding
        /\ \A r \in Requests \ {q} : req'[r] = req[r]
    BY <1>3 DEF ReadSetting, At, Rebuilding, TypeOK
  <2>3. UNCHANGED <<mode, active, provider, lock>> /\ count'.faults = count.faults
    BY <1>3 DEF ReadSetting, registry
  <2>4. LockInv' /\ RebuildInv'
    BY <2>2, <2>3, NotRebuilding
  <2> QED  BY <1>3, <2>1, <2>4 DEF ReadSetting, service, ThreadInv, Alive
<1>4. ASSUME Fetch(q) PROVE IInv'
  <2>1. /\ req' \in [Requests -> Locals]
        /\ req'[q].pc \in {"idle", "service"}
        /\ \A r \in Requests \ {q} : req'[r] = req[r]
    <3>1. CASE provider = 0
      BY <1>4, <3>1, FinishKeeps DEF Fetch
    <3>2. CASE provider # 0
      <4>1. req' = [req EXCEPT ![q] = [@ EXCEPT !.pc = "service", !.held = provider]]
        BY <1>4, <3>2 DEF Fetch
      <4>2. req \in [Requests -> Locals] /\ provider \in 0 .. MaxBuilds
        BY DEF TypeOK, Locals
      <4>3. [req[q] EXCEPT !.pc = "service", !.held = provider] \in Locals
        BY <4>2 DEF Locals
      <4> QED  BY <4>1, <4>2, <4>3 DEF Locals
    <3> QED  BY <3>1, <3>2
  <2>2. TypeOK'
    BY <1>4, <2>1 DEF Fetch, TypeOK, Locals, registry, service
  <2>3. req[q].pc \notin Rebuilding /\ req'[q].pc \notin Rebuilding
    BY <1>4, <2>1 DEF Fetch, At, Rebuilding
  <2>4. UNCHANGED <<mode, active, provider, lock>> /\ count'.faults = count.faults
    BY <1>4 DEF Fetch, registry
  <2>5. LockInv' /\ RebuildInv'
    BY <2>1, <2>3, <2>4, NotRebuilding
  <2> QED  BY <1>4, <2>2, <2>5 DEF Fetch, service, ThreadInv, Alive
<1> QED  BY <1>1, <1>2, <1>3, <1>4

\* Taking the lock, or finding that there is nothing to rebuild.
LEMMA LockSteps ==
  ASSUME IInv, NEW q \in Requests, Get(q) \/ Refresh(q)
  PROVE  IInv'
<1> USE DEF IInv
<1>1. ASSUME NEW r \in Requests PROVE lock = "free" => req[r].pc \notin Rebuilding
  BY RequestsAssumption DEF LockInv
<1>2. ASSUME lock = "free", lock' = q, req'[q].pc = "stop",
             \A r \in Requests \ {q} : req'[r] = req[r]
      PROVE  LockInv' /\ RebuildInv'
  <2>1. \A r \in Requests \ {q} : req'[r].pc \notin Rebuilding
    BY <1>1, <1>2
  <2>2. \A r \in Requests : ~At(r, "register")' /\ ~At(r, "start")' /\ ~At(r, "publish")'
    BY <1>2, <2>1 DEF At, Rebuilding
  <2> QED  BY <1>2, <2>1, <2>2, RequestsAssumption DEF LockInv, RebuildInv
<1>3. CASE Get(q) /\ mode = req[q].seen
  <2>1. mode \in Modes
    BY <1>3 DEF TypeOK, Modes
  <2>2. AfterGet(q, mode) /\ UNCHANGED <<lock, setting, registry, service, count, late>>
    BY <1>3 DEF Get
  <2>3. /\ req' \in [Requests -> Locals]
        /\ req'[q].pc \in {"read", "fetch", "idle"}
        /\ \A r \in Requests \ {q} : req'[r] = req[r]
    BY <2>1, <2>2, AfterGetKeeps
  <2>4. TypeOK'
    BY <2>2, <2>3 DEF TypeOK, Locals, registry, service
  <2>5. req[q].pc \notin Rebuilding /\ req'[q].pc \notin Rebuilding
    BY <1>3, <2>3 DEF Get, At, Rebuilding
  <2>6. LockInv' /\ RebuildInv'
    BY <2>2, <2>3, <2>5, NotRebuilding DEF registry
  <2> QED  BY <2>2, <2>4, <2>6 DEF service, ThreadInv, Alive
<1>4. CASE Get(q) /\ mode # req[q].seen
  <2>1. lock = "free" /\ lock' = q /\ Goto(q, "stop")
        /\ UNCHANGED <<setting, registry, service, count, late>>
    BY <1>4 DEF Get
  <2>2. /\ req' \in [Requests -> Locals] /\ req'[q].pc = "stop"
        /\ \A r \in Requests \ {q} : req'[r] = req[r]
    BY <2>1, GotoKeeps
  <2>3. TypeOK'
    BY <2>1, <2>2 DEF TypeOK, Locals, registry, service
  <2> QED  BY <1>2, <2>1, <2>2, <2>3 DEF service, ThreadInv, Alive
<1>5. CASE Refresh(q)
  <2>1. /\ req' \in [Requests -> Locals] /\ req'[q].pc = "stop"
        /\ \A r \in Requests \ {q} : req'[r] = req[r]
    <3>1. req' = [req EXCEPT ![q] = [@ EXCEPT !.pc = "stop", !.seen = setting]]
      BY <1>5 DEF Refresh
    <3>2. req \in [Requests -> Locals] /\ setting \in Modes
      BY DEF TypeOK, Locals
    <3>3. [req[q] EXCEPT !.pc = "stop", !.seen = setting] \in Locals
      BY <3>2 DEF Locals
    <3> QED  BY <3>1, <3>2, <3>3 DEF Locals
  <2>2. lock' = q /\ UNCHANGED <<setting, registry, service, count, late>>
    BY <1>5 DEF Refresh
  <2>3. TypeOK'
    BY <2>1, <2>2 DEF TypeOK, Locals, registry, service
  <2> QED  BY <1>2, <1>5, <2>1, <2>2, <2>3 DEF Refresh, service, ThreadInv, Alive
<1> QED  BY <1>3, <1>4, <1>5

\* The part of the rebuild that takes the old modules down.
LEMMA TeardownSteps ==
  ASSUME IInv, NEW q \in Requests, Deactivate(q) \/ Join(q) \/ ClearProviders(q)
  PROVE  IInv'
<1> USE DEF IInv
<1>1. lock = q
  BY DEF Deactivate, Join, ClearProviders, At, LockInv, Rebuilding
<1>2. CASE Deactivate(q)
  <2>1. \/ Goto(q, "join") \/ Goto(q, "clear")
    BY <1>2 DEF Deactivate
  <2>2. /\ req' \in [Requests -> Locals] /\ req'[q].pc \in {"join", "clear"}
        /\ \A r \in Requests \ {q} : req'[r] = req[r]
    BY <2>1, GotoKeeps
  <2>3. stop' \in BOOLEAN /\ UNCHANGED <<setting, registry, lock, current, thread, count, late>>
    BY <1>2 DEF Deactivate, TypeOK
  <2>4. TypeOK'
    BY <2>2, <2>3 DEF TypeOK, Locals, registry
  <2>5. LockInv' /\ RebuildInv'
    BY <1>1, <2>2, <2>3, HolderSteps DEF At
  <2> QED  BY <2>3, <2>4, <2>5 DEF ThreadInv, Alive
<1>3. CASE Join(q)
  <2>1. Goto(q, "clear") /\ UNCHANGED <<setting, registry, lock, service, count, late>>
    BY <1>3 DEF Join
  <2>2. /\ req' \in [Requests -> Locals] /\ req'[q].pc = "clear"
        /\ \A r \in Requests \ {q} : req'[r] = req[r]
    BY <2>1, GotoKeeps
  <2>3. TypeOK'
    BY <2>1, <2>2 DEF TypeOK, Locals, registry, service
  <2>4. LockInv' /\ RebuildInv'
    BY <1>1, <2>1, <2>2, HolderSteps DEF At
  <2> QED  BY <2>1, <2>3, <2>4 DEF service, ThreadInv, Alive
<1>4. CASE ClearProviders(q)
  <2> DEFINE next == IF req[q].seen = "dev" THEN "register" ELSE "publish"
  <2>1. /\ Goto(q, next) /\ active' = FALSE /\ provider' = 0
        /\ UNCHANGED <<setting, mode, cached, builds, lock, service, count, late>>
    BY <1>4 DEF ClearProviders
  <2>2. next \in {"register", "publish"}
    OBVIOUS
  <2>3. /\ req' \in [Requests -> Locals]
        /\ req'[q].pc = next /\ req'[q].seen = req[q].seen
        /\ \A r \in Requests \ {q} : req'[r] = req[r]
    BY <2>1, <2>2, GotoKeeps
  <2>4. provider' \in 0 .. MaxBuilds
    BY <2>1, BoundsAssumption
  <2>5. TypeOK'
    BY <2>1, <2>3, <2>4 DEF TypeOK, Locals, service
  <2>6. LockInv' /\ RebuildInv'
    BY <1>1, <2>1, <2>3, HolderSteps DEF At
  <2> QED  BY <2>1, <2>5, <2>6 DEF service, ThreadInv, Alive
<1> QED  BY <1>2, <1>3, <1>4

\* The part of the rebuild that puts the new modules up.
LEMMA SetupSteps ==
  ASSUME IInv, NEW q \in Requests, Register(q) \/ StartService(q)
  PROVE  IInv'
<1> USE DEF IInv
<1>1. lock = q
  BY DEF Register, StartService, At, LockInv, Rebuilding
<1>2. CASE Register(q)
  <2>1. /\ Goto(q, "start") /\ builds < MaxBuilds
        /\ provider' = builds + 1 /\ builds' = builds + 1
        /\ UNCHANGED <<setting, mode, active, cached, lock, service, count, late>>
    BY <1>2 DEF Register
  <2>2. /\ req' \in [Requests -> Locals]
        /\ req'[q].pc = "start" /\ req'[q].seen = req[q].seen
        /\ \A r \in Requests \ {q} : req'[r] = req[r]
    BY <2>1, GotoKeeps
  <2>3. builds' \in 0 .. MaxBuilds /\ provider' \in 0 .. MaxBuilds /\ provider' # 0
    BY <2>1, BoundsAssumption DEF TypeOK
  <2>4. TypeOK'
    BY <2>1, <2>2, <2>3 DEF TypeOK, Locals, service
  <2>5. count.faults = 0 => req[q].seen = "dev"
    BY <1>2 DEF Register, RebuildInv
  <2>6. LockInv' /\ RebuildInv'
    BY <1>1, <2>1, <2>2, <2>3, <2>5, HolderSteps DEF At
  <2> QED  BY <2>1, <2>4, <2>6 DEF service, ThreadInv, Alive
<1>3. CASE StartService(q)
  <2>1. /\ EnsureStarted /\ Goto(q, "publish")
        /\ UNCHANGED <<setting, registry, lock, count, late>>
    BY <1>3 DEF StartService
  <2>2. /\ req' \in [Requests -> Locals]
        /\ req'[q].pc = "publish" /\ req'[q].seen = req[q].seen
        /\ \A r \in Requests \ {q} : req'[r] = req[r]
    BY <2>1, GotoKeeps
  <2>3. /\ stop' \in BOOLEAN /\ current' \in 0 .. MaxThreads
        /\ thread' \in [Threads -> {"unborn", "check", "poll", "exited"}]
        /\ ThreadInv'
    BY <2>1, EnsureStartedKeeps
  <2>4. TypeOK'
    BY <2>1, <2>2, <2>3 DEF TypeOK, Locals, registry
  <2>5. count.faults = 0 => req[q].seen = "dev" /\ provider # 0
    BY <1>3 DEF StartService, RebuildInv
  <2>6. LockInv' /\ RebuildInv'
    BY <1>1, <2>1, <2>2, <2>5, HolderSteps DEF At, registry
  <2> QED  BY <2>3, <2>4, <2>6
<1> QED  BY <1>2, <1>3

\* The end of a rebuild, and a rebuild that raises.
LEMMA LeaveSteps ==
  ASSUME IInv, NEW q \in Requests, Publish(q) \/ BuildFails(q)
  PROVE  IInv'
<1> USE DEF IInv
<1>1. lock = q
  BY DEF Publish, BuildFails, At, LockInv, Rebuilding
<1>2. CASE Publish(q)
  <2>1. /\ mode' = req[q].seen /\ active' = (req[q].seen = "dev") /\ lock' = "free"
        /\ UNCHANGED <<setting, provider, cached, builds, service, count, late>>
    BY <1>2 DEF Publish
  <2>2. req[q].seen \in Modes
    BY DEF TypeOK
  <2>3. /\ req' \in [Requests -> Locals]
        /\ req'[q].pc \in {"read", "fetch", "idle"}
        /\ \A r \in Requests \ {q} : req'[r] = req[r]
    <3>1. CASE req[q].kind = "toggle"
      <4>1. req' = [req EXCEPT ![q] = [@ EXCEPT !.pc = "read", !.kind = "list"]]
        BY <1>2, <3>1 DEF Publish
      <4>2. req \in [Requests -> Locals] /\ "list" \in AllKinds
        BY DEF TypeOK, Locals, AllKinds
      <4>3. [req[q] EXCEPT !.pc = "read", !.kind = "list"] \in Locals
        BY <4>2 DEF Locals
      <4> QED  BY <4>1, <4>2, <4>3 DEF Locals
    <3>2. CASE req[q].kind # "toggle"
      <4>1. AfterGet(q, req[q].seen)
        BY <1>2, <3>2 DEF Publish
      <4> QED  BY <2>2, <4>1, AfterGetKeeps
    <3> QED  BY <3>1, <3>2
  <2>4. TypeOK'
    BY <2>1, <2>2, <2>3 DEF TypeOK, Locals, service
  <2>5. count.faults = 0 => (provider # 0 <=> req[q].seen = "dev")
    BY <1>2 DEF Publish, RebuildInv
  <2>6. count'.faults = 0 => Together(mode)'
    BY <2>1, <2>5 DEF Together
  <2>7. req'[q].pc \notin Rebuilding
    BY <2>3 DEF Rebuilding
  <2>8. LockInv' /\ RebuildInv'
    BY <1>1, <2>1, <2>3, <2>6, <2>7, HolderLeaves
  <2> QED  BY <2>1, <2>4, <2>8 DEF service, ThreadInv, Alive
<1>3. CASE BuildFails(q)
  <2>1. /\ count.faults < MaxFaults /\ count' = [count EXCEPT !.faults = @ + 1]
        /\ lock' = "free" /\ Finish(q) /\ UNCHANGED <<setting, registry, service, late>>
    BY <1>3 DEF BuildFails
  <2>2. /\ req' \in [Requests -> Locals] /\ req'[q].pc = "idle"
        /\ \A r \in Requests \ {q} : req'[r] = req[r]
    BY <2>1, FinishKeeps
  <2>3. /\ count' \in [requests: 0 .. MaxRequests, faults: 0 .. MaxFaults]
        /\ count'.faults # 0
    <3>1. count.faults \in Nat /\ MaxFaults \in Nat
      BY BoundsAssumption DEF TypeOK
    <3> QED  BY <2>1, <3>1 DEF TypeOK
  <2>4. TypeOK'
    BY <2>1, <2>2, <2>3 DEF TypeOK, Locals, registry, service
  <2>5. LockInv' /\ RebuildInv'
    BY <1>1, <2>1, <2>2, <2>3, HolderLeaves DEF Rebuilding
  <2> QED  BY <2>1, <2>4, <2>5 DEF service, ThreadInv, Alive
<1> QED  BY <1>2, <1>3

\* A view's use of the service through a provider it fetched before.
LEMMA UseStep ==
  ASSUME IInv, NEW q \in Requests, UseService(q)
  PROVE  IInv'
<1> USE DEF IInv
<1>1. /\ req' \in [Requests -> Locals] /\ req'[q].pc = "idle"
      /\ \A r \in Requests \ {q} : req'[r] = req[r]
  BY FinishKeeps DEF UseService
<1>2. UNCHANGED <<setting, mode, active, provider, builds, lock, count>> /\ late' \in BOOLEAN
  BY DEF UseService
<1>3. /\ stop' \in BOOLEAN /\ current' \in 0 .. MaxThreads
      /\ thread' \in [Threads -> {"unborn", "check", "poll", "exited"}]
      /\ cached' \in SUBSET (0 .. MaxBuilds) /\ ThreadInv'
  <2>1. CASE req[q].held \in cached
    BY <2>1 DEF UseService, service, TypeOK, ThreadInv, Alive
  <2>2. CASE req[q].held \notin cached
    <3>1. EnsureStarted /\ cached' = cached \cup {req[q].held}
      BY <2>2 DEF UseService
    <3>2. req[q].held \in 0 .. MaxBuilds
      BY DEF TypeOK
    <3> QED  BY <3>1, <3>2, EnsureStartedKeeps DEF TypeOK
  <2> QED  BY <2>1, <2>2
<1>4. TypeOK'
  BY <1>1, <1>2, <1>3 DEF TypeOK, Locals
<1>5. req[q].pc \notin Rebuilding /\ req'[q].pc \notin Rebuilding
  BY <1>1 DEF UseService, At, Rebuilding
<1>6. LockInv' /\ RebuildInv'
  BY <1>1, <1>2, <1>5, NotRebuilding
<1> QED  BY <1>3, <1>4, <1>6

\* The scheduler threads.
LEMMA ThreadSteps ==
  ASSUME IInv, NEW t \in Threads, Check(t) \/ PollReturns(t)
  PROVE  IInv'
<1> USE DEF IInv
<1>1. \E to \in {"check", "poll", "exited"} : thread' = [thread EXCEPT ![t] = to]
  BY DEF Check, PollReturns
<1>2. Alive(t)
  BY DEF Check, PollReturns, Alive, Threads
<1>3. UNCHANGED <<setting, registry, lock, req, stop, current, count, late>>
  BY DEF Check, PollReturns
<1>4. TypeOK'
  BY <1>1, <1>3 DEF TypeOK, registry
<1>5. ThreadInv'
  BY <1>1, <1>2, <1>3 DEF ThreadInv, Alive, TypeOK
<1>6. LockInv' /\ RebuildInv'
  BY <1>3 DEF LockInv, RebuildInv, Together, At, registry
<1> QED  BY <1>4, <1>5, <1>6

\* The invariant is inductive.
LEMMA NextInv ==
  ASSUME IInv, [Next]_vars PROVE IInv'
<1>1. ASSUME NEW q \in Requests, NEW value \in Modes, StartToggle(q, value) PROVE IInv'
  BY <1>1, RequestSteps
<1>2. ASSUME NEW q \in Requests, NEW kind \in AllKinds, Start(q, kind) PROVE IInv'
  BY <1>2, RequestSteps
<1>3. ASSUME NEW q \in Requests, Proceed(q) PROVE IInv'
  BY <1>3, RequestSteps, LockSteps, TeardownSteps, SetupSteps, LeaveSteps, UseStep
     DEF Proceed
<1>4. ASSUME NEW t \in Threads, Check(t) \/ PollReturns(t) PROVE IInv'
  BY <1>4, ThreadSteps
<1>5. CASE UNCHANGED vars
  <2>1. UNCHANGED <<setting, mode, active, provider, cached, builds, lock, req,
                    stop, current, thread, count, late>>
    BY <1>5 DEF vars, registry, service
  <2>2. TypeOK'
    BY <2>1 DEF IInv, TypeOK
  <2>3. LockInv' /\ ThreadInv'
    BY <2>1 DEF IInv, LockInv, ThreadInv, Alive
  <2>4. RebuildInv'
    BY <2>1 DEF IInv, RebuildInv, Together, At
  <2> QED  BY <2>2, <2>3, <2>4 DEF IInv
<1>6. CASE Next
  BY <1>1, <1>2, <1>3, <1>4, <1>6 DEF Next
<1> QED  BY <1>5, <1>6

-----------------------------------------------------------------------------
(* The theorems *)

\* The invariant holds throughout, and with it the types.
THEOREM Inductive == Spec => []IInv
BY InitInv, NextInv, PTL DEF Spec

THEOREM TypeCorrect == Spec => []TypeOK
<1>1. IInv => TypeOK
  BY DEF IInv
<1> QED  BY Inductive, <1>1, PTL

\* However many requests toggle the mode, list modules or use the alarms
\* view, and however often a shutdown gives up on a thread that is in a
\* poll: ensure_started never leaves two scheduler threads alive.
THEOREM OneThread == Spec => []AtMostOneThread
<1>1. IInv => AtMostOneThread
  <2> SUFFICES ASSUME IInv PROVE AtMostOneThread
    OBVIOUS
  <2> DEFINE alive == {t \in Threads : Alive(t)}
  <2>1. alive \subseteq {current}
    BY DEF IInv, ThreadInv
  <2>2. IsFiniteSet({current}) /\ Cardinality({current}) = 1
    BY FS_Singleton
  <2>3. Cardinality(alive) <= Cardinality({current})
    BY <2>1, <2>2, FS_Subset
  <2> QED  BY <2>2, <2>3 DEF AtMostOneThread
<1> QED  BY Inductive, <1>1, PTL

\* Registry, providers and the modules to deactivate are of one mode when
\* nobody rebuilds, as long as no rebuild has raised.
THEOREM ActivationSound == Spec => []ActivationMatches
<1>1. IInv => ActivationMatches
  BY DEF IInv, RebuildInv, Together, ActivationMatches
<1> QED  BY Inductive, <1>1, PTL

=============================================================================
