------------------------ MODULE StarterAgentsProofs ------------------------
(***************************************************************************)
(* What StarterAgents guarantees for every catalog and every number of     *)
(* listings, manual installations, edits, deletions and crashes.           *)
(***************************************************************************)
EXTENDS StarterAgents, TLAPS

Local == [pc: {"idle", "marker", "list", "install", "insert", "root", "publish",
               "write"},
          todo: SUBSET Profiles, profiles: SUBSET Profiles,
          names: SUBSET (Profiles \cup {Custom}), fix: SUBSET Change,
          id: 0 .. MaxId, copy: Agent]

EditLocal == [pc: {"idle", "write"}, id: 0 .. MaxId, copy: Agent]

-----------------------------------------------------------------------------
(* The inductive invariant *)

\* An automatic pass runs under the lock.
LockInv == \A q \in Autos : ~At(q, "idle") => lock = q

\* Where an automatic pass is, and for how much of the catalog it has seen an
\* agent, or its name taken. It has begun before the marker was set.
Covered(q) ==
  LET here == inst[q]
  IN  /\ here.pc \in {"install", "root"} => Profiles \subseteq had \cup here.todo
      /\ here.pc = "insert" =>
           Profiles \subseteq had \cup here.todo \cup {here.copy.profile}
      /\ here.pc \in {"publish", "write"} => Profiles \subseteq had

PassInv == \A q \in Autos : Covered(q)

\* What any installer is about to insert is a starter; only automatic passes
\* publish.
CopyInv ==
  \A q \in Installers :
    /\ At(q, "insert") => inst[q].copy.profile \in Profiles
    /\ inst[q].pc \in {"publish", "write"} => q \in Autos

IInv ==
  TypeOK /\ LockInv /\ PassInv /\ CopyInv /\ MarkerEndsAutoInstall /\ MarkerMeansComplete

-----------------------------------------------------------------------------
(* Types *)

LEMMA BlankType == Blank \in Agent
BY DEF Blank, Agent, Models

LEMMA RestTypes == Resting \in Local /\ [pc |-> "idle", id |-> 0, copy |-> Blank] \in EditLocal
BY BlankType, BoundsAssumption DEF Resting, Local, EditLocal

\* A live row is an agent.
LEMMA LiveRow ==
  ASSUME TypeOK, NEW a \in Ids, rows[a] # NoAgent
  PROVE  rows[a] \in Agent
BY DEF TypeOK

\* What an update writes.
LEMMA OverwriteKeeps ==
  ASSUME TypeOK, NEW a \in Ids \cup {0}, NEW copy \in Agent, Overwrite(a, copy)
  PROVE  rows' \in [Ids -> Agent \cup {NoAgent}]
BY DEF Overwrite, TypeOK

LEMMA ProfilesType ==
  ASSUME TypeOK
  PROVE  ProfilesOf(Live) \subseteq Profiles /\ NamesOf(Live) \subseteq Profiles \cup {Custom}
<1>1. \A a \in Live : rows[a] \in Agent
  BY LiveRow DEF Live
<1> QED  BY <1>1 DEF ProfilesOf, NamesOf, Agent

LEMMA InitInv == Init => IInv
<1> SUFFICES ASSUME Init PROVE IInv
  OBVIOUS
<1>1. rows \in [Ids -> Agent \cup {NoAgent}] /\ lastId \in 0 .. MaxId
  BY BlankType, BoundsAssumption DEF Init, Ids, Agent
<1>2. inst \in [Installers -> Local] /\ edit \in [Editors -> EditLocal]
  BY RestTypes DEF Init
<1>3. count \in [passes: 0 .. MaxPasses, manuals: 0 .. MaxManuals,
               edits: 0 .. MaxEdits, crashes: 0 .. MaxCrashes]
  BY BoundsAssumption DEF Init
<1>4. TypeOK
  BY <1>1, <1>2, <1>3 DEF Init, TypeOK, Local, EditLocal
<1>5. \A q \in Installers : inst[q].pc = "idle"
  BY DEF Init, Resting
<1>6. LockInv /\ PassInv /\ CopyInv
  BY <1>5 DEF LockInv, PassInv, CopyInv, Covered, At, Installers
<1> QED  BY <1>4, <1>5, <1>6 DEF IInv, MarkerEndsAutoInstall, MarkerMeansComplete, Init

-----------------------------------------------------------------------------
(* Every step keeps it *)

\* What a step of one installer has to show of it.
LEMMA InstallerStep ==
  ASSUME IInv, TypeOK', NEW q \in Installers,
         \A r \in Installers \ {q} : inst'[r] = inst[r],
         had \subseteq had', UNCHANGED seeded,
         inst'[q].pc = "insert" => inst'[q].copy.profile \in Profiles,
         inst'[q].pc \in {"publish", "write"} => q \in Autos,
         q \in Autos => /\ Covered(q)'
                        /\ seeded => inst'[q].pc \in {"idle", "marker"},
         \/ UNCHANGED lock /\ (q \in Autos => lock = q \/ inst'[q].pc = "idle")
         \/ q \in Autos /\ lock = "free" /\ lock' = q
         \/ q \in Autos /\ lock = q /\ lock' = "free" /\ inst'[q].pc = "idle"
  PROVE  IInv'
<1> USE DEF IInv
<1>1. Autos \subseteq Installers
  BY DEF Installers
<1>2. LockInv'
  BY <1>1, FreeAssumption DEF LockInv, At
<1>3. PassInv'
  <2> SUFFICES ASSUME NEW r \in Autos PROVE Covered(r)'
    BY DEF PassInv
  <2>1. CASE r = q
    BY <2>1
  <2>2. CASE r # q
    <3>1. inst'[r] = inst[r]
      BY <1>1, <2>2
    <3> QED  BY <3>1 DEF PassInv, Covered
  <2> QED  BY <2>1, <2>2
<1>4. MarkerEndsAutoInstall'
  BY <1>1 DEF MarkerEndsAutoInstall
<1>5. MarkerMeansComplete'
  BY DEF MarkerMeansComplete, TypeOK
<1>6. CopyInv'
  BY DEF CopyInv, At
<1> QED  BY <1>2, <1>3, <1>4, <1>5, <1>6

\* An automatic pass beyond the marker holds the lock, before the marker is set.
LEMMA InPass ==
  ASSUME IInv, NEW q \in Autos, inst[q].pc \notin {"idle", "marker"}
  PROVE  lock = q /\ ~seeded /\ Covered(q)
BY DEF IInv, LockInv, PassInv, MarkerEndsAutoInstall, At

LEMMA LeaveKeeps ==
  ASSUME TypeOK, NEW q \in Installers, Leave(q)
  PROVE  /\ inst' \in [Installers -> Local] /\ inst'[q].pc = "idle"
         /\ \A r \in Installers \ {q} : inst'[r] = inst[r]
         /\ lock' \in Autos \cup {"free"}
         /\ \/ UNCHANGED lock
            \/ q \in Autos /\ lock = q /\ lock' = "free"
<1>1. inst \in [Installers -> Local] /\ lock \in Autos \cup {"free"}
  BY DEF TypeOK, Local
<1>2. inst' = [inst EXCEPT ![q] = Resting] /\ Resting \in Local /\ Resting.pc = "idle"
  BY RestTypes DEF Leave, Resting
<1>3. lock' = IF lock = q THEN "free" ELSE lock
  BY DEF Leave
<1> QED  BY <1>1, <1>2, <1>3

\* A step that only leaves.
LEMMA LeaveStep ==
  ASSUME IInv, TypeOK', NEW q \in Installers, Leave(q), had \subseteq had', UNCHANGED seeded
  PROVE  IInv'
<1>1. /\ inst'[q].pc = "idle"
      /\ \A r \in Installers \ {q} : inst'[r] = inst[r]
      /\ \/ UNCHANGED lock
         \/ q \in Autos /\ lock = q /\ lock' = "free"
  BY LeaveKeeps DEF IInv
<1>2. Covered(q)'
  BY <1>1 DEF Covered
<1> QED  BY <1>1, <1>2, InstallerStep

LEMMA GotoKeeps ==
  ASSUME TypeOK, NEW q \in Installers,
         NEW pc \in {"marker", "list", "install", "publish"}, Goto(q, pc)
  PROVE  /\ inst' \in [Installers -> Local]
         /\ inst'[q] = [inst[q] EXCEPT !.pc = pc] /\ inst'[q].pc = pc
         /\ \A r \in Installers \ {q} : inst'[r] = inst[r]
<1> DEFINE step == [inst[q] EXCEPT !.pc = pc]
<1>1. inst \in [Installers -> Local]
  BY DEF TypeOK, Local
<1>2. inst[q] \in Local
  BY <1>1
<1>3. step \in Local /\ step.pc = pc
  BY <1>2 DEF Local
<1>4. inst' = [inst EXCEPT ![q] = step]
  BY DEF Goto
<1>5. step = [inst[q] EXCEPT !.pc = pc]
  OBVIOUS
<1> HIDE DEF step
<1>6. inst' \in [Installers -> Local] /\ inst'[q] = step
  BY <1>1, <1>3, <1>4
<1> QED  BY <1>1, <1>3, <1>4, <1>5, <1>6

\* The beginning of a pass, and its look at the marker.
LEMMA BeginSteps ==
  ASSUME IInv, NEW q \in Installers, Begin(q) \/ ReadMarker(q)
  PROVE  IInv'
<1>0. TypeOK /\ lock \in Autos \cup {"free"}
  BY DEF IInv, TypeOK
<1>1. CASE Begin(q)
  <2>1. /\ Admitted(q)
        /\ UNCHANGED <<table, seeded, configured, edit, had, deleted, crossed>>
    BY <1>1 DEF Begin
  <2>2. count' \in [passes: 0 .. MaxPasses, manuals: 0 .. MaxManuals,
               edits: 0 .. MaxEdits, crashes: 0 .. MaxCrashes]
    BY <1>0, <2>1, BoundsAssumption DEF Admitted, TypeOK
  <2>3. CASE q \in Autos
    <3>1. lock = "free" /\ lock' = q /\ Goto(q, "marker")
      BY <1>1, <2>3 DEF Begin
    <3>2. /\ inst' \in [Installers -> Local] /\ inst'[q].pc = "marker"
          /\ \A r \in Installers \ {q} : inst'[r] = inst[r]
      BY <1>0, <3>1, GotoKeeps
    <3>3. TypeOK'
      BY <1>0, <2>1, <2>2, <2>3, <3>1, <3>2 DEF TypeOK, table, Local
    <3>4. Covered(q)'
      BY <3>2 DEF Covered
    <3> QED  BY <2>1, <2>3, <3>1, <3>2, <3>3, <3>4, InstallerStep
  <2>4. CASE q \notin Autos
    <3>1. UNCHANGED lock /\ Goto(q, "list")
      BY <1>1, <2>4 DEF Begin
    <3>2. /\ inst' \in [Installers -> Local] /\ inst'[q].pc = "list"
          /\ \A r \in Installers \ {q} : inst'[r] = inst[r]
      BY <1>0, <3>1, GotoKeeps
    <3>3. TypeOK'
      BY <1>0, <2>1, <2>2, <3>1, <3>2 DEF TypeOK, table, Local
    <3> QED  BY <2>1, <2>4, <3>1, <3>2, <3>3, InstallerStep
  <2> QED  BY <2>3, <2>4
<1>2. CASE ReadMarker(q)
  <2>1. At(q, "marker") /\ UNCHANGED <<table, seeded, configured, edit, count, had, deleted, crossed>>
    BY <1>2 DEF ReadMarker
  <2>2. CASE seeded \/ ~configured
    <3>1. Leave(q)
      BY <1>2, <2>2 DEF ReadMarker
    <3>2. inst' \in [Installers -> Local] /\ lock' \in Autos \cup {"free"}
      BY <1>0, <3>1, LeaveKeeps
    <3>3. TypeOK'
      BY <1>0, <2>1, <3>2 DEF TypeOK, table, Local
    <3> QED  BY <2>1, <3>1, <3>3, LeaveStep
  <2>3. CASE ~(seeded \/ ~configured)
    <3>1. Goto(q, "list") /\ UNCHANGED lock
      BY <1>2, <2>3 DEF ReadMarker
    <3>2. /\ inst' \in [Installers -> Local] /\ inst'[q].pc = "list"
          /\ \A r \in Installers \ {q} : inst'[r] = inst[r]
      BY <1>0, <3>1, GotoKeeps
    <3>3. TypeOK'
      BY <1>0, <2>1, <3>1, <3>2 DEF TypeOK, table, Local
    <3>4. q \in Autos => lock = q
      BY <2>1 DEF IInv, LockInv, At
    <3>5. Covered(q)'
      BY <3>2 DEF Covered
    <3> QED  BY <2>1, <2>3, <3>1, <3>2, <3>3, <3>4, <3>5, InstallerStep
  <2> QED  BY <2>2, <2>3
<1> QED  BY <1>1, <1>2

\* The catalog is gone through: what is listed, skipped or looked up.
LEMMA CatalogSteps ==
  ASSUME IInv, NEW q \in Installers,
         ListAgents(q) \/ \E p \in Profiles : Skip(q, p) \/ CheckName(q, p)
  PROVE  IInv'
<1>0. TypeOK /\ inst \in [Installers -> Local] /\ lock \in Autos \cup {"free"}
  BY DEF IInv, TypeOK, Local
<1>1. CASE ListAgents(q)
  <2>1. /\ inst' = [inst EXCEPT ![q] = [@ EXCEPT !.pc = "install", !.todo = Profiles,
                                !.profiles = ProfilesOf(Live), !.names = NamesOf(Live)]]
        /\ UNCHANGED <<table, seeded, configured, lock, edit, count, had, deleted, crossed>>
        /\ inst[q].pc = "list"
    BY <1>1 DEF ListAgents, At
  <2>2. /\ inst' \in [Installers -> Local]
        /\ inst'[q].pc = "install" /\ inst'[q].todo = Profiles
        /\ \A r \in Installers \ {q} : inst'[r] = inst[r]
    <3>1. [inst[q] EXCEPT !.pc = "install", !.todo = Profiles, !.profiles = ProfilesOf(Live),
                          !.names = NamesOf(Live)] \in Local
      BY <1>0, ProfilesType DEF Local
    <3> QED  BY <1>0, <2>1, <3>1 DEF Local
  <2>3. TypeOK'
    BY <1>0, <2>1, <2>2 DEF TypeOK, table, Local
  <2>4. q \in Autos => lock = q /\ ~seeded
    BY <2>1, InPass
  <2>5. Covered(q)'
    BY <2>2 DEF Covered
  <2> QED  BY <2>1, <2>2, <2>3, <2>4, <2>5, InstallerStep
<1>2. ASSUME NEW p \in Profiles, Skip(q, p) PROVE IInv'
  <2>1. /\ inst[q].pc = "install" /\ p \in inst[q].todo
        /\ inst' = [inst EXCEPT ![q].todo = @ \ {p}] /\ had' = had \cup {p}
        /\ UNCHANGED <<table, seeded, configured, lock, edit, count, deleted, crossed>>
    BY <1>2 DEF Skip, At
  <2>2. /\ inst' \in [Installers -> Local]
        /\ inst'[q].pc = "install" /\ inst'[q].todo = inst[q].todo \ {p}
        /\ \A r \in Installers \ {q} : inst'[r] = inst[r]
    BY <1>0, <2>1 DEF Local
  <2>3. TypeOK'
    BY <1>0, <2>1, <2>2 DEF TypeOK, table, Local
  <2>4. q \in Autos => lock = q /\ ~seeded /\ Covered(q)
    BY <2>1, InPass
  <2>5. q \in Autos => Covered(q)'
    BY <2>1, <2>2, <2>4 DEF Covered
  <2> QED  BY <2>1, <2>2, <2>3, <2>4, <2>5, InstallerStep
<1>3. ASSUME NEW p \in Profiles, CheckName(q, p) PROVE IInv'
  <2>1. /\ inst[q].pc = "install" /\ p \in inst[q].todo
        /\ UNCHANGED <<table, seeded, configured, edit, count, had, deleted, crossed>>
    BY <1>3 DEF CheckName, At
  <2>2. CASE p \in NamesOf(Live)
    <3>1. Leave(q)
      BY <1>3, <2>2 DEF CheckName
    <3>2. inst' \in [Installers -> Local] /\ lock' \in Autos \cup {"free"}
      BY <1>0, <3>1, LeaveKeeps
    <3>3. TypeOK'
      BY <1>0, <2>1, <3>2 DEF TypeOK, table, Local
    <3> QED  BY <2>1, <3>1, <3>3, LeaveStep
  <2>3. CASE p \notin NamesOf(Live)
    <3> DEFINE new == [profile |-> p, name |-> p, public |-> q \in Autos,
                       model |-> IF q \in Autos THEN "first" ELSE "none"]
    <3>1. /\ inst' = [inst EXCEPT ![q] = [@ EXCEPT !.pc = "insert", !.todo = inst[q].todo \ {p}, !.copy = new]]
          /\ UNCHANGED lock
      BY <1>3, <2>3 DEF CheckName
    <3>2. new \in Agent /\ new.profile = p
      BY DEF Agent, Models
    <3> HIDE DEF new
    <3>3. /\ inst' \in [Installers -> Local]
          /\ inst'[q].pc = "insert" /\ inst'[q].todo = inst[q].todo \ {p}
          /\ inst'[q].copy = new
          /\ \A r \in Installers \ {q} : inst'[r] = inst[r]
      <4>1. inst[q] \in Local /\ inst[q].todo \ {p} \in SUBSET Profiles
        BY <1>0 DEF Local
      <4> DEFINE step == [inst[q] EXCEPT !.pc = "insert", !.todo = inst[q].todo \ {p}, !.copy = new]
      <4>2. /\ step \in Local /\ step.pc = "insert"
            /\ step.todo = inst[q].todo \ {p} /\ step.copy = new
        BY <3>2, <4>1 DEF Local
      <4>3. inst' = [inst EXCEPT ![q] = step]
        BY <3>1
      <4> HIDE DEF step
      <4> QED  BY <1>0, <4>2, <4>3
    <3>4. TypeOK'
      BY <1>0, <2>1, <3>1, <3>3 DEF TypeOK, table, Local
    <3>5. q \in Autos => lock = q /\ ~seeded /\ Covered(q)
      BY <2>1, InPass
    <3>6. q \in Autos => Covered(q)'
      BY <2>1, <3>2, <3>3, <3>5 DEF Covered
    <3> QED  BY <2>1, <3>1, <3>2, <3>3, <3>4, <3>5, <3>6, InstallerStep
  <2> QED  BY <2>2, <2>3
<1> QED  BY <1>1, <1>2, <1>3

\* A starter is created in two writes.
LEMMA CreateSteps ==
  ASSUME IInv, NEW q \in Installers, Insert(q) \/ WriteRoot(q)
  PROVE  IInv'
<1>0. TypeOK /\ inst \in [Installers -> Local] /\ lock \in Autos \cup {"free"}
  BY DEF IInv, TypeOK, Local
<1>1. CASE Insert(q)
  <2> DEFINE a == lastId + 1
  <2>1. /\ inst[q].pc = "insert" /\ a \in Ids
        /\ rows' = [rows EXCEPT ![a] = inst[q].copy] /\ lastId' = a
        /\ inst' = [inst EXCEPT ![q] = [@ EXCEPT !.pc = "root", !.id = a]]
        /\ had' = had \cup {inst[q].copy.profile}
        /\ crossed' \subseteq crossed \cup {inst[q].copy.profile}
        /\ UNCHANGED <<seeded, configured, lock, edit, count, deleted>>
    BY <1>1 DEF Insert, At
  <2>2. /\ inst' \in [Installers -> Local]
        /\ inst'[q].pc = "root" /\ inst'[q].todo = inst[q].todo
        /\ \A r \in Installers \ {q} : inst'[r] = inst[r]
    <3>1. a \in 0 .. MaxId
      BY <2>1 DEF Ids
    <3> HIDE DEF a
    <3>2. [inst[q] EXCEPT !.pc = "root", !.id = a] \in Local
      BY <1>0, <3>1 DEF Local
    <3> QED  BY <1>0, <2>1, <3>2 DEF Local
  <2>3. inst[q].copy.profile \in Profiles
    BY <2>1 DEF IInv, CopyInv, At
  <2>4. TypeOK'
    BY <1>0, <2>1, <2>2, <2>3 DEF TypeOK, Local, Ids
  <2>5. q \in Autos => lock = q /\ ~seeded /\ Covered(q)
    BY <2>1, InPass
  <2>6. q \in Autos => Covered(q)'
    BY <2>1, <2>2, <2>5 DEF Covered
  <2> QED  BY <2>1, <2>2, <2>4, <2>5, <2>6, InstallerStep
<1>2. CASE WriteRoot(q)
  <2>1. /\ inst[q].pc = "root"
        /\ UNCHANGED <<lastId, seeded, configured, edit, count, had, deleted, crossed>>
    BY <1>2 DEF WriteRoot, At
  <2>2. CASE Overwrite(inst[q].id, inst[q].copy) /\ Goto(q, "install") /\ UNCHANGED lock
    <3>1. inst[q].id \in Ids \cup {0} /\ inst[q].copy \in Agent
      BY <1>0, BoundsAssumption DEF Local, Ids
    <3>2. rows' \in [Ids -> Agent \cup {NoAgent}]
      BY <1>0, <2>2, <3>1, OverwriteKeeps
    <3>3. /\ inst' \in [Installers -> Local]
          /\ inst'[q] = [inst[q] EXCEPT !.pc = "install"] /\ inst'[q].pc = "install"
          /\ \A r \in Installers \ {q} : inst'[r] = inst[r]
      BY <1>0, <2>2, GotoKeeps
    <3>4. TypeOK'
      BY <1>0, <2>1, <2>2, <3>2, <3>3 DEF TypeOK, Local
    <3>5. q \in Autos => lock = q /\ ~seeded /\ Covered(q)
      BY <2>1, InPass
    <3>6. inst'[q].todo = inst[q].todo
      BY <1>0, <3>3 DEF Local
    <3>7. q \in Autos => Covered(q)'
      BY <2>1, <3>3, <3>5, <3>6 DEF Covered
    <3> QED  BY <2>1, <2>2, <3>3, <3>4, <3>5, <3>7, InstallerStep
  <2>3. CASE rows[inst[q].id] = NoAgent /\ Leave(q) /\ UNCHANGED rows
    <3>1. inst' \in [Installers -> Local] /\ lock' \in Autos \cup {"free"}
      BY <1>0, <2>3, LeaveKeeps
    <3>2. TypeOK'
      BY <1>0, <2>1, <2>3, <3>1 DEF TypeOK, Local
    <3> QED  BY <2>1, <2>3, <3>2, LeaveStep
  <2> QED  BY <1>2, <2>2, <2>3 DEF WriteRoot
<1> QED  BY <1>1, <1>2

\* The starters are listed and published, one after the other.
LEMMA PublishSteps ==
  ASSUME IInv, NEW q \in Installers,
         Installed(q) \/ (\E c \in Change : ReadUnfit(q, c)) \/ WriteFit(q)
  PROVE  IInv'
<1>0. TypeOK /\ inst \in [Installers -> Local] /\ lock \in Autos \cup {"free"}
  BY DEF IInv, TypeOK, Local
<1>1. CASE Installed(q)
  <2>1. /\ inst[q].pc = "install" /\ inst[q].todo = {}
        /\ UNCHANGED <<table, seeded, configured, edit, count, had, deleted, crossed>>
    BY <1>1 DEF Installed, At
  <2>2. CASE q \in Autos
    <3> DEFINE fix == Unfit
    <3>1. inst' = [inst EXCEPT ![q] = [@ EXCEPT !.pc = "publish", !.fix = fix]] /\ UNCHANGED lock
      BY <1>1, <2>2 DEF Installed
    <3>2. fix \in SUBSET Change
      BY DEF Unfit
    <3> HIDE DEF fix
    <3>3. /\ inst' \in [Installers -> Local] /\ inst'[q].pc = "publish"
          /\ \A r \in Installers \ {q} : inst'[r] = inst[r]
      BY <1>0, <3>1, <3>2 DEF Local
    <3>4. TypeOK'
      BY <1>0, <2>1, <3>1, <3>3 DEF TypeOK, table, Local
    <3>5. lock = q /\ ~seeded /\ Covered(q)
      BY <2>1, <2>2, InPass
    <3>6. Covered(q)'
      BY <2>1, <3>3, <3>5 DEF Covered
    <3> QED  BY <2>1, <2>2, <3>1, <3>3, <3>4, <3>5, <3>6, InstallerStep
  <2>3. CASE q \notin Autos
    <3>1. Leave(q)
      BY <1>1, <2>3 DEF Installed
    <3>2. inst' \in [Installers -> Local] /\ lock' \in Autos \cup {"free"}
      BY <1>0, <3>1, LeaveKeeps
    <3>3. TypeOK'
      BY <1>0, <2>1, <3>2 DEF TypeOK, table, Local
    <3> QED  BY <2>1, <3>1, <3>3, LeaveStep
  <2> QED  BY <2>2, <2>3
<1>2. ASSUME NEW c \in Change, ReadUnfit(q, c) PROVE IInv'
  <2> DEFINE a == c.id
  <2>0. a \in Ids
    BY DEF Change
  <2>1. /\ inst[q].pc = "publish"
        /\ UNCHANGED <<table, seeded, configured, edit, count, had, deleted, crossed>>
    BY <1>2 DEF ReadUnfit, At
  <2>2. CASE rows[a] = NoAgent
    <3>1. Leave(q)
      BY <1>2, <2>2 DEF ReadUnfit
    <3>2. inst' \in [Installers -> Local] /\ lock' \in Autos \cup {"free"}
      BY <1>0, <3>1, LeaveKeeps
    <3>3. TypeOK'
      BY <1>0, <2>1, <3>2 DEF TypeOK, table, Local
    <3> QED  BY <2>1, <3>1, <3>3, LeaveStep
  <2>3. CASE rows[a] # NoAgent
    <3>1. /\ inst' = [inst EXCEPT ![q] = [@ EXCEPT !.pc = "write", !.fix = inst[q].fix \ {c}, !.id = a,
                                  !.copy = Fitted(rows[a], c)]]
          /\ UNCHANGED lock
      BY <1>2, <2>3 DEF ReadUnfit
    <3>2. Fitted(rows[a], c) \in Agent
      BY <1>0, <2>3, <2>0, LiveRow DEF Agent, Models, Fitted
    <3>3. /\ inst' \in [Installers -> Local] /\ inst'[q].pc = "write"
          /\ \A r \in Installers \ {q} : inst'[r] = inst[r]
      <4>1. a \in 0 .. MaxId
        BY <2>0 DEF Ids
      <4>2. inst[q] \in Local /\ inst[q].fix \ {c} \in SUBSET Change
        BY <1>0 DEF Local
      <4> DEFINE step == [inst[q] EXCEPT !.pc = "write", !.fix = inst[q].fix \ {c}, !.id = a,
                                         !.copy = Fitted(rows[a], c)]
      <4>3. step \in Local /\ step.pc = "write"
        BY <3>2, <4>1, <4>2 DEF Local
      <4>4. inst' = [inst EXCEPT ![q] = step]
        BY <3>1
      <4> HIDE DEF step
      <4> QED  BY <1>0, <4>3, <4>4
    <3>4. TypeOK'
      BY <1>0, <2>1, <3>1, <3>3 DEF TypeOK, table, Local
    <3>5. q \in Autos /\ lock = q /\ ~seeded /\ Covered(q)
      BY <2>1, InPass DEF IInv, CopyInv
    <3>6. Covered(q)'
      BY <2>1, <3>3, <3>5 DEF Covered
    <3> QED  BY <2>1, <3>1, <3>3, <3>4, <3>5, <3>6, InstallerStep
  <2> QED  BY <2>2, <2>3
<1>3. CASE WriteFit(q)
  <2>1. /\ inst[q].pc = "write"
        /\ UNCHANGED <<lastId, seeded, configured, edit, count, had, deleted, crossed>>
    BY <1>3 DEF WriteFit, At
  <2>2. CASE Overwrite(inst[q].id, inst[q].copy) /\ Goto(q, "publish") /\ UNCHANGED lock
    <3>1. inst[q].id \in Ids \cup {0} /\ inst[q].copy \in Agent
      BY <1>0, BoundsAssumption DEF Local, Ids
    <3>2. rows' \in [Ids -> Agent \cup {NoAgent}]
      BY <1>0, <2>2, <3>1, OverwriteKeeps
    <3>3. /\ inst' \in [Installers -> Local] /\ inst'[q].pc = "publish"
          /\ \A r \in Installers \ {q} : inst'[r] = inst[r]
      BY <1>0, <2>2, GotoKeeps
    <3>4. TypeOK'
      BY <1>0, <2>1, <2>2, <3>2, <3>3 DEF TypeOK, Local
    <3>5. q \in Autos /\ lock = q /\ ~seeded /\ Covered(q)
      BY <2>1, InPass DEF IInv, CopyInv
    <3>6. Covered(q)'
      BY <2>1, <3>3, <3>5 DEF Covered
    <3> QED  BY <2>1, <2>2, <3>3, <3>4, <3>5, <3>6, InstallerStep
  <2>3. CASE rows[inst[q].id] = NoAgent /\ Leave(q) /\ UNCHANGED rows
    <3>1. inst' \in [Installers -> Local] /\ lock' \in Autos \cup {"free"}
      BY <1>0, <2>3, LeaveKeeps
    <3>2. TypeOK'
      BY <1>0, <2>1, <2>3, <3>1 DEF TypeOK, Local
    <3> QED  BY <2>1, <2>3, <3>2, LeaveStep
  <2> QED  BY <1>3, <2>2, <2>3 DEF WriteFit
<1> QED  BY <1>1, <1>2, <1>3

\* The marker is set by the pass that holds the lock.
LEMMA MarkerStep ==
  ASSUME IInv, NEW q \in Autos, SetMarker(q)
  PROVE  IInv'
<1>0. /\ TypeOK /\ inst \in [Installers -> Local] /\ lock \in Autos \cup {"free"}
      /\ q \in Installers /\ Autos \subseteq Installers
  BY DEF IInv, TypeOK, Local, Installers
<1>1. /\ inst[q].pc = "publish" /\ seeded' = TRUE /\ Leave(q)
      /\ UNCHANGED <<table, configured, edit, count, had, deleted, crossed>>
  BY DEF SetMarker, At
<1>2. lock = q /\ Covered(q)
  BY <1>1, InPass
<1>3. \A r \in Autos \ {q} : inst[r].pc = "idle"
  BY <1>2 DEF IInv, LockInv, At
<1>4. /\ inst' \in [Installers -> Local] /\ inst'[q].pc = "idle"
      /\ \A r \in Installers \ {q} : inst'[r] = inst[r]
      /\ lock' \in Autos \cup {"free"}
  BY <1>0, <1>1, LeaveKeeps
<1>5. TypeOK'
  BY <1>0, <1>1, <1>4 DEF TypeOK, table, Local
<1>6. \A r \in Autos : inst'[r].pc = "idle"
  BY <1>0, <1>3, <1>4
<1>7. LockInv' /\ PassInv' /\ MarkerEndsAutoInstall'
  BY <1>6 DEF LockInv, PassInv, Covered, MarkerEndsAutoInstall, At
<1>8. had = Profiles
  BY <1>0, <1>1, <1>2 DEF Covered, TypeOK
<1>9. CopyInv' /\ MarkerMeansComplete'
  BY <1>1, <1>4, <1>8 DEF IInv, CopyInv, MarkerMeansComplete, At
<1> QED  BY <1>5, <1>7, <1>9 DEF IInv

\* Steps that leave installers, lock and marker alone.
LEMMA UserSteps ==
  ASSUME IInv,
         \/ ConfigureModel
         \/ \E a \in Ids : DeleteAgent(a)
         \/ \E e \in Editors, a \in Ids, customised \in Agent : EditRead(e, a, customised)
         \/ \E e \in Editors : EditWrite(e)
  PROVE  IInv'
<1>0. TypeOK /\ edit \in [Editors -> EditLocal]
  BY DEF IInv, TypeOK, EditLocal
<1>1. ASSUME TypeOK', UNCHANGED <<inst, lock, seeded, had>> PROVE IInv'
  BY <1>1 DEF IInv, LockInv, PassInv, Covered, CopyInv, MarkerEndsAutoInstall,
              MarkerMeansComplete, At
<1>2. CASE ConfigureModel
  <2>1. TypeOK'
    BY <1>0, <1>2 DEF ConfigureModel, TypeOK, table
  <2> QED  BY <1>1, <1>2, <2>1 DEF ConfigureModel
<1>3. ASSUME NEW a \in Ids, DeleteAgent(a) PROVE IInv'
  <2>1. rows[a] \in Agent
    BY <1>0, <1>3, LiveRow DEF DeleteAgent
  <2>2. deleted' \in SUBSET Profiles
    BY <1>0, <1>3, <2>1 DEF DeleteAgent, TypeOK, Agent
  <2>3. TypeOK'
    BY <1>0, <1>3, <2>2 DEF DeleteAgent, TypeOK
  <2> QED  BY <1>1, <1>3, <2>3 DEF DeleteAgent
<1>4. ASSUME NEW e \in Editors, NEW a \in Ids, NEW customised \in Agent,
             EditRead(e, a, customised)
      PROVE  IInv'
  <2>1. count' \in [passes: 0 .. MaxPasses, manuals: 0 .. MaxManuals,
               edits: 0 .. MaxEdits, crashes: 0 .. MaxCrashes]
    BY <1>0, <1>4, BoundsAssumption DEF EditRead, TypeOK
  <2>2. [pc |-> "write", id |-> a, copy |-> customised] \in EditLocal
    BY DEF EditLocal, Ids
  <2>3. edit' \in [Editors -> EditLocal]
    BY <1>0, <1>4, <2>2 DEF EditRead
  <2>4. TypeOK'
    BY <1>0, <1>4, <2>1, <2>3 DEF EditRead, TypeOK, table, EditLocal
  <2> QED  BY <1>1, <1>4, <2>4 DEF EditRead
<1>5. ASSUME NEW e \in Editors, EditWrite(e) PROVE IInv'
  <2>1. edit[e].id \in Ids \cup {0} /\ edit[e].copy \in Agent
    BY <1>0, BoundsAssumption DEF EditLocal, Ids
  <2>2. rows' \in [Ids -> Agent \cup {NoAgent}]
    BY <1>0, <1>5, <2>1, OverwriteKeeps DEF EditWrite
  <2>3. edit' \in [Editors -> EditLocal]
    BY <1>0, <1>5, RestTypes DEF EditWrite
  <2>4. TypeOK'
    BY <1>0, <1>5, <2>2, <2>3 DEF EditWrite, TypeOK, EditLocal
  <2> QED  BY <1>1, <1>5, <2>4 DEF EditWrite
<1> QED  BY <1>2, <1>3, <1>4, <1>5

\* A crash forgets every installer and the lock, never the marker alone.
LEMMA RestartStep ==
  ASSUME IInv, Restart PROVE IInv'
<1>0. TypeOK
  BY DEF IInv
<1>1. inst' \in [Installers -> Local] /\ edit' \in [Editors -> EditLocal]
  BY RestTypes DEF Restart
<1>2. count' \in [passes: 0 .. MaxPasses, manuals: 0 .. MaxManuals,
               edits: 0 .. MaxEdits, crashes: 0 .. MaxCrashes]
  BY <1>0, BoundsAssumption DEF Restart, TypeOK
<1>3. TypeOK'
  BY <1>0, <1>1, <1>2 DEF Restart, TypeOK, table, Local, EditLocal
<1>4. \A q \in Installers : inst'[q].pc = "idle"
  BY DEF Restart, Resting
<1>5. LockInv' /\ PassInv' /\ CopyInv' /\ MarkerEndsAutoInstall'
  BY <1>4 DEF LockInv, PassInv, Covered, CopyInv, MarkerEndsAutoInstall, At, Installers
<1>6. MarkerMeansComplete'
  BY DEF IInv, MarkerMeansComplete, Restart
<1> QED  BY <1>3, <1>5, <1>6 DEF IInv

\* Only automatic passes publish, so only they set the marker.
LEMMA NextInv == ASSUME IInv, [Next]_vars PROVE IInv'
<1>1. ASSUME NEW q \in Installers, Begin(q) \/ Proceed(q) PROVE IInv'
  <2>1. CASE SetMarker(q)
    <3>1. q \in Autos
      BY <2>1 DEF SetMarker, IInv, CopyInv, At
    <3> QED  BY <2>1, <3>1, MarkerStep
  <2>2. CASE ~SetMarker(q)
    BY <1>1, <2>2, BeginSteps, CatalogSteps, CreateSteps, PublishSteps DEF Proceed
  <2> QED  BY <2>1, <2>2
<1>2. CASE UNCHANGED vars
  <2>1. UNCHANGED <<rows, lastId, seeded, configured, lock, inst, edit, count, had, deleted, crossed>>
    BY <1>2 DEF vars, table
  <2>2. TypeOK'
    BY <2>1 DEF IInv, TypeOK
  <2> QED  BY <2>1, <2>2 DEF IInv, LockInv, PassInv, Covered, CopyInv,
                            MarkerEndsAutoInstall, MarkerMeansComplete, At
<1>3. CASE Next
  BY <1>1, <1>3, UserSteps, RestartStep DEF Next
<1> QED  BY <1>2, <1>3

-----------------------------------------------------------------------------
(* Theorems *)

\* The lock, the part of the catalog each pass has covered and the marker stay
\* in step, however listings, manual installations, edits, deletions and
\* crashes interleave.
THEOREM Inductive == Spec => []IInv
<1>1. Init => IInv
  BY InitInv
<1>2. IInv /\ [Next]_vars => IInv'
  BY NextInv
<1> QED  BY <1>1, <1>2, PTL DEF Spec

\* Every variable keeps its type.
THEOREM TypeCorrect == Spec => []TypeOK
<1>1. IInv => TypeOK
  BY DEF IInv
<1> QED  BY <1>1, Inductive, PTL

\* Once the marker is set no automatic pass installs or publishes anything.
THEOREM MarkerEnds == Spec => []MarkerEndsAutoInstall
<1>1. IInv => MarkerEndsAutoInstall
  BY DEF IInv
<1> QED  BY <1>1, Inductive, PTL

\* The marker is set only when every profile was seen installed or its name
\* taken.
THEOREM MarkerComplete == Spec => []MarkerMeansComplete
<1>1. IInv => MarkerMeansComplete
  BY DEF IInv
<1> QED  BY <1>1, Inductive, PTL

-----------------------------------------------------------------------------
(* No starter twice *)

Has(p) == \E a \in Live : rows[a].profile = p

\* A copy that is to be written over a row, and the profile the row has.
Same(a, copy) ==
  a \in 1 .. lastId /\ (rows[a] # NoAgent => rows[a].profile = copy.profile)

\* No live agent is p, or p was inserted where installers crossed.
Clear(p) == Has(p) => p \in crossed

\* An installer is still to install only what is clear.
Fresh(q) ==
  LET here == inst[q]
  IN  /\ here.pc \in {"install", "insert", "root"} =>
           \A p \in here.todo : p \notin here.profiles => Clear(p)
      /\ here.pc = "insert" => Clear(here.copy.profile) /\ here.copy.profile \notin here.todo

Overwrites(q) == inst[q].pc \in {"root", "write"}

UniqueInv ==
  /\ StartersUnique
  /\ \A a \in Live : a <= lastId
  /\ \A q \in Installers : Overwrites(q) => Same(inst[q].id, inst[q].copy)
  /\ \A e \in Editors : edit[e].pc = "write" => Same(edit[e].id, edit[e].copy)
  /\ \A q \in Installers : Fresh(q)

\* A step that brings no agent and changes no profile.
RowsKept ==
  /\ lastId' = lastId /\ crossed' = crossed
  /\ \A a \in Ids : rows'[a] # NoAgent =>
       rows[a] # NoAgent /\ rows'[a].profile = rows[a].profile

LEMMA GivenIds ==
  ASSUME TypeOK
  PROVE  lastId \in Nat /\ \A a \in 1 .. lastId : a \in Ids
<1>1. lastId \in 0 .. MaxId /\ MaxId \in Nat
  BY BoundsAssumption DEF TypeOK
<1> QED  BY <1>1 DEF Ids

LEMMA RowsKeptIs ==
  ASSUME TypeOK, UniqueInv, RowsKept
  PROVE  /\ StartersUnique' /\ (\A a \in Live' : a <= lastId')
         /\ \A p : Clear(p) => Clear(p)'
         /\ \A a, copy : Same(a, copy) => Same(a, copy)'
<1>1. \A a \in Live' : a \in Live /\ rows'[a].profile = rows[a].profile
  BY DEF RowsKept, Live
<1>2. StartersUnique'
  BY <1>1 DEF UniqueInv, StartersUnique, RowsKept
<1>3. \A a \in Live' : a <= lastId'
  BY <1>1 DEF UniqueInv, RowsKept
<1>4. ASSUME NEW p, Has(p)'
      PROVE  Has(p)
  <2>1. PICK a \in Live' : rows'[a].profile = p
    BY <1>4 DEF Has
  <2> QED  BY <1>1, <2>1 DEF Has
<1>5. ASSUME NEW a, NEW copy, Same(a, copy)
      PROVE  Same(a, copy)'
  <2>1. a \in 1 .. lastId /\ lastId' = lastId /\ a \in Ids
    BY <1>5, GivenIds DEF Same, RowsKept
  <2>2. rows'[a] # NoAgent => rows'[a].profile = copy.profile
    BY <1>5, <2>1 DEF Same, RowsKept
  <2> QED  BY <2>1, <2>2 DEF Same
<1>6. ASSUME NEW p, Clear(p)
      PROVE  Clear(p)'
  BY <1>4, <1>6 DEF Clear, RowsKept
<1> QED  BY <1>2, <1>3, <1>5, <1>6

LEMMA OverwriteKept ==
  ASSUME TypeOK, NEW a, NEW copy, Same(a, copy), copy \in Agent, Overwrite(a, copy),
         UNCHANGED <<lastId, crossed>>
  PROVE  RowsKept
<1>1. rows \in [Ids -> Agent \cup {NoAgent}] /\ a \in Ids
  BY GivenIds DEF TypeOK, Same
<1>2. rows' = [rows EXCEPT ![a] = IF rows[a] = NoAgent THEN rows[a] ELSE copy]
  BY DEF Overwrite
<1>3. ASSUME NEW b \in Ids, rows'[b] # NoAgent
      PROVE  rows[b] # NoAgent /\ rows'[b].profile = rows[b].profile
  <2>1. CASE b = a
    <3>1. rows'[a] = IF rows[a] = NoAgent THEN rows[a] ELSE copy
      BY <1>1, <1>2
    <3> QED  BY <1>3, <2>1, <3>1 DEF Same
  <2>2. CASE b # a
    BY <1>1, <1>2, <1>3, <2>2
  <2> QED  BY <2>1, <2>2
<1> QED  BY <1>3 DEF RowsKept

\* What a step of one installer that brings no agent has to show of it.
LEMMA UniqueStep ==
  ASSUME TypeOK, UniqueInv, RowsKept, UNCHANGED edit, NEW q \in Installers,
         \A r \in Installers \ {q} : inst'[r] = inst[r],
         Overwrites(q)' => Same(inst'[q].id, inst'[q].copy),
         Fresh(q) => /\ (inst'[q].pc \in {"install", "insert", "root"} =>
                           \A p \in inst'[q].todo : p \notin inst'[q].profiles => Clear(p))
                     /\ (inst'[q].pc = "insert" =>
                           Clear(inst'[q].copy.profile) /\ inst'[q].copy.profile \notin inst'[q].todo)
  PROVE  UniqueInv'
<1>1. /\ StartersUnique' /\ (\A a \in Live' : a <= lastId')
      /\ \A p : Clear(p) => Clear(p)'
      /\ \A a, copy : Same(a, copy) => Same(a, copy)'
  BY RowsKeptIs
<1>2. ASSUME NEW r \in Installers, Overwrites(r)'
      PROVE  Same(inst[r].id, inst[r].copy)'
  <2>1. PICK id, copy : id = inst'[r].id /\ copy = inst'[r].copy
    OBVIOUS
  <2>2. Same(id, copy)
    <3>1. CASE r = q
      BY <1>2, <2>1, <3>1
    <3>2. CASE r # q
      BY <1>2, <2>1, <3>2 DEF UniqueInv, Overwrites
    <3> QED  BY <3>1, <3>2
  <2>3. Same(id, copy)'
    BY <1>1, <2>2
  <2> QED  BY <2>1, <2>3 DEF Same
<1>3. ASSUME NEW e \in Editors, edit'[e].pc = "write"
      PROVE  Same(edit[e].id, edit[e].copy)'
  <2>1. PICK id, copy : id = edit[e].id /\ copy = edit[e].copy
    OBVIOUS
  <2>2. Same(id, copy)
    BY <1>3, <2>1 DEF UniqueInv
  <2>3. Same(id, copy)' /\ edit' = edit
    BY <1>1, <2>2
  <2> QED  BY <2>1, <2>3 DEF Same
<1>4. ASSUME NEW r \in Installers
      PROVE  Fresh(r)'
  <2>1. Fresh(r)
    BY DEF UniqueInv
  <2>2. PICK here : here = inst'[r]
    OBVIOUS
  <2>3. /\ here.pc \in {"install", "insert", "root"} =>
             \A p \in here.todo : p \notin here.profiles => Clear(p)
        /\ here.pc = "insert" => Clear(here.copy.profile) /\ here.copy.profile \notin here.todo
    <3>1. CASE r = q
      BY <2>1, <2>2, <3>1
    <3>2. CASE r # q
      BY <2>1, <2>2, <3>2 DEF Fresh
    <3> QED  BY <3>1, <3>2
  <2>4. /\ here.pc \in {"install", "insert", "root"} =>
             \A p \in here.todo : p \notin here.profiles => Clear(p)'
        /\ here.pc = "insert" => Clear(here.copy.profile)' /\ here.copy.profile \notin here.todo
    BY <1>1, <2>3
  <2>5. Clear(here.copy.profile)' <=> Clear(inst[r].copy.profile)'
    BY <2>2 DEF Clear, Has
  <2>6. \A p : Clear(p)' <=> ((\E a \in Live' : rows'[a].profile = p) => p \in crossed')
    BY DEF Clear, Has
  <2> QED  BY <2>2, <2>4, <2>5, <2>6 DEF Fresh
<1> QED  BY <1>1, <1>2, <1>3, <1>4 DEF UniqueInv, Overwrites

LEMMA TableKept ==
  ASSUME UNCHANGED <<table, crossed>>
  PROVE  RowsKept
BY DEF table, RowsKept

LEMMA LeaveUnique ==
  ASSUME TypeOK, UniqueInv, RowsKept, UNCHANGED edit, NEW q \in Installers, Leave(q)
  PROVE  UniqueInv'
<1>1. inst'[q].pc = "idle" /\ \A r \in Installers \ {q} : inst'[r] = inst[r]
  BY LeaveKeeps
<1> QED  BY <1>1, UniqueStep DEF Overwrites

LEMMA GotoUnique ==
  ASSUME TypeOK, UniqueInv, RowsKept, UNCHANGED edit, NEW q \in Installers,
         NEW pc \in {"marker", "list", "install", "publish"}, Goto(q, pc),
         pc = "install" => inst[q].pc = "root"
  PROVE  UniqueInv'
<1>1. /\ inst'[q] = [inst[q] EXCEPT !.pc = pc] /\ inst'[q].pc = pc
      /\ \A r \in Installers \ {q} : inst'[r] = inst[r]
  BY GotoKeeps
<1>2. inst[q] \in Local
  BY DEF TypeOK, Local
<1>3. inst'[q].todo = inst[q].todo /\ inst'[q].profiles = inst[q].profiles
  BY <1>1, <1>2 DEF Local
<1>4. ~Overwrites(q)'
  BY <1>1 DEF Overwrites
<1>5. Fresh(q) => (inst'[q].pc \in {"install", "insert", "root"} =>
                     \A p \in inst'[q].todo : p \notin inst'[q].profiles => Clear(p))
  BY <1>1, <1>3 DEF Fresh
<1>6. inst'[q].pc # "insert"
  BY <1>1
<1> QED  BY <1>1, <1>4, <1>5, <1>6, UniqueStep

LEMMA UniqueList ==
  ASSUME IInv, UniqueInv, NEW q \in Installers, ListAgents(q)
  PROVE  UniqueInv'
<1>1. /\ inst' = [inst EXCEPT ![q] = [@ EXCEPT !.pc = "install", !.todo = Profiles,
                                !.profiles = ProfilesOf(Live), !.names = NamesOf(Live)]]
      /\ UNCHANGED <<table, crossed>> /\ UNCHANGED edit
  BY DEF ListAgents
<1>2. TypeOK /\ inst \in [Installers -> Local]
  BY DEF IInv, TypeOK, Local
<1>3. /\ inst'[q].pc = "install" /\ inst'[q].profiles = ProfilesOf(Live)
      /\ inst'[q].todo = Profiles
      /\ \A r \in Installers \ {q} : inst'[r] = inst[r]
  BY <1>1, <1>2 DEF Local
<1>4. \A p \in Profiles : p \notin ProfilesOf(Live) => Clear(p)
  BY NamesAssumption DEF ProfilesOf, Clear, Has
<1> QED  BY <1>1, <1>2, <1>3, <1>4, TableKept, UniqueStep DEF Overwrites

LEMMA UniqueCatalog ==
  ASSUME IInv, UniqueInv, NEW q \in Installers, NEW p \in Profiles, Skip(q, p) \/ CheckName(q, p)
  PROVE  UniqueInv'
<1>1. TypeOK /\ inst \in [Installers -> Local] /\ inst[q] \in Local
  BY DEF IInv, TypeOK, Local
<1>2. RowsKept /\ UNCHANGED edit /\ inst[q].pc = "install" /\ p \in inst[q].todo
  BY TableKept DEF Skip, CheckName, At
<1>3. CASE Skip(q, p)
  <2>1. /\ inst'[q].pc = "install" /\ inst'[q].todo = inst[q].todo \ {p}
        /\ inst'[q].profiles = inst[q].profiles
        /\ \A r \in Installers \ {q} : inst'[r] = inst[r]
    BY <1>1, <1>2, <1>3 DEF Skip, Local
  <2>2. Fresh(q) => \A x \in inst'[q].todo : x \notin inst'[q].profiles => Clear(x)
    BY <1>2, <2>1 DEF Fresh
  <2>3. ~Overwrites(q)' /\ inst'[q].pc # "insert"
    BY <2>1 DEF Overwrites
  <2> QED  BY <1>1, <1>2, <2>1, <2>2, <2>3, UniqueStep
<1>4. CASE CheckName(q, p) /\ p \in NamesOf(Live)
  <2>1. Leave(q)
    BY <1>4 DEF CheckName
  <2> QED  BY <1>1, <1>2, <2>1, LeaveUnique
<1>5. CASE CheckName(q, p) /\ p \notin NamesOf(Live)
  <2> DEFINE new == [profile |-> p, name |-> p, public |-> q \in Autos,
                     model |-> IF q \in Autos THEN "first" ELSE "none"]
             step == [inst[q] EXCEPT !.pc = "insert", !.todo = inst[q].todo \ {p}, !.copy = new]
  <2>1. inst' = [inst EXCEPT ![q] = step] /\ p \notin inst[q].profiles
    BY <1>5 DEF CheckName
  <2>2. new.profile = p
    OBVIOUS
  <2> HIDE DEF new
  <2>3. /\ step.pc = "insert" /\ step.todo = inst[q].todo \ {p} /\ step.copy = new
        /\ step.profiles = inst[q].profiles
    BY <1>1 DEF Local
  <2> HIDE DEF step
  <2>4. inst'[q] = step /\ \A r \in Installers \ {q} : inst'[r] = inst[r]
    BY <1>1, <2>1
  <2>5. ~Overwrites(q)'
    BY <2>3, <2>4 DEF Overwrites
  <2>6. Fresh(q) => \A x \in inst[q].todo : x \notin inst[q].profiles => Clear(x)
    BY <1>2 DEF Fresh
  <2>7. Fresh(q) => /\ \A x \in inst'[q].todo : x \notin inst'[q].profiles => Clear(x)
                    /\ Clear(inst'[q].copy.profile) /\ inst'[q].copy.profile \notin inst'[q].todo
    BY <1>2, <2>1, <2>2, <2>3, <2>4, <2>6
  <2> QED  BY <1>1, <1>2, <2>4, <2>5, <2>7, UniqueStep
<1> QED  BY <1>3, <1>4, <1>5

\* The only step that brings an agent: no live one has its profile, unless
\* installers crossed; and any other that is still to insert it has crossed.
LEMMA UniqueInsert ==
  ASSUME IInv, UniqueInv, NEW q \in Installers, Insert(q)
  PROVE  UniqueInv'
<1> DEFINE a == lastId + 1
           copy == inst[q].copy
<1>1. TypeOK /\ inst \in [Installers -> Local] /\ inst[q] \in Local /\ copy \in Agent
        /\ rows \in [Ids -> Agent \cup {NoAgent}]
  BY DEF IInv, TypeOK, Local
<1>2. /\ inst[q].pc = "insert" /\ a \in Ids
      /\ rows' = [rows EXCEPT ![a] = copy] /\ lastId' = a
      /\ inst' = [inst EXCEPT ![q] = [@ EXCEPT !.pc = "root", !.id = a]]
      /\ edit' = edit
      /\ crossed' = crossed \cup
           {p \in {copy.profile} : \E r \in Installers \ {q} :
              {q, r} \cap Manuals # {} /\ Intends(r, p)}
  BY DEF Insert, At
<1>3. lastId \in Nat /\ \A b \in 1 .. lastId : b \in Ids
  BY <1>1, GivenIds
<1>4. ASSUME NEW r \in Installers \ {q}, Intends(r, copy.profile)
      PROVE  copy.profile \in crossed'
  <2>1. q \in Manuals \/ r \in Manuals
    BY <1>2, <1>4 DEF IInv, LockInv, Intends, At, Installers
  <2> QED  BY <1>2, <1>4, <2>1
<1>5. /\ \A p \in inst[q].todo : p \notin inst[q].profiles => Clear(p)
      /\ Clear(copy.profile) /\ copy.profile \notin inst[q].todo
  BY <1>2 DEF UniqueInv, Fresh
<1>6. rows[a] = NoAgent
  <2>1. ~(a <= lastId)
    BY <1>3
  <2> QED  BY <1>2, <2>1 DEF UniqueInv, Live
<1>7. copy # NoAgent
  BY <1>1, NoAgentAssumption
<1>8. /\ inst'[q].pc = "root" /\ inst'[q].id = a /\ inst'[q].copy = copy
      /\ inst'[q].todo = inst[q].todo /\ inst'[q].profiles = inst[q].profiles
      /\ \A r \in Installers \ {q} : inst'[r] = inst[r]
  <2> DEFINE step == [inst[q] EXCEPT !.pc = "root", !.id = a]
  <2> HIDE DEF a
  <2>1. /\ step.pc = "root" /\ step.id = a /\ step.copy = copy
        /\ step.todo = inst[q].todo /\ step.profiles = inst[q].profiles
    BY <1>1 DEF Local
  <2>2. inst' = [inst EXCEPT ![q] = step]
    BY <1>2
  <2> HIDE DEF step
  <2> QED  BY <1>1, <2>1, <2>2
<1> HIDE DEF copy
<1>9. /\ rows'[a] = copy
      /\ \A b \in Ids \ {a} : rows'[b] = rows[b]
  BY <1>1, <1>2
<1>10. Live' = Live \cup {a} /\ a \notin Live
  BY <1>2, <1>6, <1>7, <1>9 DEF Live
<1>11. StartersUnique'
  <2> SUFFICES ASSUME NEW b \in Live', NEW c \in Live', rows'[b].profile = rows'[c].profile,
                      rows'[b].profile \notin crossed' \cup {NoProfile}
               PROVE  b = c
    BY DEF StartersUnique
  <2>1. \A d \in Live : rows'[d] = rows[d]
    BY <1>9, <1>10 DEF Live
  <2>2. \A d \in Live : rows[d].profile = copy.profile => copy.profile \in crossed'
    BY <1>2, <1>5 DEF Clear, Has
  <2>3. CASE b \in Live /\ c \in Live
    BY <1>2, <2>1, <2>3 DEF UniqueInv, StartersUnique
  <2>4. CASE ~(b \in Live /\ c \in Live)
    BY <1>9, <1>10, <2>1, <2>2, <2>4
  <2> QED  BY <2>3, <2>4
<1>12. \A b \in Live' : b <= lastId'
  <2>1. \A b \in Live : b <= lastId /\ b \in Nat
    BY DEF UniqueInv, Live, Ids
  <2> QED  BY <1>2, <1>3, <1>10, <2>1
<1>13. Same(inst[q].id, inst[q].copy)'
  <2>1. a \in 1 .. a
    BY <1>3
  <2> QED  BY <1>2, <1>8, <1>9, <2>1 DEF Same
<1>14. ASSUME NEW r \in Installers, Overwrites(r)'
       PROVE  Same(inst[r].id, inst[r].copy)'
  <2>1. CASE r = q
    BY <1>13, <2>1
  <2>2. CASE r # q
    <3>1. inst'[r] = inst[r] /\ Same(inst[r].id, inst[r].copy)
      BY <1>8, <1>14, <2>2 DEF UniqueInv, Overwrites
    <3>2. inst[r].id \in 1 .. lastId /\ inst[r].id \in 1 .. a /\ inst[r].id \in Ids \ {a}
      BY <1>3, <3>1 DEF Same
    <3> QED  BY <1>2, <1>9, <3>1, <3>2 DEF Same
  <2> QED  BY <2>1, <2>2
<1>15. ASSUME NEW e \in Editors, edit'[e].pc = "write"
       PROVE  Same(edit[e].id, edit[e].copy)'
  <2>1. Same(edit[e].id, edit[e].copy)
    BY <1>2, <1>15 DEF UniqueInv
  <2>2. edit[e].id \in 1 .. lastId /\ edit[e].id \in 1 .. a /\ edit[e].id \in Ids \ {a}
    BY <1>3, <2>1 DEF Same
  <2> QED  BY <1>2, <1>9, <2>1, <2>2 DEF Same
<1>16. ASSUME NEW p, Clear(p), p # copy.profile
       PROVE  Clear(p)'
  <2>1. ASSUME Has(p)'
        PROVE  Has(p)
    <3>1. PICK b \in Live' : rows'[b].profile = p
      BY <2>1 DEF Has
    <3>2. b \in Live /\ rows'[b] = rows[b]
      BY <1>9, <1>10, <1>16, <3>1 DEF Live
    <3> QED  BY <3>1, <3>2 DEF Has
  <2> QED  BY <1>2, <1>16, <2>1 DEF Clear
<1>17. ASSUME NEW r \in Installers
       PROVE  Fresh(r)'
  <2>1. \A p : Clear(p)' <=> ((\E b \in Live' : rows'[b].profile = p) => p \in crossed')
    BY DEF Clear, Has
  <2>2. CASE r = q
    <3>1. ASSUME NEW p \in inst'[q].todo, p \notin inst'[q].profiles
          PROVE  Clear(p)'
      BY <1>5, <1>8, <1>16, <3>1
    <3> QED  BY <1>8, <2>1, <2>2, <3>1 DEF Fresh
  <2>3. CASE r # q
    <3>1. PICK here : here = inst[r]
      OBVIOUS
    <3>2. ASSUME NEW p, Clear(p), Intends(r, p)
          PROVE  Clear(p)'
      <4>1. CASE p = copy.profile
        BY <1>4, <2>3, <3>2, <4>1 DEF Clear
      <4>2. CASE p # copy.profile
        BY <1>16, <3>2, <4>2
      <4> QED  BY <4>1, <4>2
    <3>3. /\ here.pc \in {"install", "insert", "root"} =>
               \A p \in here.todo : p \notin here.profiles => Clear(p) /\ Intends(r, p)
          /\ here.pc = "insert" => /\ Clear(here.copy.profile) /\ Intends(r, here.copy.profile)
                                  /\ here.copy.profile \notin here.todo
      BY <3>1 DEF UniqueInv, Fresh, Intends, At
    <3>4. /\ here.pc \in {"install", "insert", "root"} =>
               \A p \in here.todo : p \notin here.profiles => Clear(p)'
          /\ here.pc = "insert" => Clear(here.copy.profile)' /\ here.copy.profile \notin here.todo
      BY <3>2, <3>3
    <3>5. inst'[r] = here
      BY <1>8, <2>3, <3>1
    <3>6. Clear(here.copy.profile)' <=> Clear(inst[r].copy.profile)'
      BY <1>8, <2>3, <3>1 DEF Clear, Has
    <3> QED  BY <2>1, <3>4, <3>5, <3>6 DEF Fresh
  <2> QED  BY <2>2, <2>3
<1> QED  BY <1>11, <1>12, <1>14, <1>15, <1>17 DEF UniqueInv, Overwrites

LEMMA UniqueWrite ==
  ASSUME IInv, UniqueInv, NEW q \in Installers, WriteRoot(q) \/ WriteFit(q)
  PROVE  UniqueInv'
<1>1. TypeOK /\ inst \in [Installers -> Local] /\ inst[q].copy \in Agent
  BY DEF IInv, TypeOK, Local
<1>2. Overwrites(q) /\ Same(inst[q].id, inst[q].copy) /\ UNCHANGED <<lastId, edit, crossed>>
  BY DEF WriteRoot, WriteFit, Overwrites, UniqueInv, At
<1>3. CASE rows' = rows /\ Leave(q)
  <2>1. RowsKept
    BY <1>2, <1>3 DEF RowsKept
  <2> QED  BY <1>1, <1>2, <1>3, <2>1, LeaveUnique
<1>4. CASE /\ Overwrite(inst[q].id, inst[q].copy)
           /\ (Goto(q, "install") /\ inst[q].pc = "root") \/ Goto(q, "publish")
  <2>1. PICK id, copy : id = inst[q].id /\ copy = inst[q].copy
    OBVIOUS
  <2>2. Same(id, copy) /\ copy \in Agent /\ Overwrite(id, copy)
    BY <1>1, <1>2, <1>4, <2>1
  <2>3. RowsKept
    BY <1>1, <1>2, <2>2, OverwriteKept
  <2>4. CASE Goto(q, "install") /\ inst[q].pc = "root"
    BY <1>1, <1>2, <2>3, <2>4, GotoUnique
  <2>5. CASE Goto(q, "publish")
    BY <1>1, <1>2, <2>3, <2>5, GotoUnique
  <2> QED  BY <1>4, <2>4, <2>5
<1> QED  BY <1>3, <1>4 DEF WriteRoot, WriteFit, At

LEMMA UniqueInstalled ==
  ASSUME IInv, UniqueInv, NEW q \in Installers, Installed(q)
  PROVE  UniqueInv'
<1>1. TypeOK /\ inst \in [Installers -> Local] /\ inst[q] \in Local
  BY DEF IInv, TypeOK, Local
<1>2. RowsKept /\ UNCHANGED edit
  BY TableKept DEF Installed
<1>3. CASE q \in Autos
  <2> DEFINE fix == Unfit
             step == [inst[q] EXCEPT !.pc = "publish", !.fix = fix]
  <2>1. inst' = [inst EXCEPT ![q] = step]
    BY <1>3 DEF Installed
  <2> HIDE DEF fix
  <2>2. step.pc = "publish"
    BY <1>1 DEF Local
  <2> HIDE DEF step
  <2>3. inst'[q] = step /\ \A r \in Installers \ {q} : inst'[r] = inst[r]
    BY <1>1, <2>1
  <2> QED  BY <1>1, <1>2, <2>2, <2>3, UniqueStep DEF Overwrites
<1>4. CASE q \notin Autos
  BY <1>1, <1>2, <1>4, LeaveUnique DEF Installed
<1> QED  BY <1>3, <1>4

LEMMA UniqueRead ==
  ASSUME IInv, UniqueInv, NEW q \in Installers, NEW c \in Change, ReadUnfit(q, c)
  PROVE  UniqueInv'
<1> DEFINE a == c.id
<1>0. a \in Ids
  BY DEF Change
<1>1. TypeOK /\ inst \in [Installers -> Local] /\ inst[q] \in Local
  BY DEF IInv, TypeOK, Local
<1>2. RowsKept /\ UNCHANGED edit
  BY TableKept DEF ReadUnfit
<1>3. CASE rows[a] = NoAgent
  BY <1>1, <1>2, <1>3, LeaveUnique DEF ReadUnfit
<1>4. CASE rows[a] # NoAgent
  <2> DEFINE copy == Fitted(rows[a], c)
             step == [inst[q] EXCEPT !.pc = "write", !.fix = inst[q].fix \ {c}, !.id = a,
                        !.copy = copy]
  <2>1. inst' = [inst EXCEPT ![q] = step]
    BY <1>4 DEF ReadUnfit
  <2>2. rows[a] \in Agent
    BY <1>0, <1>1, <1>4, LiveRow
  <2>3. copy.profile = rows[a].profile
    BY <2>2 DEF Fitted, Agent
  <2> HIDE DEF copy
  <2>4. step.pc = "write" /\ step.id = a /\ step.copy = copy
    BY <1>1 DEF Local
  <2> HIDE DEF step
  <2>5. inst'[q] = step /\ \A r \in Installers \ {q} : inst'[r] = inst[r]
    BY <1>1, <2>1
  <2>6. a \in 1 .. lastId
    BY <1>0, <1>1, <1>4, GivenIds DEF UniqueInv, Live, Ids
  <2>7. Same(a, copy)
    BY <2>3, <2>6 DEF Same
  <2>8. Same(inst'[q].id, inst'[q].copy)
    BY <2>4, <2>5, <2>7
  <2> QED  BY <1>1, <1>2, <2>4, <2>5, <2>8, UniqueStep
<1> QED  BY <1>3, <1>4

LEMMA UniqueInstaller ==
  ASSUME IInv, UniqueInv, NEW q \in Installers, Begin(q) \/ Proceed(q)
  PROVE  UniqueInv'
<1>1. TypeOK
  BY DEF IInv
<1>2. CASE Begin(q)
  <2>1. RowsKept /\ UNCHANGED edit /\ (Goto(q, "marker") \/ Goto(q, "list"))
    BY <1>2, TableKept DEF Begin
  <2>2. CASE Goto(q, "marker")
    BY <1>1, <2>1, <2>2, GotoUnique
  <2>3. CASE Goto(q, "list")
    BY <1>1, <2>1, <2>3, GotoUnique
  <2> QED  BY <2>1, <2>2, <2>3
<1>3. CASE ReadMarker(q)
  <2>1. RowsKept /\ UNCHANGED edit /\ (Leave(q) \/ Goto(q, "list"))
    BY <1>3, TableKept DEF ReadMarker
  <2>2. CASE Leave(q)
    BY <1>1, <2>1, <2>2, LeaveUnique
  <2>3. CASE Goto(q, "list")
    BY <1>1, <2>1, <2>3, GotoUnique
  <2> QED  BY <2>1, <2>2, <2>3
<1>4. CASE SetMarker(q)
  <2>1. RowsKept /\ UNCHANGED edit /\ Leave(q)
    BY <1>4, TableKept DEF SetMarker
  <2> QED  BY <1>1, <2>1, LeaveUnique
<1> QED  BY <1>2, <1>3, <1>4, UniqueList, UniqueCatalog, UniqueInsert, UniqueWrite,
            UniqueInstalled, UniqueRead DEF Proceed

\* Steps of users: a deletion, and the edits, which keep the profile.
LEMMA UniqueUsers ==
  ASSUME IInv, UniqueInv,
         \/ ConfigureModel
         \/ \E a \in Ids : DeleteAgent(a)
         \/ \E e \in Editors, a \in Ids, customised \in Agent : EditRead(e, a, customised)
         \/ \E e \in Editors : EditWrite(e)
  PROVE  UniqueInv'
<1>1. TypeOK /\ edit \in [Editors -> EditLocal] /\ rows \in [Ids -> Agent \cup {NoAgent}]
        /\ UNCHANGED inst
  BY DEF IInv, TypeOK, EditLocal, ConfigureModel, DeleteAgent, EditRead, EditWrite
<1>2. ASSUME RowsKept,
             \A e \in Editors : edit'[e].pc = "write" => Same(edit'[e].id, edit'[e].copy)
      PROVE  UniqueInv'
  <2>1. /\ StartersUnique' /\ (\A a \in Live' : a <= lastId')
        /\ \A p : Clear(p) => Clear(p)'
        /\ \A a, copy : Same(a, copy) => Same(a, copy)'
    BY <1>1, <1>2, RowsKeptIs
  <2>2. ASSUME NEW e \in Editors, edit'[e].pc = "write"
        PROVE  Same(edit[e].id, edit[e].copy)'
    <3>1. PICK id, copy : id = edit'[e].id /\ copy = edit'[e].copy
      OBVIOUS
    <3>2. Same(id, copy)'
      BY <1>2, <2>1, <2>2, <3>1
    <3> QED  BY <3>1, <3>2 DEF Same
  <2>3. ASSUME NEW r \in Installers, Overwrites(r)'
        PROVE  Same(inst[r].id, inst[r].copy)'
    <3>1. PICK id, copy : id = inst[r].id /\ copy = inst[r].copy
      OBVIOUS
    <3>2. Same(id, copy)
      BY <1>1, <2>3, <3>1 DEF UniqueInv, Overwrites
    <3>3. Same(id, copy)'
      BY <2>1, <3>2
    <3> QED  BY <1>1, <3>1, <3>3 DEF Same
  <2>4. ASSUME NEW r \in Installers
        PROVE  Fresh(r)'
    <3>1. Fresh(r) /\ inst'[r] = inst[r]
      BY <1>1 DEF UniqueInv
    <3>2. PICK here : here = inst[r]
      OBVIOUS
    <3>3. /\ here.pc \in {"install", "insert", "root"} =>
               \A p \in here.todo : p \notin here.profiles => Clear(p)'
          /\ here.pc = "insert" => Clear(here.copy.profile)' /\ here.copy.profile \notin here.todo
      BY <2>1, <3>1, <3>2 DEF Fresh
    <3>4. \A p : Clear(p)' <=> ((\E b \in Live' : rows'[b].profile = p) => p \in crossed')
      BY DEF Clear, Has
    <3>5. Clear(here.copy.profile)' <=> Clear(inst[r].copy.profile)'
      BY <3>1, <3>2 DEF Clear, Has
    <3> QED  BY <3>1, <3>2, <3>3, <3>4, <3>5 DEF Fresh
  <2> QED  BY <2>1, <2>2, <2>3, <2>4 DEF UniqueInv, Overwrites
<1>3. \A e \in Editors : edit[e].pc = "write" => Same(edit[e].id, edit[e].copy)
  BY DEF UniqueInv
<1>4. CASE ConfigureModel
  <2>1. RowsKept /\ edit' = edit
    BY <1>4, TableKept DEF ConfigureModel
  <2> QED  BY <1>2, <1>3, <2>1
<1>5. ASSUME NEW a \in Ids, DeleteAgent(a)
      PROVE  UniqueInv'
  <2>1. RowsKept /\ edit' = edit
    BY <1>1, <1>5 DEF DeleteAgent, RowsKept
  <2> QED  BY <1>2, <1>3, <2>1
<1>6. ASSUME NEW e \in Editors, NEW a \in Ids, NEW customised \in Agent,
             EditRead(e, a, customised)
      PROVE  UniqueInv'
  <2>1. rows[a] # NoAgent /\ RowsKept
    BY <1>6, TableKept DEF EditRead
  <2>2. rows[a] \in Agent
    BY <1>1, <2>1, LiveRow
  <2>3. customised.profile = rows[a].profile
    BY <1>6, <2>2 DEF EditRead, Agent
  <2>4. a \in 1 .. lastId
    BY <1>1, <2>1, GivenIds DEF UniqueInv, Live, Ids
  <2>5. Same(a, customised)
    BY <2>3, <2>4 DEF Same
  <2>6. edit' = [edit EXCEPT ![e] = [pc |-> "write", id |-> a, copy |-> customised]]
    BY <1>6 DEF EditRead
  <2>7. ASSUME NEW f \in Editors, edit'[f].pc = "write"
        PROVE  Same(edit'[f].id, edit'[f].copy)
    <3>1. CASE f = e
      <4>1. edit'[f].id = a /\ edit'[f].copy = customised
        BY <1>1, <2>6, <3>1
      <4> QED  BY <2>5, <4>1
    <3>2. CASE f # e
      <4>1. edit'[f] = edit[f]
        BY <1>1, <2>6, <3>2
      <4> QED  BY <1>3, <2>7, <4>1
    <3> QED  BY <3>1, <3>2
  <2> QED  BY <1>2, <2>1, <2>7
<1>7. ASSUME NEW e \in Editors, EditWrite(e)
      PROVE  UniqueInv'
  <2>1. PICK id, copy : id = edit[e].id /\ copy = edit[e].copy
    OBVIOUS
  <2>2. Overwrite(id, copy) /\ UNCHANGED <<lastId, crossed>> /\ edit[e].pc = "write"
        /\ edit' = [edit EXCEPT ![e] = [pc |-> "idle", id |-> 0, copy |-> Blank]]
    BY <1>7, <2>1 DEF EditWrite
  <2>3. Same(id, copy) /\ copy \in Agent
    BY <1>1, <1>3, <2>1, <2>2 DEF EditLocal
  <2>4. RowsKept
    BY <1>1, <2>2, <2>3, OverwriteKept
  <2>5. ASSUME NEW f \in Editors, edit'[f].pc = "write"
        PROVE  f # e /\ edit'[f] = edit[f]
    BY <1>1, <2>2, <2>5
  <2>6. \A f \in Editors : edit'[f].pc = "write" => Same(edit'[f].id, edit'[f].copy)
    BY <1>3, <2>5
  <2> QED  BY <1>2, <2>4, <2>6
<1> QED  BY <1>4, <1>5, <1>6, <1>7

LEMMA UniqueNext ==
  ASSUME IInv, UniqueInv, [Next]_vars
  PROVE  UniqueInv'
<1>1. ASSUME UNCHANGED vars
      PROVE  UniqueInv'
  <2>1. UNCHANGED <<rows, lastId, inst, edit, crossed>>
    BY <1>1 DEF vars, table
  <2> QED  BY <2>1 DEF UniqueInv, StartersUnique, Overwrites, Same, Fresh, Clear, Has, Live
<1>2. CASE Restart
  <2>1. RowsKept /\ TypeOK
    BY <1>2, TableKept DEF Restart, IInv
  <2>2. StartersUnique' /\ (\A a \in Live' : a <= lastId')
    BY <2>1, RowsKeptIs
  <2>3. (\A q \in Installers : inst'[q].pc = "idle") /\ (\A e \in Editors : edit'[e].pc = "idle")
    BY <1>2 DEF Restart, Resting
  <2> QED  BY <2>2, <2>3 DEF UniqueInv, Overwrites, Fresh, Installers
<1>3. CASE Next /\ ~Restart
  BY <1>3, UniqueInstaller, UniqueUsers DEF Next
<1> QED  BY <1>1, <1>2, <1>3

\* Two live agents are the same starter only where a manual installation
\* crossed another installer that was to insert it too, for any catalog and
\* number of listings, manual installations, edits, deletions and crashes: a pass
\* that was cut short left its lock, and the next one looks at what it did.
THEOREM Unique == Spec => []StartersUnique
<1>1. Init => UniqueInv
  <2> SUFFICES ASSUME Init  PROVE UniqueInv
    OBVIOUS
  <2>1. /\ \A q \in Installers : inst[q].pc = "idle"
        /\ \A e \in Editors : edit[e].pc = "idle"
    BY DEF Init, Resting
  <2>2. Live \subseteq {1} /\ \A a \in Live : a <= lastId
    BY DEF Init, Live
  <2>3. StartersUnique
    BY <2>2 DEF StartersUnique
  <2> QED  BY <2>1, <2>2, <2>3 DEF UniqueInv, Overwrites, Fresh
<1>2. IInv /\ UniqueInv /\ [Next]_vars => UniqueInv'
  BY UniqueNext
<1>3. UniqueInv => StartersUnique
  BY DEF UniqueInv
<1> QED  BY <1>1, <1>2, <1>3, Inductive, PTL DEF Spec

NoCrossing == crossed = {}

\* Where no installation is a manual one none cross.
LEMMA NoneCross ==
  ASSUME Manuals = {}
  PROVE  Spec => []NoCrossing
<1>1. Init => NoCrossing
  BY DEF Init, NoCrossing
<1>2. NoCrossing /\ [Next]_vars => NoCrossing'
  <2> SUFFICES ASSUME crossed = {}, [Next]_vars  PROVE crossed' = {}
    BY DEF NoCrossing
  <2>1. ASSUME NEW q \in Installers, Begin(q) \/ Proceed(q)
        PROVE  crossed' = {}
    BY <2>1 DEF Begin, Proceed, ReadMarker, ListAgents, Skip, CheckName, Insert, WriteRoot,
                Installed, ReadUnfit, WriteFit, SetMarker
  <2>2. CASE UNCHANGED vars
    BY <2>2 DEF vars
  <2>3. CASE Next
    BY <2>1, <2>3 DEF Next, ConfigureModel, DeleteAgent, EditRead, EditWrite, Restart
  <2> QED  BY <2>2, <2>3
<1> QED  BY <1>1, <1>2, PTL DEF Spec

\* No two live agents are the same starter.
OneEach ==
  \A a, b \in Live :
    rows[a].profile = rows[b].profile /\ rows[a].profile # NoProfile => a = b

\* Automatic passes alone never give two live agents the same starter profile.
THEOREM UniqueAutomatic ==
  ASSUME Manuals = {}
  PROVE  Spec => []OneEach
<1>1. StartersUnique /\ NoCrossing => OneEach
  BY DEF StartersUnique, NoCrossing, OneEach
<1> QED  BY <1>1, Unique, NoneCross, PTL

=============================================================================
