--------------------------- MODULE StarterAgents ---------------------------
(***************************************************************************)
(* The one-time installation of the starter agents. Every listing of the   *)
(* agents runs ensure_default_starter_agents, under a lock; the command    *)
(* agents.install_starters runs the same installer without the lock; users *)
(* edit and delete agents meanwhile. Agents live in an SQLite table whose  *)
(* calls are atomic, the marker of a finished installation in the          *)
(* configuration file.                                                     *)
(***************************************************************************)
EXTENDS Integers, FiniteSets

CONSTANTS
  Profiles,   \* the starter catalog
  Autos,      \* requests that list agents
  Manuals,    \* requests that run agents.install_starters
  Editors,    \* requests inside update_agent
  Custom,     \* a name that is no starter's
  NoProfile,  \* starter_profile_id of an ordinary agent
  NoAgent,    \* the row of an id that is unused or deleted
  MaxId,      \* bound: ids handed out by AUTOINCREMENT
  MaxPasses,  \* bound: automatic passes begun
  MaxManuals, \* bound: manual installations begun
  MaxEdits,   \* bound: edits begun
  MaxCrashes, \* bound: restarts of the process
  MaxBeside   \* bound: automatic passes, edits, deletions and restarts in a
              \* behaviour with a manual installation

Ids        == 1 .. MaxId
Installers == Autos \cup Manuals

\* default_model_id: none, the first configured model, one the user chose.
Models == {"none", "first", "chosen"}

Agent == [profile: Profiles \cup {NoProfile}, name: Profiles \cup {Custom},
          public: BOOLEAN, model: Models]

ASSUME NamesAssumption == Custom \notin Profiles /\ NoProfile \notin Profiles
ASSUME NoAgentAssumption == NoAgent \notin Agent
ASSUME FreeAssumption == "free" \notin Autos
ASSUME BoundsAssumption ==
  MaxId \in Nat \ {0} /\ {MaxPasses, MaxManuals, MaxEdits, MaxCrashes, MaxBeside} \subseteq Nat

VARIABLES
  rows,       \* the agents table: Ids -> Agent or NoAgent
  lastId,     \* its AUTOINCREMENT sequence
  seeded,     \* agents.default_starters_seeded_v1
  configured, \* some model is configured
  lock,       \* who holds _lock: a request or "free"
  inst,       \* the locals of each installer
  edit,       \* the locals of each request in update_agent
  count,      \* the counters behind the bounds
  had,        \* history: profiles that a live agent had, or a name conflict
  deleted,    \* history: profiles whose agent a user deleted
  crossed     \* history: starters inserted while another installer, by its
              \* listing, was still to insert them, one of the two a manual one

table == <<rows, lastId>>
vars  == <<table, seeded, configured, lock, inst, edit, count, had, deleted, crossed>>

Live == {a \in Ids : rows[a] # NoAgent}

\* Mutants: agents that are no starter's are not left out; a starter is
\* recognised by its name.
AllProfilesOf(ids)  == {rows[a].profile : a \in ids}
ProfilesByName(ids) == {p \in Profiles : \E a \in ids : rows[a].name = p}

\* starter_profile_ids, and names, of the agents listed.
ProfilesOf(ids) == {rows[a].profile : a \in ids} \ {NoProfile}
NamesOf(ids)    == {rows[a].name : a \in ids}

Blank == [profile |-> NoProfile, name |-> Custom, public |-> FALSE,
          model |-> "none"]

Resting == [pc |-> "idle", todo |-> {}, profiles |-> {}, names |-> {},
            fix |-> {}, id |-> 0, copy |-> Blank]

\* A user may have given an agent of his own the name of a starter.
Init ==
  /\ \/ rows = [a \in Ids |-> NoAgent] /\ lastId = 0
     \/ \E p \in Profiles :
          /\ rows = [a \in Ids |-> IF a = 1 THEN [Blank EXCEPT !.name = p]
                                   ELSE NoAgent]
          /\ lastId = 1
  /\ seeded = FALSE
  /\ configured = FALSE
  /\ lock = "free"
  /\ inst = [q \in Installers |-> Resting]
  /\ edit = [e \in Editors |-> [pc |-> "idle", id |-> 0, copy |-> Blank]]
  /\ count = [passes |-> 0, manuals |-> 0, edits |-> 0, crashes |-> 0]
  /\ had = {}
  /\ deleted = {}
  /\ crossed = {}

At(q, pc)   == inst[q].pc = pc
Goto(q, pc) == inst' = [inst EXCEPT ![q].pc = pc]

\* Mutant: the lock is released only when the installer returns.
LeaveLocked(q) ==
  /\ inst' = [inst EXCEPT ![q] = Resting]
  /\ lock' = IF lock = q /\ ~At(q, "install") THEN "free" ELSE lock

\* The installer returns or an exception ends it: either way an automatic
\* pass releases the lock, and only "mark" sets the marker.
Leave(q) ==
  /\ inst' = [inst EXCEPT ![q] = Resting]
  /\ lock' = IF lock = q THEN "free" ELSE lock

-----------------------------------------------------------------------------
(* ensure_default_starter_agents *)

\* Bound: the ids suffice for this pass and those under way, so that no pass
\* stops at MaxId.
IdsSuffice ==
  LET underWay == {q \in Installers : ~At(q, "idle")} IN
  lastId + Cardinality(Profiles) * (Cardinality(underWay) + 1) <= MaxId

\* Bound: what else happened, and whether more of it may.
Others == count.passes + count.edits + (lastId - Cardinality(Live)) + count.crashes
Room   == count.manuals > 0 => Others < MaxBeside

\* Bound: so many passes begin.
Admitted(q) ==
  /\ IdsSuffice
  /\ \/ /\ q \in Autos /\ count.passes < MaxPasses /\ Room
        /\ count' = [count EXCEPT !.passes = @ + 1]
     \/ /\ q \notin Autos /\ count.manuals < MaxManuals /\ Others <= MaxBeside
        /\ count' = [count EXCEPT !.manuals = @ + 1]

\* Mutant: the marker is read before the lock is taken.
BeginUnlocked(q) ==
  /\ At(q, "idle") /\ Admitted(q)
  /\ Goto(q, IF q \in Autos THEN "marker" ELSE "list")
  /\ UNCHANGED <<table, seeded, configured, lock, edit, had, deleted, crossed>>

Begin(q) ==
  /\ At(q, "idle") /\ Admitted(q)
  /\ IF q \in Autos
     THEN lock = "free" /\ lock' = q /\ Goto(q, "marker")
     ELSE UNCHANGED lock /\ Goto(q, "list")
  /\ UNCHANGED <<table, seeded, configured, edit, had, deleted, crossed>>

\* Mutant: the marker is set before the installation.
ReadMarkerAndSet(q) ==
  /\ At(q, "marker")
  /\ IF seeded \/ ~configured
     THEN Leave(q) /\ UNCHANGED seeded
     ELSE Goto(q, "list") /\ seeded' = TRUE /\ UNCHANGED lock
  /\ UNCHANGED <<table, configured, edit, count, had, deleted, crossed>>

\* The marker is set, or there is no model yet: nothing to do.
ReadMarker(q) ==
  /\ At(q, "marker")
  /\ IF seeded \/ ~configured
     THEN Leave(q)
     ELSE Goto(q, "list") /\ UNCHANGED lock
  /\ UNCHANGED <<table, seeded, configured, edit, count, had, deleted, crossed>>

\* install_starter_profiles: which profiles and names exist is read once.
ListAgents(q) ==
  /\ At(q, "list")
  /\ inst' = [inst EXCEPT ![q] =
       [@ EXCEPT !.pc = "install", !.todo = Profiles,
                 !.profiles = ProfilesOf(Live), !.names = NamesOf(Live)]]
  /\ UNCHANGED <<table, seeded, configured, lock, edit, count, had, deleted, crossed>>

\* Already installed, or the name belongs to another agent.
Skip(q, p) ==
  /\ At(q, "install") /\ p \in inst[q].todo
  /\ p \in inst[q].profiles \/ p \in inst[q].names
  /\ inst' = [inst EXCEPT ![q].todo = @ \ {p}]
  /\ had' = had \cup {p}
  /\ UNCHANGED <<table, seeded, configured, lock, edit, count, deleted, crossed>>

\* create_agent: the name is looked up ...
CheckName(q, p) ==
  /\ At(q, "install") /\ p \in inst[q].todo
  /\ p \notin inst[q].profiles /\ p \notin inst[q].names
  /\ IF p \in NamesOf(Live)
     THEN Leave(q)
     ELSE /\ inst' = [inst EXCEPT ![q] =
                [@ EXCEPT !.pc = "insert", !.todo = inst[q].todo \ {p},
                          !.copy = [profile |-> p, name |-> p, public |-> q \in Autos,
                                    model |-> IF q \in Autos THEN "first" ELSE "none"]]]
          /\ UNCHANGED lock
  /\ UNCHANGED <<table, seeded, configured, edit, count, had, deleted, crossed>>

\* Whether r, by the listing it read, is still to insert p itself.
Intends(r, p) ==
  \/ inst[r].pc \in {"install", "insert", "root"} /\ p \in inst[r].todo \ inst[r].profiles
  \/ At(r, "insert") /\ inst[r].copy.profile = p

\* ... the agent inserted ...
Insert(q) ==
  LET a == lastId + 1 IN
  /\ At(q, "insert") /\ a \in Ids
  /\ rows' = [rows EXCEPT ![a] = inst[q].copy]
  /\ lastId' = a
  /\ inst' = [inst EXCEPT ![q] = [@ EXCEPT !.pc = "root", !.id = a]]
  /\ had' = had \cup {inst[q].copy.profile}
  /\ crossed' = crossed \cup
       {p \in {inst[q].copy.profile} : \E r \in Installers \ {q} :
          {q, r} \cap Manuals # {} /\ Intends(r, p)}
  /\ UNCHANGED <<seeded, configured, lock, edit, count, deleted>>

\* update of the repository: the row must exist when it is looked at, and is
\* then written whole. A row deleted in between is a write of nothing.
Overwrite(a, copy) == rows' = [rows EXCEPT ![a] = IF @ = NoAgent THEN @ ELSE copy]

\* ... and written again with its workspace root.
WriteRoot(q) ==
  /\ At(q, "root")
  /\ \/ /\ Overwrite(inst[q].id, inst[q].copy)
        /\ Goto(q, "install")
        /\ UNCHANGED lock
     \/ rows[inst[q].id] = NoAgent /\ Leave(q) /\ UNCHANGED rows
  /\ UNCHANGED <<lastId, seeded, configured, edit, count, had, deleted, crossed>>

\* A manual installation is done; an automatic one lists the starters again
\* and goes on to publish them: by this listing it decides what to change.
Change == [id: Ids, publish: BOOLEAN, model: BOOLEAN]

Unfit == {c \in Change : /\ c.id \in Live /\ rows[c.id].profile \in Profiles
                         /\ c.publish = ~rows[c.id].public
                         /\ c.model = (rows[c.id].model = "none")
                         /\ c.publish \/ c.model}

Fitted(agent, c) == [agent EXCEPT !.public = @ \/ c.publish,
                                  !.model = IF c.model THEN "first" ELSE @]

Installed(q) ==
  /\ At(q, "install") /\ inst[q].todo = {}
  /\ IF q \in Autos
     THEN /\ inst' = [inst EXCEPT ![q] =
                [@ EXCEPT !.pc = "publish", !.fix = Unfit]]
          /\ UNCHANGED lock
     ELSE Leave(q)
  /\ UNCHANGED <<table, seeded, configured, edit, count, had, deleted, crossed>>

\* update_agent reads the agent again, makes the changes decided on ...
ReadUnfit(q, c) ==
  /\ At(q, "publish") /\ c \in inst[q].fix
  /\ IF rows[c.id] = NoAgent
     THEN Leave(q)
     ELSE /\ inst' = [inst EXCEPT ![q] =
                [@ EXCEPT !.pc = "write", !.fix = inst[q].fix \ {c}, !.id = c.id,
                          !.copy = Fitted(rows[c.id], c)]]
          /\ UNCHANGED lock
  /\ UNCHANGED <<table, seeded, configured, edit, count, had, deleted, crossed>>

\* ... and writes it back.
WriteFit(q) ==
  /\ At(q, "write")
  /\ \/ Overwrite(inst[q].id, inst[q].copy) /\ Goto(q, "publish") /\ UNCHANGED lock
     \/ rows[inst[q].id] = NoAgent /\ Leave(q) /\ UNCHANGED rows
  /\ UNCHANGED <<lastId, seeded, configured, edit, count, had, deleted, crossed>>

SetMarker(q) ==
  /\ At(q, "publish") /\ inst[q].fix = {}
  /\ seeded' = TRUE
  /\ Leave(q)
  /\ UNCHANGED <<table, configured, edit, count, had, deleted, crossed>>

Proceed(q) ==
  \/ ReadMarker(q) \/ ListAgents(q)
  \/ \E p \in Profiles : Skip(q, p) \/ CheckName(q, p)
  \/ Insert(q) \/ WriteRoot(q) \/ Installed(q)
  \/ \E c \in Change : ReadUnfit(q, c)
  \/ WriteFit(q) \/ SetMarker(q)

-----------------------------------------------------------------------------
(* Users *)

ConfigureModel ==
  /\ ~configured
  /\ configured' = TRUE
  /\ UNCHANGED <<table, seeded, lock, inst, edit, count, had, deleted, crossed>>

DeleteAgent(a) ==
  /\ rows[a] # NoAgent /\ Room
  /\ rows' = [rows EXCEPT ![a] = NoAgent]
  /\ deleted' = deleted \cup ({rows[a].profile} \ {NoProfile})
  /\ UNCHANGED <<lastId, seeded, configured, lock, inst, edit, count, had, crossed>>

\* A user renames the agent (update_agent does not ask whether the name is
\* taken), chooses its model or withdraws it.
EditRead(e, a, customised) ==
  /\ edit[e].pc = "idle" /\ rows[a] # NoAgent
  /\ count.edits < MaxEdits /\ Room
  /\ count' = [count EXCEPT !.edits = @ + 1]
  /\ \/ \E n \in Profiles \cup {Custom} : customised = [rows[a] EXCEPT !.name = n]
     \/ customised = [rows[a] EXCEPT !.model = "chosen"]
     \/ customised = [rows[a] EXCEPT !.public = FALSE]
  /\ edit' = [edit EXCEPT ![e] = [pc |-> "write", id |-> a, copy |-> customised]]
  /\ UNCHANGED <<table, seeded, configured, lock, inst, had, deleted, crossed>>

EditWrite(e) ==
  /\ edit[e].pc = "write"
  /\ Overwrite(edit[e].id, edit[e].copy)
  /\ edit' = [edit EXCEPT ![e] = [pc |-> "idle", id |-> 0, copy |-> Blank]]
  /\ UNCHANGED <<lastId, seeded, configured, lock, inst, count, had, deleted, crossed>>

Restart ==
  /\ count.crashes < MaxCrashes /\ Room
  /\ count' = [count EXCEPT !.crashes = @ + 1]
  /\ lock' = "free"
  /\ inst' = [q \in Installers |-> Resting]
  /\ edit' = [e \in Editors |-> [pc |-> "idle", id |-> 0, copy |-> Blank]]
  /\ UNCHANGED <<table, seeded, configured, had, deleted, crossed>>

Next ==
  \/ \E q \in Installers : Begin(q) \/ Proceed(q)
  \/ ConfigureModel
  \/ \E a \in Ids : DeleteAgent(a)
  \/ \E e \in Editors, a \in Ids, customised \in Agent : EditRead(e, a, customised)
  \/ \E e \in Editors : EditWrite(e)
  \/ Restart

Spec == Init /\ [][Next]_vars

\* Requests that were begun run on.
FairSpec == Spec /\ \A q \in Installers : WF_vars(Proceed(q))

-----------------------------------------------------------------------------
(* Properties *)

TypeOK ==
  /\ rows \in [Ids -> Agent \cup {NoAgent}]
  /\ lastId \in 0 .. MaxId
  /\ seeded \in BOOLEAN
  /\ configured \in BOOLEAN
  /\ lock \in Autos \cup {"free"}
  /\ inst \in [Installers ->
       [pc: {"idle", "marker", "list", "install", "insert", "root", "publish",
             "write"},
        todo: SUBSET Profiles, profiles: SUBSET Profiles,
        names: SUBSET (Profiles \cup {Custom}), fix: SUBSET Change,
        id: 0 .. MaxId, copy: Agent]]
  /\ edit \in [Editors -> [pc: {"idle", "write"}, id: 0 .. MaxId, copy: Agent]]
  /\ count \in [passes: 0 .. MaxPasses, manuals: 0 .. MaxManuals,
                edits: 0 .. MaxEdits, crashes: 0 .. MaxCrashes]
  /\ had \in SUBSET Profiles
  /\ deleted \in SUBSET Profiles
  /\ crossed \in SUBSET Profiles

\* Once the marker is set no automatic pass installs or publishes anything,
\* however many requests list the agents at the same time.
MarkerEndsAutoInstall ==
  seeded => \A q \in Autos : inst[q].pc \in {"idle", "marker"}

\* Two live agents are the same starter only where a manual installation, which
\* takes no lock, was under way beside another installer and both, by what they
\* had listed, were to insert it: automatic passes alone, and a manual one that
\* meets none, install nothing twice, also when an earlier pass was cut short by
\* a crash, a deletion or a renaming.
StartersUnique ==
  \A a, b \in Live :
    rows[a].profile = rows[b].profile /\ rows[a].profile \notin crossed \cup {NoProfile}
    => a = b

\* The marker is set only by a pass that saw every profile installed or its
\* name taken: an aborted pass leaves it to the next one.
MarkerMeansComplete == seeded => had = Profiles

\* The lock is released however the pass under it ends.
LockReleased == lock # "free" ~> lock = "free"

\* A starter that a user deleted is not installed again automatically.
DeletedStaysDeleted ==
  [][\A q \in Autos : Insert(q) => inst[q].copy.profile \notin deleted]_vars

=============================================================================
