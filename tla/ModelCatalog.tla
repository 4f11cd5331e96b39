---------------------------- MODULE ModelCatalog ----------------------------
(***************************************************************************)
(* The model catalog: modules/ai_model_manager (models found on the disk,  *)
(* task preferences, endpoints) and the settings that say where to look    *)
(* (core/settings_service.py). All of it is lists in the application       *)
(* configuration; what overlapping loads and saves of that file do is the  *)
(* subject of AppConfig, so here a call of the manager is one step. A scan *)
(* is many of them, on a listing it made at its beginning.                 *)
(***************************************************************************)
EXTENDS Naturals, Sequences, FiniteSets

CONSTANTS
  Nothing,       \* the key of an endpoint that is not there
  Handlers,      \* request threads
  Keys,          \* API keys
  MaxId,         \* bound on ids
  MaxRequests,   \* bound on requests
  MaxChanges     \* bound on changes of the disk

VARIABLES
  models,        \* the list of models
  preferences,   \* the ids of the task preferences
  endpoints,     \* the list of endpoints, and the one of an old version
  settings,      \* gguf_directories and gguf_directory: whether they name the directory
  disk,          \* the model files in it
  work,          \* the locals of each thread
  count,         \* requests and changes so far
  stale,         \* history: threads whose listing the catalog no longer fits
  excused        \* history: a client or a stale scan may have doubled a path

catalogVars == <<models, preferences, endpoints, settings, disk, work, count, stale, excused>>

\* A model in one file, one in two parts, and a companion for its images.
Files == {"single", "part1", "part2", "mmproj"}

Id == 1 .. MaxId

Model == [id : Id, path : Files, scanned : BOOLEAN]

Endpoint == [id : Id, key : Keys \cup {""}, owned : BOOLEAN]

\* Mutant: an id is how many entries there are, and one.
CountAndOne(ids) == 1 + Cardinality(ids)

NextId(ids) == IF ids = {} THEN 1 ELSE 1 + CHOOSE i \in ids : \A j \in ids : j <= i

IdsOf(list) == {entry.id : entry \in list}

Idle == [pc |-> "idle"]

At(pc) == [pc |-> pc, todo |-> <<>>, known |-> [f \in Files |-> 0], matches |-> {},
           id |-> 0, key |-> Nothing, held |-> {}]

Go(h, local) == work' = [work EXCEPT ![h] = local]

Counted ==
  /\ count.requests < MaxRequests
  /\ count' = [count EXCEPT !.requests = @ + 1]

\* Whoever is in the middle of a scan has a stale listing after a change by
\* another.
ModelsBecome(list, h) ==
  /\ models' = list
  /\ stale' = (stale \ {g \in Handlers : work'[g] = Idle})
                \cup (IF list = models THEN {}
                      ELSE {g \in Handlers \ {h} : work'[g] # Idle})

OthersKeep == UNCHANGED <<preferences, endpoints, settings, disk>>

-----------------------------------------------------------------------------
(* scan_gguf_directory *)

Configured == settings.dirs \/ settings.legacy

\* One primary file per model: the first part of one in parts. They are
\* taken by size, and parts without the first are no model.
PrimaryFiles(files) ==
  LET whole == IF "single" \in files THEN <<"single">> ELSE <<>>
  IN  IF "part1" \in files THEN Append(whole, "part1") ELSE whole

Secondary(files) == files \cap {"part2", "mmproj"}

\* Mutant: only records with the mark of a scan are known.
KnownByMark(f) ==
  LET ids == {m.id : m \in {n \in models : n.path = f /\ n.scanned}}
  IN  IF ids = {} THEN 0 ELSE CHOOSE i \in ids : \A j \in ids : j <= i

\* The record of a file in the listing of a scan, 0 if there is none.
Known(f) ==
  LET ids == {m.id : m \in {n \in models : n.path = f}}
  IN  IF ids = {} THEN 0 ELSE CHOOSE i \in ids : \A j \in ids : j <= i

Listing == [At("scan") EXCEPT !.todo = PrimaryFiles(disk), !.matches = disk,
              !.known = [f \in Files |-> Known(f)]]

\* Asked for, or the beginning of every listing of the models if there is a
\* configured directory.
Scan(h) ==
  /\ work[h] = Idle
  /\ Counted
  /\ Go(h, Listing)
  /\ stale' = stale \ {h}
  /\ UNCHANGED <<models, excused>>
  /\ OthersKeep

ListModels(h) == Configured /\ Scan(h)

\* The files of a model that was found: those of all its parts.
PartsOf(f, files) == IF f = "single" THEN {f} ELSE files \cap {"part1", "part2"}

\* What a scan asks the size of before it records its next file: the parts
\* of that and, to sort them, all the files before it records the first.
Needed(here) ==
  PartsOf(Head(here.todo), here.matches)
    \cup (IF here.todo = PrimaryFiles(here.matches)
          THEN {here.todo[i] : i \in DOMAIN here.todo} ELSE {})

Scanning(h) == work[h].pc = "scan" /\ work[h].todo # <<>>

\* A known file is an update of its record, by id; another becomes a new one.
ScanFile(h) ==
  LET here == work[h]
      f    == Head(here.todo)
      id   == here.known[f]
      new  == [id |-> IF id = 0 THEN NextId(IdsOf(models)) ELSE id, path |-> f, scanned |-> TRUE]
  IN  /\ Scanning(h) /\ Needed(here) \subseteq disk
      /\ id # 0 => id \in IdsOf(models)
      /\ new.id \in Id
      /\ Go(h, [here EXCEPT !.todo = Tail(@)])
      /\ ModelsBecome({m \in models : m.id # new.id} \cup {new}, h)
      /\ excused' = (excused \/ h \in stale)
      /\ UNCHANGED count
      /\ OthersKeep

\* The scan ends where it is, and purges nothing, when a file is gone since
\* it was found or the record it is to update is.
ScanFails(h) ==
  LET here == work[h]
      id   == here.known[Head(here.todo)]
  IN  /\ Scanning(h)
      /\ ~(Needed(here) \subseteq disk) \/ (id # 0 /\ id \notin IdsOf(models))
      /\ Go(h, Idle)
      /\ ModelsBecome(models, h)
      /\ UNCHANGED <<count, excused>>
      /\ OthersKeep

\* _purge_non_primary_scan_records
Purge(h) ==
  /\ work[h].pc = "scan" /\ work[h].todo = <<>>
  /\ Go(h, Idle)
  /\ ModelsBecome({m \in models : ~(m.scanned /\ m.path \in Secondary(work[h].matches))}, h)
  /\ UNCHANGED <<count, excused>>
  /\ OthersKeep

-----------------------------------------------------------------------------
(* create_model, update_model, delete_model *)

\* No client is kept from recording a file a second time.
CreateModel(path) ==
  /\ Counted
  /\ UNCHANGED work
  /\ NextId(IdsOf(models)) \in Id
  /\ ModelsBecome(models \cup {[id |-> NextId(IdsOf(models)), path |-> path, scanned |-> FALSE]},
                  Nothing)
  /\ excused' = (excused \/ \E m \in models : m.path = path)
  /\ OthersKeep

\* An edit in the view replaces the metadata, and with it the mark of a scan;
\* one over HTTP does so only if it gives some.
UpdateModel(model, path, marked) ==
  /\ Counted
  /\ UNCHANGED work
  /\ ModelsBecome((models \ {model}) \cup {[model EXCEPT !.path = path, !.scanned = @ /\ marked]},
                  Nothing)
  /\ excused' = (excused \/ \E m \in models \ {model} : m.path = path)
  /\ OthersKeep

DeleteModel(model) ==
  /\ Counted
  /\ UNCHANGED <<work, excused>>
  /\ ModelsBecome(models \ {model}, Nothing)
  /\ OthersKeep

\* upsert_task_preference: a new one, or one with the id that was given,
\* whether there is one or not; and delete_task_preference.
UpsertPreference(id) ==
  LET new == IF id = 0 THEN NextId(preferences) ELSE id
  IN  /\ Counted
      /\ new \in Id
      /\ preferences' = preferences \cup {new}
      /\ UNCHANGED <<models, endpoints, settings, disk, work, stale, excused>>

DeletePreference(id) ==
  /\ Counted
  /\ preferences' = preferences \ {id}
  /\ UNCHANGED <<models, endpoints, settings, disk, work, stale, excused>>

-----------------------------------------------------------------------------
(* The endpoints *)

\* _load_llm_configs: an empty list is filled, and saved, from the old one.
Loaded == IF endpoints.list # {} THEN endpoints.list ELSE endpoints.legacy

EndpointsBecome(list) ==
  /\ endpoints' = [endpoints EXCEPT !.list = list]
  /\ UNCHANGED <<models, preferences, settings, disk, stale, excused>>

KeyOf(list, id) ==
  IF id \in IdsOf(list) THEN (CHOOSE e \in list : e.id = id).key ELSE Nothing

\* A thread goes on, and what the keys become is noted for the edits that
\* are under way.
Noting(h, local) ==
  work' = [g \in Handlers |->
             IF g = h THEN local
             ELSE IF work[g].pc = "edit"
             THEN [work[g] EXCEPT !.held = @ \cup {KeyOf(endpoints'.list, work[g].id)}]
             ELSE work[g]]

\* list_llm_configs, get_llm_config, probe_llm_config
ReadEndpoints ==
  /\ Loaded # endpoints.list
  /\ EndpointsBecome(Loaded)
  /\ Noting(Nothing, Idle)
  /\ UNCHANGED count

\* Only what is created over HTTP has an owner.
CreateEndpoint(key, owned) ==
  LET id == NextId(IdsOf(Loaded))
  IN  /\ Counted
      /\ id \in Id
      /\ EndpointsBecome(Loaded \cup {[id |-> id, key |-> key, owned |-> owned]})
      /\ Noting(Nothing, Idle)

DeleteEndpoint(id) ==
  /\ Counted
  /\ id \in IdsOf(Loaded)
  /\ EndpointsBecome({e \in Loaded : e.id # id})
  /\ Noting(Nothing, Idle)

\* update_llm_config fills in what it is not given: owner and all.
Replaced(id, key) ==
  {e \in Loaded : e.id # id} \cup {[id |-> id, key |-> key, owned |-> FALSE]}

\* A PUT, or an edit that names a key.
PutEndpoint(id, key) ==
  /\ Counted
  /\ id \in IdsOf(Loaded)
  /\ EndpointsBecome(Replaced(id, key))
  /\ Noting(Nothing, Idle)

\* Mutant: the key that was sent is stored, blank or not.
KeyAsSent(read) == ""

\* What a blank key stands for in an edit of the view: the one it has read.
KeyToKeep(read) == IF read = Nothing THEN "" ELSE read

\* The view reads the endpoint and updates it, in two calls.
EditWithBlankKey(h, id) ==
  /\ work[h] = Idle
  /\ Counted
  /\ EndpointsBecome(Loaded)
  /\ Noting(h, [At("edit") EXCEPT !.id = id, !.key = KeyOf(Loaded, id),
                                  !.held = {KeyOf(Loaded, id)}])

FinishEdit(h) ==
  LET here == work[h]
  IN  /\ here.pc = "edit"
      /\ EndpointsBecome(IF here.id \in IdsOf(Loaded)
                         THEN Replaced(here.id, KeyToKeep(here.key)) ELSE Loaded)
      /\ Noting(h, Idle)
      /\ UNCHANGED count

-----------------------------------------------------------------------------
(* save_settings_payload, once everything it is given is found valid: a     *)
(* value is saved at a time, and then what is configured is scanned         *)

SaveSettings(h, named) ==
  /\ work[h] = Idle
  /\ Counted
  /\ settings' = [settings EXCEPT !.dirs = named]
  /\ Go(h, [At("legacy") EXCEPT !.id = IF named THEN 1 ELSE 0])
  /\ UNCHANGED <<models, preferences, endpoints, disk, stale, excused>>

SaveLegacyDirectory(h) ==
  LET named == work[h].id = 1
  IN  /\ work[h].pc = "legacy"
      /\ settings' = [settings EXCEPT !.legacy = named]
      /\ Go(h, IF named THEN Listing ELSE Idle)
      /\ stale' = stale \ {h}
      /\ UNCHANGED <<models, preferences, endpoints, disk, count, excused>>

\* Files come and go.
ChangeDisk(f) ==
  /\ count.changes < MaxChanges
  /\ count' = [count EXCEPT !.changes = @ + 1]
  /\ disk' = IF f \in disk THEN disk \ {f} ELSE disk \cup {f}
  /\ UNCHANGED <<models, preferences, endpoints, settings, work, stale, excused>>

\* An installation that may still have the endpoints of an old version.
Init ==
  /\ models = {}
  /\ preferences = {}
  /\ \E key \in Keys, old \in BOOLEAN :
       endpoints = [list   |-> {},
                    legacy |-> IF old THEN {[id |-> 1, key |-> key, owned |-> FALSE]} ELSE {}]
  /\ settings \in [dirs : BOOLEAN, legacy : {FALSE}]
  /\ disk \in {Files, {"single", "part2"}}
  /\ work = [h \in Handlers |-> Idle]
  /\ count = [requests |-> 0, changes |-> 0]
  /\ stale = {}
  /\ excused = FALSE

Next ==
  \/ \E h \in Handlers :
       \/ Scan(h) \/ ListModels(h) \/ ScanFile(h) \/ ScanFails(h) \/ Purge(h)
       \/ (\E id \in Id : EditWithBlankKey(h, id)) \/ FinishEdit(h)
       \/ (\E named \in BOOLEAN : SaveSettings(h, named)) \/ SaveLegacyDirectory(h)
  \/ \E path \in {"single", "part2"} : CreateModel(path)
  \/ \E path \in Files : ChangeDisk(path)
  \/ \E m \in models :
       \/ DeleteModel(m)
       \/ \E path \in {m.path, "part1"}, marked \in BOOLEAN : UpdateModel(m, path, marked)
  \/ \E id \in {0, MaxId} : UpsertPreference(id)
  \/ \E id \in preferences : DeletePreference(id)
  \/ \E id \in Id : DeleteEndpoint(id)
  \/ ReadEndpoints
  \/ \E key \in Keys \cup {""} :
       \/ \E owned \in BOOLEAN : CreateEndpoint(key, owned)
       \/ \E id \in Id : PutEndpoint(id, key)

Spec == Init /\ [][Next]_catalogVars

-----------------------------------------------------------------------------
(* Properties *)

\* The type of the lists; no two entries of one have the same id.
TypeOK ==
  /\ models \subseteq Model /\ Cardinality(IdsOf(models)) = Cardinality(models)
  /\ preferences \subseteq Id
  /\ endpoints.list \subseteq Endpoint /\ endpoints.legacy \subseteq Endpoint
  /\ Cardinality(IdsOf(endpoints.list)) = Cardinality(endpoints.list)
  /\ disk \subseteq Files
  /\ stale \subseteq Handlers /\ excused \in BOOLEAN

\* Scans never record a file twice, whatever is edited, deleted, added to and
\* taken from the disk between them: for two records of a file a client has
\* to ask, or the catalog to change during a scan.
DoublesAreExcused ==
  excused \/ \A m, n \in models : m.path = n.path => m = n

\* "Leave blank to keep existing": an edit with a blank key stores a key that
\* the endpoint had at some moment of the edit, whatever is put, deleted and
\* created beside it, or none if there was no such endpoint.
KeyIsKept ==
  \A h \in Handlers :
    work[h].pc = "edit" /\ work'[h] = Idle /\ work[h].id \in IdsOf(endpoints'.list)
      => \/ KeyOf(endpoints'.list, work[h].id) \in work[h].held
         \/ Nothing \in work[h].held

BlankKeepsKey == [][KeyIsKept]_catalogVars

=============================================================================
