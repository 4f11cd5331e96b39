------------------------------ MODULE AppConfig ------------------------------
(***************************************************************************)
(* The application configuration: one JSON file that every request thread  *)
(* loads as a whole, changes and saves as a whole, without a lock. A load  *)
(* fills in what the file lacks and saves the result if it differs; a save *)
(* truncates the file when it opens it and writes it when it closes it; a  *)
(* file that does not parse counts as empty.                               *)
(*                                                                         *)
(* The file holds settings and a catalog: a list of records with ids, as   *)
(* ai_model_manager keeps its endpoints there (and, in the same way, its   *)
(* models and preferences). While the catalog is empty the endpoints of an *)
(* old version, in another section, stand for it and are copied into it.   *)
(***************************************************************************)
EXTENDS Integers, FiniteSets

CONSTANTS
  Keys,        \* settings
  UserVals,    \* values a user may give them
  EnvWins,     \* settings whose environment variable is set
  EnvFills,    \* likewise, of the kind that only fills an empty setting
  LegacyFile,  \* whether the state file of an old version exists
  Threads,     \* request threads, of any process
  Ops,         \* what they may do: a subset of AllOps
  MaxItem,     \* bound: ids in the catalog
  MaxOld,      \* bound: ids in the catalog of an old version
  MaxOps,      \* bound: requests that change the configuration
  MaxCrashes   \* bound: restarts

Reads  == {"get", "list"}
AllOps == Reads \cup {"set", "create", "delete"}
Items  == 1 .. MaxItem
Vals   == UserVals \cup {"default", "empty", "env"}
AnyKey == CHOOSE k \in Keys : TRUE

\* What a request asks for: a setting and its value, which may be what it
\* was shown and may be empty, or an item to delete.
Request ==
  [op: {"get", "list", "create"}, key: {AnyKey}, val: {"default"}, item: {0}]
    \cup [op: {"set"}, key: Keys, val: Vals, item: {0}]
    \cup [op: {"delete"}, key: {AnyKey}, val: {"default"}, item: Items]

ASSUME EnvAssumption ==
  /\ EnvWins \subseteq Keys /\ EnvFills \subseteq Keys
  /\ LegacyFile \in BOOLEAN
ASSUME OpsAssumption == Ops \subseteq AllOps
ASSUME IdsSuffice ==
  /\ MaxOps \in Nat /\ MaxOld \in Nat /\ MaxItem \in Nat
  /\ MaxOld + MaxOps <= MaxItem
ASSUME CrashesAssumption == MaxCrashes \in Nat
ASSUME ValsAssumption == "missing" \notin UserVals

\* A configuration. old is the catalog of an old version; obsolete says that
\* it has a section no longer used, archived what was moved to its legacy
\* section.
Config == [set: [Keys -> Vals \cup {"missing"}], items: SUBSET Items, old: SUBSET (1 .. MaxOld),
           obsolete: BOOLEAN, archived: SUBSET {"config", "state"}]

Empty == [set |-> [k \in Keys |-> "missing"], items |-> {}, old |-> {},
          obsolete |-> FALSE, archived |-> {}]

VARIABLES
  file,    \* [kind: absent, torn or full; conf: what a full one holds]
  thread,  \* the locals of each thread
  count,   \* the counters behind the bounds
  acked,   \* history: the settings and items acknowledged last, and what
           \* the first load found to archive
  torn     \* history: a load has met a file that did not parse

vars == <<file, thread, count, acked, torn>>

Absent     == [kind |-> "absent", conf |-> Empty]
Torn       == [kind |-> "torn", conf |-> Empty]
Full(conf) == [kind |-> "full", conf |-> conf]

-----------------------------------------------------------------------------
(* Loading *)

\* Mutant: what the file lacks is not filled in.
AsStored(conf) == conf

\* The settings that a variable only fills, the model directories, are empty
\* by default.
DefaultOf(k) == IF k \in EnvFills THEN "empty" ELSE "default"

\* _merge_dicts over _default_config.
WithDefaults(conf) ==
  [conf EXCEPT !.set =
     [k \in Keys |-> IF @[k] = "missing" THEN DefaultOf(k) ELSE @[k]]]

\* Mutant: the legacy section is begun anew.
ArchivedAnew(conf) ==
  [conf EXCEPT
     !.archived = (IF LegacyFile THEN {"state"} ELSE {})
                    \cup (IF conf.obsolete THEN {"config"} ELSE {}),
     !.obsolete = FALSE]

\* _migrate_legacy_state and _archive_obsolete_config.
Archived(conf) ==
  [conf EXCEPT
     !.archived = @ \cup (IF LegacyFile THEN {"state"} ELSE {})
                    \cup (IF conf.obsolete THEN {"config"} ELSE {}),
     !.obsolete = FALSE]

\* Mutant: a variable of either kind replaces what is stored.
AlwaysSeeded(conf) ==
  [conf EXCEPT !.set =
     [k \in Keys |-> IF k \in EnvWins \cup EnvFills THEN "env" ELSE @[k]]]

\* _seed_from_env: most variables replace what is stored, the others an
\* empty value, whether it is the default or a user has cleared it.
Replaces(k, val) == k \in EnvWins \/ (k \in EnvFills /\ val = "empty")

Seeded(conf) ==
  [conf EXCEPT !.set =
     [k \in Keys |-> IF Replaces(k, @[k]) THEN "env" ELSE @[k]]]

\* Mutant: the environment is looked at before the defaults are filled in.
SeededFirst(conf) == Archived(WithDefaults(Seeded(conf)))

Loaded(conf) == Seeded(Archived(WithDefaults(conf)))

-----------------------------------------------------------------------------
(* Requests *)

Stages == {"load", "legacy", "migrate", "migrated", "reload", "save"}

Resting == [pc |-> "idle",
            ask |-> [op |-> "get", key |-> AnyKey, val |-> "default", item |-> 0],
            items |-> {}, conf |-> Empty, stage |-> "load", mixed |-> FALSE]

\* What the first load has to archive.
Owed(conf) == {x \in {"config", "state"} :
                 IF x = "config" THEN conf.obsolete ELSE LegacyFile}

\* A fresh installation, or the file of an earlier version.
Init ==
  /\ \/ file = Absent
     \/ \E s \in [Keys -> Vals \cup {"missing"}], obsolete \in BOOLEAN, old \in SUBSET (1 .. MaxOld) :
          file = Full([Empty EXCEPT !.set = s, !.obsolete = obsolete, !.old = old])
  /\ thread = [t \in Threads |-> Resting]
  /\ count = [ops |-> 0, crashes |-> 0]
  /\ acked = [set |-> Loaded(file.conf).set, items |-> file.conf.old,
              archived |-> Owed(file.conf)]
  /\ torn = FALSE

Begin(t, ask) ==
  /\ thread[t].pc = "idle" /\ ask.op \in Ops
  /\ ask.op \notin Reads => count.ops < MaxOps
  /\ count' = [count EXCEPT !.ops = IF ask.op \in Reads THEN @ ELSE @ + 1]
  /\ thread' = [thread EXCEPT ![t] = [Resting EXCEPT !.pc = "read", !.ask = ask]]
  /\ UNCHANGED <<file, acked, torn>>

\* A new item of a catalog gets one more than the largest id in use.
NextItem(items) ==
  CHOOSE n \in Items : /\ \A i \in items : i < n
                       /\ n > 1 => n - 1 \in items

Changed(ask, items) ==
  IF ask.op = "create" THEN items \cup {NextItem(items)} ELSE items \ {ask.item}

\* Where a thread goes that has conf in hand after a load or a save. set
\* changes it and saves it.
SaveSetting(loc, conf) ==
  [loc EXCEPT !.pc = "open", !.stage = "save",
              !.conf = [conf EXCEPT !.set[loc.ask.key] = loc.ask.val]]

Load(loc, stage, items) == [loc EXCEPT !.pc = "read", !.stage = stage, !.items = items]

SaveItems(loc, stage, conf) ==
  [loc EXCEPT !.pc = "open", !.stage = stage, !.conf = [conf EXCEPT !.items = loc.items]]

\* A catalog operation that has items in hand changes them and loads again,
\* to put them in what it saves.
Apply(loc, items) ==
  IF loc.ask.op = "list" \/ Changed(loc.ask, items) = items THEN Resting
  ELSE Load(loc, "reload", Changed(loc.ask, items))

\* It looks for an empty catalog in that of an old version, with a second
\* load, and saves what it finds there after a third.
After(loc, conf) ==
  CASE loc.stage = "load" ->
         CASE loc.ask.op = "get" -> Resting
           [] loc.ask.op = "set" -> SaveSetting(loc, conf)
           [] OTHER -> IF conf.items = {} THEN Load(loc, "legacy", {})
                       ELSE Apply(loc, conf.items)
    [] loc.stage = "legacy" ->
         IF conf.old = {} THEN Apply(loc, {}) ELSE Load(loc, "migrate", conf.old)
    [] loc.stage = "migrate"  -> SaveItems(loc, "migrated", conf)
    [] loc.stage = "migrated" -> Apply(loc, loc.items)
    [] loc.stage = "reload"   -> SaveItems(loc, "save", conf)
    [] OTHER -> Resting

\* load_config_file and what load_app_config makes of it.
Read(t) ==
  LET conf == Loaded(file.conf) IN
  /\ thread[t].pc = "read"
  /\ thread' = [thread EXCEPT ![t] =
       IF file = Full(conf) THEN After(@, conf)
       ELSE [@ EXCEPT !.pc = "open", !.conf = conf]]
  /\ torn' = (torn \/ file.kind = "torn")
  /\ UNCHANGED <<file, count, acked>>

\* open(path, "w").
Open(t) ==
  /\ thread[t].pc = "open"
  /\ file' = Torn
  /\ thread' = [u \in Threads |->
       [thread[u] EXCEPT !.mixed = FALSE,
                         !.pc = IF u = t THEN "close" ELSE @]]
  /\ UNCHANGED <<count, acked, torn>>

\* The content is written. Where another thread has written since the file
\* was opened, a shorter content leaves the tail of the longer one behind.
Close(t) ==
  LET loc == thread[t] IN
  /\ loc.pc = "close"
  /\ file' \in {Full(loc.conf)} \cup (IF loc.mixed THEN {Torn} ELSE {})
  /\ thread' = [u \in Threads |->
       IF u = t THEN After(loc, loc.conf)
       ELSE [thread[u] EXCEPT !.mixed = @ \/ thread[u].pc = "close"]]
  /\ acked' = CASE loc.stage # "save" -> acked
                [] loc.stage = "save" /\ loc.ask.op = "set" ->
                     [acked EXCEPT !.set[loc.ask.key] = loc.ask.val]
                [] OTHER -> [acked EXCEPT !.items = loc.items]
  /\ UNCHANGED <<count, torn>>

Restart ==
  /\ count.crashes < MaxCrashes
  /\ count' = [count EXCEPT !.crashes = @ + 1]
  /\ thread' = [t \in Threads |-> Resting]
  /\ UNCHANGED <<file, acked, torn>>

Next ==
  \/ \E t \in Threads :
       \/ \E ask \in Request : Begin(t, ask)
       \/ Read(t) \/ Open(t) \/ Close(t)
  \/ Restart

Spec == Init /\ [][Next]_vars

-----------------------------------------------------------------------------
(* Properties *)

TypeOK ==
  /\ file \in [kind: {"absent", "torn", "full"}, conf: Config]
  /\ file.kind # "full" => file.conf = Empty
  /\ thread \in [Threads ->
       [pc: {"idle", "read", "open", "close"}, ask: Request,
        items: SUBSET Items, conf: Config,
        stage: Stages, mixed: BOOLEAN]]
  /\ count \in [ops: 0 .. MaxOps, crashes: 0 .. MaxCrashes]
  /\ acked \in [set: [Keys -> Vals], items: SUBSET Items,
                archived: SUBSET {"config", "state"}]
  /\ torn \in BOOLEAN

Quiet == \A t \in Threads : thread[t].pc = "idle"

\* What a load of the present file would give.
Effective == Loaded(file.conf)

\* What a list of the catalog gives.
Shown(conf) == IF conf.items = {} THEN conf.old ELSE conf.items

\* A setting that was cleared is filled from the environment again, where it
\* has a variable that fills it; a catalog that was emptied is filled from
\* that of the old version again.
Kept ==
  /\ \A k \in Keys :
       Effective.set[k] = IF k \in EnvFills /\ acked.set[k] = "empty" THEN "env" ELSE acked.set[k]
  /\ Shown(Effective) = IF acked.items = {} THEN Effective.old ELSE acked.items

\* Between requests, what the next load gives is what was acknowledged last,
\* but for what was emptied and has something to fill it, unless some load
\* met a torn file: neither filling in defaults and the environment, nor a
\* restart, nor a catalog saved over a second or third load of the file
\* changes a setting or an item that was stored.
SetsAreKept == Quiet /\ ~torn /\ file.kind # "torn" => Kept

\* What the first load moved to the legacy section, of the configuration or
\* of the state file, stays there through every later save.
ArchiveKept ==
  Quiet /\ ~torn /\ file.kind # "torn" =>
    acked.archived \subseteq Effective.archived

\* Loading settles: whatever is saved is the same when it is loaded again, so
\* reading the configuration does not write it. A load changes, and writes,
\* only the one setting that a request has given a value its variable
\* replaces: any value or, where the variable only fills, the empty one.
ReadsDoNotWrite ==
  \A t \in Threads :
    LET conf == thread[t].conf
        ask  == thread[t].ask
    IN  thread[t].pc \in {"open", "close"} =>
          \/ Loaded(conf) = conf
          \/ /\ ask.op = "set" /\ thread[t].stage = "save" /\ Replaces(ask.key, ask.val)
             /\ Loaded(conf) = [conf EXCEPT !.set[ask.key] = "env"]

\* Between requests, what the next load gives is what was acknowledged last.
SettingsPersist == Quiet => Kept

=============================================================================
