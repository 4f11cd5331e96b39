# Apmatia in TLA+

Apmatia is a Python application (`src/src/apmatia/`): a FastAPI process whose
request handlers run in threads, a background scheduler, a few SQLite files
and one JSON configuration file, all operated through view *modules* that a
registry activates. Almost every component is a read, a decision and a write
with no lock around the three; what is hard about the code is therefore not
any single function but what several threads, a crash or a slow external call
do to a value that was read a moment ago. The modules here model that.

Paths below are relative to `src/src/apmatia/` unless they start with `docs/`
or `README.md` (of the repository).

## 1. Inventory

| component | state | operations | used by / uses |
|---|---|---|---|
| agent alarms (`modules/agent_alarms/`) | SQLite table of alarms, scheduler thread, external loop runs | create, edit, delete; poll: list due, claim, start loop, record, refresh | views call the service; the service calls the loop service of an external adapter |
| module activation (`core/registry/bootstrap.py`, `core/module_management.py`, `core/module_view_runtime.py`) | cached registry and its mode, active modules, providers, background services | get, refresh, toggle the mode, list and execute through a provider | every request; starts and stops the alarm service |
| starter agents (`api/internal/agent_starter_bootstrap.py`, `modules/agents/starter_catalog.py`) | a lock, a marker in the configuration | ensure (automatic), install (manual) | every listing of agents; writes agents and configuration |
| agents (`modules/agents/`) | SQLite tables of agents and prompts | create, clone, update, delete | tools, starters, publication, alarms |
| application configuration (`core/app_config.py`, `modules/persistence/config.py`) | one JSON file | load (fills in, migrates, seeds, saves), get, set, save | nearly everything |
| settings service (`core/settings_service.py`) | none of its own | validate, sixteen sets in a row | settings page; configuration |
| AI model manager (`modules/ai_model_manager/`) | lists of models and endpoints in the configuration file | create, update, delete, scan, probe | agents refer to its ids |
| agent tools (`modules/agent_tools/`) | tool definitions, assignments, `agent.tool_ids` | define, edit, assign, unassign, resolve access, execute | agents; audit log; tool runtime |
| tool runtime (`core/tool_management_runtime.py`) | globals: mode, bundle, manager, providers | rebuild on a change of the mode | every request about tools |
| users and groups (`modules/users/`) | users, groups, memberships | create, edit, delete, add, switch members | permissions, sessions |
| sessions (`modules/auth/`) | sessions in memory and in a file | create, get (expires), delete, load | every authenticated route |
| permissions, group access (`core/permissions.py`, `core/group_access.py`) | none | decide from mode bits, owner, groups | agents, models, IPE |
| publication (`api/http/routes/public_agent_routes.py`, `agent_routes.py`) | a flag on the agent | publish, list, get | agents, prompts, models |
| SQLite store (`modules/persistence/sqlite_store.py`) | tables with AUTOINCREMENT | insert, update, delete, list | users, groups, agents, tools, IPE |
| workspace tools (`modules/agent_tools/workspace_*.py`, `core/workspaces.py`) | files of an agent's workspace | list, read, write, delete; tools over draft modules | agents; module workspace |
| agent configuration tools (`modules/agent_config/`) | the workspace fields of an agent, shared knowledge files | configure, inspect, read | agents, workspace tools |
| module workspace (`core/modules/`) | files of draft modules | plan, scaffold, edit, inspect, validate | workspace tools, API, command line |
| IPE (`modules/ipe/`) | ideas, tasks, projects, habits, events | capture, convert, remove, advise | agents, workspaces |
| view contract (`core/view_contract/`) | none | normalise, translate legacy views, validate, negotiate, render headless | every interface |
| desktop interface (`interfaces/flet/`) | route, view state, cookie jar, session file | start, sign in, navigate, open forms, send commands, sign out | Core over HTTP |
| browser interface (`interfaces/streamlit/`) | session state of each tab, one cookie | rerun the page's script, ask, confirm, send commands, sign in and out | Core in its own process |
| registry (`core/registry/`) | contributions | register with uniqueness checks | module activation |
| HTTP routing, transport policy, logging, preferences, admin tools, text and command line interfaces | none that others depend on | - | - |

What makes them hard, and what should hold of them:

* **Alarms.** The scheduler keeps whole rows in its locals while it calls the
  loop service, and writes them back by id; editors do the same from request
  threads; rows are deleted and created meanwhile; the process may die between
  the claim and the launch; the loop service may raise, lose a run, or start
  one it gives no identifier for. An arming must fire at most once, a row must
  always describe one run of one definition, and nothing may stay "due" or
  "running" for ever.
* **Activation.** The mode is read outside the lock; providers are read outside
  the lock; the scheduler thread is stopped with a timeout. Registry, providers
  and active modules must belong together, there must be one scheduler thread,
  and it must end in stable-only mode.
* **Starters.** A pass consists of dozens of writes, any of which may meet a
  conflict, a deletion or a crash. It must run once, install each starter once
  and not bring back what a user deleted.
* **Configuration.** Every read may write. What was saved must be what is read
  later: after a restart, after a change of the environment, beside another
  writer.
* **Users, groups, sessions.** Sessions and memberships refer to users and
  groups by id and outlive them. A right must never pass to whoever comes
  after; a session must neither be lost nor come back, through restarts too.
* **Agents, publication, tools.** Each request decides on one read and acts on
  a later one, over one or two tables. What is served must have been published,
  what is executed allowed, at moments of the request; a stale copy must not
  bring a deleted row back.
* **Workspaces, draft modules.** Several agents and people change one directory
  file by file. What is called valid must have been whole, tools must work
  where the agent's workspace was, and paths must stay inside.
* **Model catalog, ideas.** A scan goes by a listing it made at its start; ids
  of the configuration's lists are handed out again; a conversion is an
  insertion and a deletion.
* **Views.** Two codes decide about a document, one when it is served, one when
  it is rendered; a third translates the views of the old form.
* **Interfaces.** A desktop client whose requests time out after Core acted,
  and a browser whose tabs rerun a script at every click, share cookies, and
  may be interrupted anywhere. Name, session and screen must belong together,
  and commands must be about what was on the page.

## 2. The modules

| module | models | kind |
|---|---|---|
| `AlarmDuty` | the promise of the alarm scheduler, without table, threads or runs | abstract specification |
| `AgentAlarms` | table, scheduler thread, request threads, loop service, crashes | detailed specification, implements `AlarmDuty` |
| `AgentAlarmsProofs` | theorems about `AgentAlarms` | proofs |
| `ModuleActivation` | registry rebuilds and the alarm scheduler's thread | specification |
| `StarterAgents` | automatic and manual installation of the starters | specification |
| `AppConfig` | the configuration file, its loads and saves | specification |
| `SqliteStore` | the tables and their calls | operators |
| `Permissions` | owner, group, mode bits | operators |
| `Accounts` | users and sessions | specification |
| `Groups` | groups and memberships | specification |
| `AgentDirectory` | agents, prompts, publication, the public listing | specification |
| `ToolAccess` | tools, assignments, execution, the tool runtime | specification |
| `ModuleWorkspace` | draft modules: plan, scaffold, edits, validation | specification |
| `AgentFiles` | where an agent works and its file tools | specification |
| `Knowledge` | paths and answers of the knowledge tools | specification |
| `ModelCatalog` | models, preferences, endpoints, scans | specification |
| `IdeaPipeline` | ideas, conversions, focus | specification |
| `ViewContract` | normalisation, validation, rendering of views | specification |
| `FletClient` | the desktop client | specification |
| `StreamlitPage` | the pages on which items are changed in the browser | specification |
| `StreamlitSession` | signing in on several tabs | specification |
| `Access` | accounts, groups, agents and tools, side by side | composition |
| `Work` | drafts, files, knowledge, models, ideas, views, the desktop client, pages and tabs, side by side | composition |
| `ModuleActivationProofs`, `StarterAgentsProofs`, `AppConfigProofs`, `AccessProofs`, `IdeaPipelineProofs`, `WorkProofs` | theorems about the modules they are named for | proofs |
| `SqliteStoreProofs` | lemmas about the tables, used by the last three | proofs |
| `MC...` | symmetry sets and operation sets of the instances | for TLC only |

Definitions whose comment begins with `Mutant:` are plausible bugs in the code,
kept beside the definition they would replace. For each property that holds
one of them breaks it, in the same instance, so no property holds merely
because the model cannot fail it. No specification uses them.

### AgentAlarms

The granularity is that of the code's own atomicity. A call of
`SQLiteAgentAlarmRepository` runs under its `RLock` and in one statement, so
it is one action; the service takes no lock around several calls, so
`update_alarm` is two actions (`EditRead`, `EditWrite`) and `poll_once` as many
as it makes calls, with the scheduler's locals in `poll`:

    wait -PollBegin-> launch -Claim-> start -StartLoop-> record -RecordRun-> launch ...
                        |               `-StartLoopFails-> fail -RecordFailure-> launch
                        `-RefreshBegin-> refresh -RefreshRead-> report -Report-> refresh
                                            `-PollEnd-> wait

Any exception that leaves `poll_once` is swallowed by `_run_scheduler`
(`Abandon`). `poll.copy` is the whole row the code holds: `RecordRun`,
`RecordFailure` and `Report` write it back over whatever the row has become,
and `EditWrite` does the same with `edit[e].copy`. Writes to a deleted row
raise. `Restart` forgets the locals of all threads; the table and the runs of
the loop service, another process, survive.

An alarm's `def` stands for name, agent, prompt and model; `completed` and
`error` say whether `completed_at` and `last_error` are set; `started_at` and
`last_result`, which follow them, are left out. Requests are what the edit form
sends: no status. The order in which `list_due` and `list_tracking` return
alarms is left open. The history variables `births`, `birth`, `arms`,
`launches` and `lost` are read by properties only.

### ModuleActivation

`Get`, `Refresh`, `Deactivate`, `Join`, `ClearProviders`, `Register`,
`StartService` and `Publish` are the steps of `get_application_registry`,
`refresh_application_registry` and `_replace_application_registry` under
`_registry_lock`; `ReadSetting` comes before the lock, `Fetch` and
`UseService` after it, as in `_require_provider` and in the alarm provider's
`service` property. `agent_alarms` is the only bundled module with a
`deactivate` hook and a background thread, so other modules appear only as
the rebuild that raises (`BuildFails`). Each rebuild makes a new provider,
numbered, whose first use starts the service. The scheduler looks at its stop
event between polls (`Check`); how long a poll takes is not the code's to say
(`PollReturns`), which is why `Join` may give up on a thread in a poll.

### StarterAgents

`ensure_default_starter_agents` is `Begin` (the lock) and `ReadMarker`;
`install_starter_profiles` is `ListAgents`, `Skip`, `CheckName`, `Insert`,
`WriteRoot`, `Installed`; the publishing loop decides from one listing what each agent is to get (`Unfit`),
and then reads and writes agent by agent (`ReadUnfit`, `WriteFit`); then
`SetMarker`. `agents.install_starters` runs the same steps from
`ListAgents` without the lock. A repository's update tests for the row and
writes it in two calls, hence the two disjuncts of `WriteRoot` and `WriteFit`:
it raises if the row was missing at the test, and writes nothing if it went
after it. An exception ends the pass without the marker (`Leave`).

`crossed` is history: the starters that one installer inserted while another
one, by the listing it had read, was still to insert them too (`Intends`), where
one of the two was started by hand. Two automatic passes are no excuse, since
the lock is there to keep them apart.

### AppConfig

A configuration is a function from settings to values, a set of catalog ids,
the catalog of an old version, and two flags about the legacy section. A value
may be empty: a user may clear a box, and the directories, which a variable only
fills, are empty by default (`DefaultOf`). `Loaded` composes `_merge_dicts`,
`_migrate_legacy_state`, `_archive_obsolete_config` and `_seed_from_env`, in
that order. A save is `Open` (the file is truncated) and `Close` (the content
is there); between the two other threads, or the load after a crash, find a
file that does not parse. Two writers that overlap may leave the tail of the
longer content behind, which does not parse either. A catalog operation loads,
changes its copy of the list, loads again, replaces the list and saves, as
`_load_llm_configs` and `_save_llm_configs` do; when it finds the list empty it
looks for the old one with a second load, and saves what it finds there after a
third, before it goes on (`After`). Not represented: a `legacy`
section already in the file is changed in place, so that `seeded != config`
may be false although it changed and the save be skipped; the value read is the
same.

### SqliteStore, Permissions

`SqliteStore` has the calls of `sqlite_store.py` as operators on a table, the
function from ids to rows with the largest id handed out. Each call holds the
store's lock, so a module that uses one makes it a step of its own. An update
of an id that is gone changes nothing; `Insert` never hands an id out twice.
`Permissions` is `core/permissions.py`: a mode is a function from the three
classes of users to bits, and a group never has more than the right to read.

### Accounts, Groups

Each request is a thread with its locals in `request[h]`. In `Accounts`,
registering is `CheckFree` and `InsertUser`, a login `Verify` and
`OpenSession`, an edit `ReadUser`, `CheckName` and `WriteUser`: the calls of
`UserManager` and of its store, in the order of `users/manager.py`, with the
checks of `users_routes.py` in front. A call of the session manager changes the
dictionary and replaces the file under one lock, hence one step (`Store`); a
session that is met after its expiry is removed then, as `get_session` does.
`Restart` forgets dictionary and threads and loads the file. `birth` of a
session or membership, the history variables `births`, `issued`, `ended` and
`cut` are read by properties only.

In `Groups`, `create_group` is three writes (`InsertGroup`, `WriteRoot`,
`InsertOwner`), the owner check that starts most requests is a step (`Receive`
or `CheckMember`), and `add_member` looks for an old membership before it renews
it or inserts a new one (`LookForMember`, `RenewMember`, `InsertMember`).

### AgentDirectory, ToolAccess

An update of an agent reads the row to decide (`ReadAgent`), changes the text
of the prompt (`WriteText`), reads again and merges (`ReadAndMerge`), and
writes the whole row (`WriteAgent`); `delete_agent`, creation and cloning
likewise call by call; a creation may name the prompt it is to have, of another
agent too. The public listing copies the agents (`ListPublic`) and
compiles each prompt from a later read (`ServeNext`). A row is its owner,
group, mode, name, prompt, flag, and whether it may be published.

Every request about tools first compares the mode of the configuration with
the runtime's (`Ensure`); the rebuild assigns `bundle`, switches the
definitions of development tools (`ReadFlag`, `WriteFlag`), adds those of the
providers that are missing (`Define`, `CheckDefinitionName`,
`InsertDefinition`), then assigns manager and mode (`Publish`, `Stamp`),
without a lock. Assigning writes the assignment table and then `agent.tool_ids`
(`WriteAssignment`, `WriteIds`). A call resolves access from tool, agent and
assignment (`ReadTool`, `ReadAgent`, `Resolve`) before the provider runs
(`RunProvider`). `facts[h]` collects what was true at some moment of the call.

### ModuleWorkspace, AgentFiles, Knowledge

`ModuleWorkspace` is one draft module's directory, file by file: `Plan`,
`Create` with or without force (`CheckTarget`, `MakeDirectory`, `LookAtFile`,
`PutFile`), `Inspect`, and a validation that requires each file
(`RequireFile`), parses the manifest, compiles, and imports under a guard that
it puts into `builtins.__import__` and takes out again (`EnterImport`,
`LeaveImport`: `previous` is what it found there, which may be another
validation's guard). A Python file is looked for (`CompileFile`) and read
(`ReadPython`) in two steps: one that goes between them ends the validation.
Editors write and delete files at any time.

`AgentFiles` is the way from an agent's row to a file: read the agent, make or
require the root, work on the file, while the workspace is configured anew or
the agent deleted. What the file system refuses, such as a directory where a
file has the name, ends the call (`RootRefused`).
`Knowledge` has no state that lasts: a path is a sequence of parts, and
`Normalized` is what `tooling.py` makes of it.

### ModelCatalog, IdeaPipeline

A scan is `Scan` (the disk is listed), `ListModels` (the catalog is listed),
one `ScanFile` per file and `Purge`, which a scan does not reach when a file or
the record it is to update is gone by then (`ScanFails`); everything else of the manager is one step,
since what overlapping loads and saves do to the file is the subject of
`AppConfig`. `EditWithBlankKey` reads the key, `FinishEdit` writes the endpoint.
`SaveSettings` and `SaveLegacyDirectory` are two of the sets of a settings page.

A conversion in `IdeaPipeline` reads the source, creates the new record
(`CreateItem`), gives a project its root (`WriteRoot`) and deletes the source
(`DropSource`); `Crash` ends jobs anywhere. No interface of this commit calls the
conversions: they are operations of the service, which its tests use. `Advise` reads the tables one after
the other (`ReadKind`) and chooses a focus.

### ViewContract

The behaviours write a view part by part and then put it through: a declared
view through `Normalize` (ids, shorthand, `Issues`), a legacy one through
`NormalizeLegacy`, a document built by hand through `Validate`; then `Negotiate`
and `Render`. A component tree is the sequence of its components in the order of
the walk, with the index of each one's parent, so no recursion is needed.

`Issues` is `validation.py`, finding by finding: names, version, keys, kinds,
operations, dependencies, refresh of sources, scopes and types of states,
intents, scopes, targets and payloads of actions, effects, conditions, and of
components the id, type, binding, actions, field key, field type and nested
bindings. `Headless` is what `headless_renderer.py` reports, and `Raises` where
it raises instead: two codes, translated from two files, that `ContractsAgree`
compares. They do differ, and the property says in what:

* Validation accepts `not`, `all` and `any` over a binding or a literal
  (`validation.py:185-200`); the renderer takes the operand for a condition and
  raises (`headless_renderer.py:444-449`).
* A source that depends on a state key passes the first only.
* The first strips the keys it collects (`validation.py:236`), nobody else does;
  the property is about keys without blanks around them.
* What only the first looks at (`Unseen`), the refresh of a source among it, and
  the effects of an action whose condition does not hold.

`Negotiable` is `compatibility.py`: versions, components, field types, source
kinds, effects, capabilities. Of legacy views, `LegacyViews` has every layout,
form and command, and small views with a fault each: an unknown scope, field
type or source kind, a dangling dependency or binding, a key given twice, the
key of the items. `AtFault` lists all the faults there are, and `LegacyServes`
says that the translation adds none.

Conditions hold conditions one level deep, and these hold bindings and literals.
Values are told apart only by what a truth test and a comparison come to
(`Environments`). A part with something odd about it counts twice toward
`MaxParts`, so that odd parts are met alone, or beside one or two plain ones,
and plain parts three at a time.

### FletClient, StreamlitPage, StreamlitSession

In `FletClient` the toolkit's handlers run one at a time, but each request is a
step, sessions end between two of them (`EndSession`), and a request may fail
before or after Core acted (`FailsTo`). The jar keeps the cookie restored from
the file and the one Core has set apart, as the requests library does: the
session file gets the first of the two (`api_client.py`), Core goes by the last.

In `StreamlitPage` a click starts a run of the script: `Load` lists the items,
the widget clicked is looked for among what is rendered, `Execute` sends the
command, an answer changes the page's state. `UserClicks` may interrupt the run
between any two of these; `OthersChange` creates and deletes items. The two
kinds of pages (schemas, portable documents) share the run and differ in what
they do with questions and answers. In `StreamlitSession` each tab has its
token and what it saw of the cookie when it was opened; the script that writes
the token back to the cookie with each request may never run.

### Access, Work

Modules that share no table or file need no product of their states: a
behaviour of `Access` (of `Work`) is one of one of its parts, and `part`
says of which; the variables of the others keep one of their initial values.
Its invariants are conjunctions over the parts. `TypeOK`, `WorkspaceKept`,
`IdeasKept`, `ConversionsHold`, `ScreensHold`, `RightsNotInherited` and
`NothingUnasked` have several conjuncts; for the conjuncts that the mutant
named in `PROJECT.json` does not break, the modules hold others that do
(`MakesAlways` in `AgentFiles`, `RenamedOnce` in `ViewContract`, `Joined` in
`Knowledge`, `SignedAsBefore` in `FletClient`, `NeverMissing` in `StreamlitPage`,
`CookieOfNow` in `StreamlitSession`). Both are
parameterised, so that `AccessProofs` and `WorkProofs` are about them and the
runs `access` and `work` are instances of the same modules.

## 3. The runs

| run | instance | shows |
|---|---|---|
| `race` | 1 id, 2 definitions, 2 editors, 2 runs, 2 edits, 1 fault, 1 crash | the safety properties of `AgentAlarms` and the refinement of `AlarmDuty` |
| `live` | 2 ids, 2 runs, 2 clock values, 1 fault, 1 crash | `DueAlarmLeavesQueue`, `RunningEnds` |
| `disable` | 1 id, 1 edit | **violated**: clearing Enabled disables |
| `switch` | 2 request threads, 4 requests of any kind, 1 rebuild raising | `AtMostOneThread`, `ActivationMatches`, `RequestsEnd`, `StableStops` |
| `quiet` | 2 threads, 3 requests | **violated**: stable-only mode is quiet |
| `auto` | 2 profiles, 2 automatic passes at once of 3, 1 edit, 1 crash; or 1 manual pass beside 2 of these or of deletions | the safety properties of the installation, `LockReleased` |
| `deleted` | 1 automatic, 1 manual pass | **violated**: a deleted starter stays deleted |
| `serial` | 2 settings, 4 changes, 1 crash, old files, an old catalog and legacy state | `SetsAreKept`, `ArchiveKept`, `ReadsDoNotWrite` |
| `env` | 1 setting with a variable | **violated**: what was saved is kept |
| `wipe` | 2 threads | **violated**: settings persist |
| `access` | 2 request threads; accounts: 2 users, 2 tokens, 3 requests, 1 crash, 1 tick; groups: 2 groups, 3 memberships, 3 requests, 1 crash; agents: 2 agents, 2 prompts, 2 requests; tools: 2 tools, 2 requests, 1 change from outside | `SessionsDurable`, `RightsNotInherited`, `HalfCreatedExplained`, `ServedWasPublished`, `PromptsSharedOnRequest`, `ExecutedWasAllowed`, `DeletedStaysDeleted` |
| `work` | 2 threads; drafts: 3 requests; files: 3 calls, 1 change; models: 2 ids, 3 requests, 1 change; ideas: 2 rows a table, 3 requests, 1 crash; views: 3 parts; desktop: 2 tokens, 2 starts, 2 failures; pages: 2 items, 3 clicks, 1 change by others; tabs: 2 tabs, 2 tokens, 4 clicks | `WorkspaceKept`, `IdeasKept`, `DoublesAreExcused`, `NothingUnasked`, `ConversionsHold`, `ScreensHold` |

### Why the bounds are enough

* `race`: ids are independent of each other (each action touches the row of one
  id, and the scheduler's locals hold one at a time), so one id with every
  request against it shows the races on a row; two runs are one that was
  started before and one after a re-arming; two editors with two edits overlap
  with each other and with the scheduler. The reuse of an id that a deleted
  alarm had needs only one id: with `MaxId = 1` the mutant `NextFreeRowId`
  hands it out again, and `RunIdOwned` fails. The clock stands still because
  an alarm is due or not; `live` moves it.
* `live`: two alarms, so that the failure of one can starve the other. One fault
  is one `get_loop_run` that raises; one that raises at every refresh would
  starve the alarms after it for good, and `RunningEnds` says nothing of that.
* `switch`: four requests are enough for a toggle to stable, a toggle back, and
  two requests that straddle them; threads and builds are bounded by six, above
  what four requests can create, so the bounds cut nothing.
* `auto`: three passes and one crash give an aborted pass, a pass that repairs,
  and a pass that must do nothing. `IdsSuffice` keeps a pass from starting when
  ids might run out, so that none stops half way because of the bound. In a
  behaviour with a manual pass, two of the others' steps counted by `MaxBeside`
  are an automatic pass and the renaming or deletion (or crash) between its look
  and the insertion: enough for `crossed` to be needed, which the same run
  without it in `StartersUnique` shows by a counterexample of eleven states.
* `serial`: two settings, one with a fill-only variable, set to any value, the
  empty one included; create, create, delete, create reaches the reuse of the
  largest id, and an old catalog of one item is copied, emptied and copied
  again. `MaxOld + MaxOps <= MaxItem` is assumed, so ids never run out.
* `access`: two threads and two or three requests are a decision, the request
  of another that invalidates it, and the act. A deletion, a creation and a
  login or addition (three) reach the reuse of an id: the mutant
  `InsertReusing` breaks `RightsNotInherited` at once. Two agents are needed
  for a shared prompt and a taken name; one agent for tools, because every
  action about tools concerns one agent and one tool beside its namesake.
* `work`: two validations and one scaffold overlap in three requests; two scans
  of a listing and an edit likewise. Three parts of a view are a source, an
  action and a component that names both, or a component with two children;
  what is compared are pairs of parts. The conditions show each way an
  operand is taken: as a value, as a condition, and as one where it is none. Two tokens are an old session and a new
  one; four clicks sign in on one tab, out on it, in on another and act.

Every unbounded number of the code has a named bound among the CONSTANTS:
`MaxId`, `MaxRuns`, `MaxClock`, `MaxEdits`, `MaxFaults`, `MaxCrashes`
(`AgentAlarms`); `MaxRequests`, `MaxThreads`, `MaxBuilds`, `MaxFaults`
(`ModuleActivation`); `MaxId`, `MaxPasses`, `MaxManuals`, `MaxEdits`,
`MaxCrashes`, `MaxBeside` (`StarterAgents`); `MaxItem`, `MaxOld`, `MaxOps`, `MaxCrashes` (`AppConfig`); those of
`Access` (`MaxUser`, `MaxGroup`, `MaxMember`, `MaxAgent`, `MaxPrompt`,
`MaxTool`, `MaxToken`, `MaxClock`, `MaxRequests`, `MaxCalls`, `MaxCrashes`,
`MaxChanges`); those of `Work` (`MaxRequests`, `MaxCalls`, `MaxChanges`, `MaxId`,
`MaxRow`, `MaxItem`, `MaxToken`, `MaxCrashes`, `MaxParts`, `MaxStarts`,
`MaxFailures`, `MaxClicks`, `MaxOthers`, `MaxTabClicks`).
`CHECK_DEADLOCK FALSE` is set where the bounded number of requests runs out and
nothing remains to happen (`ModuleActivation`, `StarterAgents`, `Access`,
`Work`).

Symmetry is used in `race` (editors), `deleted` (profiles, requests), `access`
(threads, names) and `work` (threads, users, tabs), never in a run with a liveness
property.

### Fairness

* `AgentAlarms`: weak fairness of `Poll`, because the thread is a loop around
  `Event.wait` and swallows exceptions; of `EditWrite`, because a handler that
  read the row goes on to write it; of each run's end, the loop service's duty;
  and of the clock. No fairness for users, faults or crashes. The scheduler has
  one weak-fairness condition for the whole loop: the choice of which alarm is
  next is the code's iteration order, left open.
* `ModuleActivation`: threads run (`ThreadsRun`): weak fairness of a request
  that has begun and of the scheduler's look at the stop event. That polls
  return is stated apart (`PollsReturn`): `RequestsEnd` does not need it and is
  checked without, `StableStops` has it as a premise.
* `StarterAgents`: requests that have begun run on. A request waiting for the
  lock is not assumed to get it.

## 4. What the violated properties say

1. **Clearing Enabled re-arms a scheduled alarm** (`disable`). `_apply_updates`
   keeps the old status and tests it before `enabled`
   (`modules/agent_alarms/service.py:251`); the branch that disables is
   reached only by alarms that are no longer scheduled.
2. **Stable-only mode may keep a scheduler** (`quiet`). A request that fetched
   the provider before the switch starts the service after it
   (`module_views.py:29`); nobody deactivates a module that is not active.
   `docs/architecture/ARCHITECTURE.md:70` says background work is stopped.
   `StableStops` shows what does hold: without such a late request and without
   a rebuild that raised, the thread ends.
3. **A deleted starter may come back** (`deleted`). The marker is written only
   at the end of an automatic pass; what was installed by hand, or by a pass
   that was cut short, and deleted before then is installed again, against
   `README.md:7`. `MarkerEndsAutoInstall` shows what does hold.
4. **The environment wins over what was saved** (`env`), for every variable but
   the few at `core/app_config.py:196-197`, against `README.md:95`. Those fill a
   setting only while it is empty, but a user may empty it: the settings page
   stores a cleared directory (`core/settings_service.py:104-105,139-140`) and
   the next load fills it from the environment again and saves it. In the same
   way the endpoints of an old version are copied into a list that was emptied
   (`modules/ai_model_manager/services.py:711-716`). `SetsAreKept` names both;
   `serial` shows that nothing else is lost where no variable replaces what is
   stored, and `ReadsDoNotWrite` that a load writes nothing but such a refill.
5. **A concurrent load can replace all settings by defaults** (`wipe`): it
   reads the truncated file, takes it for empty and saves the defaults
   (`core/app_config.py:267`). `serial` shows that without overlap, and with
   no crash inside a save, everything is kept.

Further differences found while modelling, without a run of their own:

* An overlap of `agents.install_starters` with an automatic pass can install a
  starter twice, and the publishing loop may overwrite a user's concurrent edit
  (`docs/agents/starter-catalog.md:46-50` promises neither happens).
  `StartersUnique` says that nothing but such an overlap installs one twice.
* `update_agent` does not check that a name is free.
* Unassigning a tool writes the assignment table first and `agent.tool_ids`
  second: between the two an agent has the tool by its list, without any
  assignment. `ExecutedWasAllowed` therefore counts being listed as having it.
* A settings page is saved key by key; a crash leaves a mixture.
* The `__import__` guard of two overlapping validations may be put back in the
  wrong order and stay installed after both have ended
  (`core/modules/validation.py:236`), and a file that goes between the look and
  the read raises (`validation.py:139,144`). The model has both; no property
  excludes them.
* A rebuild of the tool runtime may leave the manager of the mode before; what a
  call may run is checked against the manager it met.
* Validation of a view passes conditions on which the headless renderer raises,
  and keys with blanks around them that nothing finds (section 2,
  `ViewContract`).
* A tab of the browser whose token is dead, or that has none, overwrites the
  cookie of a newer login with each of its requests.

## 5. What is proved

`AgentAlarmsProofs` proves, for every value of the constants that satisfies the
assumptions `DefsAssumption` (there is a definition), `BoundsAssumption` (the
bounds are naturals) and `NoRowAssumption` (`NoRow` is no alarm):

| theorem | statement |
|---|---|
| `TypeCorrect` | `Spec => []TypeOK` |
| `Inductive` | `Spec => []IInv` |
| `OneLaunch` | `Spec => []OneLaunchPerArming` |
| `StatusSound` | `Spec => []StatusConsistent` |
| `RunOwned` | `Spec => []RunIdOwned` |
| `RunningShown` | `Spec => []RunningShowsItsLoop` |
| `CompletedSound` | `Spec => []CompletedIsTrue` |
| `UntrackedExplained` | `Spec => []UntrackedOnlyByCrash` |
| `Implementation` | `Spec => ImplementsDuty` |
| `TrackInvariant` | `Spec => [](IInv /\ TrackInv)` |
| `CompletedFinal` | `Spec => CompletedStays` |

None of the invariants is inductive by itself, because the danger lies in
copies: a row is fine, and then a copy read ten steps ago is written over it.
`IInv` therefore says of every copy a thread holds what the invariants say of
rows. Its core is `Sound(alarm, a, runs, birth)`: enabled, status, run and
outcome fit together; a run the copy names was started for id `a` in its
present birth; a completed copy names a run that completed; a running copy
names a run of its own definition.

* `RowInv`: every row has an id that was handed out, and is `Sound`.
* `EditInv`: the copy an editor is about to write is `Sound`, and scheduled or
  disabled.
* `LaunchInv`: from the claim to the write after it, the claimed copy is
  running, enabled and without a run; at `record`, `poll.run` is a run started
  for this id, birth and definition.
* `RefreshInv`: every tracked copy, and the copy about to be reported, is
  `Sound` for the id it will be written to.
* `UntrackedOnlyByCrash`, which is inductive together with the others.
* `DutyInv`: for each id, its launches, plus one if its row is scheduled, plus
  one if it is claimed and not yet started, are at most its armings. This makes
  a second launch of one arming impossible, and carries the refinement.

`Init => IInv`, `IInv /\ [Next]_vars => IInv'` and `IInv => Inv` give the
theorems by PTL. The step is one lemma per conjunct of `IInv` (`TypeStep`,
`RowStep`, `EditStep`, `LaunchStep`, `RefreshStep`, `UntrackedStep`,
`DutyStep`), each by cases on the actions. Copies stay sound while they are
held because runs only extend (`RunsExtend`: a run, once started, keeps its
alarm, birth and definition, and completion is final) and because an id that
was handed out is not born again (`BirthStable`: `AUTOINCREMENT`).

The action property `CompletedStays` needs one more invariant, `TrackInv`,
about the alarms that are completed: the scheduler launches none of them, it
tracks each id once and under the run its row names, and a failure it is about
to report about one is that of a run the loop service has forgotten. Since only
a report completes an alarm (`CompletedBy`), the tracked copies stay in step
with the completed rows.

The refinement maps the scheduled rows to `armed`, the alarm between claim and
start to `claimed`, and the two counters to themselves. `CreateAlarm` and
`EditWrite` map to `Arm` (or `Disarm`, or a stutter), `Claim` to `Claim`,
`StartLoop` to `Fire`, `StartLoopFails` to `Fire` or `DropClaim`, `DeleteAlarm`
to `Disarm`, `Restart` to `DropClaim`, everything else to a stutter.

`ModuleActivationProofs` assumes `RequestsAssumption` ("free" is no request,
so that the lock can tell) and `BoundsAssumption` (the bounds are naturals):

| theorem | statement |
|---|---|
| `TypeCorrect` | `Spec => []TypeOK` |
| `Inductive` | `Spec => []IInv` |
| `OneThread` | `Spec => []AtMostOneThread` |
| `ActivationSound` | `Spec => []ActivationMatches` |

`AtMostOneThread` fails only if a thread is alive that the service has lost
sight of, so `ThreadInv` says that only `current` can be alive.
`ActivationMatches` holds between rebuilds and fails within them; `LockInv`
says that whoever is in a rebuild holds the lock (hence is alone), and
`RebuildInv` what registry, providers and modules are at each step of a
rebuild, from which the last step restores the agreement.

`StarterAgentsProofs` assumes `NamesAssumption`, `NoAgentAssumption`,
`FreeAssumption` ("free" is no request) and `BoundsAssumption`:

| theorem | statement |
|---|---|
| `TypeCorrect` | `Spec => []TypeOK` |
| `Inductive` | `Spec => []IInv` |
| `MarkerEnds` | `Spec => []MarkerEndsAutoInstall` |
| `MarkerComplete` | `Spec => []MarkerMeansComplete` |
| `Unique` | `Spec => []StartersUnique` |
| `UniqueAutomatic` | `Manuals = {}` : `Spec => []OneEach` |

The argument: an automatic pass beyond its beginning holds the lock
(`LockInv`), so the one that sets the marker is alone; and at each of its steps
the part of the catalog that it need not look at any more was seen installed,
or its name taken (`PassInv`), so that when nothing is left to do everything
was. `CopyInv` keeps the manual installers, which hold no lock, from the steps
that publish and set the marker. The catalog, the requests and the crashes are
arbitrary. The invariant of `Unique`, `UniqueInv`, adds what the listing an
installer goes by is worth (`Fresh`): what it is still to insert no live agent
is, unless it is in `crossed`. An insertion can break that only for another
installer that is to insert the same starter, and then one of the two is a
manual one, since two automatic ones would both hold the lock: it has crossed.
And every copy of a row, an editor's too, keeps the profile of the row it will
be written to (`Same`), so that no write makes a second agent of a profile.
`UniqueAutomatic` follows: where nobody installs by hand nothing crosses
(`NoneCross`), and no two live agents are the same starter.

`AppConfigProofs` assumes `EnvAssumption` (variables are for settings),
`OpsAssumption` (requests are of the kinds there are), `IdsSuffice` (no more
requests and old items than ids), `CrashesAssumption` (their bound is a natural)
and `ValsAssumption` (no user saves the mark for what is not in the file). What
users save may be anything else: the default, what the environment has, the
empty value:

| theorem | statement |
|---|---|
| `TypeCorrect` | `Spec => []TypeOK` |
| `ReadsSettle` | `Spec => []ReadsDoNotWrite` |
| `SetsKept` | `EnvWins = {}`, one thread : `Spec => []SetsAreKept` |
| `ArchiveStays` | one thread : `Spec => []ArchiveKept` |

The hypotheses are needed: `env` refutes `SetsAreKept` where the environment
wins, and two threads refute it too, as `wipe` does `SettingsPersist`: a writer
that loaded before another saved writes back what it loaded. The first two
theorems hold for any number of threads and any environment. The argument for
types is that the ids in use and those that creations under way will take are
together at most as many as the requests begun and the old items (`IdInv`), so
that an id is always left. For `ReadsDoNotWrite`, loading is shown to be
idempotent: what a load returns, loaded again, is itself, whatever was in the
file; so what a thread is about to write is loaded unchanged, but for the one
setting it was asked to give a value that its variable replaces. For
`SetsAreKept` and `ArchiveKept`, `KeptInv` and `ArchiveInv` say at each step of a
request what the copy in memory holds of what was saved before, since the file
has nothing while it is truncated, and what the copy of the list is worth
between the loads of a catalog operation.

`SqliteStoreProofs` says once what a call does to a table of the proper shape
(the ids lie in `1 .. last`): `Inserted` hands out the id `last + 1`, which no
row has, and leaves the other rows alone; `Updated` changes one row and no id;
`Deleted` takes away one id and keeps `last`; `Least` is what `First` rests on.
A deleted id is never handed out again, which all of the following need.

`AccessProofs` assumes `BoundsAssumption` (the bounds are naturals, and each
table has room for a row), `TtlAssumption` (a session lasts) and
`DefinitionsAssumption` (the table of tools has room for the two definitions).
Threads, names, users, bounds are arbitrary:

| theorem | statement |
|---|---|
| `Inductive` | `Spec => []AccessInv` |
| `TypeCorrect` | `Spec => []TypeOK` |
| `SessionsLast` | `Spec => []SessionsDurable` |
| `RightsStay` | `Spec => []RightsNotInherited` |
| `HalvesUnseen` | `Spec => []HalfCreatedExplained` |
| `ServedPublished` | `Spec => []ServedWasPublished` |
| `PromptsShared` | `Spec => []PromptsSharedOnRequest` |
| `ExecutedAllowed` | `Spec => []ExecutedWasAllowed` |
| `DeletedStay` | `Spec => DeletedStaysDeleted` |

A step is a step of one part and leaves the others alone (`StepOfParts`), so
`AccessInv` is the conjunction of an invariant for each, with the types of
tables and locals, which say what the copy of a thread is at each stage of its
request.

* `AccountInv`. `SessionsDurable` is lost by a restart that finds another file.
  Hence dictionary and file hold every session as it was opened (`Holds`), only
  an expired one can be in the file and not in the dictionary (`FileInv`),
  tokens are numbered, and no user of a session is beyond the last id handed
  out (`IssuedInv`).
* `GroupInv`. A thread between the insertion of a group and that of its owner's
  membership is the only one that makes that group (`Apart`), and until it is
  done nobody is a member (`Unjoined`). Every other request passed the check of
  an owner, so its group has a member and is not one of these; what it writes
  back has the creator of the row, or the group and user of the membership, it
  is written to (`GroupThreads`). A group that nobody makes is whole, or was cut
  short by a restart (`AllWhole`).
* `AgentInv`. A prompt is used by an agent whose row names it, or for which a
  thread is about to write such a row, or by a thread about to insert one; two of
  these have one prompt only if a client named it (`OwnPrompts`), and what
  clients name is noted before it is used (`AllNoted`). Each agent that a
  listing has yet to serve was public and eligible when it was listed
  (`AllListed`).
* `ToolInv` is `Sound` for each thread in a call: at each stage, what it has
  read is among the facts of its call. At `resolve` the tool was on, and if the
  row it holds asks for nothing, it was so; the assignment is read at that step,
  and the list of the agent was noted before.

`DeletedStaysDeleted` follows from `NoneRevived`: a write of a whole row, however
old the copy, changes no id, and an insertion takes one that no row ever had.

`IdeaPipelineProofs` (ideas, conversions, crashes):

| theorem | statement |
|---|---|
| `Inductive` | `Spec => []IInv` |
| `NotLost` | `Spec => []IdeasAreNotLost` |
| `Typed` | `Spec => []TypeOK` |
| `OwnersKept` | `Spec => []OwnersAreKept` |
| `Kept` | `Spec => []IdeasKept` |

A conversion deletes its source several steps after it read it. `JobInv` says
what is still true at each of them: that what it read has the owner and the
origin that the row has, if the row is still there, and that once its first
insertion is made something lives on that the deletion does not touch: anything
made of the idea if the source is the idea, a project if it is a task (with
less, a conversion of the task made of an idea could take away what another
counts on). `Persist` collects what every step keeps: no id comes back, no row
changes its origin or owner. From it `RowsKept`, `NoneLost` and `JobKept` give
the parts that a step does not touch. The types need `IInv` too: a row made from
a copy is of its type because the copy's owner is the captor of an idea there
was (`MadeOfIdea`).

`WorkProofs` assumes `BoundsAssumption` (the bounds are naturals; there is room
for a model, an item and a part) and `NothingAssumption` (`Nothing` is no key,
thread, user, token or content). Threads, users, tabs, keys and bounds are
arbitrary:

| theorem | statement |
|---|---|
| `Inductive` | `Spec => []WorkInv` |
| `Typed` | `Spec => []TypeOK` |
| `PassedAndPlaced` | `Spec => []WorkspaceKept` |
| `IdeasStay` | `Spec => []IdeasKept` |
| `DoublesExplained` | `Spec => []DoublesAreExcused` |
| `AskedOnly` | `Spec => NothingUnasked` |
| `ScreensTrue` | `Spec => []ScreensHold` |
| `ConversionsTrue` | `Spec => []ConversionsHold` |
| `ContractsAgreeOn` | keys without blanks : `Agree` of any document and environment |
| `LegacyServed` | keys are words, not `AtFault` : the translation has no `Issues` |

As in `Access`, `WorkInv` is the conjunction of an invariant for each part
(`StepOfParts`).

* `DraftInv`. A file that a validation has looked for may be gone by the time it
  concludes, so nothing follows from what is there. `DraftGood` goes by what has
  been seen: at each step, unless a file was missing, everything no longer in
  `todo` is among what was there at some moment of the validation. Only the
  orders of `todo` that the code produces occur (`Unlooked`).
* `FileInv`. The place a thread works in is among those its agent was
  configured for since the call began, from the read to the last step; the step
  lemma also gives `MakesOnlyToWrite`.
* `CatalogInv`. An id of the list is handed out again, so the copies of a scan
  mean nothing by themselves. What is true of them is that, unless its listing
  is stale, a scan knows for each file it has yet to record the id of the record
  with that path, or rightly that there is none (`Listed`). The list then has
  each path once, unless that is excused (`Single`). An edit with a blank key
  notes each key its endpoint gets (`held`), and what it writes is one of them.
  Ids tell records apart, so the ids of a list are as many as its records
  (`IdsCount`).
* `IdeaInv` is the invariant of `IdeaPipelineProofs`, whose theorems are used
  by instance; the lemmas `Same...` say that both copies of an operator are one.
* `LookupInv`. A path is folded part by part, and however many parts it has,
  what is kept of it is names only. No induction theorem of the library can be
  used for that, so two lemmas take their place, both proved by the least
  counterexample (`Least`): what each step of a recursion keeps holds all along
  (`AllAlong`), and a recursion has a solution in the first place (`Iterated`),
  which a recursive function, being a CHOOSE, says nothing about.
  `NormalizedInside` and `FlaggedShaped` rest on them.
* `ViewInv` says only of what shape the documents are that a behaviour can have
  written, and that a refused legacy view has something wrong with its
  translation. `ContractsAgreeOn` holds for any document whatever whose keys have
  no blanks around them: a finding of one checker is matched against the reasons
  of the other, reason by reason (`Finding`, `Reported`), and a condition that
  raises although it was accepted negates or combines something that is no
  condition (`OnlyLooseRaises`). That the ids of shorthand are unique
  (`RenamedApart`) counts, for two components of one id, the earlier ones: of the
  later there are more. `LegacyServed` holds for legacy views with schemas,
  forms, actions and sources of any length, kind, scope and type whose keys are
  words, not blank and without blanks around them (`LegacyShaped`): the
  translation validates, unless the view has one of the faults of `AtFault`. The
  tree is put together of pieces, each with ids that start with a name no other
  piece has (`Piece`, `PieceJoined`), and the actions of forms are those that are
  not declared, each once (`FormActionsApart`). `ConversionsTrue` applies it to
  the legacy views that the behaviours write, `LegacyViews`, and to them only.
* `ClientInv`. Name, cookie and session are tied at each step of a request:
  which token the jar sends, whose it is, and that a session no longer held was
  left (`ClientSessions`); which screen belongs to which request
  (`ClientFlow`).
* `BrowserInv`. Once a run has loaded its list, every question of the page is
  about an item of that list and of the view selected (`PageAsks`); only the
  edit form of the portable page is not, as it outlives its item. That page's
  questions are about its own items (`PageTargets`).
* `SignInInv`. The page names a user that Core told it of some steps earlier,
  for the token the tab carried then. `TabNamed` ties the two: the answer a tab
  holds is about the token it still carries, so a run that gets another token
  in between must have started anew.

Only model-checked: the liveness properties, since leads-to under weak fairness
is outside the prover's reach. Every other property that a run finds to hold is
stated by a theorem.

## 6. What is abstracted

Wording, formats, labels, timestamps other than an alarm's due time, prompts
and HTTP are not modelled. The loop service, which lives in another process, is
modelled from its use: it starts runs, ends each of them, may raise and may
forget. Two assumptions are worth naming. A single process writes the alarm
table (the module starts one scheduler per process; several server processes
would each run one, and `claim_due_alarm` has no condition in its UPDATE). And
SQLite calls succeed: disk errors are not modelled.

In `access` and `work` two more are made. A replacement of the session file is
atomic, as the rename of a temporary file is. And an import that a validation
makes, a provider's run and a headless value are outcomes, not computations.

## 7. Not modelled

* **Registry**: tables that one thread fills under the lock of `bootstrap.py`;
  a second contribution of one name raises, which is `BuildFails`.
* **Transport policy**: one pass of checks over configuration and certificate
  files when the server starts; sequential, without state.
* **Logging, preferences, admin tools, text and command line interfaces**:
  output, view descriptors, and single calls of what is modelled elsewhere.
* **Ordering and hiding of modules and views** (`module_management.py:88-164`):
  each is one set of a value over a sorted listing.
* **Of IPE**: edits of single fields, which change neither existence nor owner,
  and the coach agent, which is looked for and created like any agent.
* **Of the model manager**: probing of endpoints and reading of file headers;
  their results are inputs.
* **Of the browser interface**: styles, and the renderers of single modules,
  which draw and send the same commands.
* **Of the view contract**: labels, columns and widths; conditions nested more
  than one level deep; and what the parsers of legacy views drop, such as an
  entry without a key, before anything is made of it.
* **HTTP**: routing and serialisation; checks that routes make are the first
  steps of the requests.

## 8. Plan

1. Liveness of the newer modules: a scan ends, a listing answers, a guard is
   taken out where validations do not overlap.
2. `ToolAccess` with two agents, and with an abstract specification "who may
   call what" that it implements up to the moments of a call.
3. The whole settings page composed with `AppConfig`.
