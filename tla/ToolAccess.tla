----------------------------- MODULE ToolAccess -----------------------------
(***************************************************************************)
(* Tools and who may call them: modules/agent_tools (manager, executor,    *)
(* repositories, routes and view) and core/tool_management_runtime.py.     *)
(*                                                                         *)
(* Every request first sees to it that the manager fits the development    *)
(* mode of the configuration; that takes no lock. Each call of the store   *)
(* is a step, and so is each assignment to the globals of the runtime.     *)
(***************************************************************************)
EXTENDS SqliteStore

CONSTANTS
  Nothing,       \* what an optional value is when there is none
  Handlers,      \* request threads
  MaxTool,       \* bound on tool ids
  MaxRequests,   \* bound on requests
  MaxChanges     \* bound on changes of the mode and of the agent

VARIABLES
  tools,         \* the table of tool definitions
  assignments,   \* the assignments of the one agent, by tool
  toolIds,       \* the agent's own list of tools, Nothing once it is deleted
  mode,          \* show_development_modules
  runtime,       \* the globals: the bundle, the manager's providers, its mode
  request,       \* the locals of each request thread
  count,         \* requests and changes so far
  facts          \* history: what was so at some moment of a thread's call

toolVars == <<tools, assignments, toolIds, mode, runtime, request, count, facts>>

\* Development providers and the others, each with one definition, that has
\* the name of its provider.
Providers == {"stable", "dev"}

ToolNames == Providers \cup {"own"}

ToolId == 1 .. MaxTool

Tool == [name : ToolNames, provider : Providers, enabled : BOOLEAN, confirm : BOOLEAN]

Definition(p) == [name |-> p, provider |-> p, enabled |-> TRUE, confirm |-> FALSE]

\* An assignment may override the confirmation the tool asks for.
Assignment == [enabled : BOOLEAN, confirm : BOOLEAN \cup {Nothing}]

\* What clients send: tools of their own, one with the name of a definition,
\* that are on or off or ask for confirmation, and assignments of each kind.
Drafts ==
  {[Definition("stable") EXCEPT !.name = "dev"]}
  \cup {[Definition("stable") EXCEPT !.name = "own", !.enabled = e, !.confirm = c] :
           e \in BOOLEAN, c \in BOOLEAN}

Request ==
  [op : {"create"}, row : {d \in Drafts : d.enabled /\ ~d.confirm}]
  \cup [op : {"update"}, tool : ToolId, row : {d \in Drafts : d.enabled = ~d.confirm}]
  \cup [op : {"assign"}, tool : ToolId,
        to : {a \in Assignment : a.confirm # TRUE /\ (a.enabled \/ a.confirm = Nothing)}]
  \cup [op : {"unassign"}, tool : ToolId]
  \cup [op : {"execute"}, tool : ToolId, approved : BOOLEAN]

Stages == {"ensure", "flag", "setFlag", "define", "name", "insert", "publish", "stamp",
           "use", "newName", "edit", "agent", "tool", "resolve", "save", "ids", "run"}

Idle == [pc |-> "idle"]

\* A thread's locals: the request, the mode it builds for, the definitions
\* it has yet to ensure, the row and the list of tools it read.
At(pc, r) == [pc |-> pc, asked |-> r, dev |-> FALSE, todo |-> {},
              row |-> Nothing, ids |-> {}]

Go(h, local) == request' = [request EXCEPT ![h] = local]

Step(h, pc) == Go(h, [request[h] EXCEPT !.pc = pc])

ByProvider(p) == LET Is(row) == row.provider = p IN First(tools, Is)

ByName(n) == LET Is(row) == row.name = n IN First(tools, Is)

\* What bears on whether the call of a thread is allowed, in a state of the
\* tables.
FactsOf(r, ts, as, ids) ==
  {f \in {"on", "row", "bare", "listed", "waived", "unasked"} :
     CASE f = "on"      -> r.tool \in Ids(ts) /\ ts.rows[r.tool].enabled
       [] f = "row"     -> as[r.tool] # Nothing /\ as[r.tool].enabled
       [] f = "bare"    -> as[r.tool] = Nothing
       [] f = "listed"  -> ids # Nothing /\ r.tool \in ids
       [] f = "waived"  -> as[r.tool] # Nothing /\ as[r.tool].confirm = FALSE
       [] f = "unasked" -> r.tool \in Ids(ts) /\ ~ts.rows[r.tool].confirm}

\* From the moment it has its manager until its end.
Calling(local) ==
  /\ local.pc \in {"agent", "tool", "resolve", "run"}
  /\ local.asked.op = "execute"

Watch ==
  facts' = [h \in Handlers |->
              IF ~Calling(request'[h]) THEN {}
              ELSE facts[h] \cup FactsOf(request'[h].asked, tools, assignments, toolIds)
                            \cup FactsOf(request'[h].asked, tools', assignments', toolIds')]

Quiet == UNCHANGED <<tools, assignments, toolIds, mode, runtime, count>> /\ Watch

Writing(table) ==
  /\ tools' = table
  /\ UNCHANGED <<assignments, toolIds, mode, runtime, count>>
  /\ Watch

-----------------------------------------------------------------------------
(* _ensure_runtime *)

\* What is asked for matters once there is a manager, and is chosen then.
Receive(h) ==
  /\ request[h] = Idle
  /\ count.requests < MaxRequests
  /\ count' = [count EXCEPT !.requests = @ + 1]
  /\ Go(h, At("ensure", Nothing))
  /\ UNCHANGED <<tools, assignments, toolIds, mode, runtime>>
  /\ Watch

\* A manager of the right mode is used; otherwise the bundle is replaced.
Ensure(h) ==
  /\ request[h].pc = "ensure"
  /\ IF runtime.bundle /\ runtime.mode = mode
     THEN Step(h, "use") /\ UNCHANGED runtime
     ELSE /\ Go(h, [request[h] EXCEPT !.pc = "flag", !.dev = mode])
          /\ runtime' = [runtime EXCEPT !.bundle = TRUE]
  /\ UNCHANGED <<tools, assignments, toolIds, mode, count>>
  /\ Watch

\* _set_agent_tools_definitions_enabled and its sibling: a development
\* definition whose flag is not the mode's is read,
ReadFlag(h) ==
  LET here == request[h]
      id   == ByProvider("dev")
      todo == IF here.dev THEN Providers ELSE {"stable"}
  IN  /\ here.pc = "flag"
      /\ IF id = 0 \/ (id # 0 /\ tools.rows[id].enabled = here.dev)
         THEN Go(h, [here EXCEPT !.pc = "define", !.todo = todo])
         ELSE Go(h, [here EXCEPT !.pc = "setFlag", !.todo = todo,
                                 !.row = [id |-> id, row |-> tools.rows[id]]])
      /\ Quiet

\* and written back with the flag, the whole row.
WriteFlag(h) ==
  LET here == request[h]
  IN  /\ here.pc = "setFlag"
      /\ Step(h, "define")
      /\ Writing(Update(tools, here.row.id, [here.row.row EXCEPT !.enabled = here.dev]))

\* ensure_builtin_tools: development definitions first
NextDefinition(todo) == IF "dev" \in todo THEN "dev" ELSE "stable"

Define(h) ==
  LET here == request[h]
      p    == NextDefinition(here.todo)
  IN  /\ here.pc = "define"
      /\ IF here.todo = {} THEN Step(h, "publish")
         ELSE IF ByProvider(p) # 0 THEN Go(h, [here EXCEPT !.todo = @ \ {p}])
         ELSE Step(h, "name")
      /\ Quiet

\* A tool of a user that has the name of the definition makes the
\* construction of the manager fail, and the request with it.
CheckDefinitionName(h) ==
  /\ request[h].pc = "name"
  /\ IF ByName(NextDefinition(request[h].todo)) = 0 THEN Step(h, "insert") ELSE Go(h, Idle)
  /\ Quiet

InsertDefinition(h) ==
  LET p == NextDefinition(request[h].todo)
  IN  /\ request[h].pc = "insert"
      /\ tools.last < MaxTool
      /\ Go(h, [request[h] EXCEPT !.pc = "define", !.todo = @ \ {p}])
      /\ Writing(Insert(tools, Definition(p)))

Publish(h) ==
  /\ request[h].pc = "publish"
  /\ Step(h, "stamp")
  /\ runtime' = [runtime EXCEPT !.providers = IF request[h].dev THEN Providers ELSE {"stable"}]
  /\ UNCHANGED <<tools, assignments, toolIds, mode, count>>
  /\ Watch

Stamp(h) ==
  /\ request[h].pc = "stamp"
  /\ Go(h, At("use", Nothing))
  /\ runtime' = [runtime EXCEPT !.mode = request[h].dev]
  /\ UNCHANGED <<tools, assignments, toolIds, mode, count>>
  /\ Watch

-----------------------------------------------------------------------------
(* The operations of the manager *)

FirstStage(op) ==
  CASE op = "create" -> "newName" [] op = "update" -> "edit" [] OTHER -> "agent"

\* get_tool_manager asserts that there is a manager, which another thread
\* may not have got to yet.
UseManager(h) ==
  /\ request[h].pc = "use"
  /\ IF runtime.providers = Nothing THEN Go(h, Idle)
     ELSE \E r \in Request : Go(h, At(FirstStage(r.op), r))
  /\ Quiet

\* update_tool_definition: the tool must be there,
ReadTool(h) ==
  /\ request[h].pc = "edit"
  /\ IF request[h].asked.tool \in Ids(tools) THEN Step(h, "newName") ELSE Go(h, Idle)
  /\ Quiet

\* and its name free, as for create_tool_definition.
CheckName(h) ==
  LET asked == request[h].asked
      other == ByName(asked.row.name)
  IN  /\ request[h].pc = "newName"
      /\ IF other = 0 \/ (asked.op = "update" /\ other = asked.tool)
         THEN Step(h, "save") ELSE Go(h, Idle)
      /\ Quiet

WriteTool(h) ==
  LET asked == request[h].asked
  IN  /\ request[h].pc = "save"
      /\ Go(h, Idle)
      /\ \/ asked.op = "create" /\ tools.last < MaxTool /\ Writing(Insert(tools, asked.row))
         \/ asked.op = "update" /\ Writing(Update(tools, asked.tool, asked.row))

\* assign, unassign and execute read the agent first.
ReadAgent(h) ==
  LET op == request[h].asked.op
  IN  /\ request[h].pc = "agent"
      /\ IF toolIds = Nothing THEN Go(h, Idle)
         ELSE Go(h, [request[h] EXCEPT !.ids = toolIds,
                       !.pc = IF op = "unassign" THEN "save" ELSE "tool"])
      /\ Quiet

\* The tool must exist, and to be executed be enabled.
CheckTool(h) ==
  LET asked == request[h].asked
      there == asked.tool \in Ids(tools)
  IN  /\ request[h].pc = "tool"
      /\ IF ~there THEN Go(h, Idle)
         ELSE IF asked.op = "assign" THEN Step(h, "save")
         ELSE IF tools.rows[asked.tool].enabled
         THEN Go(h, [request[h] EXCEPT !.pc = "resolve", !.row = tools.rows[asked.tool]])
         ELSE Go(h, Idle)
      /\ Quiet

\* The assignment is written (found and written in two calls that only
\* another assignment of the same tool could separate) or deleted, and then
\* the agent's list is, if the copy read before says so.
WriteAssignment(h) ==
  LET here  == request[h]
      asked == here.asked
      due   == (asked.op = "assign") # (asked.tool \in here.ids)
  IN  /\ here.pc = "save"
      /\ asked.op \in {"assign", "unassign"}
      /\ assignments' = [assignments EXCEPT ![asked.tool] =
                           IF asked.op = "assign" THEN asked.to ELSE Nothing]
      /\ Go(h, IF due THEN [here EXCEPT !.pc = "ids"] ELSE Idle)
      /\ UNCHANGED <<tools, toolIds, mode, runtime, count>>
      /\ Watch

WriteIds(h) ==
  LET here  == request[h]
      asked == here.asked
  IN  /\ here.pc = "ids"
      /\ toolIds' = IF toolIds = Nothing THEN Nothing
                    ELSE IF asked.op = "assign" THEN here.ids \cup {asked.tool}
                    ELSE here.ids \ {asked.tool}
      /\ Go(h, Idle)
      /\ UNCHANGED <<tools, assignments, mode, runtime, count>>
      /\ Watch

-----------------------------------------------------------------------------
(* resolve_tool_access and execute *)

\* Mutant: a disabled assignment is taken for none.
ResolvedLoosely(row, assignment, listed) ==
  IF assignment # Nothing /\ assignment.enabled
  THEN {IF assignment.confirm = Nothing THEN row.confirm ELSE assignment.confirm}
  ELSE IF listed THEN {row.confirm} ELSE {}

\* Empty if the tool is not the agent's, otherwise whether it must be
\* confirmed: an assignment decides, and without one the agent's list.
Resolved(row, assignment, listed) ==
  IF assignment # Nothing
  THEN IF assignment.enabled
       THEN {IF assignment.confirm = Nothing THEN row.confirm ELSE assignment.confirm}
       ELSE {}
  ELSE IF listed THEN {row.confirm} ELSE {}

\* Denied, invalid arguments, to be confirmed, or on to the provider.
Resolve(h) ==
  LET here   == request[h]
      tool   == here.asked.tool
      access == Resolved(here.row, assignments[tool], tool \in here.ids)
  IN  /\ here.pc = "resolve"
      /\ \/ Go(h, Idle)
         \/ /\ access # {}
            /\ here.asked.approved \/ FALSE \in access
            /\ Go(h, At("run", here.asked))
      /\ Quiet

\* The provider runs, or is not registered; either ends the call.
RunProvider(h) ==
  /\ request[h].pc = "run"
  /\ Go(h, Idle)
  /\ Quiet

-----------------------------------------------------------------------------
(* What happens beside the requests *)

SetMode ==
  /\ count.changes < MaxChanges
  /\ count' = [count EXCEPT !.changes = @ + 1]
  /\ mode' = ~mode
  /\ UNCHANGED <<tools, assignments, toolIds, runtime, request>>
  /\ Watch

\* An edit of the agent may change its list of tools, and it may be deleted.
ChangeAgent(ids) ==
  /\ count.changes < MaxChanges
  /\ toolIds # Nothing /\ toolIds # ids
  /\ count' = [count EXCEPT !.changes = @ + 1]
  /\ toolIds' = ids
  /\ UNCHANGED <<tools, assignments, mode, runtime, request>>
  /\ Watch

-----------------------------------------------------------------------------
\* A process that starts on an empty store, or with one in which both
\* definitions are and a manager that fits; the agent's list may be older
\* than the table of assignments.
Established(m) ==
  /\ tools = Insert(Insert(EmptyTable, Definition("stable")),
                    [Definition("dev") EXCEPT !.enabled = m])
  /\ runtime = [bundle |-> TRUE, mode |-> m,
                 providers |-> IF m THEN Providers ELSE {"stable"}]

Fresh ==
  /\ tools = EmptyTable
  /\ runtime = [bundle |-> FALSE, mode |-> Nothing, providers |-> Nothing]

Init ==
  /\ mode \in BOOLEAN
  /\ Established(mode) \/ Fresh
  /\ toolIds = {1}
  /\ \E first \in {Nothing, [enabled |-> FALSE, confirm |-> Nothing]} :
       assignments = [t \in ToolId |-> IF t = 1 THEN first ELSE Nothing]
  /\ request = [h \in Handlers |-> Idle]
  /\ count = [requests |-> 0, changes |-> 0]
  /\ facts = [h \in Handlers |-> {}]

Next ==
  \/ \E h \in Handlers :
       \/ Receive(h) \/ Ensure(h) \/ ReadFlag(h) \/ WriteFlag(h) \/ Define(h)
       \/ CheckDefinitionName(h) \/ InsertDefinition(h) \/ Publish(h) \/ Stamp(h)
       \/ UseManager(h) \/ ReadTool(h) \/ CheckName(h) \/ WriteTool(h)
       \/ ReadAgent(h) \/ CheckTool(h) \/ WriteAssignment(h) \/ WriteIds(h)
       \/ Resolve(h) \/ RunProvider(h)
  \/ SetMode
  \/ \E ids \in {{}, Nothing} : ChangeAgent(ids)

Spec == Init /\ [][Next]_toolVars

-----------------------------------------------------------------------------
(* Properties *)

\* The type of the tables, the globals and the threads' locals.
TypeOK ==
  /\ IsTable(tools, Tool, MaxTool)
  /\ assignments \in [ToolId -> Assignment \cup {Nothing}]
  /\ toolIds \in (SUBSET ToolId) \cup {Nothing}
  /\ runtime.mode \in BOOLEAN \cup {Nothing}
  /\ runtime.providers \in {Nothing, {"stable"}, Providers}
  /\ runtime.providers # Nothing => runtime.bundle
  /\ \A h \in Handlers : request[h] # Idle =>
       /\ request[h].pc \in Stages
       /\ request[h].asked \in Request \cup {Nothing}
       /\ request[h].todo \subseteq Providers
       /\ request[h].ids \subseteq ToolId

\* Whatever is assigned, revoked, edited or rebuilt beside a call, a provider
\* runs only if at moments of that call the tool was enabled, the agent had
\* it by an enabled assignment or by its list without any, and it was
\* approved or needed no approval.
ExecutedWasAllowed ==
  \A h \in Handlers : request[h].pc = "run" =>
    /\ "on" \in facts[h]
    /\ "row" \in facts[h] \/ {"bare", "listed"} \subseteq facts[h]
    /\ request[h].asked.approved \/ facts[h] \cap {"waived", "unasked"} # {}

=============================================================================
