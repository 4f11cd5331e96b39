--------------------------- MODULE AgentDirectory ---------------------------
(***************************************************************************)
(* Agents and their prompts: modules/agents/manager.py, its repositories,  *)
(* the routes agent_routes.py and public_agent_routes.py, and the commands *)
(* of modules/agents/module_views.py.                                      *)
(*                                                                         *)
(* Each call of the store is a step. An update reads the agent to decide   *)
(* whether it is allowed and what it may publish, reads it again to merge  *)
(* the changes, and writes the whole row. The public listing takes a copy  *)
(* of the agents and then compiles each prompt from a new read.            *)
(***************************************************************************)
EXTENDS SqliteStore, Permissions

CONSTANTS
  Nothing,       \* an owner or a group there is not
  Keep,          \* a field of an update that is not given
  Handlers,      \* request threads
  People,        \* user ids
  GroupsOf,      \* the enabled groups of each user
  Names,         \* agent names
  MaxAgent,      \* bound on agent ids
  MaxPrompt,     \* bound on prompt ids
  MaxRequests    \* bound on requests

VARIABLES
  agents,        \* the table of agents
  prompts,       \* the table of prompts: a row is the number of its edits
  request,       \* the locals of each request thread
  asked,         \* how many requests there have been
  named,         \* history: prompts that a client gave the id of
  seen           \* history: agents that were published while a request ran

agentVars == <<agents, prompts, request, asked, named, seen>>

Groups == UNION {GroupsOf[u] : u \in People}

AgentId  == 1 .. MaxAgent
PromptId == 1 .. MaxPrompt

\* The fields that matter to access and publication; "private" stands for
\* the memory, RAG roots, tools, knowledge root, system prompt and metadata.
\* A prompt of 0 is none.
Agent ==
  [owner : People \cup {Nothing}, group : Groups \cup {Nothing}, mode : Modes,
   name : Names, prompt : 0 .. MaxPrompt, private : BOOLEAN, public : BOOLEAN]

NoChange == [owner |-> Keep, group |-> Keep, mode |-> Keep, name |-> Keep,
             prompt |-> Keep, private |-> Keep, public |-> Keep]

\* Updates a client asks for: another owner, group, name or prompt, or what
\* concerns publication. The route takes None for not given; the view sets
\* an emptied owner or group to None, and does not publish.
RouteChanges ==
  {[NoChange EXCEPT !.owner = u] : u \in People}
  \cup {[NoChange EXCEPT !.group = g] : g \in Groups}
  \cup {[NoChange EXCEPT !.name = n] : n \in Names}
  \cup {[NoChange EXCEPT !.prompt = p] : p \in PromptId}
  \cup {[NoChange EXCEPT !.private = p, !.public = q] :
          p \in BOOLEAN \cup {Keep}, q \in BOOLEAN \cup {Keep}}

ViewChanges ==
  {c \in RouteChanges : c.public = Keep}
  \cup {[NoChange EXCEPT !.owner = Nothing], [NoChange EXCEPT !.group = Nothing]}

\* A creation may give the id of a prompt, of any agent or of none yet.
Request ==
  [op : {"create"}, me : People, name : Names, private : BOOLEAN, prompt : 0 .. MaxPrompt]
  \cup [op : {"update"}, me : People, agent : AgentId, changes : RouteChanges]
  \cup [op : {"viewEdit"}, me : People, agent : AgentId,
        changes : ViewChanges, text : BOOLEAN]
  \cup [op : {"clone"}, me : People, agent : AgentId, name : Names]
  \cup [op : {"delete", "viewDelete"}, me : People, agent : AgentId]
  \cup [op : {"equip"}, agent : AgentId]
  \cup [op : {"list"}]
  \cup [op : {"show"}, agent : AgentId]

Idle == [pc |-> "idle"]

Go(h, local) == request' = [request EXCEPT ![h] = local]

\* A thread's locals: its request, the row it will write, the changes it
\* merges, the id it works on, and the agents it has yet to serve.
At(pc, r, row, changes, id, todo) ==
  [pc |-> pc, asked |-> r, row |-> row, changes |-> changes, id |-> id, todo |-> todo]

AgentNamed(name) == LET Is(row) == row.name = name IN First(agents, Is)

Chosen(new, old) == IF new = Keep THEN old ELSE new

\* update_agent's replace(): what is not given is kept.
Merged(row, changes) ==
  [row EXCEPT !.owner   = Chosen(changes.owner, @),
              !.group   = Chosen(changes.group, @),
              !.mode    = Chosen(changes.mode, @),
              !.name    = Chosen(changes.name, @),
              !.prompt  = Chosen(changes.prompt, @),
              !.private = Chosen(changes.private, @),
              !.public  = Chosen(changes.public, @)]

\* _is_publication_eligible, on a row with the changes laid over it.
Eligible(row, changes) == ~Chosen(changes.private, row.private)

\* Mutant: the listing shows whatever has the flag.
Flagged(row) == row.public

\* _is_published_eligible
Published(row) == row.public /\ Eligible(row, NoChange)

\* Every step: who is published now is noted for the requests that run.
Watch(new) ==
  seen' = [h \in Handlers |->
             IF request'[h].pc = "idle" THEN {}
             ELSE (IF request[h].pc = "idle" THEN {} ELSE seen[h])
                  \cup {a \in Ids(new) : new.rows[a].public /\ ~new.rows[a].private}
                  \cup {a \in Ids(agents) :
                          agents.rows[a].public /\ ~agents.rows[a].private}]

Quiet == UNCHANGED <<agents, prompts, asked, named>> /\ Watch(agents)

-----------------------------------------------------------------------------
(* Access *)

\* _is_owned_by_session
OwnedBySession(row, me) == OwnedBy(row, me) \/ InGroup(row, GroupsOf[me])

\* _can_update_agent: an agent without owner and group may be claimed.
MayUpdate(row, me, changes) ==
  \/ CanWrite(row, me, GroupsOf[me])
  \/ OwnedBySession(row, me)
  \/ /\ row.owner = Nothing /\ row.group = Nothing
     /\ changes.owner \in {me, Keep}
     /\ changes.group \in GroupsOf[me] \cup {Keep}

\* _require_write_access of the view
MayEdit(row, me) == CanWrite(row, me, GroupsOf[me]) \/ OwnedBySession(row, me)

\* What the route makes of the changes: an agent without mode that is the
\* user's own gets one, and a public one that is no longer eligible is
\* withdrawn.
Decided(row, me, changes) ==
  LET mode == IF /\ row.mode = NoMode
                 /\ OwnedBySession(Merged(row, changes), me)
              THEN PrivateMode ELSE Keep
      public == IF row.public /\ changes.public # FALSE /\ ~Eligible(row, changes)
                THEN FALSE ELSE changes.public
  IN  [changes EXCEPT !.mode = mode, !.public = public]

-----------------------------------------------------------------------------
(* Requests begin *)

\* A creation goes on with the name, an update or a view command with the
\* read that decides on it, the public listing with the rows it copies.
Receive(h) ==
  /\ request[h] = Idle
  /\ asked < MaxRequests
  /\ \E r \in Request :
      /\ asked' = asked + 1
      /\ Go(h, At(CASE r.op = "create" -> "free"
                    [] r.op = "equip"  -> "merge"
                    [] r.op = "delete" -> "delete"
                    [] r.op = "list"   -> "list"
                    [] OTHER           -> "read",
                  r, Nothing,
                  IF r.op = "equip" THEN [NoChange EXCEPT !.private = TRUE] ELSE NoChange,
                  IF r.op \in {"create", "list"} THEN 0 ELSE r.agent, {}))
      /\ named' = named \cup (CASE r.op \in {"update", "viewEdit"} -> {r.changes.prompt} \ {Keep}
                                [] r.op = "create"               -> {r.prompt} \ {0}
                                [] OTHER                         -> {})
      /\ UNCHANGED <<agents, prompts>>
      /\ Watch(agents)

\* The first read of an agent: what it is not allowed to do ends the request.
ReadAgent(h) ==
  LET here == request[h]
      r    == here.asked
      row  == agents.rows[here.id]
  IN  /\ here.pc = "read"
      /\ \/ /\ here.id \notin Ids(agents)
            /\ Go(h, Idle)
         \/ /\ here.id \in Ids(agents) /\ r.op = "update"
            /\ IF MayUpdate(row, r.me, r.changes)
                  /\ ~(r.changes.public = TRUE /\ ~Eligible(row, r.changes))
               THEN Go(h, [here EXCEPT !.pc = "merge",
                                       !.changes = Decided(row, r.me, r.changes)])
               ELSE Go(h, Idle)
         \/ /\ here.id \in Ids(agents) /\ r.op = "show"
            /\ IF Published(row)
               THEN Go(h, [here EXCEPT !.pc = "serve", !.todo = {here.id}])
               ELSE Go(h, Idle)
         \/ /\ here.id \in Ids(agents) /\ r.op \in {"viewEdit", "viewDelete", "clone"}
            /\ IF MayEdit(row, r.me)
               THEN Go(h, [here EXCEPT
                      !.pc = CASE r.op = "viewEdit"   -> IF r.text THEN "text" ELSE "merge"
                               [] r.op = "viewDelete" -> "delete"
                               [] r.op = "clone"      -> "clone",
                      !.changes = IF r.op = "viewEdit" THEN r.changes ELSE NoChange,
                      !.row = row])
               ELSE Go(h, Idle)
      /\ Quiet

-----------------------------------------------------------------------------
(* create_agent and clone_agent *)

CheckFree(h) ==
  /\ request[h].pc = "free"
  /\ IF AgentNamed(request[h].asked.name) = 0
     THEN Go(h, [request[h] EXCEPT !.pc = "prompt"])
     ELSE Go(h, Idle)
  /\ Quiet

\* clone_agent reads the source again; one without owner is refused.
ReadSource(h) ==
  LET source == request[h].id
  IN  /\ request[h].pc = "clone"
      /\ IF source \in Ids(agents) /\ agents.rows[source].owner # Nothing
         THEN Go(h, [request[h] EXCEPT !.pc = "free", !.row = agents.rows[source]])
         ELSE Go(h, Idle)
      /\ Quiet

\* The row a creation or a clone starts from.
Blank(r, prompt) ==
  [owner |-> r.me, group |-> Nothing, mode |-> PrivateMode, name |-> r.name,
   prompt |-> prompt, private |-> r.private, public |-> FALSE]

Cloned(row, r, prompt) ==
  [row EXCEPT !.owner = r.me, !.mode["owner"] = @ \cup {"w"}, !.name = r.name,
              !.prompt = prompt, !.public = FALSE]

NewRow(here, prompt) ==
  IF here.asked.op = "create" THEN Blank(here.asked, prompt)
  ELSE Cloned(here.row, here.asked, prompt)

\* The prompt that is used as it is: the one a creation was given, or none
\* for a clone of an agent that has none.
GivenPrompt(here) == IF here.asked.op = "create" THEN here.asked.prompt ELSE here.row.prompt

\* Mutant: a clone goes on using the prompt of its source.
CopiesNothing(here) == here.asked.op = "clone" \/ GivenPrompt(here) # 0

NoPromptOfItsOwn(here) ==
  IF here.asked.op = "create" THEN here.asked.prompt # 0 ELSE here.row.prompt = 0

InsertPrompt(h) ==
  LET here == request[h]
      new  == Insert(prompts, 0)
  IN  /\ here.pc = "prompt"
      /\ IF NoPromptOfItsOwn(here)
         THEN /\ Go(h, [here EXCEPT !.pc = "insert", !.row = NewRow(here, GivenPrompt(here))])
              /\ UNCHANGED prompts
         ELSE /\ prompts.last < MaxPrompt
              /\ prompts' = new
              /\ Go(h, [here EXCEPT !.pc = "insert", !.row = NewRow(here, new.last)])
      /\ UNCHANGED <<agents, asked, named>>
      /\ Watch(agents)

InsertAgent(h) ==
  LET new == Insert(agents, request[h].row)
  IN  /\ request[h].pc = "insert"
      /\ agents.last < MaxAgent
      /\ agents' = new
      /\ Go(h, [request[h] EXCEPT !.pc = "write",
                                  !.id = CHOOSE a \in Ids(new) : a \notin Ids(agents)])
      /\ UNCHANGED <<prompts, asked, named>>
      /\ Watch(new)

-----------------------------------------------------------------------------
(* update_agent, the edit of the view and delete_agent *)

\* The view edits the prompt first, or makes one for an agent that has none.
WriteText(h) ==
  LET here == request[h]
      p    == here.row.prompt
  IN  /\ here.pc = "text"
      /\ IF p = 0
         THEN /\ prompts.last < MaxPrompt
              /\ prompts' = Insert(prompts, 0)
              /\ Go(h, [here EXCEPT !.pc = "merge", !.changes.prompt = prompts'.last])
         ELSE /\ p \in Ids(prompts)
              /\ prompts' = Update(prompts, p, 1)
              /\ Go(h, [here EXCEPT !.pc = "merge"])
      /\ UNCHANGED <<agents, asked, named>>
      /\ Watch(agents)

\* Edits of the prompt of an agent whose prompt is gone are refused.
TextRefused(h) ==
  /\ request[h].pc = "text"
  /\ request[h].row.prompt \notin Ids(prompts) \cup {0}
  /\ Go(h, Idle)
  /\ Quiet

ReadAndMerge(h) ==
  LET here == request[h]
  IN  /\ here.pc = "merge"
      /\ IF here.id \in Ids(agents)
         THEN Go(h, [here EXCEPT !.pc = "write",
                                 !.row = Merged(agents.rows[here.id], here.changes)])
         ELSE Go(h, Idle)
      /\ Quiet

\* The whole row, or an exception if it is gone. Creations come here with
\* the workspace root they made from the id.
WriteAgent(h) ==
  LET new == Update(agents, request[h].id, request[h].row)
  IN  /\ request[h].pc = "write"
      /\ agents' = new
      /\ Go(h, Idle)
      /\ UNCHANGED <<prompts, asked, named>>
      /\ Watch(new)

\* The prompt of a deleted agent is left in its table.
DeleteAgent(h) ==
  LET new == Delete(agents, request[h].id)
  IN  /\ request[h].pc = "delete"
      /\ agents' = new
      /\ Go(h, Idle)
      /\ UNCHANGED <<prompts, asked, named>>
      /\ Watch(new)

-----------------------------------------------------------------------------
(* The public catalogue *)

ListPublic(h) ==
  /\ request[h].pc = "list"
  /\ Go(h, [request[h] EXCEPT !.pc = "serve",
                              !.todo = {a \in Ids(agents) : Published(agents.rows[a])}])
  /\ Quiet

\* _public_agent reads the agent again for its prompt; if it is gone the
\* whole answer fails.
ServeNext(h) ==
  LET todo == request[h].todo
      a    == CHOOSE b \in todo : \A c \in todo : b <= c
  IN  /\ request[h].pc = "serve"
      /\ IF todo # {} /\ a \in Ids(agents)
         THEN Go(h, [request[h] EXCEPT !.todo = todo \ {a}])
         ELSE Go(h, Idle)
      /\ Quiet

-----------------------------------------------------------------------------
\* Rows of an earlier version have neither owner nor mode nor prompt.
OldRow(name) == [owner |-> Nothing, group |-> Nothing, mode |-> NoMode, name |-> name,
                 prompt |-> 0, private |-> FALSE, public |-> FALSE]

\* A fresh store, or one that holds an agent of an earlier version, of a
\* group, or of a user who published it.
Init ==
  /\ \/ agents = EmptyTable /\ prompts = EmptyTable
     \/ /\ \E n \in Names : agents = Insert(EmptyTable, OldRow(n))
        /\ prompts = EmptyTable
     \/ /\ \E n \in Names, g \in Groups :
             agents = Insert(EmptyTable, [OldRow(n) EXCEPT !.group = g, !.mode = PrivateMode])
        /\ prompts = EmptyTable
     \/ /\ \E n \in Names, u \in People :
             agents = Insert(EmptyTable,
                        [OldRow(n) EXCEPT !.owner = u, !.mode = PrivateMode,
                                          !.prompt = 1, !.public = TRUE])
        /\ prompts = Insert(EmptyTable, 0)
  /\ request = [h \in Handlers |-> Idle]
  /\ asked = 0
  /\ named = {}
  /\ seen = [h \in Handlers |-> {}]

Next ==
  \/ \E h \in Handlers :
       \/ Receive(h) \/ ReadAgent(h) \/ CheckFree(h) \/ ReadSource(h) \/ InsertPrompt(h)
       \/ InsertAgent(h) \/ WriteText(h) \/ TextRefused(h) \/ ReadAndMerge(h)
       \/ WriteAgent(h) \/ DeleteAgent(h) \/ ListPublic(h) \/ ServeNext(h)

Spec == Init /\ [][Next]_agentVars

-----------------------------------------------------------------------------
(* Properties *)

Stages == {"read", "free", "clone", "prompt", "insert", "text", "merge", "write",
           "delete", "list", "serve"}

\* The type of the tables and of the threads' locals.
TypeOK ==
  /\ IsTable(agents, Agent, MaxAgent)
  /\ IsTable(prompts, 0 .. 1, MaxPrompt)
  /\ asked \in 0 .. MaxRequests
  /\ named \subseteq PromptId
  /\ \A h \in Handlers : request[h] # Idle =>
       /\ request[h].pc \in Stages
       /\ request[h].row \in Agent \cup {Nothing}
       /\ request[h].id \in 0 .. MaxAgent
       /\ request[h].todo \subseteq AgentId

\* Whatever edits run beside the listing, it serves only agents that were
\* published, flag and eligibility together, at some moment of the request.
ServedWasPublished ==
  \A h \in Handlers : request[h] # Idle => request[h].todo \subseteq seen[h]

\* Two agents use one prompt, so that editing one edits the other, only if a
\* client gave one of them the id of the other's: clones have their own.
PromptsSharedOnRequest ==
  \A a, b \in Ids(agents) :
    a # b /\ agents.rows[a].prompt = agents.rows[b].prompt
      => agents.rows[a].prompt \in named \cup {0}

=============================================================================
