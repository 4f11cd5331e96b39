----------------------------- MODULE AgentFiles -----------------------------
(***************************************************************************)
(* The files an agent works on: where its workspace is                     *)
(* (core/workspaces.py, agent_config/module_views.py) and the tools that   *)
(* list, read, write and delete in it (agent_tools/workspace_files.py). A  *)
(* call reads the agent, then makes sure of the directory, then works on   *)
(* the file, while others reconfigure the agent or delete it.              *)
(***************************************************************************)
EXTENDS Naturals, FiniteSets

CONSTANTS
  Nothing,       \* what is not given
  Handlers,      \* request threads
  MaxCalls,      \* bound on calls
  MaxChanges     \* bound on changes from outside

VARIABLES
  root,          \* the agent's workspace_root, "" when it has none of its own;
                 \* Nothing once the agent is deleted
  kind,          \* what each place is
  files,         \* the files in each place
  call,          \* the locals of each thread
  count,         \* calls and changes so far
  wanted         \* history: where the agent's workspace was during a call

fileVars == <<root, kind, files, call, count, wanted>>

\* The agent's directory under the application's workspace, and two elsewhere.
Places == {"default", "mount", "other"}

Kinds == {"missing", "directory", "file"}

FileNames == {"notes"}

\* _resolve_record_workspace_root
WorkspaceOf(r) == IF r = "" THEN "default" ELSE r

\* _is_within_app_workspace_root
WithinApp(place) == place = "default"

Idle == [pc |-> "idle"]

Operations == {"list", "read", "write", "delete"}

At(pc, op, place) == [pc |-> pc, op |-> op, place |-> place, answer |-> Nothing]

Go(h, local) == call' = [call EXCEPT ![h] = local]

Watch ==
  wanted' = [h \in Handlers |->
               IF call'[h].pc = "idle" THEN {}
               ELSE (IF call[h].pc = "idle" THEN {} ELSE wanted[h])
                    \cup {WorkspaceOf(root), WorkspaceOf(root')}]

Quiet == UNCHANGED <<root, kind, files, count>> /\ Watch

Start(h, local) ==
  /\ call[h] = Idle
  /\ count.calls < MaxCalls
  /\ count' = [count EXCEPT !.calls = @ + 1]
  /\ Go(h, local)
  /\ UNCHANGED <<root, kind, files>>
  /\ Watch

-----------------------------------------------------------------------------
(* WorkspaceFileToolProvider.execute *)

CallTool(h, op) == Start(h, At("agent", op, Nothing))

\* Mutant: an agent's place is what its configuration says, be it nothing.
ReadAsSet(h) ==
  /\ call[h].pc = "agent"
  /\ Go(h, [call[h] EXCEPT !.pc = "root", !.place = root])
  /\ Quiet

\* An agent that is gone by now has no workspace to work in.
ReadAgent(h) ==
  /\ call[h].pc = "agent"
  /\ Go(h, IF root = Nothing THEN Idle
           ELSE [call[h] EXCEPT !.pc = "root", !.place = WorkspaceOf(root)])
  /\ Quiet

\* Mutant: whatever is asked for, the directory is made.
MakesAlways(op, place) == TRUE

\* A write makes the directory; the others only that of the application.
MakesRoot(op, place) == op = "write" \/ WithinApp(place)

PrepareRoot(h) ==
  LET place == call[h].place
      op    == call[h].op
      made  == kind[place] = "missing" /\ MakesRoot(op, place)
  IN  /\ call[h].pc = "root"
      /\ kind' = IF made THEN [kind EXCEPT ![place] = "directory"] ELSE kind
      /\ Go(h, IF made \/ kind[place] = "directory"
               THEN [call[h] EXCEPT !.pc = "file"] ELSE Idle)
      /\ UNCHANGED <<root, files, count>>
      /\ Watch

\* A file where a directory above it should be, or no right to the place:
\* mkdir or the check of access raises.
RootRefused(h) ==
  /\ call[h].pc = "root"
  /\ Go(h, Idle)
  /\ Quiet

\* A path that is absolute or has ".." in it was refused; a write makes the
\* directories it needs, the root again among them, or raises because
\* something else is in their place.
WorkOnFile(h) ==
  LET place == call[h].place
      op    == call[h].op
  IN  /\ call[h].pc = "file"
      /\ \/ /\ op \in {"list", "read", "write"}
            /\ UNCHANGED <<kind, files>>
         \/ /\ op = "write"
            /\ kind[place] # "file"
            /\ kind' = [kind EXCEPT ![place] = "directory"]
            /\ \E f \in FileNames : files' = [files EXCEPT ![place] = @ \cup {f}]
         \/ /\ op = "delete"
            /\ \E f \in FileNames : files' = [files EXCEPT ![place] = @ \ {f}]
            /\ UNCHANGED kind
      /\ Go(h, Idle)
      /\ UNCHANGED <<root, count>>
      /\ Watch

-----------------------------------------------------------------------------
(* The save command of the agent configuration *)

\* _access_warnings, _path_status: only told, never a reason not to save.
Status(place) ==
  CASE kind[place] = "missing"   -> "Missing"
    [] kind[place] = "file"      -> "Not a directory"
    [] kind[place] = "directory" -> "Ready"

\* The agent is looked up first.
Save(h, place) ==
  /\ root # Nothing
  /\ Start(h, [At("save", "save", place) EXCEPT
                 !.answer = IF place = "" THEN "Not set" ELSE Status(place)])

\* What is emptied becomes the default; an update of a row that was deleted
\* meanwhile changes nothing.
WriteConfiguration(h) ==
  /\ call[h].pc = "save"
  /\ root' = IF root = Nothing THEN Nothing ELSE WorkspaceOf(call[h].place)
  /\ Go(h, Idle)
  /\ UNCHANGED <<kind, files, count>>
  /\ Watch

\* AgentManager.delete_agent
DeleteAgent ==
  /\ count.changes < MaxChanges
  /\ root # Nothing
  /\ count' = [count EXCEPT !.changes = @ + 1]
  /\ root' = Nothing
  /\ UNCHANGED <<kind, files, call>>
  /\ Watch

-----------------------------------------------------------------------------
\* Directories come and go, or a file is in their place.
ChangePlace(place, to) ==
  /\ count.changes < MaxChanges
  /\ kind[place] # to
  /\ count' = [count EXCEPT !.changes = @ + 1]
  /\ kind' = [kind EXCEPT ![place] = to]
  /\ files' = [files EXCEPT ![place] = {}]
  /\ UNCHANGED <<root, call>>
  /\ Watch

Init ==
  /\ root \in {"", "mount"}
  /\ kind = [p \in Places |-> IF p = "mount" THEN "directory" ELSE "missing"]
  /\ files = [p \in Places |-> IF p = "mount" THEN FileNames ELSE {}]
  /\ call = [h \in Handlers |-> Idle]
  /\ count = [calls |-> 0, changes |-> 0]
  /\ wanted = [h \in Handlers |-> {}]

Next ==
  \/ \E h \in Handlers :
       \/ (\E op \in Operations : CallTool(h, op))
       \/ (\E place \in {"", "mount", "other"} : Save(h, place))
       \/ ReadAgent(h) \/ PrepareRoot(h) \/ RootRefused(h) \/ WorkOnFile(h)
       \/ WriteConfiguration(h)
  \/ DeleteAgent
  \/ \E place \in Places, to \in Kinds : ChangePlace(place, to)

Spec == Init /\ [][Next]_fileVars

-----------------------------------------------------------------------------
(* Properties *)

\* The type of the places, and files only in directories.
TypeOK ==
  /\ root \in Places \cup {"", Nothing}
  /\ kind \in [Places -> Kinds]
  /\ files \in [Places -> SUBSET FileNames]
  /\ \A p \in Places : files[p] # {} => kind[p] = "directory"

\* While the agent is reconfigured beside it, a tool works where the agent's
\* workspace was at some moment of the call.
WorksWhereConfigured ==
  \A h \in Handlers :
    call[h].pc \in {"root", "file"} => call[h].place \in wanted[h]

\* Only a write, or a call on the application's own workspace, makes a
\* directory that was not there.
MakesOnlyToWrite ==
  \A p \in Places :
    kind[p] = "missing" /\ kind'[p] = "directory" /\ count'.changes = count.changes
      => \E h \in Handlers : /\ call[h] # Idle /\ call[h].place = p
                             /\ call'[h] # call[h]
                             /\ call[h].op = "write" \/ p = "default"

ReadsMakeNothing == [][MakesOnlyToWrite]_fileVars

=============================================================================
