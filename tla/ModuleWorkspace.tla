--------------------------- MODULE ModuleWorkspace ---------------------------
(***************************************************************************)
(* Draft modules: core/modules (planning, scaffold, workspace_editor,      *)
(* manifest, inspection, validation) and the tools over them in            *)
(* agent_tools/workspace_modules.py. Agents, the API and the command line  *)
(* work on the same directory, here of one module, without any lock: each  *)
(* look at the file system and each change of it is a step.                *)
(***************************************************************************)
EXTENDS Sequences, FiniteSets, Naturals

CONSTANTS
  Nothing,       \* what a path is that does not exist
  Handlers,      \* threads and processes that work on the module
  MaxRequests    \* bound on requests

VARIABLES
  exists,        \* whether the module's directory does
  files,         \* its files
  importer,      \* builtins.__import__: Python's own, or the guard of a validation
  request,       \* the locals of each thread
  asked,         \* requests so far
  seen           \* history: the files that were there during a validation

draftVars == <<exists, files, importer, request, asked, seen>>

\* The required files are told apart as far as their checks differ; a
\* scaffold also has a test, and an author may add files.
Required == {"init", "manifest", "module"}

Python == {"init", "module"}

Files == Required \cup {"test", "notes"}

\* A file is good, wrong in what it says (another id, a field of another
\* type, no register, an import that raises), or cannot be parsed.
Contents == {"good", "wrong", "bad"}

Scaffold == <<"init", "manifest", "module", "test">>

Idle == [pc |-> "idle"]

Go(h, local) == request' = [request EXCEPT ![h] = local]

Step(h, pc) == Go(h, [request[h] EXCEPT !.pc = pc])

\* A thread's locals: what is left to look at, whether it may overwrite, and
\* what a validation has found.
At(pc, todo, force) ==
  [pc |-> pc, todo |-> todo, force |-> force, previous |-> Nothing,
   missing |-> FALSE, errors |-> FALSE, manifest |-> FALSE, sound |-> FALSE]

There(file) == files[file] # Nothing

\* What was there while a validation runs.
Watch ==
  seen' = [h \in Handlers |->
             IF request'[h].pc \in
                  {"require", "parse", "compile", "read", "import", "leave", "done", "passed"}
             THEN (IF request[h].pc = "idle" THEN {} ELSE seen[h])
                  \cup {f \in Files : There(f) \/ files'[f] # Nothing}
             ELSE {}]

Quiet == UNCHANGED <<exists, files, importer, asked>> /\ Watch

Start(h, local) ==
  /\ request[h] = Idle
  /\ asked < MaxRequests
  /\ asked' = asked + 1
  /\ Go(h, local)
  /\ UNCHANGED <<exists, files, importer>>
  /\ Watch

-----------------------------------------------------------------------------
(* plan_module_scaffold and create_module_scaffold *)

\* A plan suggests to validate what is there and to create what is not.
Plan(h) ==
  Start(h, IF exists THEN At("agreed", <<"init", "manifest", "module">>, FALSE)
           ELSE At("planned", Scaffold, FALSE))

\* The plan is followed, however old it is.
FollowPlan(h) ==
  /\ request[h].pc \in {"planned", "agreed"}
  /\ Step(h, IF request[h].pc = "planned" THEN "target" ELSE "require")
  /\ Quiet

Create(h, force) == Start(h, At("target", Scaffold, force))

\* A directory that is there is left alone, unless forced.
CheckTarget(h) ==
  /\ request[h].pc = "target"
  /\ IF exists /\ ~request[h].force THEN Go(h, Idle) ELSE Step(h, "mkdir")
  /\ Quiet

MakeDirectory(h) ==
  /\ request[h].pc = "mkdir"
  /\ exists' = TRUE
  /\ Step(h, "look")
  /\ UNCHANGED <<files, importer, asked>>
  /\ Watch

\* A file of somebody else stops the scaffold half way: nothing is undone.
LookAtFile(h) ==
  LET todo == request[h].todo
  IN  /\ request[h].pc = "look"
      /\ IF todo = <<>> \/ (There(Head(todo)) /\ ~request[h].force)
         THEN Go(h, Idle) ELSE Step(h, "put")
      /\ Quiet

PutFile(h) ==
  LET todo == request[h].todo
  IN  /\ request[h].pc = "put"
      /\ files' = [files EXCEPT ![Head(todo)] = "good"]
      /\ Go(h, [request[h] EXCEPT !.pc = "look", !.todo = Tail(todo)])
      /\ UNCHANGED <<exists, importer, asked>>
      /\ Watch

-----------------------------------------------------------------------------
(* ModuleWorkspaceEditor: a path inside the module, whose directory exists *)

Edit(file, content) ==
  /\ exists
  /\ asked < MaxRequests
  /\ files[file] # content
  /\ asked' = asked + 1
  /\ files' = [files EXCEPT ![file] = content]
  /\ UNCHANGED <<exists, importer, request>>
  /\ Watch

WriteFile(file) == \E content \in Contents : Edit(file, content)

DeleteFile(file) == There(file) /\ Edit(file, Nothing)

\* An inspection lists the directories that have a manifest; one that cannot
\* be parsed makes the whole listing fail.
Inspected(h) == exists /\ There("manifest") /\ files["manifest"] # "bad"

Inspect(h) == Inspected(h) /\ Start(h, At("inspected", <<>>, FALSE))

EndInspection(h) ==
  /\ request[h].pc = "inspected"
  /\ Go(h, Idle)
  /\ Quiet

-----------------------------------------------------------------------------
(* validate_module *)

Validate(h) == Start(h, At("require", <<"init", "manifest", "module">>, FALSE))

RequireFile(h) ==
  LET here == request[h]
  IN  /\ here.pc = "require"
      /\ IF here.todo = <<>> THEN Step(h, "parse")
         ELSE Go(h, [here EXCEPT !.todo = Tail(@),
                                 !.missing = @ \/ ~There(Head(here.todo))])
      /\ Quiet

\* The manifest, if it is there, is parsed and what it says is checked.
ParseManifest(h) ==
  LET here    == request[h]
      content == files["manifest"]
  IN  /\ here.pc = "parse"
      /\ Go(h, [here EXCEPT !.pc = "compile", !.todo = <<"init", "module">>,
                  !.manifest = content \in {"good", "wrong"},
                  !.errors   = content \in {"wrong", "bad"}])
      /\ Quiet

\* A Python file that is gone by now is a failed check, but no error.
CompileFile(h) ==
  LET here == request[h]
  IN  /\ here.pc = "compile"
      /\ IF here.todo = <<>>
         THEN Step(h, IF here.sound /\ There("module") THEN "import" ELSE "done")
         ELSE IF There(Head(here.todo)) THEN Step(h, "read")
         ELSE Go(h, [here EXCEPT !.todo = Tail(@), !.sound = FALSE])
      /\ Quiet

\* One that goes between that look and the read ends the validation: only
\* what the compiler says of the text is caught.
ReadPython(h) ==
  LET here == request[h]
      text == files[Head(here.todo)]
  IN  /\ here.pc = "read"
      /\ IF text = Nothing THEN Go(h, Idle)
         ELSE Go(h, [here EXCEPT !.pc = "compile", !.todo = Tail(@),
                       !.errors = @ \/ text = "bad",
                       !.sound  = Head(here.todo) = "module" /\ text # "bad"])
      /\ Quiet

\* The module runs with an __import__ that refuses streamlit, and afterwards
\* the one that was found is put back: not Python's own if another validation
\* runs at the same time and is not the last to leave.
EnterImport(h) ==
  /\ request[h].pc = "import"
  /\ importer' = h
  /\ Go(h, [request[h] EXCEPT !.pc = "leave", !.previous = importer,
              !.errors = @ \/ files["module"] # "good"])
  /\ UNCHANGED <<exists, files, asked>>
  /\ Watch

LeaveImport(h) ==
  /\ request[h].pc = "leave"
  /\ importer' = request[h].previous
  /\ Go(h, [request[h] EXCEPT !.pc = "done", !.previous = Nothing])
  /\ UNCHANGED <<exists, files, asked>>
  /\ Watch

Passed(local) == ~local.errors /\ ~local.missing /\ local.manifest

Conclude(h) ==
  /\ request[h].pc = "done"
  /\ IF Passed(request[h]) THEN Step(h, "passed") ELSE Go(h, Idle)
  /\ UNCHANGED <<exists, files, importer, asked, seen>>

Answer(h) ==
  /\ request[h].pc = "passed"
  /\ Go(h, Idle)
  /\ Quiet

-----------------------------------------------------------------------------
\* Nothing yet, or a draft whose test its author removed and a file of
\* which is wrong.
Init ==
  /\ \/ exists = FALSE /\ files = [f \in Files |-> Nothing]
     \/ /\ exists = TRUE
        /\ \E bad \in Required, content \in Contents \cup {Nothing} :
             files = [f \in Files |-> CASE f = bad          -> content
                                        [] f \in Required \ {bad} -> "good"
                                        [] OTHER             -> Nothing]
  /\ importer = "python"
  /\ request = [h \in Handlers |-> Idle]
  /\ asked = 0
  /\ seen = [h \in Handlers |-> {}]

Next ==
  \/ \E h \in Handlers :
       \/ Plan(h) \/ FollowPlan(h) \/ (\E force \in BOOLEAN : Create(h, force))
       \/ CheckTarget(h) \/ MakeDirectory(h) \/ LookAtFile(h) \/ PutFile(h)
       \/ Inspect(h) \/ EndInspection(h)
       \/ Validate(h) \/ RequireFile(h) \/ ParseManifest(h) \/ CompileFile(h) \/ ReadPython(h)
       \/ EnterImport(h) \/ LeaveImport(h) \/ Conclude(h) \/ Answer(h)
  \/ \E file \in Files : WriteFile(file) \/ DeleteFile(file)

Spec == Init /\ [][Next]_draftVars

-----------------------------------------------------------------------------
(* Properties *)

\* The type of the directory and the locals; files only in a directory.
TypeOK ==
  /\ exists \in BOOLEAN
  /\ files \in [Files -> Contents \cup {Nothing}]
  /\ importer \in Handlers \cup {"python"}
  /\ (\E f \in Files : There(f)) => exists
  /\ \A h \in Handlers : request[h] # Idle =>
       /\ request[h].previous \in Handlers \cup {"python", Nothing}
       /\ request[h].missing \in BOOLEAN /\ request[h].errors \in BOOLEAN

\* A validation that passes while others write, delete and scaffold has at
\* least seen every required file: no half made module is called valid that
\* was never whole in its parts.
PassedWasWhole ==
  \A h \in Handlers : request[h].pc = "passed" => Required \subseteq seen[h]

=============================================================================
