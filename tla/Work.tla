-------------------------------- MODULE Work --------------------------------
(***************************************************************************)
(* What agents and users work on, and the clients they do it with: the     *)
(* modules about draft modules, agents' files, knowledge, models, ideas    *)
(* and views, the desktop client and the browser's pages and tabs. They    *)
(* share no state, so each behaviour is one of one of them: the variable   *)
(* part says of which, and the others keep one of their initial values.    *)
(***************************************************************************)
EXTENDS Naturals

CONSTANTS
  Nothing,       \* what an optional value is when there is none
  Handlers,      \* request threads
  Users,         \* who has ideas and signs in
  Tabs,          \* of a browser
  Keys,          \* API keys of endpoints
  MaxRequests,   \* bound on requests about drafts, models and ideas
  MaxCalls,      \* bound on calls of the tools for files
  MaxChanges,    \* bound on changes of the disk
  MaxId,         \* bounds on the ids of models and endpoints, of the tables of
  MaxRow,        \* ideas, of the items on a page and of sessions
  MaxItem,
  MaxToken,
  MaxCrashes,    \* bound on crashes while ideas are converted
  MaxParts,      \* bound on the parts of a view
  MaxStarts,     \* bounds on starts of the desktop client and on requests of
  MaxFailures,   \* it that fail
  MaxClicks,     \* bounds on clicks on a page, on what others do meanwhile,
  MaxOthers,     \* and on clicks on all tabs
  MaxTabClicks

ASSUME BoundsAssumption ==
  /\ {MaxId, MaxItem, MaxParts} \subseteq Nat \ {0}
  /\ {MaxRequests, MaxCalls, MaxChanges, MaxRow, MaxToken, MaxCrashes, MaxStarts,
      MaxFailures, MaxClicks, MaxOthers, MaxTabClicks} \subseteq Nat

\* Nothing is no value: no key, no thread, no user, no token, no content.
ASSUME NothingAssumption ==
  /\ Nothing \notin Keys \cup Handlers \cup Users \cup 1 .. MaxToken
  /\ Nothing \notin {"", "good", "wrong", "bad"}

VARIABLES
  part,
  exists, draftFiles, importer, draftRequest, draftAsked, seen,
  root, kind, agentFiles, call, fileCount, wanted,
  given, knowledgeTarget, answer,
  models, preferences, endpoints, settings, disk, work, catalogCount, stale, excused,
  ideaItems, job, ideaCount, ideaOwner, discarded,
  view, legacy, served, verdict,
  owners, live, jar, sessionFile, signed, clientPage, catalog, shared, task, clientCount, left,
  pageItems, selected, shown, pageTarget, open, run, pageCount,
  sessionOwners, liveSessions, cookie, tab, clicks

Draft == INSTANCE ModuleWorkspace
           WITH files <- draftFiles, request <- draftRequest, asked <- draftAsked

File == INSTANCE AgentFiles WITH files <- agentFiles, count <- fileCount

Lookup == INSTANCE Knowledge WITH target <- knowledgeTarget

Catalog == INSTANCE ModelCatalog WITH count <- catalogCount

Idea == INSTANCE IdeaPipeline
          WITH items <- ideaItems, count <- ideaCount, owner <- ideaOwner

View == INSTANCE ViewContract

Client == INSTANCE FletClient
            WITH file <- sessionFile, page <- clientPage, count <- clientCount

Browser == INSTANCE StreamlitPage
             WITH items <- pageItems, target <- pageTarget, count <- pageCount

SignIn == INSTANCE StreamlitSession
            WITH owners <- sessionOwners, live <- liveSessions, MaxClicks <- MaxTabClicks

draftState == <<exists, draftFiles, importer, draftRequest, draftAsked, seen>>
fileState == <<root, kind, agentFiles, call, fileCount, wanted>>
lookupState == <<given, knowledgeTarget, answer>>
catalogState == <<models, preferences, endpoints, settings, disk, work, catalogCount,
                  stale, excused>>
ideaState == <<ideaItems, job, ideaCount, ideaOwner, discarded>>
viewState == <<view, legacy, served, verdict>>
clientState == <<owners, live, jar, sessionFile, signed, clientPage, catalog, shared,
                 task, clientCount, left>>
browserState == <<pageItems, selected, shown, pageTarget, open, run, pageCount>>
sessionState == <<sessionOwners, liveSessions, cookie, tab, clicks>>

vars == <<part, draftState, fileState, lookupState, catalogState, ideaState,
          viewState, clientState, browserState, sessionState>>

Init ==
  /\ part \in {"drafts", "files", "knowledge", "models", "ideas", "views",
               "client", "browser", "session"}
  /\ Draft!Init
  /\ part # "drafts" => ~exists
  /\ File!Init
  /\ part # "files" => root = ""
  /\ Lookup!Init
  /\ Catalog!Init
  /\ part # "models" => endpoints.legacy = {} /\ ~settings.dirs /\ disk = Catalog!Files
  /\ Idea!Init
  /\ View!Init
  /\ Client!Init
  /\ Browser!Init
  /\ part # "browser" => selected = "portable"
  /\ SignIn!Init

Next ==
  \/ /\ part = "drafts" /\ Draft!Next
     /\ UNCHANGED <<part, fileState, lookupState, catalogState, ideaState,
                    viewState, clientState, browserState, sessionState>>
  \/ /\ part = "files" /\ File!Next
     /\ UNCHANGED <<part, draftState, lookupState, catalogState, ideaState,
                    viewState, clientState, browserState, sessionState>>
  \/ /\ part = "knowledge" /\ Lookup!Next
     /\ UNCHANGED <<part, draftState, fileState, catalogState, ideaState,
                    viewState, clientState, browserState, sessionState>>
  \/ /\ part = "models" /\ Catalog!Next
     /\ UNCHANGED <<part, draftState, fileState, lookupState, ideaState,
                    viewState, clientState, browserState, sessionState>>
  \/ /\ part = "ideas" /\ Idea!Next
     /\ UNCHANGED <<part, draftState, fileState, lookupState, catalogState,
                    viewState, clientState, browserState, sessionState>>
  \/ /\ part = "views" /\ View!Next
     /\ UNCHANGED <<part, draftState, fileState, lookupState, catalogState,
                    ideaState, clientState, browserState, sessionState>>
  \/ /\ part = "client" /\ Client!Next
     /\ UNCHANGED <<part, draftState, fileState, lookupState, catalogState,
                    ideaState, viewState, browserState, sessionState>>
  \/ /\ part = "browser" /\ Browser!Next
     /\ UNCHANGED <<part, draftState, fileState, lookupState, catalogState,
                    ideaState, viewState, clientState, sessionState>>
  \/ /\ part = "session" /\ SignIn!Next
     /\ UNCHANGED <<part, draftState, fileState, lookupState, catalogState,
                    ideaState, viewState, clientState, browserState>>

Spec == Init /\ [][Next]_vars

-----------------------------------------------------------------------------
\* The type invariant of the module the behaviour is of.
TypeOK ==
  /\ part = "drafts" => Draft!TypeOK
  /\ part = "files" => File!TypeOK
  /\ part = "knowledge" => Lookup!TypeOK
  /\ part = "models" => Catalog!TypeOK
  /\ part = "ideas" => Idea!TypeOK
  /\ part = "views" => View!TypeOK
  /\ part = "client" => Client!TypeOK
  /\ part = "browser" => Browser!TypeOK
  /\ part = "session" => SignIn!TypeOK

\* agent_tools/workspace_modules.py and workspace_files.py: what an agent's
\* tools call valid was whole, and they work where its workspace was during
\* the call.
WorkspaceKept == Draft!PassedWasWhole /\ File!WorksWhereConfigured

\* ipe/services.py: conversions, however they overlap or stop half way, lose
\* no idea and give none to another user.
IdeasKept == Idea!IdeasKept

\* ai_model_manager/services.py: a file is recorded twice only after a client
\* asked for it, or after a scan during which others changed the list.
DoublesAreExcused == Catalog!DoublesAreExcused

\* No request changes what it does not ask for. ai_model_manager: an edit
\* with a blank key keeps a key the endpoint had at some moment of the edit;
\* workspace_files.py: only a write makes a directory of the agent's.
NothingUnasked == [][Catalog!KeyIsKept /\ File!MakesOnlyToWrite]_vars

\* core/view_contract: a legacy view is refused only for a fault of its own,
\* none that its translation adds; agent_config/tooling.py: what a path is
\* normalized to stays inside.
ConversionsHold ==
  /\ part = "views" => View!LegacyServes
  /\ Lookup!PathsStayInside

\* core/view_contract: validation and headless rendering agree on declared
\* documents but for what they are known to look at apart, and the ids that the
\* normalization makes of shorthand are unique;
\* interfaces/flet: the name on the screen is of the session Core acts under,
\* every screen has a way on, and the login view leaves no session open;
\* interfaces/streamlit: commands are sent, and questions stay, for listed
\* items only, and a tab acts as the user it names.
ScreensHold ==
  /\ part = "views" => View!ContractsAgree /\ View!ShorthandServes
  /\ Client!NameIsOfSession /\ Client!ScreensAreReachable /\ Client!LogoutForgets
  /\ Browser!CommandsAreOfListed /\ Browser!QuestionsAreOfShown
  /\ SignIn!TabsActAsNamed

=============================================================================
