----------------------------- MODULE FletClient -----------------------------
(***************************************************************************)
(* The desktop client (interfaces/flet): the shell with its route, its     *)
(* notion of who is signed in, the view state all views share, the API     *)
(* client with its cookies, and the file that carries the session over a   *)
(* restart. Handlers of the toolkit run one at a time; each request to     *)
(* Core is a step, so sessions may end between two of them, and a request  *)
(* may fail after Core has acted on it.                                    *)
(*                                                                         *)
(* The cookie jar is that of the requests library: the cookie restored     *)
(* from the file and the one that Core has set are two, of which the file  *)
(* gets the first, and Core goes by the last.                              *)
(***************************************************************************)
EXTENDS Naturals

CONSTANTS
  Nothing,       \* nobody, no view
  Users,         \* who has an account
  MaxToken,      \* bound on sessions
  MaxStarts,     \* bound on starts of the client
  MaxFailures    \* bound on requests that fail

VARIABLES
  owners,        \* Core: whose each session is, Nothing if there never was one
  live,          \* Core: the sessions that have not ended
  jar,           \* the cookies restored and received, 0 for none
  file,          \* the token in the session file
  signed,        \* whom the client takes to be signed in
  page,          \* route, screen, and the view on it
  catalog,       \* whether the modules have been loaded
  shared,        \* the view state: the open form, and the view of edit_item
  task,          \* the request under way, and what a login gives
  count,         \* starts and failures so far
  left           \* history: sessions the client has been made to lose sight of

clientVars == <<owners, live, jar, file, signed, page, catalog, shared, task, count, left>>

Token == 1 .. MaxToken
Views == {"users", "discussions"}
InShell == {"workspace", "view", "unavailable"}

\* What Core goes by, and what _persist_current_cookie writes.
Sent(cookies) == IF cookies.received # 0 THEN cookies.received ELSE cookies.restored
Persisted(cookies) == IF cookies.restored # 0 THEN cookies.restored ELSE cookies.received

Idle == [request |-> "none", user |-> Nothing, right |-> FALSE]
Request(name) == [Idle EXCEPT !.request = name]

\* What is on the screen is not always of the route: a view that could not
\* be loaded in time leaves the one before it there.
Show(screen) ==
  /\ page' = [page EXCEPT !.screen = screen,
                          !.view = IF screen = "view" THEN page.route ELSE Nothing]
  /\ task' = Idle

\* render_route, for the route and the user as they have become.
Render(route, user, loaded) ==
  LET to == IF user = Nothing THEN "/login" ELSE route
  IN  CASE to = "/login" ->
             page' = [page EXCEPT !.route = to] /\ task' = Request("auth views")
        [] to # "/login" /\ ~loaded ->
             page' = [page EXCEPT !.route = to] /\ task' = Request("modules")
        [] to = "/" /\ loaded ->
             page' = [route |-> to, screen |-> "workspace", view |-> Nothing] /\ task' = Idle
        [] OTHER ->
             page' = [page EXCEPT !.route = to] /\ task' = Request("document")

-----------------------------------------------------------------------------
(* _request: a request is answered, refused with 401, or fails              *)

Waiting(name) == task.request = name

Answered(cookies, forget) ==
  /\ jar' = cookies
  /\ file' = IF forget THEN 0 ELSE Persisted(cookies)
  /\ UNCHANGED count

Refused == file' = 0 /\ UNCHANGED <<jar, count>>

Fails ==
  /\ count.failures < MaxFailures
  /\ count' = [count EXCEPT !.failures = @ + 1]
  /\ UNCHANGED <<jar, file>>

\* A failure is shown, but for an answer that does not come in time: that is
\* caught nowhere, and ends the handler with the screen as it was.
FailsTo(screen) ==
  /\ Fails
  /\ \/ Show(screen)
     \/ UNCHANGED page /\ task' = Idle

Here == Sent(jar) \in live

-----------------------------------------------------------------------------
(* main, check_core and start                                               *)

Open ==
  /\ task = Idle
  /\ count.starts < MaxStarts
  /\ count' = [count EXCEPT !.starts = @ + 1]
  /\ jar' = [restored |-> file, received |-> 0]
  /\ signed' = Nothing /\ catalog' = FALSE
  /\ shared' = [form |-> "none", item |-> Nothing]
  /\ page' = [route |-> "/", screen |-> "connecting", view |-> Nothing]
  /\ task' = Request("version")
  /\ left' = left \cup ({Sent(jar)} \ {0, file})
  /\ UNCHANGED <<owners, live, file>>

CheckCore ==
  /\ Waiting("version")
  /\ \/ Answered(jar, FALSE) /\ UNCHANGED page /\ task' = Request("session")
     \/ Fails /\ Show("disconnected")
  /\ UNCHANGED <<owners, live, signed, catalog, shared, left>>

RetryConnection ==
  /\ task = Idle /\ page.screen = "disconnected"
  /\ page' = [page EXCEPT !.screen = "connecting"]
  /\ task' = Request("version")
  /\ UNCHANGED <<owners, live, jar, file, signed, catalog, shared, count, left>>

\* Without a session to ask for there is an error, and no button to go on.
Start ==
  /\ Waiting("session")
  /\ \/ /\ Answered(jar, FALSE)
        /\ signed' = IF Here THEN owners[Sent(jar)] ELSE Nothing
        /\ Render("/", signed', catalog)
     \/ FailsTo("error") /\ UNCHANGED signed
  /\ UNCHANGED <<owners, live, catalog, shared, left>>

-----------------------------------------------------------------------------
(* The rest of render_route                                                 *)

\* _render_login
LoadLogin ==
  /\ Waiting("auth views")
  /\ \/ Answered(jar, FALSE) /\ Show("login")
     \/ FailsTo("error")
  /\ UNCHANGED <<owners, live, signed, catalog, shared, left>>

Expelled ==
  /\ Refused
  /\ signed' = Nothing
  /\ Render("/login", Nothing, catalog)

\* _ensure_module_catalog, of _render_workspace and _render_module_view
LoadModules ==
  /\ Waiting("modules")
  /\ \/ Here /\ Answered(jar, FALSE) /\ catalog' = TRUE
             /\ Render(page.route, signed, TRUE) /\ UNCHANGED signed
     \/ ~Here /\ Expelled /\ UNCHANGED catalog
     \/ FailsTo("unavailable") /\ UNCHANGED <<signed, catalog>>
  /\ UNCHANGED <<owners, live, shared, left>>

\* The document and its sources; a source that cannot be loaded is empty.
LoadView ==
  /\ Waiting("document")
  /\ \/ Here /\ Answered(jar, FALSE) /\ Show("view") /\ UNCHANGED signed
     \/ ~Here /\ Expelled
     \/ FailsTo("unavailable") /\ UNCHANGED signed
  /\ UNCHANGED <<owners, live, catalog, shared, left>>

Unmoved == UNCHANGED <<owners, live, jar, file, signed, count, left>>

Navigate(route) ==
  /\ task = Idle /\ page.screen \in InShell
  /\ Render(route, signed, catalog)
  /\ UNCHANGED <<catalog, shared>> /\ Unmoved

\* The button of an error in a protected route, and the one of the workspace.
Retry ==
  /\ task = Idle /\ signed # Nothing
  /\ \/ page.screen = "error" /\ page.route # "/login" /\ UNCHANGED catalog
     \/ page.screen = "unavailable" /\ page.route = "/" /\ catalog' = FALSE
  /\ Render(page.route, signed, catalog')
  /\ UNCHANGED shared /\ Unmoved

-----------------------------------------------------------------------------
(* _handle_intent                                                           *)

\* Whatever comes with a username and a password is a login: the login view,
\* and the forms of the users view.
SubmitCredentials(user, right) ==
  /\ task = Idle
  /\ \/ page.screen = "login"
     \/ page.view = "users" /\ shared.form # "none"
  /\ task' = [request |-> "login", user |-> user, right |-> right]
  /\ page' = [page EXCEPT !.screen = "status", !.view = Nothing]
  /\ UNCHANGED <<catalog, shared>> /\ Unmoved

\* The buttons, and the submissions, of the keys "create" and "edit" only
\* open forms; what is to be edited stays there for every other view.
OpenForm(form) ==
  /\ task = Idle /\ page.screen = "view"
  /\ \/ form = "create" /\ shared' = [form |-> "create", item |-> Nothing]
     \/ form = "edit" /\ shared' = [form |-> "edit", item |-> page.view]
     \/ form = "edit" /\ page.view # "users" /\ shared.form = "edit" /\ UNCHANGED shared
  /\ Render(page.route, signed, catalog)
  /\ UNCHANGED catalog /\ Unmoved

\* Another action runs its command, if it has one.
RunCommand(connected) ==
  /\ task = Idle /\ page.screen = "view"
  /\ IF connected THEN task' = Request("command") /\ UNCHANGED page ELSE Show("error")
  /\ UNCHANGED <<catalog, shared>> /\ Unmoved

FinishCommand ==
  /\ Waiting("command")
  /\ \/ Here /\ Answered(jar, FALSE) /\ Render(page.route, signed, catalog)
     \/ ~Here /\ Refused /\ Show("error")
     \/ FailsTo("error")
  /\ UNCHANGED <<owners, live, signed, catalog, shared, left>>

-----------------------------------------------------------------------------
(* _handle_login and _handle_logout                                         *)

NextToken == CHOOSE t \in Token : owners[t] = Nothing /\ \A s \in 1 .. t - 1 : owners[s] # Nothing

\* Core opens a session.
Opens(user) ==
  /\ \E t \in Token : owners[t] = Nothing
  /\ owners' = [owners EXCEPT ![NextToken] = user]
  /\ live' = live \cup {NextToken}

\* A new session takes the place of one that Core still keeps; one whose
\* answer is lost is nobody's.
Login ==
  /\ Waiting("login")
  /\ \/ /\ task.right /\ Opens(task.user)
        /\ Answered([jar EXCEPT !.received = NextToken], FALSE)
        /\ left' = left \cup ({jar.restored, jar.received} \ {0})
        /\ task' = Request("confirm") /\ UNCHANGED page
     \/ ~task.right /\ Refused /\ Show("error") /\ UNCHANGED <<owners, live, left>>
     \/ /\ FailsTo("error")
        /\ (task.right /\ Opens(task.user)) \/ UNCHANGED <<owners, live>>
        /\ UNCHANGED left
  /\ UNCHANGED <<signed, catalog, shared>>

\* Mutant: who was signed in stays it.
SignedAsBefore(session) == IF signed # Nothing THEN signed ELSE owners[session]

\* set_authenticated
SignedAs(session) == owners[session]

\* get_session after the login; if it fails, everything is as before, but
\* for the cookie.
ConfirmLogin ==
  /\ Waiting("confirm")
  /\ \/ /\ Answered(jar, FALSE)
        /\ IF Here THEN signed' = SignedAs(Sent(jar)) /\ Render("/", signed', catalog)
           ELSE Show("error") /\ UNCHANGED signed
        /\ UNCHANGED left
     \/ FailsTo("error") /\ left' = left \cup {Sent(jar)} /\ UNCHANGED signed
  /\ UNCHANGED <<owners, live, catalog, shared>>

AskLogout ==
  /\ task = Idle /\ page.screen \in InShell
  /\ task' = Request("logout")
  /\ UNCHANGED <<page, catalog, shared>> /\ Unmoved

\* However Core answers, the client is signed out; it is not if the answer
\* does not come in time.
Logout ==
  /\ Waiting("logout")
  /\ \/ /\ Answered([jar EXCEPT !.received = 0], TRUE)
        /\ live' = live \ {Sent(jar)} /\ UNCHANGED left
        /\ signed' = Nothing /\ Render("/login", Nothing, catalog)
     \/ /\ Fails /\ left' = left \cup ({Sent(jar)} \ {0})
        /\ live' \in {live, live \ {Sent(jar)}}
        /\ \/ signed' = Nothing /\ Render("/login", Nothing, catalog)
           \/ UNCHANGED <<signed, page>> /\ task' = Idle
  /\ UNCHANGED <<owners, catalog, shared>>

\* Sessions end at their time, or with a logout elsewhere.
EndSession(t) ==
  /\ t \in live
  /\ live' = live \ {t}
  /\ UNCHANGED <<owners, jar, file, signed, page, catalog, shared, task, count, left>>

-----------------------------------------------------------------------------
Init ==
  /\ owners = [t \in Token |-> Nothing]
  /\ live = {}
  /\ jar = [restored |-> 0, received |-> 0]
  /\ file = 0
  /\ signed = Nothing
  /\ page = [route |-> "/", screen |-> "connecting", view |-> Nothing]
  /\ catalog = FALSE
  /\ shared = [form |-> "none", item |-> Nothing]
  /\ task = Request("version")
  /\ count = [starts |-> 1, failures |-> 0]
  /\ left = {}

Next ==
  \/ Open \/ CheckCore \/ RetryConnection \/ Start
  \/ LoadLogin \/ LoadModules \/ LoadView
  \/ \E route \in {"/"} \cup Views : Navigate(route)
  \/ Retry
  \/ \E user \in Users, right \in BOOLEAN : SubmitCredentials(user, right)
  \/ \E form \in {"create", "edit"} : OpenForm(form)
  \/ \E connected \in BOOLEAN : RunCommand(connected)
  \/ FinishCommand \/ Login \/ ConfirmLogin \/ AskLogout \/ Logout
  \/ \E t \in Token : EndSession(t)

Spec == Init /\ [][Next]_clientVars

-----------------------------------------------------------------------------
(* Properties *)

\* The type of the variables.
TypeOK ==
  /\ owners \in [Token -> Users \cup {Nothing}] /\ live \subseteq Token
  /\ jar \in [restored : 0 .. MaxToken, received : 0 .. MaxToken]
  /\ file \in 0 .. MaxToken /\ left \subseteq Token
  /\ signed \in Users \cup {Nothing}
  /\ page.route \in {"/", "/login"} \cup Views
  /\ page.view \in Views \cup {Nothing}
  /\ shared.item \in Views \cup {Nothing}

\* The name in the corner is that of the session Core acts under, as long as
\* it lives; only a login that could not be confirmed parts the two.
NameIsOfSession ==
  signed # Nothing /\ Sent(jar) \in live /\ task.request # "confirm"
    => signed = owners[Sent(jar)] \/ Sent(jar) \in left

\* Module views are on the screen of a signed-in user only, or where the
\* login view that takes their place has not come in time; and a user who is
\* signed in is never left with an error and no button.
ScreensAreReachable ==
  task = Idle =>
    /\ page.screen \in InShell => signed # Nothing \/ page.route = "/login"
    /\ page.screen = "error" /\ signed # Nothing => page.route # "/login"

\* The login view means that no session is open behind it: neither the jar
\* nor the file holds a live one, unless a logout or an answer was lost, or a
\* login took the place of an open session.
LogoutForgets ==
  task = Idle /\ page.screen = "login"
    => {jar.restored, jar.received, file} \cap live \subseteq left

=============================================================================
