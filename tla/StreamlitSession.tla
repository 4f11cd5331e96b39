--------------------------- MODULE StreamlitSession ---------------------------
(***************************************************************************)
(* Who is signed in on the tabs of a browser (interfaces/streamlit: app.py *)
(* and api_client.py). Core runs in the process of the pages. A tab's      *)
(* state holds the token it sends; the browser's cookie, of which a tab    *)
(* sees what it was when the tab was opened, gives it its first one, and   *)
(* every request writes the tab's token back to it by a script of the page *)
(* that may never run. A run of a tab's script makes one request after     *)
(* another, other tabs run in between, and a click starts the run again.   *)
(***************************************************************************)
EXTENDS Naturals

CONSTANTS
  Nothing,     \* nobody, no token
  Tabs,
  Users,       \* who has an account
  MaxToken,    \* bound on sessions
  MaxClicks    \* bound on clicks and tabs opened

VARIABLES
  owners,      \* Core: whose each session is, Nothing if there never was one
  live,        \* Core: the sessions that have not ended
  cookie,      \* the browser's
  tab,         \* each tab's state and where its script is
  clicks       \* so far

sessionVars == <<owners, live, cookie, tab, clicks>>

Token == 1 .. MaxToken

Closed == [at |-> "closed", click |-> Nothing, seen |-> Nothing, token |-> Nothing,
           user |-> Nothing, reply |-> Nothing]

\* What can be clicked: a login as somebody, a logout, a button of a view.
Clicks == Users \cup {"logout", "act"}

-----------------------------------------------------------------------------
(* _request *)

\* Mutant: a tab sends the cookie as it is now.
CookieOfNow(t) == cookie

\* The token a tab sends.
Carried(t) == IF tab[t].token # Nothing THEN tab[t].token ELSE tab[t].seen

\* The tab keeps the last cookie of the jar it sent the request with: the
\* one Core has set, if it set one, and else the one it sent, after a logout
\* too. A failed request is an error the page shows, or the end of the run.
Request(t, token, step) ==
  /\ tab' = [tab EXCEPT ![t] = [step EXCEPT !.token = token]]
  /\ cookie' \in {cookie, token}
  /\ UNCHANGED clicks

Whose(token) == IF token \in live THEN owners[token] ELSE Nothing

AskSession(t, from, to) ==
  LET token == Carried(t)
  IN  /\ tab[t].at = from
      /\ \/ Request(t, token, [tab[t] EXCEPT !.at = to, !.reply = Whose(token)])
         \/ \E at \in {"views", "stopped"} :
              Request(t, token, [tab[t] EXCEPT !.at = at, !.click = Nothing])
      /\ UNCHANGED <<owners, live>>

Goes(t, step) == tab' = [tab EXCEPT ![t] = step] /\ UNCHANGED <<owners, live, cookie, clicks>>

\* The script starts over.
Again(t, user) == Goes(t, [tab[t] EXCEPT !.at = "start", !.click = Nothing, !.user = user])

-----------------------------------------------------------------------------
(* The script *)

\* require_auth: the session is asked for at the top of every run, and the
\* page or the forms for a login are rendered.
RequireAuth(t) ==
  /\ tab[t].at = "told"
  /\ Goes(t, [tab[t] EXCEPT !.user = tab[t].reply, !.reply = Nothing,
                            !.at = IF tab[t].reply = Nothing THEN "views" ELSE "page"])

\* _handle_auth_intent, for the account that exists or is registered by it;
\* what a login is refused for is shown on the forms.
Login(t) ==
  LET user == tab[t].click
      new  == {token \in Token : owners[token] = Nothing}
  IN  /\ tab[t].at = "views" /\ user \in Users
      /\ \/ \E token \in new :
              /\ \A other \in new : token <= other
              /\ owners' = [owners EXCEPT ![token] = user]
              /\ live' = live \cup {token}
              /\ Request(t, token, [tab[t] EXCEPT !.at = "opened"])
         \/ /\ Request(t, Carried(t), [tab[t] EXCEPT !.click = Nothing])
            /\ UNCHANGED <<owners, live>>

\* The session is asked for once more before the script starts over.
Welcome(t) ==
  /\ tab[t].at = "confirmed"
  /\ Again(t, IF tab[t].reply = Nothing THEN tab[t].user ELSE tab[t].reply)

\* _logout: Core ends the session of the token; or there is an error, and
\* the page goes on.
AskLogout(t) ==
  LET token == Carried(t)
  IN  /\ tab[t].at = "page" /\ tab[t].click = "logout"
      /\ \/ /\ live' = live \ {token}
            /\ Request(t, token, [tab[t] EXCEPT !.at = "left"])
         \/ /\ UNCHANGED live
            /\ Request(t, token, [tab[t] EXCEPT !.click = Nothing])
      /\ UNCHANGED owners

Logout(t) == tab[t].at = "left" /\ Again(t, Nothing)

\* A command of a view: Core goes by the token.
Act(t) ==
  LET token == Carried(t)
  IN  /\ tab[t].at = "page" /\ tab[t].click = "act"
      /\ Request(t, token, [tab[t] EXCEPT !.click = Nothing])
      /\ UNCHANGED <<owners, live>>

-----------------------------------------------------------------------------
\* A tab is opened, or loaded again, and its state is new.
OpenTab(t) ==
  /\ clicks < MaxClicks
  /\ clicks' = clicks + 1
  /\ tab' = [tab EXCEPT ![t] = [Closed EXCEPT !.at = "start", !.seen = cookie]]
  /\ UNCHANGED <<owners, live, cookie>>

\* What was on the screen is clicked, while the script runs or later.
UserClicks(t) ==
  /\ clicks < MaxClicks /\ tab[t].at # "closed"
  /\ clicks' = clicks + 1
  /\ \E click \in Clicks :
       tab' = [tab EXCEPT ![t] = [@ EXCEPT !.at = "start", !.click = click]]
  /\ UNCHANGED <<owners, live, cookie>>

\* A session expires.
EndSession ==
  /\ \E token \in live : live' = live \ {token}
  /\ UNCHANGED <<owners, cookie, tab, clicks>>

Init ==
  /\ owners = [token \in Token |-> Nothing]
  /\ live = {}
  /\ cookie = Nothing
  /\ tab = [t \in Tabs |-> Closed]
  /\ clicks = 0

Next ==
  \/ \E t \in Tabs :
       \/ AskSession(t, "start", "told") \/ RequireAuth(t)
       \/ Login(t) \/ AskSession(t, "opened", "confirmed") \/ Welcome(t)
       \/ AskLogout(t) \/ Logout(t) \/ Act(t)
       \/ OpenTab(t) \/ UserClicks(t)
  \/ EndSession

Spec == Init /\ [][Next]_sessionVars

-----------------------------------------------------------------------------
(* Properties *)

\* The type of the browser's and Core's state.
TypeOK ==
  /\ owners \in [Token -> Users \cup {Nothing}] /\ live \subseteq Token
  /\ cookie \in Token \cup {Nothing}
  /\ \A t \in Tabs :
       /\ {tab[t].seen, tab[t].token} \subseteq Token \cup {Nothing}
       /\ {tab[t].user, tab[t].reply} \subseteq Users \cup {Nothing}
       /\ tab[t].at \in {"closed", "start", "told", "views", "stopped", "opened",
                         "confirmed", "page", "left"}

\* The page names the user under whom Core carries out what it sends,
\* whatever the other tabs of the browser have done to the cookie since, and
\* however a login or a logout was interrupted.
TabsActAsNamed ==
  \A t \in Tabs :
    tab[t].at = "page" =>
      Carried(t) # Nothing /\ owners[Carried(t)] = tab[t].user /\ tab[t].user # Nothing

=============================================================================
