---------------------------- MODULE StreamlitPage ----------------------------
(***************************************************************************)
(* The pages of the browser interface on which items are created, edited,  *)
(* disabled and deleted: pages/module_views.py for views that declare a    *)
(* schema, module_views/portable_page.py for portable documents. Every     *)
(* click runs the page's script from its top: it loads the items, renders  *)
(* them, finds the widget that was clicked among what it renders, and      *)
(* sends a command. The next click may interrupt it anywhere, also between *)
(* a command and what the script would have done about its answer; and     *)
(* other users change the items meanwhile.                                 *)
(***************************************************************************)
EXTENDS Naturals, FiniteSets

CONSTANTS
  Nothing,     \* no target
  MaxItem,     \* bound on the items of a view
  MaxClicks,   \* bound on clicks
  MaxOthers    \* bound on what others do

VARIABLES
  items,       \* Core: the items of each view, and the last id
  selected,    \* the view on the page
  shown,       \* the items of the last complete run
  target,      \* the item a form or a question is open for, by page and kind
  open,        \* whether a view's create form is open, and has a draft
  run,         \* the run of the script: its click, what it loaded and sends
  count        \* clicks and changes by others so far

pageVars == <<items, selected, shown, target, open, run, count>>

Views == {"portable", "hosts", "models"}
Page(view) == IF view = "portable" THEN "portable" ELSE "schema"
Pages == {"portable", "schema"}

\* What is asked about before it is done: an edit by its form.
Kinds(page) == IF page = "portable" THEN {"edit", "delete"} ELSE {"edit", "delete", "disable"}
AllKinds == {"edit", "delete", "disable"}

Id == 1 .. MaxItem

Target(view, id) == [view |-> view, id |-> id]

\* A click: on an item's button, on one of an open form or question, or
\* elsewhere on the page.
Click(widget, what, id) == [widget |-> widget, what |-> what, id |-> id]
NoClick == Click("none", "", 0)

Resting == [at |-> "rest", click |-> NoClick, listed |-> {}, id |-> 0, done |-> FALSE]
Top(click) == [Resting EXCEPT !.at = "load", !.click = click]

Here == Page(selected)
Mine(kind) == target[Here][kind]

-----------------------------------------------------------------------------
\* Mutant: what a question is about is not looked for.
NeverMissing(id, listed) == FALSE

\* Whether an item is gone from what was loaded: _target_missing and
\* _delete_target_missing.
Missing(id, listed) == id \notin listed

\* The targets a run keeps. A schema page drops those of other views and of
\* missing items; a portable one has its own keys, and keeps an edit.
Kept(kind, listed) ==
  LET t == Mine(kind)
  IN  IF t = Nothing THEN Nothing
      ELSE IF Here = "portable"
      THEN IF kind = "delete" /\ Missing(t.id, listed) THEN Nothing ELSE t
      ELSE IF t.view # selected \/ Missing(t.id, listed) THEN Nothing ELSE t

\* The items are loaded; a failure is an empty list.
Load ==
  /\ run.at = "load"
  /\ \E listed \in {items[selected].ids, {}} :
       /\ run' = [run EXCEPT !.at = "render", !.listed = listed]
       /\ target' = [target EXCEPT ![Here] =
                       [kind \in AllKinds |-> Kept(kind, listed)]]
  /\ UNCHANGED <<items, selected, shown, open, count>>

Rests(listed) == run' = Resting /\ shown' = listed

Reruns == run' = Top(NoClick) /\ UNCHANGED shown

Sends(id) == run' = [run EXCEPT !.at = "send", !.id = id] /\ UNCHANGED shown

Clicked(widget, what) == run.click.widget = widget /\ run.click.what = what

\* A click on the button of an item that is still listed asks: a schema page
\* starts over, a portable one goes on.
AskAbout(kind) ==
  /\ run.at = "render" /\ Clicked("item", kind)
  /\ kind \in Kinds(Here) /\ run.click.id \in run.listed
  /\ target' = [target EXCEPT ![Here][kind] = Target(selected, run.click.id)]
  /\ IF Here = "schema" THEN Reruns ELSE Rests(run.listed)
  /\ UNCHANGED <<items, selected, open, count>>

\* A button that asks nothing.
ActAtOnce ==
  /\ run.at = "render" /\ Clicked("item", "act") /\ run.click.id \in run.listed
  /\ Sends(run.click.id)
  /\ UNCHANGED <<items, selected, target, open, count>>

OpenCreate ==
  /\ run.at = "render" /\ Clicked("page", "create")
  /\ open' = [open EXCEPT ![selected].form = TRUE]
  /\ Rests(run.listed)
  /\ UNCHANGED <<items, selected, target, count>>

\* The forms and questions that are still there take the click: one that
\* confirms sends the command for the target,
SubmitEdit ==
  /\ run.at = "render" /\ Clicked("confirm", "edit") /\ Mine("edit") # Nothing
  /\ Sends(Mine("edit").id)
  /\ UNCHANGED <<items, selected, target, open, count>>

Confirm(kind) ==
  /\ kind # "edit"
  /\ run.at = "render" /\ Clicked("confirm", kind) /\ Mine(kind) # Nothing
  /\ Sends(Mine(kind).id)
  /\ UNCHANGED <<items, selected, target, open, count>>

\* and one that cancels drops it.
Cancel(kind) ==
  /\ run.at = "render" /\ Clicked("cancel", kind) /\ Mine(kind) # Nothing
  /\ target' = [target EXCEPT ![Here][kind] = Nothing]
  /\ Reruns
  /\ UNCHANGED <<items, selected, open, count>>

\* "create" submits the form, "prepare" is an action of the form.
SubmitCreate(what) ==
  /\ run.at = "render" /\ Clicked("confirm", what) /\ open[selected].form
  /\ Sends(0)
  /\ UNCHANGED <<items, selected, target, open, count>>

CancelCreate ==
  /\ run.at = "render" /\ Clicked("cancel", "create") /\ open[selected].form
  /\ open' = [open EXCEPT ![selected] = [form |-> FALSE, draft |-> FALSE]]
  /\ Reruns
  /\ UNCHANGED <<items, selected, target, count>>

Navigate(view) ==
  /\ run.at = "render" /\ Clicked("page", view)
  /\ selected' = view
  /\ Reruns
  /\ UNCHANGED <<items, target, open, count>>

\* Nothing was clicked, or what was clicked is no longer rendered.
NothingToDo ==
  /\ run.at = "render"
  /\ \/ run.click = NoClick
     \/ run.click.widget = "item" /\ run.click.id \notin run.listed
     \/ /\ run.click.widget \in {"confirm", "cancel"}
        /\ IF run.click.what \in AllKinds THEN Mine(run.click.what) = Nothing
           ELSE ~open[selected].form
  /\ Rests(run.listed)
  /\ UNCHANGED <<items, selected, target, open, count>>

-----------------------------------------------------------------------------
\* Core carries the command out, or refuses it; an item must be there.
Execute ==
  LET what == run.click.what
      here == items[selected]
      able == what \in {"create", "prepare", "act"} \/ run.id \in here.ids
  IN  /\ run.at = "send"
      /\ \E done \in {FALSE, able} :
           /\ run' = [run EXCEPT !.at = "answer", !.done = done]
           /\ items' =
                CASE done /\ what = "delete" -> [items EXCEPT ![selected].ids = @ \ {run.id}]
                  [] done /\ what = "create" /\ here.last < MaxItem ->
                       [items EXCEPT ![selected] = [ids |-> here.ids \cup {here.last + 1},
                                                    last |-> here.last + 1]]
                  [] OTHER -> items
  /\ UNCHANGED <<selected, shown, target, open, count>>

\* _execute_intent. An action whose effects ask for a refresh starts the
\* script over before the form is closed.
AnswerPortable(refresh) ==
  LET what   == run.click.what
      closes == run.done /\ ~refresh
  IN  /\ run.at = "answer" /\ Here = "portable" /\ what # "prepare"
      /\ target' = IF closes /\ what \in AllKinds
                   THEN [target EXCEPT !["portable"][what] = Nothing] ELSE target
      /\ open' = IF closes /\ what = "create"
                 THEN [open EXCEPT ![selected] = [form |-> FALSE, draft |-> FALSE]] ELSE open
      /\ IF run.done /\ refresh THEN Reruns ELSE Rests(run.listed)
      /\ UNCHANGED <<items, selected, count>>

\* A schema page closes what it asked, and starts over.
AnswerSchema ==
  LET what == run.click.what
  IN  /\ run.at = "answer" /\ Here = "schema" /\ what # "prepare"
      /\ target' = IF run.done /\ what \in AllKinds
                   THEN [target EXCEPT !["schema"][what] = Nothing] ELSE target
      /\ open' = IF run.done /\ what = "create"
                 THEN [open EXCEPT ![selected] = [form |-> FALSE, draft |-> FALSE]] ELSE open
      /\ IF run.done THEN Reruns ELSE Rests(run.listed)
      /\ UNCHANGED <<items, selected, count>>

\* What an action of the create form gives becomes its draft.
AnswerPrepare ==
  /\ run.at = "answer" /\ run.click.what = "prepare"
  /\ open' = IF run.done THEN [open EXCEPT ![selected].draft = TRUE] ELSE open
  /\ IF run.done THEN Reruns ELSE Rests(run.listed)
  /\ UNCHANGED <<items, selected, target, count>>

-----------------------------------------------------------------------------
\* The user clicks what is on the screen, before or after the run is over.
Screen ==
  {Click("item", what, id) : what \in Kinds(Here) \cup {"act"}, id \in shown}
  \cup {Click("page", what, 0) : what \in {"create"} \cup (Views \ {selected})}
  \cup {Click(widget, what, 0) : widget \in {"confirm", "cancel"},
          what \in {k \in Kinds(Here) : Mine(k) # Nothing}
                   \cup (IF open[selected].form THEN {"create"} ELSE {})}
  \cup (IF open[selected].form THEN {Click("confirm", "prepare", 0)} ELSE {})

UserClicks ==
  /\ count.clicks < MaxClicks
  /\ count' = [count EXCEPT !.clicks = @ + 1]
  /\ \E click \in Screen : run' = Top(click)
  /\ UNCHANGED <<items, selected, shown, target, open>>

OthersChange ==
  /\ count.others < MaxOthers
  /\ count' = [count EXCEPT !.others = @ + 1]
  /\ \E view \in Views :
       \/ /\ items[view].last < MaxItem
          /\ items' = [items EXCEPT ![view] = [ids |-> @.ids \cup {@.last + 1},
                                               last |-> @.last + 1]]
       \/ \E id \in items[view].ids : items' = [items EXCEPT ![view].ids = @ \ {id}]
  /\ UNCHANGED <<selected, shown, target, open, run>>

Init ==
  /\ items = [v \in Views |-> [ids |-> {1}, last |-> 1]]
  /\ selected \in Views
  /\ shown = {}
  /\ target = [p \in Pages |-> [k \in AllKinds |-> Nothing]]
  /\ open = [v \in Views |-> [form |-> FALSE, draft |-> FALSE]]
  /\ run = Top(NoClick)
  /\ count = [clicks |-> 0, others |-> 0]

Next ==
  \/ Load
  \/ \E kind \in AllKinds : AskAbout(kind) \/ Confirm(kind) \/ Cancel(kind)
  \/ ActAtOnce \/ SubmitEdit \/ OpenCreate \/ CancelCreate \/ NothingToDo
  \/ \E what \in {"create", "prepare"} : SubmitCreate(what)
  \/ \E view \in Views : Navigate(view)
  \/ Execute
  \/ \E refresh \in BOOLEAN : AnswerPortable(refresh)
  \/ AnswerSchema \/ AnswerPrepare
  \/ UserClicks \/ OthersChange

Spec == Init /\ [][Next]_pageVars

-----------------------------------------------------------------------------
(* Properties *)

\* The type of the page's state.
TypeOK ==
  /\ \A v \in Views : items[v].ids \subseteq 1 .. items[v].last /\ items[v].last \in 0 .. MaxItem
  /\ selected \in Views /\ shown \subseteq Id
  /\ \A p \in Pages, k \in AllKinds : target[p][k] \in [view : Views, id : Id] \cup {Nothing}
  /\ open \in [Views -> [form : BOOLEAN, draft : BOOLEAN]]
  /\ run.at \in {"rest", "load", "render", "send", "answer"}

\* A command is sent for an item that this very run has listed in the view it
\* is of, however old the question is, whatever was navigated, interrupted
\* and deleted by others since; only the edit form of a portable page may be
\* one of an item that is gone.
CommandsAreOfListed ==
  run.at = "send" /\ run.id # 0
    => \/ run.id \in run.listed
       \/ Here = "portable" /\ run.click.what = "edit"

\* A question that stays on the screen is about an item on the screen.
QuestionsAreOfShown ==
  run.at = "rest" =>
    \A kind \in Kinds(Here) :
      \/ Mine(kind) = Nothing
      \/ Here = "portable" /\ kind = "edit"
      \/ Mine(kind).view = selected /\ Mine(kind).id \in shown

=============================================================================
