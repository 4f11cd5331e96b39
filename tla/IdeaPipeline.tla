---------------------------- MODULE IdeaPipeline ----------------------------
(***************************************************************************)
(* Ideas and what becomes of them: modules/ipe (services, repositories,    *)
(* module views and tools). An idea turns into a task, a project, a habit  *)
(* or an event, and a task into a project, by an insertion and a deletion  *)
(* that are calls of their own; the process may die between them.          *)
(***************************************************************************)
EXTENDS SqliteStore, Sequences

CONSTANTS
  Nothing,       \* what there is none of
  Handlers,      \* request threads
  Users,         \* who owns ideas
  MaxRow,        \* bound on ids
  MaxRequests,   \* bound on requests
  MaxCrashes     \* bound on crashes

VARIABLES
  items,         \* the tables, by kind
  job,           \* the locals of each thread
  count,         \* requests and crashes so far
  owner,         \* history: who captured an idea
  discarded      \* history: ideas that a user removed, or what became of them

ideaVars == <<items, job, count, owner, discarded>>

Kinds == {"idea", "task", "project", "habit", "event"}

IdeaId == 1 .. MaxRow

\* due stands for what makes an item call for attention: a task that is not
\* completed, a habit done less often than meant in its period, an event
\* ahead, a project without description or dates or left for two weeks.
Item == [owner : Users, idea : IdeaId \cup {0}, due : BOOLEAN, root : BOOLEAN]

NewItem(user, idea) == [owner |-> user, idea |-> idea, due |-> TRUE, root |-> FALSE]

Idle == [pc |-> "idle"]

\* A thread's locals: what it read, the steps it has yet to make, whose
\* request it is, and the items a snapshot has collected.
At(pc, kind, id, todo) ==
  [pc |-> pc, kind |-> kind, id |-> id, todo |-> todo, item |-> Nothing,
   to |-> Nothing, made |-> 0, user |-> Nothing, found |-> <<>>]

Go(h, local) == job' = [job EXCEPT ![h] = local]

\* The idea a row stems from: an idea itself, or its source_idea_id.
Source(kind, id) == IF kind = "idea" THEN id ELSE items[kind].rows[id].idea

Ask(h, local) ==
  /\ job[h] = Idle
  /\ count.requests < MaxRequests
  /\ count' = [count EXCEPT !.requests = @ + 1]
  /\ Go(h, local)
  /\ UNCHANGED <<items, owner, discarded>>

\* _is_visible: groups are left out, so an item is its owner's.
Visible(item, user) == item.owner = user

-----------------------------------------------------------------------------
(* The commands of the collections: create (ideas only), delete; "edit" is  *)
(* registered, but refused for every kind.                                  *)

Capture(user) ==
  /\ count.requests < MaxRequests
  /\ items["idea"].last < MaxRow
  /\ count' = [count EXCEPT !.requests = @ + 1]
  /\ items' = [items EXCEPT !["idea"] = Insert(@, NewItem(user, 0))]
  /\ owner' = [owner EXCEPT ![items["idea"].last + 1] = user]
  /\ UNCHANGED <<job, discarded>>

\* The item is read and must be the user's,
Remove(h, user, kind, id) ==
  /\ id \in Ids(items[kind])
  /\ Visible(items[kind].rows[id], user)
  /\ Ask(h, At("remove", kind, id, <<>>))

\* then whatever has its id is deleted.
RemoveRow(h) ==
  LET here == job[h]
      gone == here.id \in Ids(items[here.kind])
  IN  /\ here.pc = "remove"
      /\ items' = [items EXCEPT ![here.kind] = Delete(@, here.id)]
      /\ discarded' = discarded \cup (IF gone THEN {Source(here.kind, here.id)} ELSE {})
      /\ Go(h, Idle)
      /\ UNCHANGED <<count, owner>>

-----------------------------------------------------------------------------
(* convert_idea_to_task, _project, _habit, _calendar_event and              *)
(* convert_task_to_project                                                  *)

\* Mutant: what is converted is deleted before there is what it becomes.
DropsFirst(to) ==
  IF to = "project" THEN <<"drop", "create", "root">> ELSE <<"drop", "create">>

\* A project is written a second time, with the directory that its id gives.
StepsTo(to) ==
  IF to = "project" THEN <<"create", "root", "drop">> ELSE <<"create", "drop">>

Convertible(kind, to) ==
  \/ kind = "idea" /\ to # "idea"
  \/ kind = "task" /\ to = "project"

Convert(h, kind, id, to) ==
  /\ Convertible(kind, to)
  /\ id \in Ids(items[kind])
  /\ Ask(h, [At("convert", kind, id, StepsTo(to)) EXCEPT
               !.to = to, !.item = items[kind].rows[id]])

\* The thread's next step is done, and with the last one its request.
Stepped(h, local) ==
  Go(h, IF Len(local.todo) = 1 THEN Idle ELSE [local EXCEPT !.todo = Tail(@)])

Doing(h, step) == job[h].pc = "convert" /\ Head(job[h].todo) = step

\* What is made inherits owner and source of what was read.
CreateItem(h) ==
  LET here == job[h]
      idea == IF here.kind = "idea" THEN here.id ELSE here.item.idea
  IN  /\ Doing(h, "create")
      /\ items[here.to].last < MaxRow
      /\ items' = [items EXCEPT ![here.to] = Insert(@, NewItem(here.item.owner, idea))]
      /\ Stepped(h, [here EXCEPT !.made = items[here.to].last + 1])
      /\ UNCHANGED <<count, owner, discarded>>

WriteRoot(h) ==
  LET here == job[h]
      idea == IF here.kind = "idea" THEN here.id ELSE here.item.idea
  IN  /\ Doing(h, "root")
      /\ items' = [items EXCEPT !["project"] =
                     Update(@, here.made, [NewItem(here.item.owner, idea) EXCEPT !.root = TRUE])]
      /\ Stepped(h, here)
      /\ UNCHANGED <<count, owner, discarded>>

DropSource(h) ==
  LET here == job[h]
  IN  /\ Doing(h, "drop")
      /\ items' = [items EXCEPT ![here.kind] = Delete(@, here.id)]
      /\ Stepped(h, here)
      /\ UNCHANGED <<count, owner, discarded>>

-----------------------------------------------------------------------------
(* what_do_i_do: the tables are read one after the other, and the focus is  *)
(* an event ahead, or else a task, a habit, a project.                      *)

Reading == <<"task", "habit", "event", "project">>

Precedence == <<"event", "task", "habit", "project">>

Due(kind, user) ==
  {id \in Ids(items[kind]) : Visible(items[kind].rows[id], user) /\ items[kind].rows[id].due}

Advise(h, user) == Ask(h, [At("advise", "idea", 0, Reading) EXCEPT !.user = user])

ReadKind(h) ==
  LET here == job[h]
      kind == Head(here.todo)
      more == IF Due(kind, here.user) # {} THEN <<kind>> ELSE <<>>
  IN  /\ here.pc = "advise" /\ here.todo # <<>>
      /\ Go(h, [here EXCEPT !.todo = Tail(@), !.found = @ \o more])
      /\ UNCHANGED <<items, count, owner, discarded>>

\* _suggest_focus; Nothing when no kind calls for attention.
Focus(found) ==
  LET Rank(kind) == CHOOSE i \in 1 .. 4 : Precedence[i] = kind
      kinds      == {found[i] : i \in 1 .. Len(found)}
  IN  IF kinds = {} THEN Nothing
      ELSE CHOOSE kind \in kinds : \A other \in kinds : Rank(kind) <= Rank(other)

AnswerFocus(h) ==
  /\ job[h].pc = "advise" /\ job[h].todo = <<>>
  /\ Go(h, Idle)
  /\ UNCHANGED <<items, count, owner, discarded>>

-----------------------------------------------------------------------------
\* The process dies: every request stops where it is.
Crash ==
  /\ count.crashes < MaxCrashes
  /\ count' = [count EXCEPT !.crashes = @ + 1]
  /\ job' = [h \in Handlers |-> Idle]
  /\ UNCHANGED <<items, owner, discarded>>

Init ==
  /\ items = [k \in Kinds |-> EmptyTable]
  /\ job = [h \in Handlers |-> Idle]
  /\ count = [requests |-> 0, crashes |-> 0]
  /\ owner = [i \in IdeaId |-> Nothing]
  /\ discarded = {}

Next ==
  \/ \E u \in Users : Capture(u)
  \/ \E h \in Handlers :
       \/ \E u \in Users, k \in Kinds, id \in IdeaId : Remove(h, u, k, id)
       \/ \E k, to \in Kinds, id \in IdeaId : Convert(h, k, id, to)
       \/ \E u \in Users : Advise(h, u)
       \/ RemoveRow(h) \/ CreateItem(h) \/ WriteRoot(h) \/ DropSource(h)
       \/ ReadKind(h) \/ AnswerFocus(h)
  \/ Crash

Spec == Init /\ [][Next]_ideaVars

-----------------------------------------------------------------------------
(* Properties *)

\* The type of the tables and the locals.
TypeOK ==
  /\ \A k \in Kinds : IsTable(items[k], Item, MaxRow)
  /\ owner \in [IdeaId -> Users \cup {Nothing}]
  /\ discarded \subseteq IdeaId
  /\ \A h \in Handlers : job[h].pc = "advise" => Focus(job[h].found) \in Kinds \cup {Nothing}

\* However conversions overlap and wherever the process dies, an idea is
\* there, or something made of it is, or a user removed one of the two.
IdeasAreNotLost ==
  \A i \in 1 .. items["idea"].last :
    \/ i \in Ids(items["idea"]) \/ i \in discarded
    \/ \E k \in Kinds \ {"idea"} : \E id \in Ids(items[k]) : items[k].rows[id].idea = i

\* What an idea became belongs to whoever captured it.
OwnersAreKept ==
  \A k \in Kinds \ {"idea"} : \A id \in Ids(items[k]) :
    items[k].rows[id].owner = owner[items[k].rows[id].idea]

\* No idea is lost, and none changes hands, by what becomes of it.
IdeasKept == IdeasAreNotLost /\ OwnersAreKept

=============================================================================
