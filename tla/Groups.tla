------------------------------- MODULE Groups -------------------------------
(***************************************************************************)
(* Groups and memberships: modules/users/manager.py (GroupManager), its    *)
(* repositories, the routes of groups_routes.py and the commands of        *)
(* modules/users/module_views.py.                                          *)
(*                                                                         *)
(* No lock is held over a request, so each call of the store is a step of  *)
(* its own. The owner check that starts most requests reads a listing and  *)
(* is the first step.                                                      *)
(***************************************************************************)
EXTENDS SqliteStore

CONSTANTS
  Nothing,       \* what an optional argument is when it is not given
  Handlers,      \* request threads
  People,        \* ids of users that send requests or become members
  Robots,        \* ids of agents
  Names,         \* group names
  MaxGroup,      \* bound on group ids
  MaxMember,     \* bound on membership ids
  MaxRequests,   \* bound on requests
  MaxCrashes     \* bound on restarts of the process

VARIABLES
  groups,        \* the table of groups
  members,       \* the table of memberships
  request,       \* the locals of each request thread
  count,         \* requests and crashes so far
  births,        \* history: how many groups an id was given to
  cut            \* history: groups whose creation a crash cut short

groupVars == <<groups, members, request, count, births, cut>>

Roles == {"owner", "member"}

\* The workspace root is only told apart as given or not.
Group == [name : Names, creator : People, rooted : BOOLEAN]

\* A membership, with the birth of its group as history.
Membership ==
  [group : 1 .. MaxGroup, birth : 1 .. MaxGroup, role : Roles, enabled : BOOLEAN,
   kind : {"user"}, who : People]
  \cup
  [group : 1 .. MaxGroup, birth : 1 .. MaxGroup, role : Roles, enabled : BOOLEAN,
   kind : {"agent"}, who : Robots]

GroupId == 1 .. MaxGroup

\* What clients send, by a route or by a command of the users view.
Request ==
  [op : {"create"}, me : People, name : Names, rooted : BOOLEAN]
  \cup [op : {"edit"}, me : People, group : GroupId, name : Names \cup {Nothing}]
  \cup [op : {"delete"}, me : People, group : GroupId]
  \cup [op : {"add"}, me : People, group : GroupId, kind : {"user"}, who : People,
        role : Roles]
  \cup [op : {"add"}, me : People, group : GroupId, kind : {"agent"}, who : Robots,
        role : Roles]
  \cup [op : {"switch", "viewSwitch"}, me : People, group : GroupId,
        member : 1 .. MaxMember, enabled : BOOLEAN]

Idle == [pc |-> "idle"]

Stages == {"free", "insert", "root", "owner", "edit", "name", "write", "delete",
           "find", "look", "renew", "join", "view", "switch", "save"}

\* A thread's locals: its request, the id it works on, the row it read.
Local ==
  {Idle} \cup
  [pc : Stages, asked : Request, id : 0 .. MaxGroup + MaxMember,
   copy : Group \cup Membership \cup {Nothing}]

Go(h, local) == request' = [request EXCEPT ![h] = local]

\* A thread goes on with its request, here with another id and row.
Work(h, pc, id, copy) ==
  Go(h, [pc |-> pc, asked |-> request[h].asked, id |-> id, copy |-> copy])

Step(h, pc) == Work(h, pc, request[h].id, request[h].copy)

GroupNamed(name) == LET Is(row) == row.name = name IN First(groups, Is)

\* list_by_group
MembersOf(group) == LET Is(row) == row.group = group IN Find(members, Is)

\* find
MemberLike(group, kind, who) ==
  LET Is(row) == row.group = group /\ row.kind = kind /\ row.who = who
  IN  First(members, Is)

OwnerRow(row, user) ==
  row.kind = "user" /\ row.who = user /\ row.role = "owner" /\ row.enabled

\* _is_group_owner, is_group_owner
IsOwner(group, user) == \E m \in MembersOf(group) : OwnerRow(members.rows[m], user)

\* The groups a user sees in a listing: those of the enabled memberships.
VisibleGroups(user) ==
  {g \in Ids(groups) : \E m \in MembersOf(g) :
     LET row == members.rows[m]
     IN  row.kind = "user" /\ row.who = user /\ row.enabled}

-----------------------------------------------------------------------------
(* A request begins *)

\* Each operation but the creation is for owners of the group only.
FirstStage(op) ==
  CASE op = "create"     -> "free"
    [] op = "edit"       -> "edit"
    [] op = "delete"     -> "delete"
    [] op = "add"        -> "find"
    [] op = "switch"     -> "switch"
    [] op = "viewSwitch" -> "view"

Receive(h) ==
  /\ request[h] = Idle
  /\ count.requests < MaxRequests
  /\ \E asked \in Request :
      /\ asked.op # "create" => IsOwner(asked.group, asked.me)
      /\ count' = [count EXCEPT !.requests = @ + 1]
      /\ Go(h, [pc |-> FirstStage(asked.op), asked |-> asked, id |-> 0, copy |-> Nothing])
      /\ UNCHANGED <<groups, members, births, cut>>

-----------------------------------------------------------------------------
(* create_group: a lookup and up to three writes *)

CheckFree(h) ==
  /\ request[h].pc = "free"
  /\ IF GroupNamed(request[h].asked.name) = 0 THEN Step(h, "insert") ELSE Go(h, Idle)
  /\ UNCHANGED <<groups, members, count, births, cut>>

\* Mutant: the root is never made.
OwnerNext(asked) == "owner"

AfterInsert(asked) == IF asked.rooted THEN "owner" ELSE "root"

InsertGroup(h) ==
  LET asked == request[h].asked
      row   == [name |-> asked.name, creator |-> asked.me, rooted |-> asked.rooted]
      new   == Insert(groups, row)
      given == {g \in Ids(new) : g \notin Ids(groups)}
  IN  /\ request[h].pc = "insert"
      /\ groups.last < MaxGroup
      /\ groups' = new
      /\ births' = [g \in GroupId |-> IF g \in given THEN births[g] + 1 ELSE births[g]]
      /\ Work(h, AfterInsert(asked), CHOOSE g \in given : TRUE, row)
      /\ UNCHANGED <<members, count, cut>>

\* The root is made from the id the group got, and the whole row written again.
WriteRoot(h) ==
  /\ request[h].pc = "root"
  /\ groups' = Update(groups, request[h].id, [request[h].copy EXCEPT !.rooted = TRUE])
  /\ Step(h, "owner")
  /\ UNCHANGED <<members, count, births, cut>>

Member(group, kind, who, role) ==
  [group |-> group, birth |-> births[group], role |-> role, enabled |-> TRUE,
   kind |-> kind, who |-> who]

InsertOwner(h) ==
  /\ request[h].pc = "owner"
  /\ members.last < MaxMember
  /\ members' = Insert(members, Member(request[h].id, "user", request[h].asked.me, "owner"))
  /\ Go(h, Idle)
  /\ UNCHANGED <<groups, count, births, cut>>

-----------------------------------------------------------------------------
(* edit_group and delete_group *)

ReadGroup(h) ==
  LET asked == request[h].asked
  IN  /\ request[h].pc = "edit"
      /\ IF asked.group \in Ids(groups)
         THEN Work(h, IF asked.name = Nothing THEN "write" ELSE "name",
                   asked.group, groups.rows[asked.group])
         ELSE Go(h, Idle)
      /\ UNCHANGED <<groups, members, count, births, cut>>

CheckName(h) ==
  LET asked == request[h].asked
  IN  /\ request[h].pc = "name"
      /\ IF GroupNamed(asked.name) \in {0, asked.group}
         THEN Work(h, "write", request[h].id, [request[h].copy EXCEPT !.name = asked.name])
         ELSE Go(h, Idle)
      /\ UNCHANGED <<groups, members, count, births, cut>>

\* An empty root is replaced by the one made from the id.
WriteGroup(h) ==
  /\ request[h].pc = "write"
  /\ groups' = Update(groups, request[h].id, [request[h].copy EXCEPT !.rooted = TRUE])
  /\ Go(h, Idle)
  /\ UNCHANGED <<members, count, births, cut>>

\* The memberships of a deleted group are left in their table.
DeleteGroup(h) ==
  /\ request[h].pc = "delete"
  /\ groups' = Delete(groups, request[h].asked.group)
  /\ Go(h, Idle)
  /\ UNCHANGED <<members, count, births, cut>>

-----------------------------------------------------------------------------
(* add_member and set_membership_enabled *)

\* The group is there, and no agent becomes an owner.
CheckMember(h) ==
  LET asked == request[h].asked
  IN  /\ request[h].pc = "find"
      /\ IF asked.group \in Ids(groups) /\ ~(asked.kind = "agent" /\ asked.role = "owner")
         THEN Step(h, "look")
         ELSE Go(h, Idle)
      /\ UNCHANGED <<groups, members, count, births, cut>>

LookForMember(h) ==
  LET asked == request[h].asked
      found == MemberLike(asked.group, asked.kind, asked.who)
  IN  /\ request[h].pc = "look"
      /\ IF found = 0
         THEN Step(h, "join")
         ELSE Work(h, "renew", found, members.rows[found])
      /\ UNCHANGED <<groups, members, count, births, cut>>

RenewMember(h) ==
  /\ request[h].pc = "renew"
  /\ members' = Update(members, request[h].id,
                  [request[h].copy EXCEPT !.role = request[h].asked.role, !.enabled = TRUE])
  /\ Go(h, Idle)
  /\ UNCHANGED <<groups, count, births, cut>>

InsertMember(h) ==
  LET asked == request[h].asked
  IN  /\ request[h].pc = "join"
      /\ members.last < MaxMember
      /\ members' = Insert(members, Member(asked.group, asked.kind, asked.who, asked.role))
      /\ Go(h, Idle)
      /\ UNCHANGED <<groups, count, births, cut>>

\* The view looks for the membership in the group and spares owners; the
\* route does neither.
CheckSwitch(h) ==
  LET asked == request[h].asked
  IN  /\ request[h].pc = "view"
      /\ IF /\ asked.member \in MembersOf(asked.group)
            /\ members.rows[asked.member].role # "owner"
         THEN Step(h, "switch")
         ELSE Go(h, Idle)
      /\ UNCHANGED <<groups, members, count, births, cut>>

ReadMember(h) ==
  LET m == request[h].asked.member
  IN  /\ request[h].pc = "switch"
      /\ IF m \in Ids(members)
         THEN Work(h, "save", m, members.rows[m])
         ELSE Go(h, Idle)
      /\ UNCHANGED <<groups, members, count, births, cut>>

WriteMember(h) ==
  /\ request[h].pc = "save"
  /\ members' = Update(members, request[h].id,
                  [request[h].copy EXCEPT !.enabled = request[h].asked.enabled])
  /\ Go(h, Idle)
  /\ UNCHANGED <<groups, count, births, cut>>

-----------------------------------------------------------------------------
Restart ==
  /\ count.crashes < MaxCrashes
  /\ count' = [count EXCEPT !.crashes = @ + 1]
  /\ cut' = cut \cup {request[h].id : h \in {k \in Handlers : request[k].pc \in {"root", "owner"}}}
  /\ request' = [h \in Handlers |-> Idle]
  /\ UNCHANGED <<groups, members, births>>

Init ==
  /\ groups = EmptyTable
  /\ members = EmptyTable
  /\ request = [h \in Handlers |-> Idle]
  /\ count = [requests |-> 0, crashes |-> 0]
  /\ births = [g \in GroupId |-> 0]
  /\ cut = {}

Next ==
  \/ \E h \in Handlers :
       \/ Receive(h) \/ CheckFree(h) \/ InsertGroup(h) \/ WriteRoot(h) \/ InsertOwner(h)
       \/ ReadGroup(h) \/ CheckName(h) \/ WriteGroup(h) \/ DeleteGroup(h)
       \/ CheckMember(h) \/ LookForMember(h) \/ RenewMember(h) \/ InsertMember(h)
       \/ CheckSwitch(h) \/ ReadMember(h) \/ WriteMember(h)
  \/ Restart

Spec == Init /\ [][Next]_groupVars

-----------------------------------------------------------------------------
(* Properties *)

\* The type of the tables and of the threads' locals.
TypeOK ==
  /\ IsTable(groups, Group, MaxGroup)
  /\ IsTable(members, Membership, MaxMember)
  /\ request \in [Handlers -> Local]
  /\ count \in [requests : 0 .. MaxRequests, crashes : 0 .. MaxCrashes]
  /\ births \in [GroupId -> 0 .. MaxGroup]
  /\ cut \subseteq GroupId

\* Memberships outlive their group, so the id of a deleted group must not be
\* given to a new one: nobody is a member of a group by a membership made in
\* an older one.
MembershipsKeepTheirGroup ==
  \A m \in Ids(members) : members.rows[m].birth = births[members.rows[m].group]

\* Whoever lists a group by an enabled membership is not shown one that was
\* only half created: a group without a root, or without a membership of its
\* creator, is being created right now or was cut short by a crash, and
\* nobody but its creation can reach it.
HalfCreatedExplained ==
  \A g \in Ids(groups) :
    LET row == groups.rows[g]
    IN  ~row.rooted \/ MemberLike(g, "user", row.creator) = 0
        => /\ \/ g \in cut
              \/ \E h \in Handlers : request[h].pc \in {"root", "owner"} /\ request[h].id = g
           /\ \A user \in People : g \notin VisibleGroups(user)

=============================================================================
