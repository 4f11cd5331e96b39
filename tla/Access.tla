------------------------------- MODULE Access -------------------------------
(***************************************************************************)
(* Who is somebody and who may do what: Accounts, Groups, AgentDirectory   *)
(* and ToolAccess. They share no table, so each behaviour is one of one of *)
(* them: the variable part says of which, and the others keep one of their *)
(* initial values.                                                         *)
(***************************************************************************)
EXTENDS Naturals

CONSTANTS
  Nothing,       \* what an optional value is when there is none
  Keep,          \* a field of an update of an agent that is not given
  Handlers,      \* request threads
  Names,         \* names of users, groups and agents
  Passwords,
  People,        \* ids of users
  Robots,        \* ids of agents that become members of groups
  GroupsOf,      \* the enabled groups of each user, for the access to agents
  MaxUser,       \* bounds on the ids of each table
  MaxGroup,
  MaxMember,
  MaxAgent,
  MaxPrompt,
  MaxTool,
  MaxToken,      \* bound on sessions opened
  MaxClock,      \* bound on the clock
  Ttl,           \* how long a session lasts, in ticks
  MaxRequests,   \* bound on requests about users and groups
  MaxCalls,      \* bound on requests about agents and tools
  MaxCrashes,    \* bound on restarts of the process
  MaxChanges     \* bound on changes of the mode and of the agent of the tools

ASSUME BoundsAssumption ==
  /\ {MaxUser, MaxGroup, MaxMember, MaxAgent, MaxPrompt, MaxTool} \subseteq Nat \ {0}
  /\ {MaxToken, MaxClock, MaxRequests, MaxCalls, MaxCrashes, MaxChanges} \subseteq Nat

\* The table of tools has room for the definitions of both providers.
ASSUME DefinitionsAssumption == MaxTool >= 2

\* A session lasts.
ASSUME TtlAssumption == Ttl \in Nat \ {0}

VARIABLES
  part,
  users, sessions, file, clock, accountRequest, accountCount, userBirths, issued, ended,
  groups, members, groupRequest, groupCount, groupBirths, cut,
  agents, prompts, agentRequest, asked, named, seen,
  tools, assignments, toolIds, mode, runtime, toolRequest, toolCount, facts

Account == INSTANCE Accounts
             WITH request <- accountRequest, count <- accountCount, births <- userBirths

Group == INSTANCE Groups
           WITH request <- groupRequest, count <- groupCount, births <- groupBirths

Agent == INSTANCE AgentDirectory
           WITH request <- agentRequest, MaxRequests <- MaxCalls

Tool == INSTANCE ToolAccess
          WITH request <- toolRequest, count <- toolCount, MaxRequests <- MaxCalls

accountState == <<users, sessions, file, clock, accountRequest, accountCount,
                  userBirths, issued, ended>>
groupState == <<groups, members, groupRequest, groupCount, groupBirths, cut>>
agentState == <<agents, prompts, agentRequest, asked, named, seen>>
toolState == <<tools, assignments, toolIds, mode, runtime, toolRequest, toolCount, facts>>

vars == <<part, accountState, groupState, agentState, toolState>>

Init ==
  /\ part \in {"accounts", "groups", "agents", "tools"}
  /\ Account!Init
  /\ Group!Init
  /\ IF part = "agents" THEN Agent!Init
     ELSE Agent!Init /\ agents = Agent!EmptyTable
  /\ Tool!Init
  /\ part # "tools" => ~mode /\ ~runtime.bundle /\ assignments[1] = Nothing

Next ==
  \/ /\ part = "accounts" /\ Account!Next
     /\ UNCHANGED <<part, groupState, agentState, toolState>>
  \/ /\ part = "groups" /\ Group!Next
     /\ UNCHANGED <<part, accountState, agentState, toolState>>
  \/ /\ part = "agents" /\ Agent!Next
     /\ UNCHANGED <<part, accountState, groupState, toolState>>
  \/ /\ part = "tools" /\ Tool!Next
     /\ UNCHANGED <<part, accountState, groupState, agentState>>

Spec == Init /\ [][Next]_vars

-----------------------------------------------------------------------------
\* The type invariants of the four modules.
TypeOK == Account!TypeOK /\ Group!TypeOK /\ Agent!TypeOK /\ Tool!TypeOK

\* auth/sessions.py: a session serves until its end, through restarts, and
\* never after it.
SessionsDurable == Account!SessionsDurable

\* sqlite_store.py hands out an id once, on which everything rests that
\* refers to users and groups by id and outlives them: a session is never of
\* another user, nor a membership of another group, than it was made for.
RightsNotInherited == Account!SessionsKeepTheirUser /\ Group!MembershipsKeepTheirGroup

\* users/manager.py create_group: a group without root or membership of its
\* creator is just being made, or a crash cut it short, and nobody sees it.
HalfCreatedExplained == Group!HalfCreatedExplained

\* public_agent_routes.py: the public listing serves only agents that were
\* published and eligible at some moment of the request.
ServedWasPublished == Agent!ServedWasPublished

\* agents/manager.py clone_agent: agents share a prompt only at a client's wish.
PromptsSharedOnRequest == Agent!PromptsSharedOnRequest

\* agent_tools/executor.py: a provider runs only for an agent that had the
\* tool, enabled and approved where it must be, at moments of the call.
ExecutedWasAllowed == Tool!ExecutedWasAllowed

\* No stale copy of a row brings a deleted user, group or agent back.
DeletedStaysDeleted ==
  [][/\ \A u \in 1 .. users.last : u \in Account!Ids(users') => u \in Account!Ids(users)
     /\ \A g \in 1 .. groups.last : g \in Group!Ids(groups') => g \in Group!Ids(groups)
     /\ \A a \in 1 .. agents.last : a \in Agent!Ids(agents') => a \in Agent!Ids(agents)]_vars

=============================================================================
