------------------------------ MODULE Accounts ------------------------------
(***************************************************************************)
(* Users and sessions: modules/users/manager.py (UserManager), its         *)
(* repository, modules/auth, and the routes auth_routes.py and             *)
(* users_routes.py that call them.                                         *)
(*                                                                         *)
(* A request is handled in a thread of its own. Each call of the store is  *)
(* one step, and so is each call of the session manager, which changes its *)
(* dictionary and replaces the session file under one lock: a crash        *)
(* between the two is a crash before the call, since the dictionary is     *)
(* lost and nobody can look at it under the lock.                          *)
(***************************************************************************)
EXTENDS SqliteStore

CONSTANTS
  Nothing,       \* what an optional argument is when it is not given
  Handlers,      \* request threads
  Names,         \* user names
  Passwords,
  MaxUser,       \* bound on user ids
  MaxToken,      \* bound on sessions opened
  MaxClock,      \* bound on the clock
  Ttl,           \* how long a session lasts, in ticks
  MaxRequests,   \* bound on requests
  MaxCrashes     \* bound on restarts of the process

VARIABLES
  users,         \* the table of users
  sessions,      \* SessionManager._sessions: token -> session
  file,          \* auth_sessions.json
  clock,
  request,       \* the locals of each request thread
  count,         \* requests and crashes so far
  births,        \* history: how many users an id was given to
  issued,        \* history: every session that was opened
  ended          \* history: tokens that were logged out or refused as expired

accountVars == <<users, sessions, file, clock, request, count, births, issued, ended>>

User == [name : Names, password : Passwords, enabled : BOOLEAN]

\* A session, with the birth of its user as history.
Session == [user : 1 .. MaxUser, birth : 1 .. MaxUser, expires : 1 .. MaxClock + Ttl]

\* What clients send; a token is the session cookie.
Request ==
  [op : {"register", "login"}, name : Names, password : Passwords]
  \cup [op : {"create_user"}, token : 1 .. MaxToken, name : Names,
        password : Passwords]
  \cup [op : {"logout", "session", "delete_user"}, token : 1 .. MaxToken]
  \cup [op : {"edit_user"}, token : 1 .. MaxToken, name : Names \cup {Nothing},
        password : Passwords \cup {Nothing}, enabled : BOOLEAN \cup {Nothing}]

Idle == [pc |-> "idle"]

\* A thread's locals: its request, the user of its session, the row it edits.
Local ==
  {Idle}
  \cup [pc : {"free", "insert", "verify", "open", "read", "name", "write", "delete"},
        asked : Request, me : 0 .. MaxUser, copy : User \cup {Nothing}]

At(pc, asked, me, copy) == [pc |-> pc, asked |-> asked, me |-> me, copy |-> copy]

Without(map, key) == [other \in DOMAIN map \ {key} |-> map[other]]

NextToken == Cardinality(DOMAIN issued) + 1

-----------------------------------------------------------------------------
(* Users *)

\* get_by_username
Named(name) == LET Is(row) == row.name = name IN First(users, Is)

\* verify_user: the first user of that name, enabled, with that password
Verifies(name, password) ==
  LET u == Named(name)
  IN  u # 0 /\ users.rows[u].enabled /\ users.rows[u].password = password

\* Mutant: what is not given is not kept.
Replaced(row, asked) ==
  [name |-> asked.name, password |-> asked.password, enabled |-> asked.enabled]

\* The row edit_user writes, from the one it read.
Edited(row, asked) ==
  [name     |-> IF asked.name = Nothing THEN row.name ELSE asked.name,
   password |-> IF asked.password = Nothing THEN row.password ELSE asked.password,
   enabled  |-> IF asked.enabled = Nothing THEN row.enabled ELSE asked.enabled]

Go(h, local) == request' = [request EXCEPT ![h] = local]

\* create_user: the name is looked up, then the row is inserted.
CheckFree(h) ==
  /\ request[h].pc = "free"
  /\ IF Named(request[h].asked.name) = 0
     THEN Go(h, [request[h] EXCEPT !.pc = "insert"])
     ELSE Go(h, Idle)
  /\ UNCHANGED <<users, sessions, file, clock, count, births, issued, ended>>

InsertUser(h) ==
  LET asked == request[h].asked
      new   == Insert(users, [name |-> asked.name, password |-> asked.password,
                              enabled |-> TRUE])
  IN  /\ request[h].pc = "insert"
      /\ users.last < MaxUser
      /\ users' = new
      /\ births' = [u \in DOMAIN births |->
                      IF u \in Ids(new) \ Ids(users) THEN births[u] + 1 ELSE births[u]]
      /\ IF asked.op = "register"
         THEN Go(h, [request[h] EXCEPT !.pc = "verify"])
         ELSE Go(h, Idle)
      /\ UNCHANGED <<sessions, file, clock, count, issued, ended>>

\* edit_user: get_by_id, get_by_username if there is a name, update.
ReadUser(h) ==
  LET me == request[h].me
      asked == request[h].asked
  IN  /\ request[h].pc = "read"
      /\ IF me \in Ids(users)
         THEN Go(h, At(IF asked.name = Nothing THEN "write" ELSE "name",
                       asked, me, Edited(users.rows[me], asked)))
         ELSE Go(h, Idle)
      /\ UNCHANGED <<users, sessions, file, clock, count, births, issued, ended>>

CheckName(h) ==
  /\ request[h].pc = "name"
  /\ IF Named(request[h].asked.name) \in {0, request[h].me}
     THEN Go(h, [request[h] EXCEPT !.pc = "write"])
     ELSE Go(h, Idle)
  /\ UNCHANGED <<users, sessions, file, clock, count, births, issued, ended>>

WriteUser(h) ==
  /\ request[h].pc = "write"
  /\ users' = Update(users, request[h].me, request[h].copy)
  /\ Go(h, Idle)
  /\ UNCHANGED <<sessions, file, clock, count, births, issued, ended>>

DeleteUser(h) ==
  /\ request[h].pc = "delete"
  /\ users' = Delete(users, request[h].me)
  /\ Go(h, Idle)
  /\ UNCHANGED <<sessions, file, clock, count, births, issued, ended>>

-----------------------------------------------------------------------------
(* Sessions *)

\* Mutant: the file is left as it was.
StoreMemoryOnly(map) == sessions' = map /\ UNCHANGED file

\* Every change of the dictionary is saved before the lock is released.
Store(map) == sessions' = map /\ file' = map

Expired(token) == sessions[token].expires <= clock

\* login_user: the user is verified, then looked up again in a listing.
Verify(h) ==
  LET asked == request[h].asked
  IN  /\ request[h].pc = "verify"
      /\ IF Verifies(asked.name, asked.password)
         THEN Go(h, [request[h] EXCEPT !.pc = "open"])
         ELSE Go(h, Idle)
      /\ UNCHANGED <<users, sessions, file, clock, count, births, issued, ended>>

\* create_session
Opened(u) == [user |-> u, birth |-> births[u], expires |-> clock + Ttl]

OpenSession(h) ==
  LET u == Named(request[h].asked.name)
  IN  /\ request[h].pc = "open"
      /\ NextToken <= MaxToken
      /\ IF u = 0
         THEN UNCHANGED <<sessions, file, issued>>
         ELSE /\ Store([t \in DOMAIN sessions \cup {NextToken} |->
                          IF t = NextToken THEN Opened(u) ELSE sessions[t]])
              /\ issued' = [t \in DOMAIN issued \cup {NextToken} |->
                              IF t = NextToken THEN Opened(u) ELSE issued[t]]
      /\ Go(h, Idle)
      /\ UNCHANGED <<users, clock, count, births, ended>>

\* delete_session
Logout(token) ==
  /\ IF token \in DOMAIN sessions
     THEN Store(Without(sessions, token))
     ELSE UNCHANGED <<sessions, file>>
  /\ ended' = ended \cup ({token} \cap DOMAIN issued)

\* get_session of a session that has expired: it is dropped.
Refuse(token) ==
  /\ Store(Without(sessions, token))
  /\ ended' = ended \cup {token}

\* What a request does once require_session has let it through.
FirstStep(op) ==
  CASE op = "create_user" -> "free"
    [] op = "edit_user"   -> "read"
    [] op = "delete_user" -> "delete"

Receive(h) ==
  /\ request[h] = Idle
  /\ count.requests < MaxRequests
  /\ \E asked \in Request :
      /\ count' = [count EXCEPT !.requests = @ + 1]
      /\ \/ /\ asked.op \in {"register", "login"}
            /\ Go(h, At(IF asked.op = "register" THEN "free" ELSE "verify",
                        asked, 0, Nothing))
            /\ UNCHANGED <<sessions, file, ended>>
         \/ /\ asked.op = "logout"
            /\ Logout(asked.token)
            /\ UNCHANGED request
         \/ /\ asked.op \notin {"register", "login", "logout"}
            /\ asked.token \in DOMAIN sessions
            /\ Expired(asked.token)
            /\ Refuse(asked.token)
            /\ UNCHANGED request
         \/ /\ asked.op \notin {"register", "login", "logout", "session"}
            /\ asked.token \in DOMAIN sessions
            /\ ~Expired(asked.token)
            /\ Go(h, At(FirstStep(asked.op), asked, sessions[asked.token].user, Nothing))
            /\ UNCHANGED <<sessions, file, ended>>
      /\ UNCHANGED <<users, clock, births, issued>>

-----------------------------------------------------------------------------
(* The process *)

\* _load_sessions: what has expired is not taken over, and the file is kept
\* until the next change.
Loaded == [t \in {u \in DOMAIN file : file[u].expires > clock} |-> file[t]]

Restart ==
  /\ count.crashes < MaxCrashes
  /\ count' = [count EXCEPT !.crashes = @ + 1]
  /\ sessions' = Loaded
  /\ request' = [h \in Handlers |-> Idle]
  /\ UNCHANGED <<users, file, clock, births, issued, ended>>

Tick ==
  /\ clock < MaxClock
  /\ clock' = clock + 1
  /\ UNCHANGED <<users, sessions, file, request, count, births, issued, ended>>

Init ==
  /\ users = EmptyTable
  /\ sessions = EmptyTable.rows
  /\ file = EmptyTable.rows
  /\ clock = 0
  /\ request = [h \in Handlers |-> Idle]
  /\ count = [requests |-> 0, crashes |-> 0]
  /\ births = [u \in 1 .. MaxUser |-> 0]
  /\ issued = EmptyTable.rows
  /\ ended = {}

Next ==
  \/ \E h \in Handlers :
       \/ Receive(h) \/ CheckFree(h) \/ InsertUser(h) \/ Verify(h) \/ OpenSession(h)
       \/ ReadUser(h) \/ CheckName(h) \/ WriteUser(h) \/ DeleteUser(h)
  \/ Restart
  \/ Tick

Spec == Init /\ [][Next]_accountVars

-----------------------------------------------------------------------------
(* Properties *)

IsSessionMap(map) ==
  /\ DOMAIN map \subseteq 1 .. MaxToken
  /\ \A t \in DOMAIN map : map[t] \in Session

\* The type of the tables, the sessions and the threads' locals.
TypeOK ==
  /\ IsTable(users, User, MaxUser)
  /\ IsSessionMap(sessions) /\ IsSessionMap(file) /\ IsSessionMap(issued)
  /\ clock \in 0 .. MaxClock
  /\ request \in [Handlers -> Local]
  /\ count \in [requests : 0 .. MaxRequests, crashes : 0 .. MaxCrashes]
  /\ births \in [1 .. MaxUser -> 0 .. MaxUser]
  /\ ended \subseteq DOMAIN issued

\* A session that was opened serves until it is logged out or has expired,
\* through restarts, and one that has ended serves nobody again: it is out of
\* the dictionary, and what the file still has of it has expired.
SessionsDurable ==
  /\ \A t \in DOMAIN issued \ ended : issued[t].expires > clock =>
       /\ t \in DOMAIN sessions /\ sessions[t] = issued[t]
       /\ t \in DOMAIN file /\ file[t] = issued[t]
  /\ \A t \in ended :
       /\ t \notin DOMAIN sessions
       /\ t \in DOMAIN file => file[t].expires <= clock

\* A session of a user who was deleted never becomes the session of another.
SessionsKeepTheirUser ==
  \A t \in DOMAIN sessions : sessions[t].birth = births[sessions[t].user]

=============================================================================
