---------------------------- MODULE AccessProofs ----------------------------
(***************************************************************************)
(* Sessions last, end and stay with their user; memberships stay with      *)
(* their group, and nobody sees half of one; only what is published is     *)
(* served, and only what is allowed is run; no deleted row comes back. For *)
(* any number of users, groups, agents, tools, requests and restarts.      *)
(***************************************************************************)
EXTENDS Access, SqliteStoreProofs, FiniteSetTheorems, TLAPS

LEMMA BoundsAre ==
  /\ MaxUser \in Nat /\ MaxUser # 0 /\ MaxGroup \in Nat /\ MaxGroup # 0
  /\ MaxMember \in Nat /\ MaxMember # 0 /\ MaxAgent \in Nat /\ MaxAgent # 0
  /\ MaxPrompt \in Nat /\ MaxPrompt # 0 /\ MaxTool \in Nat /\ MaxTool # 0
  /\ MaxToken \in Nat /\ MaxClock \in Nat /\ MaxRequests \in Nat
  /\ MaxCalls \in Nat /\ MaxCrashes \in Nat /\ MaxChanges \in Nat
BY BoundsAssumption

\* A count stays within its bounds.
LEMMA Counted ==
  ASSUME NEW count \in [requests : 0 .. MaxRequests, crashes : 0 .. MaxCrashes], NEW new,
         \/ new = count
         \/ count.requests < MaxRequests /\ new = [count EXCEPT !.requests = @ + 1]
         \/ count.crashes < MaxCrashes /\ new = [count EXCEPT !.crashes = @ + 1]
  PROVE  new \in [requests : 0 .. MaxRequests, crashes : 0 .. MaxCrashes]
<1>1. /\ count.requests < MaxRequests => count.requests + 1 \in 0 .. MaxRequests
      /\ count.crashes < MaxCrashes => count.crashes + 1 \in 0 .. MaxCrashes
  BY BoundsAre
<1> QED  BY <1>1

\* The calls of the store are the same for every table.
LEMMA AccountCalls ==
  /\ Account!EmptyTable = EmptyTable
  /\ \A table : Account!Ids(table) = Ids(table)
  /\ \A table, row : Account!Insert(table, row) = Insert(table, row)
  /\ \A table, id, row : Account!Update(table, id, row) = Update(table, id, row)
  /\ \A table, id : Account!Delete(table, id) = Delete(table, id)
  /\ \A table, Row, max : Account!IsTable(table, Row, max) <=> IsTable(table, Row, max)
  /\ \A S : Account!Cardinality(S) = Cardinality(S)
BY DEF Account!EmptyTable, Account!Ids, Account!Insert, Account!Update, Account!Delete,
       Account!IsTable, Account!Cardinality, EmptyTable, Ids, Insert, Update, Delete,
       IsTable, Cardinality

-----------------------------------------------------------------------------
(* Accounts: users and sessions *)

\* Every id that was handed out had one user.
UsersInv ==
  /\ Shaped(users)
  /\ users.last \in 0 .. MaxUser
  /\ userBirths = [u \in 1 .. MaxUser |-> IF u <= users.last THEN 1 ELSE 0]

\* Tokens are numbered, and a session was opened for a user that there was.
IssuedInv ==
  /\ IsFiniteSet(DOMAIN issued)
  /\ DOMAIN issued = 1 .. Cardinality(DOMAIN issued)
  /\ ended \subseteq DOMAIN issued
  /\ clock \in Nat
  /\ \A t \in DOMAIN issued :
       /\ issued[t].expires \in Nat
       /\ issued[t].user \in 1 .. users.last
       /\ issued[t].birth = userBirths[issued[t].user]

\* The dictionary and the file hold sessions as they were opened.
Holds(map) ==
  /\ DOMAIN map \subseteq DOMAIN issued
  /\ \A t \in DOMAIN map : map[t] = issued[t]

\* Only what has expired is in the file and not in the dictionary.
FileInv == \A t \in DOMAIN file \ DOMAIN sessions : issued[t].expires <= clock

AccountInv ==
  UsersInv /\ IssuedInv /\ Holds(sessions) /\ Holds(file) /\ FileInv /\ Account!SessionsDurable

\* A user who is found by name is in the table.
LEMMA NamedIsThere ==
  ASSUME UsersInv, NEW name
  PROVE  Account!Named(name) \in Ids(users) \cup {0}
<1> DEFINE found == {id \in Ids(users) : users.rows[id].name = name}
<1>1. Account!Named(name) = IF found = {} THEN 0
                            ELSE CHOOSE id \in found : \A other \in found : id <= other
  BY DEF Account!Named, Account!First, Account!Find, Account!Ids, Ids
<1>2. found \in SUBSET Nat
  BY DEF UsersInv, Shaped
<1>3. found # {} => \E m \in found : \A k \in found : m <= k
  BY <1>2, Least
<1> QED  BY <1>1, <1>3

LEMMA AccountInit == Account!Init => AccountInv
<1> SUFFICES ASSUME Account!Init PROVE AccountInv
  OBVIOUS
<1>0. /\ users = EmptyTable /\ userBirths = [u \in 1 .. MaxUser |-> 0]
      /\ MaxUser \in Nat
  BY AccountCalls, BoundsAre DEF Account!Init
<1>1. UsersInv
  <2>1. Shaped(users) /\ users.last = 0
    BY <1>0, EmptyShaped
  <2> QED  BY <1>0, <2>1 DEF UsersInv
<1>2. DOMAIN issued = {} /\ DOMAIN sessions = {} /\ DOMAIN file = {} /\ ended = {}
  BY DEF Account!Init, Account!EmptyTable
<1>3. IsFiniteSet({}) /\ Cardinality({}) = 0
  BY FS_EmptySet
<1> QED  BY <1>1, <1>2, <1>3
         DEF Account!Init, AccountInv, IssuedInv, Holds, FileInv, Account!SessionsDurable

\* Steps of threads that leave the sessions alone.
LEMMA SessionsAlone ==
  ASSUME AccountInv, UsersInv',
         UNCHANGED <<sessions, file, clock, issued, ended>>, users'.last >= users.last,
         \A u \in 1 .. users.last : userBirths'[u] = userBirths[u]
  PROVE  AccountInv'
<1>1. UsersInv /\ IssuedInv
  BY DEF AccountInv
<1>2. users.last \in Nat /\ users'.last \in Nat
  BY <1>1 DEF UsersInv
<1>3. IssuedInv'
  BY <1>1, <1>2 DEF IssuedInv
<1> QED  BY <1>3 DEF AccountInv, Holds, FileInv, Account!SessionsDurable

LEMMA InsertUserStep ==
  ASSUME AccountInv, NEW h \in Handlers, Account!InsertUser(h)
  PROVE  AccountInv'
<1>1. /\ users.last < MaxUser
      /\ userBirths' = [u \in DOMAIN userBirths |->
                          IF u \in Ids(users') \ Ids(users)
                          THEN userBirths[u] + 1 ELSE userBirths[u]]
      /\ UNCHANGED <<sessions, file, clock, issued, ended>>
  BY AccountCalls DEF Account!InsertUser
<1>2. PICK row : users' = Insert(users, row)
  BY AccountCalls DEF Account!InsertUser
<1>3. UsersInv /\ MaxUser \in Nat
  BY BoundsAre DEF AccountInv
<1>4. /\ Shaped(users') /\ users'.last = users.last + 1
      /\ Ids(users') = Ids(users) \cup {users.last + 1} /\ users.last + 1 \notin Ids(users)
  BY <1>2, <1>3, Inserted DEF UsersInv
<1>5. users.last \in Nat /\ users'.last \in 0 .. MaxUser
  BY <1>1, <1>3, <1>4 DEF UsersInv
<1>6. userBirths' = [u \in 1 .. MaxUser |-> IF u <= users'.last THEN 1 ELSE 0]
  <2>1. userBirths = [u \in 1 .. MaxUser |-> IF u <= users.last THEN 1 ELSE 0]
    BY <1>3 DEF UsersInv
  <2>2. \A u \in 1 .. MaxUser :
          /\ u \in Ids(users') \ Ids(users) <=> u = users.last + 1
          /\ u <= users'.last <=> u <= users.last \/ u = users.last + 1
    BY <1>4, <1>5
  <2>3. \A u \in 1 .. MaxUser : userBirths'[u] = IF u <= users'.last THEN 1 ELSE 0
    BY <1>1, <1>5, <2>1, <2>2
  <2>4. userBirths' = [u \in 1 .. MaxUser |-> userBirths'[u]]
    BY <1>1, <2>1
  <2> QED  BY <2>3, <2>4
<1>7. UsersInv'
  BY <1>4, <1>5, <1>6 DEF UsersInv, Shaped, Ids
<1>8. \A u \in 1 .. users.last : userBirths'[u] = userBirths[u]
  BY <1>3, <1>4, <1>5, <1>6 DEF UsersInv
<1> QED  BY <1>1, <1>4, <1>5, <1>7, <1>8, SessionsAlone

LEMMA UserRowSteps ==
  ASSUME AccountInv, NEW h \in Handlers,
         \/ Account!CheckFree(h) \/ Account!Verify(h) \/ Account!ReadUser(h) \/ Account!CheckName(h)
         \/ Account!WriteUser(h) \/ Account!DeleteUser(h)
  PROVE  AccountInv'
<1>1. UsersInv
  BY DEF AccountInv
<1>2. UNCHANGED <<sessions, file, clock, userBirths, issued, ended>>
  BY DEF Account!CheckFree, Account!Verify, Account!ReadUser,
         Account!CheckName, Account!WriteUser, Account!DeleteUser
<1>3. PICK id, row : users' \in {users, Update(users, id, row), Delete(users, id)}
  BY AccountCalls DEF Account!CheckFree, Account!Verify, Account!ReadUser,
         Account!CheckName, Account!WriteUser, Account!DeleteUser
<1>4. Shaped(users') /\ users'.last = users.last
  BY <1>1, <1>3, Updated, Deleted DEF UsersInv
<1>5. UsersInv'
  BY <1>1, <1>2, <1>4 DEF UsersInv, Shaped, Ids
<1>6. users.last \in Nat
  BY <1>1 DEF UsersInv
<1> QED  BY <1>2, <1>4, <1>5, <1>6, SessionsAlone

\* A session is opened under a token of its own.
LEMMA OpenSessionStep ==
  ASSUME AccountInv, NEW h \in Handlers, Account!OpenSession(h)
  PROVE  AccountInv'
<1> DEFINE u == Account!Named(accountRequest[h].asked.name)
           new == Account!NextToken
<1>0. UsersInv /\ IssuedInv /\ Holds(sessions) /\ Holds(file)
  BY DEF AccountInv
<1>1. UNCHANGED <<users, clock, userBirths, ended>>
  BY DEF Account!OpenSession
<1>2. CASE u = 0
  <2>1. UNCHANGED <<sessions, file, issued>>
    BY <1>2 DEF Account!OpenSession
  <2>2. UsersInv' /\ users.last \in Nat
    BY <1>0, <1>1 DEF UsersInv, Shaped, Ids
  <2> QED  BY <1>1, <2>1, <2>2, SessionsAlone
<1>3. CASE u # 0
  <2>1. /\ sessions' = [t \in DOMAIN sessions \cup {new} |->
                          IF t = new THEN Account!Opened(u) ELSE sessions[t]]
        /\ file' = sessions'
        /\ issued' = [t \in DOMAIN issued \cup {new} |->
                        IF t = new THEN Account!Opened(u) ELSE issued[t]]
    BY <1>3 DEF Account!OpenSession, Account!Store
  <2>2. u \in 1 .. users.last
    BY <1>0, <1>3, NamedIsThere DEF UsersInv, Shaped
  <2>3. Cardinality(DOMAIN issued) \in Nat /\ new \in Nat /\ new \notin DOMAIN issued
    <3>1. Cardinality(DOMAIN issued) \in Nat
      BY <1>0, FS_CardinalityType DEF IssuedInv
    <3> QED  BY <1>0, <3>1, AccountCalls DEF IssuedInv, Account!NextToken
  <2>4. DOMAIN issued' = 1 .. new
    BY <1>0, <2>1, <2>3, AccountCalls DEF IssuedInv, Account!NextToken
  <2>5. IsFiniteSet(1 .. new) /\ Cardinality(1 .. new) = new
    BY <2>3, FS_Interval DEF Account!NextToken
  <2>6. /\ Account!Opened(u).user = u /\ Account!Opened(u).birth = userBirths[u]
        /\ Account!Opened(u).expires = clock + Ttl /\ clock + Ttl \in Nat
    BY <1>0, TtlAssumption DEF Account!Opened, IssuedInv
  <2> HIDE DEF u, new
  <2>7. UsersInv'
    BY <1>0, <1>1 DEF UsersInv, Shaped, Ids
  <2>8. IssuedInv'
    <3>1. IsFiniteSet(DOMAIN issued') /\ DOMAIN issued' = 1 .. Cardinality(DOMAIN issued')
      BY <2>4, <2>5
    <3>2. ended' \subseteq DOMAIN issued' /\ clock' \in Nat
      BY <1>0, <1>1, <2>1 DEF IssuedInv
    <3>3. ASSUME NEW t \in DOMAIN issued'
          PROVE  /\ issued'[t].expires \in Nat
                 /\ issued'[t].user \in 1 .. users'.last
                 /\ issued'[t].birth = userBirths'[issued'[t].user]
      <4>1. CASE t = new
        BY <1>1, <2>1, <2>2, <2>6, <4>1
      <4>2. CASE t # new
        BY <1>0, <1>1, <2>1, <4>2 DEF IssuedInv
      <4> QED  BY <4>1, <4>2
    <3> QED  BY <3>1, <3>2, <3>3 DEF IssuedInv
  <2>9. Holds(sessions)' /\ Holds(file)'
    BY <1>0, <2>1 DEF Holds
  <2>10. FileInv'
    BY <2>1 DEF FileInv
  <2>11. Account!SessionsDurable'
    <3>1. \A t \in DOMAIN issued \ ended : issued[t].expires > clock =>
            t \in DOMAIN sessions /\ sessions[t] = issued[t]
      BY DEF AccountInv, Account!SessionsDurable
    <3>2. \A t \in ended : t \in DOMAIN issued /\ t # new /\ t \notin DOMAIN sessions
      BY <1>0, <2>3 DEF AccountInv, Account!SessionsDurable, IssuedInv
    <3> QED  BY <1>1, <2>1, <3>1, <3>2 DEF Account!SessionsDurable
  <2> QED  BY <2>7, <2>8, <2>9, <2>10, <2>11 DEF AccountInv
<1> QED  BY <1>2, <1>3

\* A session that ends leaves the dictionary, and the file with it.
LEMMA EndSessionStep ==
  ASSUME AccountInv, NEW token, Account!Store(Account!Without(sessions, token)),
         ended \subseteq ended', ended' \subseteq ended \cup {token},
         token \in DOMAIN issued => token \in ended',
         ended' \subseteq DOMAIN issued,
         UNCHANGED <<users, clock, userBirths, issued>>
  PROVE  AccountInv'
<1>1. /\ DOMAIN sessions' = DOMAIN sessions \ {token}
      /\ \A t \in DOMAIN sessions' : sessions'[t] = sessions[t]
      /\ file' = sessions'
  BY DEF Account!Store, Account!Without
<1>2. UsersInv' /\ IssuedInv'
  BY DEF AccountInv, UsersInv, IssuedInv, Shaped, Ids
<1>3. Holds(sessions)' /\ Holds(file)' /\ FileInv'
  BY <1>1 DEF AccountInv, Holds, FileInv
<1>4. Account!SessionsDurable'
  BY <1>1 DEF AccountInv, Account!SessionsDurable, Holds
<1> QED  BY <1>2, <1>3, <1>4 DEF AccountInv

LEMMA AccountReceiveStep ==
  ASSUME AccountInv, NEW h \in Handlers, Account!Receive(h)
  PROVE  AccountInv'
<1>0. UNCHANGED <<users, clock, userBirths, issued>>
  BY DEF Account!Receive
<1>1. PICK r \in Account!Request :
        \/ UNCHANGED <<sessions, file, ended>>
        \/ Account!Logout(r.token)
        \/ r.token \in DOMAIN sessions /\ Account!Refuse(r.token)
  BY DEF Account!Receive
<1> DEFINE token == r.token
<1>2. CASE UNCHANGED <<sessions, file, ended>>
  <2>1. UsersInv' /\ users.last \in Nat
    BY <1>0 DEF AccountInv, UsersInv, Shaped, Ids
  <2> QED  BY <1>0, <1>2, <2>1, SessionsAlone
<1>3. CASE Account!Logout(token)
  <2>1. CASE token \in DOMAIN sessions
    <3>1. Account!Store(Account!Without(sessions, token)) /\ ended' = ended \cup ({token} \cap DOMAIN issued)
      BY <1>3, <2>1 DEF Account!Logout
    <3>2. ended \subseteq DOMAIN issued
      BY DEF AccountInv, IssuedInv
    <3> QED  BY <1>0, <3>1, <3>2, EndSessionStep
  <2>2. CASE token \notin DOMAIN sessions
    <3>1. UNCHANGED <<sessions, file>> /\ ended' = ended \cup ({token} \cap DOMAIN issued)
      BY <1>3, <2>2 DEF Account!Logout
    <3>2. UsersInv' /\ IssuedInv' /\ Holds(sessions)' /\ Holds(file)' /\ FileInv'
      BY <1>0, <3>1 DEF AccountInv, UsersInv, IssuedInv, Holds, FileInv, Shaped, Ids
    <3>3. token \in DOMAIN file => file[token].expires <= clock
      BY <2>2 DEF AccountInv, FileInv, Holds
    <3>4. Account!SessionsDurable'
      BY <1>0, <2>2, <3>1, <3>3 DEF AccountInv, Account!SessionsDurable
    <3> QED  BY <3>2, <3>4 DEF AccountInv
  <2> QED  BY <2>1, <2>2
<1>4. CASE token \in DOMAIN sessions /\ Account!Refuse(token)
  <2>1. Account!Store(Account!Without(sessions, token)) /\ ended' = ended \cup {token}
    BY <1>4 DEF Account!Refuse
  <2>2. ended \subseteq DOMAIN issued /\ token \in DOMAIN issued
    BY <1>4 DEF AccountInv, IssuedInv, Holds
  <2> QED  BY <1>0, <2>1, <2>2, EndSessionStep
<1> QED  BY <1>1, <1>2, <1>3, <1>4

\* After a restart the dictionary is what of the file has not expired.
LEMMA AccountProcessSteps ==
  ASSUME AccountInv, Account!Restart \/ Account!Tick \/ UNCHANGED accountState
  PROVE  AccountInv'
<1>0. clock \in Nat /\ \A t \in DOMAIN issued : issued[t].expires \in Nat
  BY DEF AccountInv, IssuedInv
<1>1. CASE Account!Restart
  <2>1. /\ DOMAIN sessions' = {t \in DOMAIN file : file[t].expires > clock}
        /\ \A t \in DOMAIN sessions' : sessions'[t] = file[t]
        /\ UNCHANGED <<users, file, clock, userBirths, issued, ended>>
    BY <1>1 DEF Account!Restart, Account!Loaded
  <2>2. UsersInv' /\ IssuedInv' /\ Holds(sessions)' /\ Holds(file)'
    BY <2>1 DEF AccountInv, UsersInv, IssuedInv, Holds, Shaped, Ids
  <2>3. FileInv'
    BY <1>0, <2>1 DEF AccountInv, FileInv, Holds
  <2>4. Account!SessionsDurable'
    BY <1>0, <2>1 DEF AccountInv, Account!SessionsDurable, Holds
  <2> QED  BY <2>2, <2>3, <2>4 DEF AccountInv
<1>2. CASE Account!Tick
  <2>1. clock' = clock + 1 /\ UNCHANGED <<users, sessions, file, userBirths, issued, ended>>
    BY <1>2 DEF Account!Tick
  <2>2. UsersInv' /\ IssuedInv' /\ Holds(sessions)' /\ Holds(file)'
    BY <2>1 DEF AccountInv, UsersInv, IssuedInv, Holds, Shaped, Ids
  <2>3. FileInv'
    BY <1>0, <2>1 DEF AccountInv, FileInv, Holds
  <2>4. Account!SessionsDurable'
    BY <1>0, <2>1 DEF AccountInv, Account!SessionsDurable, Holds
  <2> QED  BY <2>2, <2>3, <2>4 DEF AccountInv
<1>3. CASE UNCHANGED accountState
  <2>1. UsersInv' /\ users.last \in Nat
    BY <1>3 DEF AccountInv, UsersInv, Shaped, Ids, accountState
  <2> QED  BY <1>3, <2>1, SessionsAlone DEF accountState
<1> QED  BY <1>1, <1>2, <1>3

LEMMA AccountStep == ASSUME AccountInv, [Account!Next]_accountState PROVE AccountInv'
BY InsertUserStep, UserRowSteps, OpenSessionStep, AccountReceiveStep, AccountProcessSteps DEF Account!Next


\* What the locals of a thread are at each stage of a request.
UserLocal(local) ==
  /\ local \in Account!Local
  /\ local.pc \in {"free", "insert"} => local.asked.op \in {"register", "create_user"}
  /\ local.pc \in {"verify", "open"} => local.asked.op \in {"register", "login"}
  /\ local.pc \in {"read", "name", "write"} => local.asked.op = "edit_user"
  /\ local.pc \in {"name", "write"} => local.copy \in Account!User

AccountTyped ==
  Account!TypeOK /\ \A h \in Handlers : UserLocal(accountRequest[h])

\* The requests by their operation.
LEMMA AskedUsers ==
  ASSUME NEW r \in Account!Request
  PROVE  /\ r.op \in {"register", "login", "create_user", "logout", "session",
                      "delete_user", "edit_user"}
         /\ r.op \in {"register", "login", "create_user"} =>
              r.name \in Names /\ r.password \in Passwords
         /\ r.op \in {"create_user", "logout", "session", "delete_user", "edit_user"} =>
              r.token \in 1 .. MaxToken
         /\ r.op = "edit_user" =>
              /\ r.name \in Names \cup {Nothing}
              /\ r.password \in Passwords \cup {Nothing}
              /\ r.enabled \in BOOLEAN \cup {Nothing}
BY DEF Account!Request

LEMMA IdleUser == UserLocal(Account!Idle)
BY DEF UserLocal, Account!Local, Account!Idle

\* A thread moves on, or ends.
LEMMA UserMoves ==
  ASSUME AccountTyped, NEW h \in Handlers, NEW local, UserLocal(local), Account!Go(h, local)
  PROVE  /\ accountRequest' \in [Handlers -> Account!Local]
         /\ \A k \in Handlers : UserLocal(accountRequest'[k])
<1>1. accountRequest \in [Handlers -> Account!Local] /\ local \in Account!Local
  BY DEF AccountTyped, Account!TypeOK, UserLocal
<1>2. accountRequest' = [accountRequest EXCEPT ![h] = local]
  BY DEF Account!Go
<1> QED  BY <1>1, <1>2 DEF AccountTyped

\* The locals of a thread at work, and the same at another stage.
LEMMA UserAtWork ==
  ASSUME AccountTyped, NEW h \in Handlers, accountRequest[h].pc # "idle"
  PROVE  /\ accountRequest[h].pc \in {"free", "insert", "verify", "open", "read", "name",
                                     "write", "delete"}
         /\ accountRequest[h].asked \in Account!Request
         /\ accountRequest[h].me \in 0 .. MaxUser
         /\ accountRequest[h] = Account!At(accountRequest[h].pc, accountRequest[h].asked,
                                          accountRequest[h].me, accountRequest[h].copy)
         /\ \A pc : [accountRequest[h] EXCEPT !.pc = pc] =
                     Account!At(pc, accountRequest[h].asked, accountRequest[h].me,
                                accountRequest[h].copy)
<1>1. accountRequest[h] \in Account!Local /\ accountRequest[h] # Account!Idle
  BY DEF AccountTyped, UserLocal, Account!Idle
<1> QED  BY <1>1 DEF Account!Local, Account!At

\* With the invariant, the types that are left to show are few.
LEMMA AccountTypedRest ==
  ASSUME AccountInv',
         IsTable(users', Account!User, MaxUser), Account!IsSessionMap(issued)',
         clock' \in 0 .. MaxClock,
         accountCount' \in [requests : 0 .. MaxRequests, crashes : 0 .. MaxCrashes],
         accountRequest' \in [Handlers -> Account!Local],
         \A h \in Handlers : UserLocal(accountRequest'[h])
  PROVE  AccountTyped'
<1>1. Account!IsTable(users', Account!User, MaxUser)
  BY AccountCalls
<1>2. Account!IsSessionMap(sessions)' /\ Account!IsSessionMap(file)'
  BY DEF AccountInv, Holds, Account!IsSessionMap
<1>3. userBirths' \in [1 .. MaxUser -> 0 .. MaxUser]
  <2>1. userBirths' = [u \in 1 .. MaxUser |-> IF u <= users'.last THEN 1 ELSE 0]
    BY DEF AccountInv, UsersInv
  <2> QED  BY <2>1, BoundsAre
<1>4. ended' \subseteq DOMAIN issued'
  BY DEF AccountInv, IssuedInv
<1> QED  BY <1>1, <1>2, <1>3, <1>4 DEF AccountTyped, Account!TypeOK

LEMMA AccountTypedInit == Account!Init => AccountTyped
<1> SUFFICES ASSUME Account!Init PROVE AccountTyped
  OBVIOUS
<1>1. users = EmptyTable /\ users.last = 0 /\ Ids(users) = {}
  BY AccountCalls, EmptyShaped DEF Account!Init
<1>2. Account!IsTable(users, Account!User, MaxUser)
  BY <1>1, AccountCalls, BoundsAre DEF IsTable
<1>3. /\ DOMAIN sessions = {} /\ DOMAIN file = {} /\ DOMAIN issued = {} /\ ended = {}
      /\ clock \in 0 .. MaxClock
      /\ accountCount \in [requests : 0 .. MaxRequests, crashes : 0 .. MaxCrashes]
      /\ userBirths \in [1 .. MaxUser -> 0 .. MaxUser]
  BY BoundsAre DEF Account!Init, Account!EmptyTable
<1>4. accountRequest \in [Handlers -> Account!Local]
      /\ \A h \in Handlers : UserLocal(accountRequest[h])
  BY IdleUser DEF Account!Init, UserLocal
<1> QED  BY <1>2, <1>3, <1>4 DEF AccountTyped, Account!TypeOK, Account!IsSessionMap

\* Steps that read, write or delete a user.
LEMMA UserStepsTyped ==
  ASSUME AccountInv, AccountTyped, AccountInv', NEW h \in Handlers,
         \/ Account!CheckFree(h) \/ Account!InsertUser(h) \/ Account!Verify(h)
         \/ Account!ReadUser(h) \/ Account!CheckName(h) \/ Account!WriteUser(h)
         \/ Account!DeleteUser(h)
  PROVE  AccountTyped'
<1> DEFINE here == accountRequest[h]
           Moves(local) == Account!Go(h, local) /\ UserLocal(local)
<1>1. UNCHANGED <<issued, clock, accountCount>>
  BY DEF Account!CheckFree, Account!InsertUser, Account!Verify, Account!ReadUser,
         Account!CheckName, Account!WriteUser, Account!DeleteUser
<1>2. here.pc # "idle" /\ UserLocal(here)
  BY DEF Account!CheckFree, Account!InsertUser, Account!Verify, Account!ReadUser,
         Account!CheckName, Account!WriteUser, Account!DeleteUser, AccountTyped
<1>3. /\ here.asked \in Account!Request /\ here.me \in 0 .. MaxUser
      /\ here = Account!At(here.pc, here.asked, here.me, here.copy)
      /\ \A pc : [here EXCEPT !.pc = pc] = Account!At(pc, here.asked, here.me, here.copy)
  BY <1>2, UserAtWork
<1>4. here \in Account!Local /\ here.copy \in Account!User \cup {Nothing}
  BY <1>2 DEF UserLocal, Account!Local, Account!Idle
<1>5. /\ Shaped(users) /\ IsTable(users, Account!User, MaxUser) /\ MaxUser \in Nat
      /\ \A u \in Ids(users) : users.rows[u] \in Account!User
  BY AccountCalls, BoundsAre
     DEF AccountInv, UsersInv, AccountTyped, Account!TypeOK, IsTable
<1>6. ASSUME NEW pc \in {"free", "insert", "verify", "open", "read", "name", "write", "delete"},
             NEW copy \in Account!User \cup {Nothing},
             pc \in {"free", "insert"} => here.asked.op \in {"register", "create_user"},
             pc \in {"verify", "open"} => here.asked.op \in {"register", "login"},
             pc \in {"read", "name", "write"} => here.asked.op = "edit_user",
             pc \in {"name", "write"} => copy \in Account!User
      PROVE  UserLocal(Account!At(pc, here.asked, here.me, copy))
  BY <1>3, <1>6 DEF UserLocal, Account!Local, Account!At
<1>7. UserLocal(Account!Idle)
  BY IdleUser
<1>8. \E local : Account!Go(h, local) /\ UserLocal(local)
  <2>1. CASE Account!CheckFree(h)
    <3>1. UserLocal(Account!At("insert", here.asked, here.me, here.copy))
      BY <1>2, <1>4, <1>6, <2>1 DEF Account!CheckFree, UserLocal
    <3> QED  BY <1>3, <1>7, <2>1, <3>1 DEF Account!CheckFree
  <2>2. CASE Account!InsertUser(h)
    <3>1. here.asked.op = "register" =>
            UserLocal(Account!At("verify", here.asked, here.me, here.copy))
      BY <1>4, <1>6
    <3> QED  BY <1>3, <1>7, <2>2, <3>1 DEF Account!InsertUser
  <2>3. CASE Account!Verify(h)
    <3>1. here.asked.op \in {"register", "login"}
      BY <1>2, <2>3 DEF Account!Verify, UserLocal
    <3>2. UserLocal(Account!At("open", here.asked, here.me, here.copy))
      BY <1>4, <1>6, <3>1
    <3> QED  BY <1>3, <1>7, <2>3, <3>2 DEF Account!Verify
  <2>4. CASE Account!ReadUser(h)
    <3> DEFINE copy == Account!Edited(users.rows[here.me], here.asked)
    <3>1. ASSUME here.me \in Ids(users)
          PROVE  \A pc \in {"name", "write"} :
                   UserLocal(Account!At(pc, here.asked, here.me, copy))
      <4>1. here.asked.op = "edit_user"
        BY <1>2, <2>4 DEF Account!ReadUser, UserLocal
      <4>2. users.rows[here.me] \in Account!User
        BY <1>5, <3>1
      <4>3. copy \in Account!User
        BY <1>3, <4>1, <4>2, AskedUsers DEF Account!Edited, Account!User
      <4> HIDE DEF copy
      <4> QED  BY <1>6, <4>1, <4>3
    <3>2. \/ /\ here.me \in Ids(users)
             /\ \E pc \in {"name", "write"} :
                  Account!Go(h, Account!At(pc, here.asked, here.me, copy))
          \/ Account!Go(h, Account!Idle)
      BY <2>4, AccountCalls DEF Account!ReadUser
    <3> HIDE DEF copy
    <3> QED  BY <1>7, <3>1, <3>2
  <2>5. CASE Account!CheckName(h)
    <3>1. UserLocal(Account!At("write", here.asked, here.me, here.copy))
      BY <1>2, <1>4, <1>6, <2>5 DEF Account!CheckName, UserLocal
    <3> QED  BY <1>3, <1>7, <2>5, <3>1 DEF Account!CheckName
  <2>6. CASE Account!WriteUser(h) \/ Account!DeleteUser(h)
    BY <1>7, <2>6 DEF Account!WriteUser, Account!DeleteUser
  <2> QED  BY <2>1, <2>2, <2>3, <2>4, <2>5, <2>6
<1>9. IsTable(users', Account!User, MaxUser)
  <2>1. CASE users' = users
    BY <1>5, <2>1
  <2>2. CASE Account!InsertUser(h)
    <3> DEFINE row == [name |-> here.asked.name, password |-> here.asked.password,
                       enabled |-> TRUE]
    <3>1. users.last < MaxUser /\ users' = Insert(users, row)
      BY <2>2, AccountCalls DEF Account!InsertUser
    <3>2. here.asked.op \in {"register", "create_user"}
      BY <1>2, <2>2 DEF Account!InsertUser, UserLocal
    <3>3. row \in Account!User
      BY <1>3, <3>2, AskedUsers DEF Account!User
    <3> HIDE DEF row
    <3> QED  BY <1>5, <3>1, <3>3, TableKept
  <2>3. CASE Account!WriteUser(h)
    <3>1. users' = Update(users, here.me, here.copy) /\ here.copy \in Account!User
      BY <1>2, <2>3, AccountCalls DEF Account!WriteUser, UserLocal
    <3> QED  BY <1>5, <3>1, TableKept
  <2>4. CASE Account!DeleteUser(h)
    <3>1. users' = Delete(users, here.me)
      BY <2>4, AccountCalls DEF Account!DeleteUser
    <3> QED  BY <1>5, <3>1, TableLeft
  <2> QED  BY <2>1, <2>2, <2>3, <2>4
           DEF Account!CheckFree, Account!Verify, Account!ReadUser, Account!CheckName
<1>10. /\ accountRequest' \in [Handlers -> Account!Local]
       /\ \A k \in Handlers : UserLocal(accountRequest'[k])
  BY <1>8, UserMoves
<1>11. /\ Account!IsSessionMap(issued)' /\ clock' \in 0 .. MaxClock
       /\ accountCount' \in [requests : 0 .. MaxRequests, crashes : 0 .. MaxCrashes]
  BY <1>1 DEF AccountTyped, Account!TypeOK, Account!IsSessionMap
<1> QED  BY <1>9, <1>10, <1>11, AccountTypedRest

\* What a thread opens is a session of a user there was.
LEMMA OpenSessionTyped ==
  ASSUME AccountInv, AccountTyped, AccountInv', NEW h \in Handlers, Account!OpenSession(h)
  PROVE  AccountTyped'
<1> DEFINE u == Account!Named(accountRequest[h].asked.name)
           new == Account!NextToken
<1>1. /\ UNCHANGED <<users, clock, accountCount>> /\ Account!Go(h, Account!Idle)
      /\ new <= MaxToken
  BY DEF Account!OpenSession
<1>2. /\ IsTable(users', Account!User, MaxUser) /\ clock' \in 0 .. MaxClock
      /\ accountCount' \in [requests : 0 .. MaxRequests, crashes : 0 .. MaxCrashes]
  BY <1>1, AccountCalls DEF AccountTyped, Account!TypeOK
<1>3. /\ accountRequest' \in [Handlers -> Account!Local]
      /\ \A k \in Handlers : UserLocal(accountRequest'[k])
  BY <1>1, IdleUser, UserMoves
<1>4. Account!IsSessionMap(issued)'
  <2>1. CASE u = 0
    <3>1. issued' = issued
      BY <2>1 DEF Account!OpenSession
    <3> QED  BY <3>1 DEF AccountTyped, Account!TypeOK, Account!IsSessionMap
  <2>2. CASE u # 0
    <3>1. issued' = [t \in DOMAIN issued \cup {new} |->
                       IF t = new THEN Account!Opened(u) ELSE issued[t]]
      BY <2>2 DEF Account!OpenSession
    <3>2. u \in 1 .. users.last /\ users.last \in 0 .. MaxUser /\ MaxUser \in Nat
      BY <2>2, NamedIsThere, BoundsAre DEF AccountInv, UsersInv, Shaped
    <3>3. userBirths[u] = 1
      BY <3>2 DEF AccountInv, UsersInv
    <3>4. Account!Opened(u) \in Account!Session
      <4>1. u \in 1 .. MaxUser /\ userBirths[u] \in 1 .. MaxUser
        BY <3>2, <3>3
      <4>2. clock + Ttl \in 1 .. MaxClock + Ttl
        BY BoundsAre, TtlAssumption DEF AccountTyped, Account!TypeOK
      <4> HIDE DEF u
      <4> QED  BY <4>1, <4>2 DEF Account!Opened, Account!Session
    <3>5. new \in 1 .. MaxToken
      <4>1. Cardinality(DOMAIN issued) \in Nat /\ new = Cardinality(DOMAIN issued) + 1
        BY FS_CardinalityType, AccountCalls DEF AccountInv, IssuedInv, Account!NextToken
      <4> QED  BY <1>1, <4>1, BoundsAre
    <3>6. Account!IsSessionMap(issued)
      BY DEF AccountTyped, Account!TypeOK
    <3> HIDE DEF u, new
    <3> QED  BY <3>1, <3>4, <3>5, <3>6 DEF Account!IsSessionMap
  <2> QED  BY <2>1, <2>2
<1> QED  BY <1>2, <1>3, <1>4, AccountTypedRest

LEMMA AccountReceiveTyped ==
  ASSUME AccountInv, AccountTyped, AccountInv', NEW h \in Handlers, Account!Receive(h)
  PROVE  AccountTyped'
<1>1. /\ UNCHANGED <<users, clock, issued>>
      /\ accountCount' = [accountCount EXCEPT !.requests = @ + 1]
      /\ accountCount.requests < MaxRequests
  BY DEF Account!Receive
<1>2. /\ IsTable(users', Account!User, MaxUser) /\ clock' \in 0 .. MaxClock
      /\ Account!IsSessionMap(issued)'
  BY <1>1, AccountCalls DEF AccountTyped, Account!TypeOK, Account!IsSessionMap
<1>3. accountCount' \in [requests : 0 .. MaxRequests, crashes : 0 .. MaxCrashes]
  BY <1>1, Counted DEF AccountTyped, Account!TypeOK
<1>4. /\ accountRequest' \in [Handlers -> Account!Local]
      /\ \A k \in Handlers : UserLocal(accountRequest'[k])
  <2>1. PICK r \in Account!Request :
          \/ /\ r.op \in {"register", "login"}
             /\ Account!Go(h, Account!At(IF r.op = "register" THEN "free" ELSE "verify",
                                        r, 0, Nothing))
          \/ UNCHANGED accountRequest
          \/ /\ r.op \notin {"register", "login", "logout", "session"}
             /\ r.token \in DOMAIN sessions
             /\ Account!Go(h, Account!At(Account!FirstStep(r.op), r,
                                        sessions[r.token].user, Nothing))
    BY DEF Account!Receive
  <2>2. CASE UNCHANGED accountRequest
    BY <2>2 DEF AccountTyped, Account!TypeOK
  <2>3. ASSUME r.op \in {"register", "login"}
        PROVE  UserLocal(Account!At(IF r.op = "register" THEN "free" ELSE "verify",
                                    r, 0, Nothing))
    BY <2>3, BoundsAre DEF UserLocal, Account!Local, Account!At
  <2>4. ASSUME r.op \notin {"register", "login", "logout", "session"},
               r.token \in DOMAIN sessions
        PROVE  UserLocal(Account!At(Account!FirstStep(r.op), r,
                                    sessions[r.token].user, Nothing))
    <3>1. r.op \in {"create_user", "edit_user", "delete_user"}
      BY <2>4, AskedUsers
    <3>2. sessions[r.token].user \in 0 .. MaxUser
      <4>1. sessions[r.token] \in Account!Session
        BY <2>4 DEF AccountTyped, Account!TypeOK, Account!IsSessionMap
      <4> QED  BY <4>1, BoundsAre DEF Account!Session
    <3> QED  BY <3>1, <3>2 DEF UserLocal, Account!Local, Account!At, Account!FirstStep
  <2> QED  BY <2>1, <2>2, <2>3, <2>4, UserMoves
<1> QED  BY <1>2, <1>3, <1>4, AccountTypedRest

LEMMA AccountProcessTyped ==
  ASSUME AccountInv, AccountTyped, AccountInv',
         Account!Restart \/ Account!Tick \/ UNCHANGED accountState
  PROVE  AccountTyped'
<1>1. UNCHANGED <<users, issued>>
  BY DEF Account!Restart, Account!Tick, accountState
<1>2. IsTable(users', Account!User, MaxUser) /\ Account!IsSessionMap(issued)'
  BY <1>1, AccountCalls DEF AccountTyped, Account!TypeOK, Account!IsSessionMap
<1>3. clock' \in 0 .. MaxClock
  <2>1. clock \in 0 .. MaxClock
    BY DEF AccountTyped, Account!TypeOK
  <2>2. clock' = clock \/ (clock < MaxClock /\ clock' = clock + 1)
    BY DEF Account!Restart, Account!Tick, accountState
  <2> QED  BY <2>1, <2>2, BoundsAre
<1>4. accountCount' \in [requests : 0 .. MaxRequests, crashes : 0 .. MaxCrashes]
  <2>1. \/ accountCount' = accountCount
        \/ /\ accountCount.crashes < MaxCrashes
           /\ accountCount' = [accountCount EXCEPT !.crashes = @ + 1]
    BY DEF Account!Restart, Account!Tick, accountState
  <2>2. accountCount \in [requests : 0 .. MaxRequests, crashes : 0 .. MaxCrashes]
    BY DEF AccountTyped, Account!TypeOK
  <2> QED  BY <2>1, <2>2, Counted
<1>5. /\ accountRequest' \in [Handlers -> Account!Local]
      /\ \A k \in Handlers : UserLocal(accountRequest'[k])
  BY IdleUser DEF Account!Restart, Account!Tick, accountState, AccountTyped,
                  Account!TypeOK, UserLocal
<1> QED  BY <1>2, <1>3, <1>4, <1>5, AccountTypedRest

LEMMA AccountTypedStep ==
  ASSUME AccountInv, AccountTyped, [Account!Next]_accountState
  PROVE  AccountTyped'
BY AccountStep, UserStepsTyped, OpenSessionTyped, AccountReceiveTyped, AccountProcessTyped
   DEF Account!Next

-----------------------------------------------------------------------------
(* Groups: creations, memberships, crashes *)

LEMMA GroupCalls ==
  /\ Group!EmptyTable = EmptyTable
  /\ \A table : Group!Ids(table) = Ids(table)
  /\ \A table, row : Group!Insert(table, row) = Insert(table, row)
  /\ \A table, id, row : Group!Update(table, id, row) = Update(table, id, row)
  /\ \A table, id : Group!Delete(table, id) = Delete(table, id)
  /\ \A table, Row, max : Group!IsTable(table, Row, max) <=> IsTable(table, Row, max)
BY DEF Group!EmptyTable, Group!Ids, Group!Insert, Group!Update, Group!Delete,
       Group!IsTable, EmptyTable, Ids, Insert, Update, Delete, IsTable

\* The stages of a creation, and those of them at which the group is there.
Creating == {"free", "insert", "root", "owner"}
Making   == {"root", "owner"}

\* What the locals of a thread are at each stage of a request.
GroupLocal(local) ==
  /\ local \in Group!Local
  /\ local.pc \in Creating => local.asked.op = "create"
  /\ local.pc \in {"edit", "name", "write"} => local.asked.op = "edit"
  /\ local.pc = "delete" => local.asked.op = "delete"
  /\ local.pc \in {"find", "look", "renew", "join"} => local.asked.op = "add"
  /\ local.pc = "view" => local.asked.op = "viewSwitch"
  /\ local.pc \in {"switch", "save"} => local.asked.op \in {"switch", "viewSwitch"}
  /\ local.pc \in Making => local.id \in Group!GroupId /\ local.copy \in Group!Group
  /\ local.pc \in {"name", "write"} =>
       local.id = local.asked.group /\ local.copy \in Group!Group
  /\ local.pc = "name" => local.asked.name \in Names
  /\ local.pc \in {"renew", "save"} => local.copy \in Group!Membership

GroupLocals == {groupRequest[h] : h \in Handlers}

GroupTyped == Group!TypeOK /\ \A local \in GroupLocals : GroupLocal(local)

\* Every id that was handed out had one group, and memberships are of groups
\* that there were.
GroupTables ==
  /\ Shaped(groups) /\ Shaped(members)
  /\ groups.last \in 0 .. MaxGroup
  /\ groupBirths = [g \in 1 .. MaxGroup |-> IF g <= groups.last THEN 1 ELSE 0]
  /\ cut \subseteq 1 .. groups.last
  /\ \A m \in Ids(members) :
       members.rows[m].group \in 1 .. groups.last /\ members.rows[m].birth = 1

\* Somebody is a member of the group, by an enabled membership or not.
Joined(group) == \E m \in Ids(members) : members.rows[m].group = group

\* What no change of a membership touches.
SameMember(row, other) ==
  /\ row.group = other.group /\ row.birth = other.birth
  /\ row.kind = other.kind /\ row.who = other.who

\* A creation goes by the id it was given, for the user who asked for it.
Begun(local) ==
  local.pc \in Making =>
    /\ local.id \in 1 .. groups.last /\ local.id \notin cut
    /\ local.copy.creator = local.asked.me
    /\ local.id \in Ids(groups) =>
         /\ groups.rows[local.id].creator = local.asked.me
         /\ local.pc = "owner" => groups.rows[local.id].rooted

\* An edit writes back the creator it read, which is the row's.
Editing(local) ==
  local.pc \in {"name", "write"} /\ local.id \in Ids(groups) =>
    local.copy.creator = groups.rows[local.id].creator

\* A copy of a membership is of the membership it will be written to.
Switching(local) ==
  local.pc \in {"renew", "save"} =>
    local.id \in Ids(members) /\ SameMember(local.copy, members.rows[local.id])

\* All but a creation is asked by an owner, so the group has a member.
Entitled(local) == local.pc \notin Creating \cup {"idle"} => Joined(local.asked.group)

GroupThreads ==
  \A local \in GroupLocals :
    Begun(local) /\ Editing(local) /\ Switching(local) /\ Entitled(local)

\* Two creations make two groups.
Apart ==
  \A h, k \in Handlers :
    h # k /\ groupRequest[h].pc \in Making /\ groupRequest[k].pc \in Making =>
      groupRequest[h].id # groupRequest[k].id

BeingMade(group) == \E local \in GroupLocals : local.pc \in Making /\ local.id = group

\* It has its root, and its creator was made a member.
Whole(group) ==
  /\ groups.rows[group].rooted
  /\ \E m \in Ids(members) :
       /\ members.rows[m].group = group /\ members.rows[m].kind = "user"
       /\ members.rows[m].who = groups.rows[group].creator

\* A group that is being made, or never will be, has no member.
Unjoined == \A g \in 1 .. groups.last : BeingMade(g) \/ g \in cut => ~Joined(g)

AllWhole == \A g \in Ids(groups) : BeingMade(g) \/ g \in cut \/ Whole(g)

GroupInv == GroupTables /\ GroupThreads /\ Apart /\ Unjoined /\ AllWhole

\* The requests by their operation.
LEMMA AskedGroups ==
  ASSUME NEW r \in Group!Request
  PROVE  /\ r.op \in {"create", "edit", "delete", "add", "switch", "viewSwitch"}
         /\ r.me \in People
         /\ r.op # "create" => r.group \in Group!GroupId
         /\ r.op = "create" => r.name \in Names /\ r.rooted \in BOOLEAN
         /\ r.op = "edit" => r.name \in Names \cup {Nothing}
         /\ r.op = "add" => /\ r.role \in Group!Roles
                            /\ \/ r.kind = "user" /\ r.who \in People
                               \/ r.kind = "agent" /\ r.who \in Robots
         /\ r.op \in {"switch", "viewSwitch"} =>
              r.member \in 1 .. MaxMember /\ r.enabled \in BOOLEAN
BY DEF Group!Request

LEMMA IdleGroup ==
  /\ GroupLocal(Group!Idle)
  /\ Begun(Group!Idle) /\ Editing(Group!Idle) /\ Switching(Group!Idle) /\ Entitled(Group!Idle)
BY DEF GroupLocal, Group!Local, Group!Idle, Creating, Making, Begun, Editing, Switching, Entitled

\* The locals of a thread at work.
LEMMA GroupAtWork ==
  ASSUME NEW local, GroupLocal(local), local.pc # "idle"
  PROVE  /\ local.pc \in Group!Stages
         /\ local.asked \in Group!Request
         /\ local.id \in 0 .. MaxGroup + MaxMember
         /\ local.copy \in Group!Group \cup Group!Membership \cup {Nothing}
         /\ local = [pc |-> local.pc, asked |-> local.asked, id |-> local.id,
                     copy |-> local.copy]
<1>1. local \in Group!Local /\ local # Group!Idle
  BY DEF GroupLocal, Group!Idle
<1> QED  BY <1>1 DEF Group!Local

\* A thread moves on, or ends, and the others stay where they are.
LEMMA GroupMoves ==
  ASSUME GroupTyped, NEW h \in Handlers, NEW local, GroupLocal(local), Group!Go(h, local)
  PROVE  /\ groupRequest' \in [Handlers -> Group!Local]
         /\ groupRequest'[h] = local
         /\ \A k \in Handlers : k # h => groupRequest'[k] = groupRequest[k]
         /\ GroupLocals' \subseteq GroupLocals \cup {local}
         /\ \A other \in GroupLocals' : GroupLocal(other)
<1>1. groupRequest \in [Handlers -> Group!Local] /\ local \in Group!Local
  BY DEF GroupTyped, Group!TypeOK, GroupLocal
<1>2. groupRequest' = [groupRequest EXCEPT ![h] = local]
  BY DEF Group!Go
<1>3. /\ groupRequest' \in [Handlers -> Group!Local]
      /\ groupRequest'[h] = local
      /\ \A k \in Handlers : k # h => groupRequest'[k] = groupRequest[k]
  BY <1>1, <1>2
<1>4. GroupLocals' \subseteq GroupLocals \cup {local}
  BY <1>3 DEF GroupLocals
<1> QED  BY <1>3, <1>4 DEF GroupTyped

\* What every step leaves: memberships stay and stay whose they are, a group
\* keeps its creator and its root, and no id comes back.
GroupsPersist ==
  /\ Shaped(groups)' /\ Shaped(members)'
  /\ groups'.last >= groups.last
  /\ \A g \in Ids(groups)' : g \in Ids(groups) \/ g > groups.last
  /\ \A g \in Ids(groups)' : g \in Ids(groups) =>
       /\ groups'.rows[g].creator = groups.rows[g].creator
       /\ groups.rows[g].rooted => groups'.rows[g].rooted
  /\ \A m \in Ids(members) :
       m \in Ids(members)' /\ SameMember(members'.rows[m], members.rows[m])

\* So what a thread knows is still true while others work.
LEMMA ThreadKept ==
  ASSUME GroupInv, GroupsPersist, cut' = cut, NEW local, GroupLocal(local),
         Begun(local), Editing(local), Switching(local), Entitled(local)
  PROVE  Begun(local)' /\ Editing(local)' /\ Switching(local)' /\ Entitled(local)'
<1>1. groups.last \in Nat /\ groups'.last \in Nat /\ groups'.last >= groups.last
  BY DEF GroupInv, GroupTables, GroupsPersist, Shaped
<1>2. Begun(local)'
  BY <1>1 DEF Begun, GroupsPersist
<1>3. Editing(local)'
  <2>1. ASSUME local.pc \in {"name", "write"}, local.id \in Ids(groups)'
        PROVE  local.copy.creator = groups'.rows[local.id].creator
    <3>1. local.id = local.asked.group /\ Joined(local.asked.group)
      BY <2>1 DEF GroupLocal, Entitled, Creating
    <3>2. local.id \in 1 .. groups.last
      BY <3>1 DEF GroupInv, GroupTables, Joined
    <3>3. local.id \in Ids(groups)
      BY <1>1, <2>1, <3>2 DEF GroupsPersist
    <3> QED  BY <2>1, <3>3 DEF Editing, GroupsPersist
  <2> QED  BY <2>1 DEF Editing
<1>4. Switching(local)'
  BY DEF Switching, GroupsPersist, SameMember
<1>5. Entitled(local)'
  BY DEF Entitled, Joined, GroupsPersist, SameMember
<1> QED  BY <1>2, <1>3, <1>4, <1>5

Knows(local) == Begun(local) /\ Editing(local) /\ Switching(local) /\ Entitled(local)

\* A step of one thread that makes or ends no creation.
LEMMA ThreadsKept ==
  ASSUME GroupTyped, GroupInv, GroupsPersist, cut' = cut,
         NEW h \in Handlers, NEW local, GroupLocal(local), Group!Go(h, local), Knows(local)'
  PROVE  GroupThreads'
<1>1. /\ GroupLocals' \subseteq GroupLocals \cup {local}
      /\ \A other \in GroupLocals' : GroupLocal(other)
  BY GroupMoves
<1>2. ASSUME NEW other \in GroupLocals'
      PROVE  Begun(other)' /\ Editing(other)' /\ Switching(other)' /\ Entitled(other)'
  <2>1. CASE other = local
    BY <2>1 DEF Knows, Begun, Editing, Switching, Entitled
  <2>2. CASE other \in GroupLocals
    BY <1>1, <2>2, ThreadKept DEF GroupInv, GroupThreads
  <2> QED  BY <1>1, <2>1, <2>2
<1> QED  BY <1>2 DEF GroupThreads

LEMMA MakingKept ==
  ASSUME GroupTyped, GroupInv, NEW h \in Handlers, NEW local,
         GroupLocal(local), Group!Go(h, local),
         local.pc \in Making <=> groupRequest[h].pc \in Making,
         local.pc \in Making => local.id = groupRequest[h].id
  PROVE  Apart' /\ \A g : BeingMade(g)' <=> BeingMade(g)
<1>1. /\ groupRequest'[h] = local
      /\ \A k \in Handlers : k # h => groupRequest'[k] = groupRequest[k]
  BY GroupMoves
<1>2. Apart'
  BY <1>1 DEF GroupInv, Apart
<1>3. \A g : BeingMade(g)' <=> BeingMade(g)
  <2>1. \A g : BeingMade(g) <=> \E k \in Handlers : groupRequest[k].pc \in Making
                                                  /\ groupRequest[k].id = g
    BY DEF BeingMade, GroupLocals
  <2>2. \A g : BeingMade(g)' <=> \E k \in Handlers : groupRequest'[k].pc \in Making
                                                   /\ groupRequest'[k].id = g
    BY DEF BeingMade, GroupLocals
  <2> QED  BY <1>1, <2>1, <2>2
<1> QED  BY <1>2, <1>3

\* What a group that is not being made now has, it keeps.
LEMMA WholeKept ==
  ASSUME GroupInv, GroupsPersist, NEW g \in Ids(groups)', g \in Ids(groups), Whole(g)
  PROVE  Whole(g)'
<1>1. PICK m \in Ids(members) :
        /\ members.rows[m].group = g /\ members.rows[m].kind = "user"
        /\ members.rows[m].who = groups.rows[g].creator
  BY DEF Whole
<1>2. m \in Ids(members)' /\ SameMember(members'.rows[m], members.rows[m])
  BY DEF GroupsPersist
<1>3. groups'.rows[g].creator = groups.rows[g].creator /\ groups'.rows[g].rooted
  BY DEF GroupsPersist, Whole
<1> QED  BY <1>1, <1>2, <1>3 DEF Whole, SameMember

LEMMA NoneMade ==
  ASSUME GroupInv, GroupsPersist, cut' = cut, groups'.last = groups.last,
         \A g : BeingMade(g)' <=> BeingMade(g), \A g : Joined(g)' => Joined(g)
  PROVE  Unjoined' /\ AllWhole'
<1>1. Unjoined'
  BY DEF GroupInv, Unjoined
<1>2. ASSUME NEW g \in Ids(groups)' PROVE BeingMade(g)' \/ g \in cut' \/ Whole(g)'
  <2>1. g \in Ids(groups)
    BY DEF GroupsPersist, Shaped
  <2> QED  BY <2>1, WholeKept DEF GroupInv, AllWhole
<1> QED  BY <1>1, <1>2 DEF AllWhole

\* Steps of a thread that leave both tables alone.
LEMMA GroupReadsInv ==
  ASSUME GroupTyped, GroupInv, NEW h \in Handlers, NEW local,
         GroupLocal(local), Group!Go(h, local), Knows(local),
         local.pc \notin Making, groupRequest[h].pc \notin Making,
         UNCHANGED <<groups, members, groupBirths, cut>>
  PROVE  GroupInv'
<1>1. GroupTables'
  BY DEF GroupInv, GroupTables, Shaped, Ids
<1>2. GroupsPersist
  BY DEF GroupsPersist, GroupInv, GroupTables, Shaped, Ids, SameMember
<1>3. Knows(local)'
  BY <1>2, ThreadKept DEF Knows
<1>4. GroupThreads'
  BY <1>2, <1>3, ThreadsKept
<1>5. Apart' /\ \A g : BeingMade(g)' <=> BeingMade(g)
  BY MakingKept
<1>6. \A g : Joined(g)' => Joined(g)
  BY DEF Joined, Ids
<1>7. Unjoined' /\ AllWhole'
  BY <1>2, <1>5, <1>6, NoneMade
<1> QED  BY <1>1, <1>4, <1>5, <1>7 DEF GroupInv

\* The membership that is found is one of those, if there is one.
LEMMA MemberLikeIs ==
  ASSUME Shaped(members), NEW group, NEW kind, NEW who
  PROVE  LET found == {m \in Ids(members) : /\ members.rows[m].group = group
                                           /\ members.rows[m].kind = kind
                                           /\ members.rows[m].who = who}
         IN  /\ Group!MemberLike(group, kind, who) = 0 <=> found = {}
             /\ Group!MemberLike(group, kind, who) # 0 =>
                  Group!MemberLike(group, kind, who) \in found
<1> DEFINE found == {m \in Ids(members) : /\ members.rows[m].group = group
                                         /\ members.rows[m].kind = kind
                                         /\ members.rows[m].who = who}
<1>1. Group!MemberLike(group, kind, who) =
        IF found = {} THEN 0 ELSE CHOOSE id \in found : \A other \in found : id <= other
  BY DEF Group!MemberLike, Group!First, Group!Find, Group!Ids, Ids
<1>2. found \in SUBSET (Nat \ {0})
  BY DEF Shaped
<1> HIDE DEF found
<1>3. /\ Group!MemberLike(group, kind, who) = 0 <=> found = {}
      /\ Group!MemberLike(group, kind, who) # 0 => Group!MemberLike(group, kind, who) \in found
  BY <1>1, <1>2, Earliest
<1> QED  BY <1>3 DEF found

\* Steps that only read.
LEMMA GroupReads ==
  ASSUME GroupTyped, GroupInv, NEW h \in Handlers,
         \/ Group!CheckFree(h) \/ Group!ReadGroup(h) \/ Group!CheckName(h)
         \/ Group!CheckMember(h) \/ Group!LookForMember(h) \/ Group!CheckSwitch(h)
         \/ Group!ReadMember(h)
  PROVE  /\ UNCHANGED <<groups, members, groupCount, groupBirths, cut>>
         /\ groupRequest[h].pc \notin Making
         /\ \E local : /\ GroupLocal(local) /\ Group!Go(h, local) /\ Knows(local)
                       /\ local.pc \notin Making
<1>1. PICK here : here = groupRequest[h]
  OBVIOUS
<1>2. /\ UNCHANGED <<groups, members, groupCount, groupBirths, cut>>
      /\ here.pc # "idle" /\ here.pc \notin Making
  BY <1>1 DEF Group!CheckFree, Group!ReadGroup, Group!CheckName, Group!CheckMember,
              Group!LookForMember, Group!CheckSwitch, Group!ReadMember, Making
<1>3. GroupLocal(here) /\ Knows(here)
  BY <1>1 DEF GroupTyped, GroupInv, GroupThreads, GroupLocals, Knows
<1>4. /\ here.pc \in Group!Stages /\ here.asked \in Group!Request
      /\ here.id \in 0 .. MaxGroup + MaxMember
      /\ here.copy \in Group!Group \cup Group!Membership \cup {Nothing}
  BY <1>2, <1>3, GroupAtWork
<1> DEFINE At(pc, id, copy) == [pc |-> pc, asked |-> here.asked, id |-> id, copy |-> copy]
           Fine(local) == GroupLocal(local) /\ Knows(local) /\ local.pc \notin Making
           Moves == \E local : Fine(local) /\ Group!Go(h, local)
<1> SUFFICES Moves
  BY <1>1, <1>2
<1>5. Fine(Group!Idle)
  BY IdleGroup DEF Knows, Group!Idle, Making
\* From one stage to another of the same operation, with nothing new.
<1>6. ASSUME NEW pc,
             \/ here.pc = "free" /\ pc = "insert"
             \/ here.pc = "find" /\ pc = "look"
             \/ here.pc = "look" /\ pc = "join"
             \/ here.pc = "view" /\ pc = "switch"
      PROVE  Fine(At(pc, here.id, here.copy))
  BY <1>3, <1>4, <1>6
     DEF GroupLocal, Group!Local, Group!Stages, Creating, Making,
         Knows, Begun, Editing, Switching, Entitled
<1>7. CASE Group!CheckFree(h)
  <2>1. \/ here.pc = "free" /\ Group!Go(h, At("insert", here.id, here.copy))
        \/ Group!Go(h, Group!Idle)
    BY <1>1, <1>7 DEF Group!CheckFree, Group!Step, Group!Work
  <2> HIDE DEF At, Fine
  <2> QED  BY <1>5, <1>6, <2>1
<1>8. CASE Group!CheckMember(h) \/ Group!CheckSwitch(h)
  <2>1. \/ here.pc = "find" /\ Group!Go(h, At("look", here.id, here.copy))
        \/ here.pc = "view" /\ Group!Go(h, At("switch", here.id, here.copy))
        \/ Group!Go(h, Group!Idle)
    BY <1>1, <1>8 DEF Group!CheckMember, Group!CheckSwitch, Group!Step, Group!Work
  <2> HIDE DEF At, Fine
  <2> QED  BY <1>5, <1>6, <2>1
<1>9. CASE Group!ReadGroup(h)
  <2> DEFINE g == here.asked.group
  <2>1. /\ here.pc = "edit"
        /\ \/ /\ g \in Ids(groups)
              /\ \E pc \in {"write", "name"} :
                   /\ pc = "name" => here.asked.name # Nothing
                   /\ Group!Go(h, At(pc, g, groups.rows[g]))
           \/ Group!Go(h, Group!Idle)
    BY <1>1, <1>9, GroupCalls DEF Group!ReadGroup, Group!Work
  <2>2. ASSUME NEW pc \in {"write", "name"}, g \in Ids(groups),
               pc = "name" => here.asked.name # Nothing
        PROVE  Fine(At(pc, g, groups.rows[g]))
    <3>1. g \in Group!GroupId /\ g \in 0 .. MaxGroup + MaxMember
      BY <1>3, <1>4, <2>1, AskedGroups, BoundsAre DEF GroupLocal, Group!GroupId
    <3>2. groups.rows[g] \in Group!Group
      BY <2>2, GroupCalls DEF GroupTyped, Group!TypeOK, IsTable
    <3>3. here.asked.op = "edit" /\ here.asked.name \in Names \cup {Nothing}
      BY <1>3, <1>4, <2>1, AskedGroups DEF GroupLocal
    <3> DEFINE new == At(pc, g, groups.rows[g])
    <3>4. /\ new.pc = pc /\ new.asked = here.asked /\ new.id = g
          /\ new.copy = groups.rows[g]
      OBVIOUS
    <3>5. new \in Group!Local
      BY <1>4, <3>1, <3>2 DEF Group!Local, Group!Stages
    <3> HIDE DEF new
    <3>6. GroupLocal(new)
      BY <2>2, <3>2, <3>3, <3>4, <3>5 DEF GroupLocal, Creating, Making
    <3>7. Knows(new) /\ new.pc \notin Making
      BY <1>3, <2>1, <3>4
         DEF Knows, Begun, Editing, Switching, Entitled, Creating, Making
    <3> QED  BY <3>6, <3>7 DEF new
  <2> HIDE DEF At, Fine
  <2> QED  BY <1>5, <2>1, <2>2
<1>10. CASE Group!CheckName(h)
  <2> DEFINE copy == [here.copy EXCEPT !.name = here.asked.name]
             new == At("write", here.id, copy)
  <2>1. here.pc = "name" /\ (Group!Go(h, new) \/ Group!Go(h, Group!Idle))
    BY <1>1, <1>10 DEF Group!CheckName, Group!Work
  <2>2. /\ here.copy \in Group!Group /\ here.asked.name \in Names
        /\ here.asked.op = "edit" /\ here.id = here.asked.group
    BY <1>3, <2>1 DEF GroupLocal
  <2>3. copy \in Group!Group /\ copy.creator = here.copy.creator
    BY <2>2 DEF Group!Group
  <2> HIDE DEF copy
  <2>4. /\ new.pc = "write" /\ new.asked = here.asked /\ new.id = here.id
        /\ new.copy = copy
    OBVIOUS
  <2>5. new \in Group!Local
    BY <1>4, <2>3 DEF Group!Local, Group!Stages
  <2> HIDE DEF new
  <2>6. GroupLocal(new)
    BY <2>2, <2>3, <2>4, <2>5 DEF GroupLocal, Creating, Making
  <2>7. Knows(new) /\ new.pc \notin Making
    BY <1>3, <2>1, <2>3, <2>4
       DEF Knows, Begun, Editing, Switching, Entitled, Creating, Making
  <2> QED  BY <1>5, <2>1, <2>6, <2>7
<1>11. CASE Group!LookForMember(h) \/ Group!ReadMember(h)
  <2>1. ASSUME NEW pc \in {"renew", "save"}, NEW m \in Ids(members),
               \/ here.pc = "look" /\ pc = "renew"
               \/ here.pc = "switch" /\ pc = "save"
        PROVE  Fine(At(pc, m, members.rows[m]))
    <3> DEFINE new == At(pc, m, members.rows[m])
    <3>1. /\ new.pc = pc /\ new.asked = here.asked /\ new.id = m
          /\ new.copy = members.rows[m]
      OBVIOUS
    <3>2. members.rows[m] \in Group!Membership /\ m \in 0 .. MaxGroup + MaxMember
      BY GroupCalls, BoundsAre DEF GroupTyped, Group!TypeOK, IsTable
    <3>3. new \in Group!Local
      BY <1>4, <3>2 DEF Group!Local, Group!Stages
    <3> HIDE DEF new
    <3>4. GroupLocal(new)
      BY <1>3, <2>1, <3>1, <3>2, <3>3 DEF GroupLocal, Creating, Making
    <3>5. Knows(new) /\ new.pc \notin Making
      BY <1>3, <2>1, <3>1
         DEF Knows, Begun, Editing, Switching, Entitled, Creating, Making, SameMember
    <3> QED  BY <3>4, <3>5 DEF new
  <2>2. CASE Group!LookForMember(h)
    <3> DEFINE found == Group!MemberLike(here.asked.group, here.asked.kind, here.asked.who)
    <3>1. found # 0 => found \in Ids(members)
      BY MemberLikeIs DEF GroupInv, GroupTables
    <3>2. /\ here.pc = "look"
          /\ IF found = 0 THEN Group!Go(h, At("join", here.id, here.copy))
             ELSE Group!Go(h, At("renew", found, members.rows[found]))
      BY <1>1, <2>2 DEF Group!LookForMember, Group!Step, Group!Work
    <3> HIDE DEF At, Fine, found
    <3> QED  BY <1>6, <2>1, <3>1, <3>2
  <2>3. CASE Group!ReadMember(h)
    <3> DEFINE m == here.asked.member
    <3>1. /\ here.pc = "switch"
          /\ IF m \in Ids(members) THEN Group!Go(h, At("save", m, members.rows[m]))
             ELSE Group!Go(h, Group!Idle)
      BY <1>1, <2>3, GroupCalls DEF Group!ReadMember, Group!Work
    <3> HIDE DEF At, Fine
    <3> QED  BY <1>5, <2>1, <3>1
  <2> QED  BY <1>11, <2>2, <2>3
<1> QED  BY <1>7, <1>8, <1>9, <1>10, <1>11

\* With the invariant, the types that are left to show are few.
LEMMA GroupTypedRest ==
  ASSUME GroupInv',
         IsTable(groups', Group!Group, MaxGroup), IsTable(members', Group!Membership, MaxMember),
         groupCount' \in [requests : 0 .. MaxRequests, crashes : 0 .. MaxCrashes],
         groupRequest' \in [Handlers -> Group!Local],
         \A local \in GroupLocals' : GroupLocal(local)
  PROVE  GroupTyped'
<1>1. /\ Group!IsTable(groups', Group!Group, MaxGroup)
      /\ Group!IsTable(members', Group!Membership, MaxMember)
  BY GroupCalls
<1>2. groupBirths' \in [Group!GroupId -> 0 .. MaxGroup]
  <2>1. groupBirths' = [g \in 1 .. MaxGroup |-> IF g <= groups'.last THEN 1 ELSE 0]
    BY DEF GroupInv, GroupTables
  <2> QED  BY <2>1, BoundsAre DEF Group!GroupId
<1>3. cut' \subseteq Group!GroupId
  <2>1. cut' \subseteq 1 .. groups'.last /\ groups'.last \in 0 .. MaxGroup
    BY DEF GroupInv, GroupTables
  <2>2. \A last \in 0 .. MaxGroup : 1 .. last \subseteq 1 .. MaxGroup
    BY BoundsAre
  <2> QED  BY <2>1, <2>2 DEF Group!GroupId
<1>4. \A local \in GroupLocals' : GroupLocal(local)'
  BY DEF GroupLocal
<1> QED  BY <1>1, <1>2, <1>3, <1>4 DEF GroupTyped, Group!TypeOK

\* What the type invariant says of the tables, in terms of their lemmas.
LEMMA GroupTablesTyped ==
  ASSUME GroupTyped, GroupInv
  PROVE  /\ Shaped(groups) /\ Shaped(members)
         /\ IsTable(groups, Group!Group, MaxGroup) /\ IsTable(members, Group!Membership, MaxMember)
         /\ groups.last \in Nat /\ MaxGroup \in Nat /\ MaxMember \in Nat
         /\ groupCount \in [requests : 0 .. MaxRequests, crashes : 0 .. MaxCrashes]
         /\ groupRequest \in [Handlers -> Group!Local]
BY GroupCalls, BoundsAre DEF GroupTyped, Group!TypeOK, GroupInv, GroupTables

LEMMA GroupReadStep ==
  ASSUME GroupTyped, GroupInv, NEW h \in Handlers,
         \/ Group!CheckFree(h) \/ Group!ReadGroup(h) \/ Group!CheckName(h)
         \/ Group!CheckMember(h) \/ Group!LookForMember(h) \/ Group!CheckSwitch(h)
         \/ Group!ReadMember(h)
  PROVE  GroupTyped' /\ GroupInv'
<1>1. /\ UNCHANGED <<groups, members, groupCount, groupBirths, cut>>
      /\ groupRequest[h].pc \notin Making
  BY GroupReads
<1>2. PICK local : /\ GroupLocal(local) /\ Group!Go(h, local) /\ Knows(local)
                   /\ local.pc \notin Making
  BY GroupReads
<1>3. GroupInv'
  BY <1>1, <1>2, GroupReadsInv
<1>4. GroupTyped'
  BY <1>1, <1>2, <1>3, GroupMoves, GroupTablesTyped, GroupTypedRest
<1> QED  BY <1>3, <1>4

\* A request begins: all but a creation is of an owner.
LEMMA GroupReceiveStep ==
  ASSUME GroupTyped, GroupInv, NEW h \in Handlers, Group!Receive(h)
  PROVE  GroupTyped' /\ GroupInv'
<1>1. PICK r \in Group!Request :
        /\ r.op # "create" => Group!IsOwner(r.group, r.me)
        /\ Group!Go(h, [pc |-> Group!FirstStage(r.op), asked |-> r, id |-> 0,
                        copy |-> Nothing])
  BY DEF Group!Receive
<1>2. /\ UNCHANGED <<groups, members, groupBirths, cut>>
      /\ groupCount.requests < MaxRequests
      /\ groupCount' = [groupCount EXCEPT !.requests = @ + 1]
      /\ groupRequest[h].pc \notin Making
  BY DEF Group!Receive, Group!Idle, Making
<1> DEFINE new == [pc |-> Group!FirstStage(r.op), asked |-> r, id |-> 0, copy |-> Nothing]
<1>3. /\ new.pc = Group!FirstStage(r.op) /\ new.asked = r /\ new.id = 0
      /\ new.copy = Nothing
  OBVIOUS
<1>4. /\ r.op \in {"create", "edit", "delete", "add", "switch", "viewSwitch"}
      /\ Group!FirstStage(r.op) =
           CASE r.op = "create" -> "free" [] r.op = "edit" -> "edit"
             [] r.op = "delete" -> "delete" [] r.op = "add" -> "find"
             [] r.op = "switch" -> "switch" [] r.op = "viewSwitch" -> "view"
  BY AskedGroups DEF Group!FirstStage
<1>5. new \in Group!Local
  BY <1>4, BoundsAre DEF Group!Local, Group!Stages
<1>6. r.op # "create" => Joined(r.group)
  BY <1>1 DEF Group!IsOwner, Group!MembersOf, Group!Find, Group!Ids, Ids, Joined
<1> HIDE DEF new
<1>7. GroupLocal(new)
  BY <1>3, <1>4, <1>5 DEF GroupLocal, Creating, Making
<1>8. Knows(new) /\ new.pc \notin Making
  BY <1>3, <1>4, <1>6 DEF Knows, Begun, Editing, Switching, Entitled, Creating, Making
<1>9. Group!Go(h, new)
  BY <1>1 DEF new
<1>10. GroupInv'
  BY <1>2, <1>7, <1>8, <1>9, GroupReadsInv
<1>11. groupCount' \in [requests : 0 .. MaxRequests, crashes : 0 .. MaxCrashes]
  BY <1>2, GroupTablesTyped, BoundsAre
<1>12. GroupTyped'
  BY <1>2, <1>7, <1>9, <1>10, <1>11, GroupMoves, GroupTablesTyped, GroupTypedRest
<1> QED  BY <1>10, <1>12

\* A membership is written, by a copy of it.
LEMMA MemberWritten ==
  ASSUME GroupTyped, GroupInv, NEW id, NEW row \in Group!Membership,
         id \in Ids(members) => SameMember(row, members.rows[id]),
         members' = Update(members, id, row), UNCHANGED <<groups, groupBirths, cut>>
  PROVE  /\ GroupTables' /\ GroupsPersist /\ \A g : Joined(g)' => Joined(g)
         /\ IsTable(members', Group!Membership, MaxMember)
<1>1. /\ Shaped(members') /\ Ids(members') = Ids(members)
      /\ \A m \in Ids(members) : SameMember(members'.rows[m], members.rows[m])
  BY Updated, GroupTablesTyped DEF SameMember
<1>2. GroupTables'
  BY <1>1 DEF GroupInv, GroupTables, SameMember, Shaped, Ids
<1>3. GroupsPersist
  BY <1>1, GroupTablesTyped DEF GroupsPersist, Shaped, Ids
<1>4. \A g : Joined(g)' => Joined(g)
  BY <1>1 DEF Joined, SameMember
<1> QED  BY <1>2, <1>3, <1>4, GroupTablesTyped, TableKept

\* A membership of a group is inserted.
LEMMA MemberInserted ==
  ASSUME GroupTyped, GroupInv, members.last < MaxMember,
         NEW row \in Group!Membership, row.group \in 1 .. groups.last, row.birth = 1,
         members' = Insert(members, row), UNCHANGED <<groups, groupBirths, cut>>
  PROVE  /\ GroupTables' /\ GroupsPersist /\ \A g : Joined(g)' => Joined(g) \/ g = row.group
         /\ IsTable(members', Group!Membership, MaxMember)
         /\ \E m \in Ids(members)' : members'.rows[m] = row
<1>1. /\ Shaped(members') /\ Ids(members') = Ids(members) \cup {members.last + 1}
      /\ members'.rows[members.last + 1] = row
      /\ \A m \in Ids(members) : members'.rows[m] = members.rows[m]
  BY Inserted, GroupTablesTyped
<1>2. GroupTables'
  BY <1>1 DEF GroupInv, GroupTables, Shaped, Ids
<1>3. GroupsPersist
  BY <1>1, GroupTablesTyped DEF GroupsPersist, Shaped, Ids, SameMember
<1>4. \A g : Joined(g)' => Joined(g) \/ g = row.group
  BY <1>1 DEF Joined
<1> QED  BY <1>1, <1>2, <1>3, <1>4, GroupTablesTyped, TableKept

\* A thread that ends, and made nothing.
LEMMA GroupEnds ==
  ASSUME GroupTyped, GroupInv, NEW h \in Handlers, Group!Go(h, Group!Idle),
         groupRequest[h].pc \notin Making, GroupsPersist, GroupTables',
         groups'.last = groups.last, \A g : Joined(g)' => Joined(g),
         UNCHANGED <<groupCount, cut>>,
         IsTable(groups', Group!Group, MaxGroup),
         IsTable(members', Group!Membership, MaxMember)
  PROVE  GroupTyped' /\ GroupInv'
<1>1. GroupLocal(Group!Idle) /\ Knows(Group!Idle) /\ Group!Idle.pc \notin Making
  BY IdleGroup DEF Knows, Group!Idle, Making
<1>2. Knows(Group!Idle)'
  BY <1>1, ThreadKept DEF Knows
<1>3. GroupThreads'
  BY <1>1, <1>2, ThreadsKept
<1>4. Apart' /\ \A g : BeingMade(g)' <=> BeingMade(g)
  BY <1>1, MakingKept
<1>5. Unjoined' /\ AllWhole'
  BY <1>4, NoneMade
<1>6. GroupInv'
  BY <1>3, <1>4, <1>5 DEF GroupInv
<1>7. GroupTyped'
  BY <1>1, <1>6, GroupMoves, GroupTablesTyped, GroupTypedRest
<1> QED  BY <1>6, <1>7

\* Writes of a membership that was read.
LEMMA MemberWriteStep ==
  ASSUME GroupTyped, GroupInv, NEW h \in Handlers,
         Group!RenewMember(h) \/ Group!WriteMember(h)
  PROVE  GroupTyped' /\ GroupInv'
<1>1. PICK here : here = groupRequest[h]
  OBVIOUS
<1>2. /\ here.pc \in {"renew", "save"} /\ Group!Go(h, Group!Idle)
      /\ UNCHANGED <<groups, groupCount, groupBirths, cut>>
  BY <1>1 DEF Group!RenewMember, Group!WriteMember
<1>3. GroupLocal(here) /\ Switching(here)
  BY <1>1 DEF GroupTyped, GroupInv, GroupThreads, GroupLocals
<1>4. here.copy \in Group!Membership /\ here.asked \in Group!Request
  BY <1>2, <1>3, GroupAtWork DEF GroupLocal
<1>5. PICK role \in Group!Roles, enabled \in BOOLEAN :
        members' = Update(members, here.id, [here.copy EXCEPT !.role = role, !.enabled = enabled])
  <2>1. CASE Group!RenewMember(h)
    <3>1. here.asked.op = "add" /\ here.pc = "renew"
      BY <1>1, <1>3, <2>1 DEF Group!RenewMember, GroupLocal
    <3> QED  BY <1>1, <1>4, <2>1, <3>1, AskedGroups, GroupCalls DEF Group!RenewMember
  <2>2. CASE Group!WriteMember(h)
    <3>1. here.asked.op \in {"switch", "viewSwitch"} /\ here.pc = "save"
      BY <1>1, <1>3, <2>2 DEF Group!WriteMember, GroupLocal
    <3>2. here.asked.enabled \in BOOLEAN /\ here.copy.role \in Group!Roles
      BY <1>4, <3>1, AskedGroups DEF Group!Membership
    <3>3. [here.copy EXCEPT !.enabled = here.asked.enabled] =
            [here.copy EXCEPT !.role = here.copy.role, !.enabled = here.asked.enabled]
      BY <1>4 DEF Group!Membership
    <3> QED  BY <1>1, <2>2, <3>2, <3>3, GroupCalls DEF Group!WriteMember
  <2> QED  BY <2>1, <2>2
<1> DEFINE row == [here.copy EXCEPT !.role = role, !.enabled = enabled]
<1>6. row \in Group!Membership /\ SameMember(row, here.copy)
  BY <1>4 DEF Group!Membership, SameMember
<1> HIDE DEF row
<1>7. here.id \in Ids(members) => SameMember(row, members.rows[here.id])
  BY <1>2, <1>3, <1>6 DEF Switching, SameMember
<1>8. members' = Update(members, here.id, row)
  BY <1>5 DEF row
<1>9. /\ GroupTables' /\ GroupsPersist /\ \A g : Joined(g)' => Joined(g)
      /\ IsTable(members', Group!Membership, MaxMember)
  BY <1>2, <1>6, <1>7, <1>8, MemberWritten
<1> QED  BY <1>1, <1>2, <1>9, GroupEnds, GroupTablesTyped DEF Making

\* A member is added to a group, by one of its owners.
LEMMA InsertMemberStep ==
  ASSUME GroupTyped, GroupInv, NEW h \in Handlers, Group!InsertMember(h)
  PROVE  GroupTyped' /\ GroupInv'
<1>1. PICK here : here = groupRequest[h]
  OBVIOUS
<1> DEFINE row == Group!Member(here.asked.group, here.asked.kind, here.asked.who, here.asked.role)
<1>2. /\ here.pc = "join" /\ Group!Go(h, Group!Idle) /\ members.last < MaxMember
      /\ members' = Insert(members, row)
      /\ UNCHANGED <<groups, groupCount, groupBirths, cut>>
  BY <1>1, GroupCalls DEF Group!InsertMember
<1>3. GroupLocal(here) /\ Entitled(here)
  BY <1>1 DEF GroupTyped, GroupInv, GroupThreads, GroupLocals
<1>4. here.asked \in Group!Request /\ here.asked.op = "add"
  BY <1>2, <1>3, GroupAtWork DEF GroupLocal
<1>5. Joined(here.asked.group) /\ here.asked.group \in 1 .. groups.last
  BY <1>2, <1>3 DEF Entitled, Creating, Joined, GroupInv, GroupTables
<1>6. groupBirths[here.asked.group] = 1 /\ here.asked.group \in 1 .. MaxGroup
  BY <1>5, BoundsAre DEF GroupInv, GroupTables
<1>7. /\ row = [group |-> here.asked.group, birth |-> 1, role |-> here.asked.role,
                enabled |-> TRUE, kind |-> here.asked.kind, who |-> here.asked.who]
      /\ row.group = here.asked.group /\ row.birth = 1
  BY <1>6 DEF Group!Member
<1>8. row \in Group!Membership
  BY <1>4, <1>6, <1>7, AskedGroups, BoundsAre DEF Group!Membership
<1> HIDE DEF row
<1>9. /\ GroupTables' /\ GroupsPersist
      /\ \A g : Joined(g)' => Joined(g) \/ g = row.group
      /\ IsTable(members', Group!Membership, MaxMember)
  BY <1>2, <1>5, <1>7, <1>8, MemberInserted
<1> QED  BY <1>1, <1>2, <1>5, <1>7, <1>9, GroupEnds, GroupTablesTyped DEF Making

\* A group is written, with a root, by a copy that has its creator.
LEMMA GroupWritten ==
  ASSUME GroupTyped, GroupInv, NEW id, NEW row \in Group!Group, row.rooted,
         id \in Ids(groups) => row.creator = groups.rows[id].creator,
         groups' = Update(groups, id, row), UNCHANGED <<members, groupBirths, cut>>
  PROVE  /\ GroupTables' /\ GroupsPersist /\ groups'.last = groups.last
         /\ Ids(groups') = Ids(groups)
         /\ \A g : Joined(g)' => Joined(g)
         /\ IsTable(groups', Group!Group, MaxGroup)
         /\ id \in Ids(groups) => groups'.rows[id] = row
<1>1. /\ Shaped(groups') /\ groups'.last = groups.last /\ Ids(groups') = Ids(groups)
      /\ id \in Ids(groups) => groups'.rows[id] = row
      /\ \A g \in Ids(groups) \ {id} : groups'.rows[g] = groups.rows[g]
  BY Updated, GroupTablesTyped
<1>2. GroupTables'
  BY <1>1 DEF GroupInv, GroupTables, Ids
<1>3. \A g \in Ids(groups) : /\ groups'.rows[g].creator = groups.rows[g].creator
                             /\ groups.rows[g].rooted => groups'.rows[g].rooted
  BY <1>1
<1>4. /\ Shaped(members') /\ Ids(members') = Ids(members)
      /\ \A m \in Ids(members) : SameMember(members'.rows[m], members.rows[m])
  BY GroupTablesTyped DEF SameMember
<1>5. GroupsPersist
  BY <1>1, <1>3, <1>4, GroupTablesTyped DEF GroupsPersist
<1>6. \A g : Joined(g)' => Joined(g)
  BY DEF Joined
<1> QED  BY <1>1, <1>2, <1>5, <1>6, GroupTablesTyped, TableKept

LEMMA WriteGroupStep ==
  ASSUME GroupTyped, GroupInv, NEW h \in Handlers, Group!WriteGroup(h)
  PROVE  GroupTyped' /\ GroupInv'
<1>1. PICK here : here = groupRequest[h]
  OBVIOUS
<1> DEFINE row == [here.copy EXCEPT !.rooted = TRUE]
<1>2. /\ here.pc = "write" /\ Group!Go(h, Group!Idle) /\ groups' = Update(groups, here.id, row)
      /\ UNCHANGED <<members, groupCount, groupBirths, cut>>
  BY <1>1, GroupCalls DEF Group!WriteGroup
<1>3. GroupLocal(here) /\ Editing(here)
  BY <1>1 DEF GroupTyped, GroupInv, GroupThreads, GroupLocals
<1>4. /\ here.copy \in Group!Group
      /\ here.id \in Ids(groups) => here.copy.creator = groups.rows[here.id].creator
  BY <1>2, <1>3 DEF GroupLocal, Editing
<1>5. row \in Group!Group /\ row.rooted /\ row.creator = here.copy.creator
  BY <1>4 DEF Group!Group
<1> HIDE DEF row
<1>6. /\ GroupTables' /\ GroupsPersist /\ groups'.last = groups.last
      /\ \A g : Joined(g)' => Joined(g)
      /\ IsTable(groups', Group!Group, MaxGroup)
  BY <1>2, <1>4, <1>5, GroupWritten
<1> QED  BY <1>1, <1>2, <1>6, GroupEnds, GroupTablesTyped DEF Making

LEMMA DeleteGroupStep ==
  ASSUME GroupTyped, GroupInv, NEW h \in Handlers, Group!DeleteGroup(h)
  PROVE  GroupTyped' /\ GroupInv'
<1>1. PICK id : groups' = Delete(groups, id)
  BY GroupCalls DEF Group!DeleteGroup
<1>2. /\ groupRequest[h].pc \notin Making /\ Group!Go(h, Group!Idle)
      /\ UNCHANGED <<members, groupCount, groupBirths, cut>>
  BY DEF Group!DeleteGroup, Making
<1>3. /\ Shaped(groups') /\ groups'.last = groups.last /\ Ids(groups') = Ids(groups) \ {id}
      /\ \A g \in Ids(groups) \ {id} : groups'.rows[g] = groups.rows[g]
  BY <1>1, Deleted, GroupTablesTyped
<1>4. GroupTables'
  BY <1>2, <1>3 DEF GroupInv, GroupTables, Ids
<1>5. /\ Shaped(members') /\ Ids(members') = Ids(members)
      /\ \A m \in Ids(members) : SameMember(members'.rows[m], members.rows[m])
  BY <1>2, GroupTablesTyped DEF SameMember
<1>6. GroupsPersist
  BY <1>3, <1>5, GroupTablesTyped DEF GroupsPersist
<1>7. \A g : Joined(g)' => Joined(g)
  BY <1>2 DEF Joined
<1>8. IsTable(groups', Group!Group, MaxGroup)
  BY <1>1, TableLeft, GroupTablesTyped
<1> QED  BY <1>2, <1>3, <1>4, <1>6, <1>7, <1>8, GroupEnds, GroupTablesTyped

LEMMA WriteRootStep ==
  ASSUME GroupTyped, GroupInv, NEW h \in Handlers, Group!WriteRoot(h)
  PROVE  GroupTyped' /\ GroupInv'
<1>1. PICK here : here = groupRequest[h]
  OBVIOUS
<1> DEFINE row == [here.copy EXCEPT !.rooted = TRUE]
           new == [pc |-> "owner", asked |-> here.asked, id |-> here.id, copy |-> here.copy]
<1>2. /\ here.pc = "root" /\ Group!Go(h, new) /\ groups' = Update(groups, here.id, row)
      /\ UNCHANGED <<members, groupCount, groupBirths, cut>>
  BY <1>1, GroupCalls DEF Group!WriteRoot, Group!Step, Group!Work
<1>3. GroupLocal(here) /\ Begun(here)
  BY <1>1 DEF GroupTyped, GroupInv, GroupThreads, GroupLocals
<1>4. /\ here.copy \in Group!Group /\ here.id \in 1 .. groups.last /\ here.id \notin cut
      /\ here.copy.creator = here.asked.me /\ here.asked.op = "create"
      /\ here.id \in Ids(groups) => groups.rows[here.id].creator = here.asked.me
  BY <1>2, <1>3 DEF GroupLocal, Begun, Making, Creating
<1>5. row \in Group!Group /\ row.rooted /\ row.creator = here.copy.creator
  BY <1>4 DEF Group!Group
<1>6. /\ new.pc = "owner" /\ new.asked = here.asked /\ new.id = here.id
      /\ new.copy = here.copy
  OBVIOUS
<1>7. new \in Group!Local
  BY <1>2, <1>3, GroupAtWork DEF Group!Local, Group!Stages
<1> HIDE DEF row, new
<1>8. /\ GroupTables' /\ GroupsPersist /\ groups'.last = groups.last
      /\ Ids(groups') = Ids(groups) /\ \A g : Joined(g)' => Joined(g)
      /\ IsTable(groups', Group!Group, MaxGroup)
      /\ here.id \in Ids(groups) => groups'.rows[here.id] = row
  BY <1>2, <1>4, <1>5, GroupWritten
<1>9. GroupLocal(new)
  BY <1>2, <1>3, <1>4, <1>6, <1>7 DEF GroupLocal, Creating, Making
<1>10. Knows(new)'
  <2>1. Begun(new)'
    BY <1>2, <1>4, <1>5, <1>6, <1>8 DEF Begun, Making, Ids
  <2> QED  BY <1>6, <2>1 DEF Knows, Editing, Switching, Entitled, Creating
<1>11. GroupThreads'
  BY <1>2, <1>8, <1>9, <1>10, ThreadsKept
<1>12. Apart' /\ \A g : BeingMade(g)' <=> BeingMade(g)
  BY <1>1, <1>2, <1>6, <1>9, MakingKept DEF Making
<1>13. Unjoined' /\ AllWhole'
  BY <1>2, <1>8, <1>12, NoneMade
<1>14. GroupInv'
  BY <1>8, <1>11, <1>12, <1>13 DEF GroupInv
<1>15. GroupTyped'
  BY <1>2, <1>8, <1>9, <1>14, GroupMoves, GroupTablesTyped, GroupTypedRest
<1> QED  BY <1>14, <1>15

LEMMA MadeBy ==
  \A g : BeingMade(g) <=> \E k \in Handlers : /\ groupRequest[k].pc \in Making
                                             /\ groupRequest[k].id = g
BY DEF BeingMade, GroupLocals

LEMMA InsertOwnerStep ==
  ASSUME GroupTyped, GroupInv, NEW h \in Handlers, Group!InsertOwner(h)
  PROVE  GroupTyped' /\ GroupInv'
<1>1. PICK here : here = groupRequest[h]
  OBVIOUS
<1> DEFINE row == Group!Member(here.id, "user", here.asked.me, "owner")
<1>2. /\ here.pc = "owner" /\ Group!Go(h, Group!Idle) /\ members.last < MaxMember
      /\ members' = Insert(members, row)
      /\ UNCHANGED <<groups, groupCount, groupBirths, cut>>
  BY <1>1, GroupCalls DEF Group!InsertOwner
<1>3. GroupLocal(here) /\ Begun(here)
  BY <1>1 DEF GroupTyped, GroupInv, GroupThreads, GroupLocals
<1>4. /\ here.id \in 1 .. groups.last /\ here.id \notin cut
      /\ here.asked.me \in People
      /\ here.id \in Ids(groups) => /\ groups.rows[here.id].creator = here.asked.me
                                    /\ groups.rows[here.id].rooted
  BY <1>2, <1>3, GroupAtWork, AskedGroups DEF Begun, Making
<1>5. groupBirths[here.id] = 1 /\ here.id \in 1 .. MaxGroup
  BY <1>4, BoundsAre DEF GroupInv, GroupTables
<1>6. /\ row = [group |-> here.id, birth |-> 1, role |-> "owner",
                enabled |-> TRUE, kind |-> "user", who |-> here.asked.me]
      /\ row.group = here.id /\ row.birth = 1 /\ row.kind = "user" /\ row.who = here.asked.me
  BY <1>5 DEF Group!Member
<1> HIDE DEF row
<1>7. row \in Group!Membership
  <2>1. /\ here.id \in 1 .. MaxGroup /\ 1 \in 1 .. MaxGroup
        /\ "owner" \in Group!Roles /\ here.asked.me \in People
    BY <1>4, <1>5, BoundsAre DEF Group!Roles
  <2> QED  BY <1>6, <2>1 DEF Group!Membership
<1>8. /\ GroupTables' /\ GroupsPersist
      /\ \A g : Joined(g)' => Joined(g) \/ g = here.id
      /\ IsTable(members', Group!Membership, MaxMember)
      /\ \E m \in Ids(members)' : members'.rows[m] = row
  BY <1>2, <1>4, <1>6, <1>7, MemberInserted
<1>9. GroupLocal(Group!Idle) /\ Knows(Group!Idle)' /\ Group!Idle.pc \notin Making
  BY IdleGroup DEF Knows, Begun, Editing, Switching, Entitled, Group!Idle, Making
<1>10. GroupThreads'
  BY <1>2, <1>8, <1>9, ThreadsKept
<1>11. /\ groupRequest'[h].pc \notin Making
       /\ \A k \in Handlers : k # h => groupRequest'[k] = groupRequest[k]
  BY <1>2, <1>9, GroupMoves
<1>12. Apart'
  BY <1>11 DEF GroupInv, Apart
<1>13. \A g : BeingMade(g)' <=> \E k \in Handlers : /\ groupRequest'[k].pc \in Making
                                                  /\ groupRequest'[k].id = g
  BY DEF BeingMade, GroupLocals
<1>14. \A g : BeingMade(g)' => BeingMade(g) /\ g # here.id
  BY <1>1, <1>2, <1>11, <1>13, MadeBy DEF GroupInv, Apart, Making
<1>15. \A g : BeingMade(g) => BeingMade(g)' \/ g = here.id
  BY <1>1, <1>11, <1>13, MadeBy
<1>16. Unjoined'
  BY <1>2, <1>4, <1>8, <1>14 DEF GroupInv, Unjoined
<1>17. ASSUME NEW g \in Ids(groups)' PROVE BeingMade(g)' \/ g \in cut' \/ Whole(g)'
  <2>1. g \in Ids(groups)
    BY <1>2
  <2>2. CASE g = here.id
    BY <1>2, <1>4, <1>6, <1>8, <2>1, <2>2 DEF Whole
  <2>3. CASE g # here.id
    BY <1>2, <1>8, <1>15, <2>1, <2>3, WholeKept DEF GroupInv, AllWhole
  <2> QED  BY <2>2, <2>3
<1>18. GroupInv'
  BY <1>8, <1>10, <1>12, <1>16, <1>17 DEF GroupInv, AllWhole
<1>19. GroupTyped'
  BY <1>2, <1>8, <1>9, <1>18, GroupMoves, GroupTablesTyped, GroupTypedRest
<1> QED  BY <1>18, <1>19

\* The group that is inserted gets the next id, which nobody uses.
LEMMA InsertGroupStep ==
  ASSUME GroupTyped, GroupInv, NEW h \in Handlers, Group!InsertGroup(h)
  PROVE  GroupTyped' /\ GroupInv'
<1>1. PICK here : here = groupRequest[h]
  OBVIOUS
<1>0. PICK id : id = groups.last + 1
  OBVIOUS
<1> DEFINE row   == [name |-> here.asked.name, creator |-> here.asked.me,
                     rooted |-> here.asked.rooted]
           given == {g \in Ids(groups') : g \notin Ids(groups)}
           pc    == Group!AfterInsert(here.asked)
           new   == [pc |-> pc, asked |-> here.asked, id |-> id, copy |-> row]
<1>2. /\ here.pc = "insert" /\ groups.last < MaxGroup /\ groups' = Insert(groups, row)
      /\ groupBirths' = [g \in 1 .. MaxGroup |->
                           IF g \in given THEN groupBirths[g] + 1 ELSE groupBirths[g]]
      /\ Group!Go(h, [pc |-> pc, asked |-> here.asked, id |-> CHOOSE g \in given : TRUE,
                      copy |-> row])
      /\ UNCHANGED <<members, groupCount, cut>>
  BY <1>1, GroupCalls DEF Group!InsertGroup, Group!Work, Group!GroupId
<1>3. GroupLocal(here)
  BY <1>1 DEF GroupTyped, GroupLocals
<1>4. /\ here.asked \in Group!Request /\ here.asked.op = "create"
      /\ here.asked.me \in People /\ here.asked.name \in Names
      /\ here.asked.rooted \in BOOLEAN
  BY <1>2, <1>3, GroupAtWork, AskedGroups DEF GroupLocal, Creating
<1>5. /\ Shaped(groups') /\ groups'.last = id /\ Ids(groups') = Ids(groups) \cup {id}
      /\ id \notin Ids(groups) /\ groups'.rows[id] = row
      /\ \A g \in Ids(groups) : groups'.rows[g] = groups.rows[g]
  BY <1>0, <1>2, Inserted, GroupTablesTyped
<1>6. given = {id} /\ id \in 1 .. MaxGroup /\ groups.last \in Nat
  BY <1>0, <1>2, <1>5, GroupTablesTyped
<1>7. Group!Go(h, new)
  <2>1. (CHOOSE g \in given : TRUE) = id
    BY <1>6
  <2> QED  BY <1>2, <2>1
<1>8. /\ new.pc = pc /\ new.asked = here.asked /\ new.id = id /\ new.copy = row
      /\ pc \in Making
      /\ pc = "owner" => here.asked.rooted
  BY DEF Group!AfterInsert, Making
<1>9. /\ row \in Group!Group /\ row.creator = here.asked.me
      /\ row.rooted = here.asked.rooted
  BY <1>4 DEF Group!Group
<1> HIDE DEF row, given, new, pc
<1>10. GroupLocal(new)
  <2>1. id \in Group!GroupId /\ id \in 0 .. MaxGroup + MaxMember
    BY <1>6, GroupTablesTyped DEF Group!GroupId
  <2>2. new \in Group!Local
    <3>1. new = [pc |-> pc, asked |-> here.asked, id |-> id, copy |-> row]
      BY DEF new
    <3> QED  BY <1>4, <1>8, <1>9, <2>1, <3>1 DEF Making, Group!Local, Group!Stages
  <2> QED  BY <1>4, <1>8, <1>9, <2>1, <2>2 DEF GroupLocal, Creating, Making
<1>11. GroupTables'
  <2>1. groupBirths = [g \in 1 .. MaxGroup |-> IF g <= groups.last THEN 1 ELSE 0]
    BY DEF GroupInv, GroupTables
  <2>2. \A g \in 1 .. MaxGroup : groupBirths'[g] = IF g <= groups'.last THEN 1 ELSE 0
    BY <1>0, <1>2, <1>5, <1>6, <2>1
  <2>3. groupBirths' = [g \in 1 .. MaxGroup |-> groupBirths'[g]]
    BY <1>2
  <2>4. groupBirths' = [g \in 1 .. MaxGroup |-> IF g <= groups'.last THEN 1 ELSE 0]
    BY <2>2, <2>3
  <2>5. groups'.last \in 0 .. MaxGroup /\ cut' \subseteq 1 .. groups'.last
    BY <1>0, <1>2, <1>5, <1>6, GroupTablesTyped DEF GroupInv, GroupTables
  <2>6. \A m \in Ids(members') : /\ members'.rows[m].group \in 1 .. groups'.last
                                 /\ members'.rows[m].birth = 1
    BY <1>0, <1>2, <1>5, <1>6 DEF GroupInv, GroupTables
  <2>7. Shaped(members')
    BY <1>2, GroupTablesTyped
  <2> QED  BY <1>5, <2>4, <2>5, <2>6, <2>7 DEF GroupTables, Ids
<1>12. GroupsPersist
  <2>1. /\ Shaped(members') /\ Ids(members') = Ids(members)
        /\ \A m \in Ids(members) : SameMember(members'.rows[m], members.rows[m])
    BY <1>2, GroupTablesTyped DEF SameMember
  <2> QED  BY <1>0, <1>5, <1>6, <2>1 DEF GroupsPersist
<1>13. Knows(new)'
  <2>1. Begun(new)'
    <3>1. id \in 1 .. groups'.last /\ id \notin cut'
      BY <1>0, <1>2, <1>5, <1>6 DEF GroupInv, GroupTables
    <3> QED  BY <1>5, <1>8, <1>9, <3>1 DEF Begun
  <2> QED  BY <1>8, <2>1 DEF Knows, Editing, Switching, Entitled, Creating, Making
<1>14. GroupThreads'
  BY <1>2, <1>7, <1>10, <1>12, <1>13, ThreadsKept
<1>15. /\ groupRequest'[h] = new
       /\ \A k \in Handlers : k # h => groupRequest'[k] = groupRequest[k]
  BY <1>7, <1>10, GroupMoves
<1>16. \A k \in Handlers : groupRequest[k].pc \in Making => groupRequest[k].id \in 1 .. groups.last
  BY DEF GroupInv, GroupThreads, GroupLocals, Begun
<1>17. Apart'
  BY <1>0, <1>6, <1>8, <1>15, <1>16 DEF GroupInv, Apart
<1>18. \A g : BeingMade(g)' <=> \E k \in Handlers : /\ groupRequest'[k].pc \in Making
                                                  /\ groupRequest'[k].id = g
  BY DEF BeingMade, GroupLocals
<1>19. \A g : BeingMade(g)' <=> BeingMade(g) \/ g = id
  <2>1. groupRequest[h].pc \notin Making
    BY <1>1, <1>2 DEF Making
  <2> QED  BY <1>8, <1>15, <1>18, <2>1, MadeBy
<1>20. Unjoined'
  <2>1. \A g : Joined(g)' => Joined(g) /\ g \in 1 .. groups.last
    BY <1>2 DEF Joined, GroupInv, GroupTables
  <2> QED  BY <1>0, <1>2, <1>5, <1>6, <1>19, <2>1 DEF GroupInv, Unjoined
<1>21. AllWhole'
  BY <1>2, <1>5, <1>12, <1>19, WholeKept DEF GroupInv, AllWhole
<1>22. GroupInv'
  BY <1>11, <1>14, <1>17, <1>20, <1>21 DEF GroupInv
<1>23. IsTable(groups', Group!Group, MaxGroup)
  BY <1>2, <1>9, TableKept, GroupTablesTyped
<1>24. GroupTyped'
  BY <1>2, <1>7, <1>10, <1>22, <1>23, GroupMoves, GroupTablesTyped, GroupTypedRest
<1> QED  BY <1>22, <1>24

\* A crash cuts short what is being made.
LEMMA GroupRestartStep ==
  ASSUME GroupTyped, GroupInv, Group!Restart
  PROVE  GroupTyped' /\ GroupInv'
<1>1. /\ groupCount.crashes < MaxCrashes
      /\ groupCount' = [groupCount EXCEPT !.crashes = @ + 1]
      /\ groupRequest' = [h \in Handlers |-> Group!Idle]
      /\ UNCHANGED <<groups, members, groupBirths>>
  BY DEF Group!Restart
<1>2. \A g : g \in cut' <=> g \in cut \/ BeingMade(g)
  BY MadeBy DEF Group!Restart, Making
<1>3. \A local \in GroupLocals' : local = Group!Idle
  BY <1>1 DEF GroupLocals
<1>4. \A g : ~BeingMade(g)'
  BY <1>3 DEF BeingMade, Group!Idle, Making
<1>5. \A g : BeingMade(g) => g \in 1 .. groups.last
  BY DEF BeingMade, GroupInv, GroupThreads, Begun
<1>6. GroupTables'
  BY <1>1, <1>2, <1>5 DEF GroupInv, GroupTables, Shaped, Ids
<1>7. GroupThreads' /\ Apart'
  <2>1. GroupThreads'
    BY <1>3 DEF GroupThreads, Begun, Editing, Switching, Entitled, Group!Idle, Making, Creating
  <2>2. \A h \in Handlers : groupRequest'[h].pc \notin Making
    BY <1>1 DEF Group!Idle, Making
  <2> QED  BY <2>1, <2>2 DEF Apart
<1>8. Unjoined'
  BY <1>1, <1>2, <1>4 DEF GroupInv, Unjoined, Joined
<1>9. AllWhole'
  BY <1>1, <1>2 DEF GroupInv, AllWhole, Whole
<1>10. GroupInv'
  BY <1>6, <1>7, <1>8, <1>9 DEF GroupInv
<1>11. groupCount' \in [requests : 0 .. MaxRequests, crashes : 0 .. MaxCrashes]
  BY <1>1, GroupTablesTyped, BoundsAre
<1>12. groupRequest' \in [Handlers -> Group!Local] /\ \A local \in GroupLocals' : GroupLocal(local)
  BY <1>1, <1>3, IdleGroup DEF GroupLocal
<1>13. GroupTyped'
  BY <1>1, <1>10, <1>11, <1>12, GroupTablesTyped, GroupTypedRest
<1> QED  BY <1>10, <1>13

LEMMA GroupInit == Group!Init => GroupTyped /\ GroupInv
<1> SUFFICES ASSUME Group!Init PROVE GroupTyped /\ GroupInv
  OBVIOUS
<1>1. /\ groups = EmptyTable /\ members = EmptyTable /\ cut = {}
      /\ groupRequest = [h \in Handlers |-> Group!Idle]
      /\ groupCount = [requests |-> 0, crashes |-> 0]
      /\ groupBirths = [g \in 1 .. MaxGroup |-> 0]
      /\ {MaxGroup, MaxMember, MaxRequests, MaxCrashes} \subseteq Nat
  BY GroupCalls, BoundsAre DEF Group!Init, Group!GroupId
<1>2. \A local \in GroupLocals : local = Group!Idle
  BY <1>1 DEF GroupLocals
<1>3. Shaped(groups) /\ Shaped(members) /\ Ids(groups) = {} /\ Ids(members) = {}
      /\ groups.last = 0 /\ members.last = 0
  BY <1>1, EmptyShaped
<1>4. GroupTables
  <2>1. \A g \in 1 .. MaxGroup : ~(g <= 0)
    BY <1>1
  <2>2. groupBirths = [g \in 1 .. MaxGroup |-> IF g <= groups.last THEN 1 ELSE 0]
    BY <1>1, <1>3, <2>1
  <2> QED  BY <1>1, <1>3, <2>2 DEF GroupTables
<1>5. GroupThreads /\ Apart
  BY <1>1, <1>2, IdleGroup DEF GroupThreads, Apart, Group!Idle, Making
<1>6. Unjoined /\ AllWhole
  BY <1>3 DEF Unjoined, AllWhole
<1>7. GroupInv
  BY <1>4, <1>5, <1>6 DEF GroupInv
<1>8. GroupTyped
  <2>1. IsTable(groups, Group!Group, MaxGroup) /\ IsTable(members, Group!Membership, MaxMember)
    BY <1>1, <1>3 DEF IsTable
  <2>2. groupRequest \in [Handlers -> Group!Local] /\ \A local \in GroupLocals : GroupLocal(local)
    BY <1>1, <1>2, IdleGroup DEF GroupLocal
  <2>3. /\ groupCount \in [requests : 0 .. MaxRequests, crashes : 0 .. MaxCrashes]
        /\ groupBirths \in [Group!GroupId -> 0 .. MaxGroup] /\ cut \subseteq Group!GroupId
    BY <1>1 DEF Group!GroupId
  <2> QED  BY <2>1, <2>2, <2>3, GroupCalls DEF GroupTyped, Group!TypeOK
<1> QED  BY <1>7, <1>8

LEMMA GroupStep ==
  ASSUME GroupTyped, GroupInv, [Group!Next]_groupState
  PROVE  GroupTyped' /\ GroupInv'
<1>1. CASE Group!Restart
  BY <1>1, GroupRestartStep
<1>2. CASE UNCHANGED groupState
  <2>1. /\ UNCHANGED <<groups, members, groupRequest, groupCount, groupBirths, cut>>
        /\ GroupLocals' = GroupLocals
    BY <1>2 DEF groupState, GroupLocals
  <2>2. GroupInv'
    BY <2>1 DEF GroupInv, GroupTables, GroupThreads, Begun, Editing, Switching, Entitled, Apart,
                Unjoined, AllWhole, BeingMade, Joined, Whole, Shaped, Ids
  <2> QED  BY <2>1, <2>2, GroupTypedRest, GroupTablesTyped DEF GroupTyped
<1>3. ASSUME NEW h \in Handlers,
             \/ Group!Receive(h) \/ Group!CheckFree(h) \/ Group!InsertGroup(h)
             \/ Group!WriteRoot(h) \/ Group!InsertOwner(h) \/ Group!ReadGroup(h)
             \/ Group!CheckName(h) \/ Group!WriteGroup(h) \/ Group!DeleteGroup(h)
             \/ Group!CheckMember(h) \/ Group!LookForMember(h) \/ Group!RenewMember(h)
             \/ Group!InsertMember(h) \/ Group!CheckSwitch(h) \/ Group!ReadMember(h)
             \/ Group!WriteMember(h)
      PROVE  GroupTyped' /\ GroupInv'
  BY <1>3, GroupReceiveStep, GroupReadStep, InsertGroupStep, WriteRootStep, InsertOwnerStep,
     WriteGroupStep, DeleteGroupStep, MemberWriteStep, InsertMemberStep
<1> QED  BY <1>1, <1>2, <1>3 DEF Group!Next

\* What the runs check of groups.
LEMMA MembershipsTheirs == GroupInv => Group!MembershipsKeepTheirGroup
<1> SUFFICES ASSUME GroupInv, NEW m \in Ids(members)
             PROVE  members.rows[m].birth = groupBirths[members.rows[m].group]
  BY GroupCalls DEF Group!MembershipsKeepTheirGroup
<1>1. members.rows[m].group \in 1 .. groups.last /\ members.rows[m].birth = 1
  BY DEF GroupInv, GroupTables
<1>2. groups.last \in 0 .. MaxGroup
  BY DEF GroupInv, GroupTables
<1>3. groupBirths = [g \in 1 .. MaxGroup |-> IF g <= groups.last THEN 1 ELSE 0]
  BY DEF GroupInv, GroupTables
<1>4. members.rows[m].group \in 1 .. MaxGroup /\ members.rows[m].group <= groups.last
  BY <1>1, <1>2, BoundsAre
<1> QED  BY <1>1, <1>3, <1>4

LEMMA HalvesExplained == GroupInv => Group!HalfCreatedExplained
<1> SUFFICES ASSUME GroupInv, NEW g \in Ids(groups),
                    \/ ~groups.rows[g].rooted
                    \/ Group!MemberLike(g, "user", groups.rows[g].creator) = 0
             PROVE  /\ \/ g \in cut
                       \/ \E h \in Handlers : /\ groupRequest[h].pc \in {"root", "owner"}
                                              /\ groupRequest[h].id = g
                    /\ \A user \in People : g \notin Group!VisibleGroups(user)
  BY GroupCalls DEF Group!HalfCreatedExplained
<1>1. Shaped(members) /\ g \in 1 .. groups.last
  BY DEF GroupInv, GroupTables, Shaped
<1>2. ~Whole(g)
  BY <1>1, MemberLikeIs DEF Whole
<1>3. BeingMade(g) \/ g \in cut
  BY <1>2 DEF GroupInv, AllWhole
<1>4. ~Joined(g)
  BY <1>1, <1>3 DEF GroupInv, Unjoined
<1>5. \A user \in People : g \notin Group!VisibleGroups(user)
  BY <1>4 DEF Group!VisibleGroups, Group!MembersOf, Group!Find, Group!Ids, Ids, Joined
<1> QED  BY <1>3, <1>5, MadeBy DEF Making

-----------------------------------------------------------------------------
(* Agents: the public listing, and prompts *)

LEMMA AgentCalls ==
  /\ Agent!EmptyTable = EmptyTable
  /\ \A table : Agent!Ids(table) = Ids(table)
  /\ \A table, row : Agent!Insert(table, row) = Insert(table, row)
  /\ \A table, id, row : Agent!Update(table, id, row) = Update(table, id, row)
  /\ \A table, id : Agent!Delete(table, id) = Delete(table, id)
  /\ \A table, Row, max : Agent!IsTable(table, Row, max) <=> IsTable(table, Row, max)
BY DEF Agent!EmptyTable, Agent!Ids, Agent!Insert, Agent!Update, Agent!Delete,
       Agent!IsTable, EmptyTable, Ids, Insert, Update, Delete, IsTable

\* Fields of an update, given or not.
Changes ==
  [owner : People \cup {Nothing, Keep}, group : Agent!Groups \cup {Nothing, Keep},
   mode : Agent!Modes \cup {Keep}, name : Names \cup {Keep},
   prompt : (1 .. MaxPrompt) \cup {Keep},
   private : BOOLEAN \cup {Keep}, public : BOOLEAN \cup {Keep}]

AgentLocals ==
  {Agent!Idle} \cup
  [pc : Agent!Stages, asked : Agent!Request, row : Agent!Agent \cup {Nothing},
   changes : Changes, id : 0 .. MaxAgent, todo : SUBSET Agent!AgentId]

\* What the locals of a thread are at each stage of a request.
AgentLocal(local) ==
  /\ local \in AgentLocals
  /\ local.pc = "read" =>
       local.asked.op \in {"update", "show", "viewEdit", "viewDelete", "clone"}
  /\ local.pc \in {"free", "prompt"} => local.asked.op \in {"create", "clone"}
  /\ local.pc \in {"free", "prompt"} /\ local.asked.op = "clone" => local.row \in Agent!Agent
  /\ local.pc = "clone" => local.asked.op = "clone"
  /\ local.pc = "text" => local.asked.op = "viewEdit"
  /\ local.pc \in {"insert", "write", "text"} => local.row \in Agent!Agent

AgentTyped ==
  /\ Shaped(agents) /\ IsTable(agents, Agent!Agent, MaxAgent)
  /\ Shaped(prompts) /\ IsTable(prompts, 0 .. 1, MaxPrompt)
  /\ asked \in 0 .. MaxCalls
  /\ named \subseteq 1 .. MaxPrompt
  /\ agentRequest \in [Handlers -> AgentLocals]
  /\ \A h \in Handlers : AgentLocal(agentRequest[h])

\* The prompts that clients named are noted before they are used.
Noted(local) ==
  /\ local.pc # "idle" /\ local.asked.op \in {"update", "viewEdit"} =>
       local.asked.changes.prompt \in named \cup {Keep}
  /\ local.pc # "idle" /\ local.asked.op = "create" => local.asked.prompt \in named \cup {0}
  /\ local.pc = "text" => local.changes.prompt \in named \cup {Keep}

AllNoted == \A h \in Handlers : Noted(agentRequest[h])

\* An agent uses a prompt, or a thread is about to make it use it; or the
\* thread is about to insert an agent that does.
Plans(local, agent, prompt) ==
  \/ local.pc = "write" /\ local.id = agent /\ local.row.prompt = prompt
  \/ /\ local.pc = "merge" /\ local.id = agent /\ local.changes.prompt = prompt
     /\ prompt # Keep

Uses(agent, prompt) ==
  \/ agent \in Ids(agents) /\ agents.rows[agent].prompt = prompt
  \/ \E h \in Handlers : Plans(agentRequest[h], agent, prompt)

Drafts(h, prompt) == agentRequest[h].pc = "insert" /\ agentRequest[h].row.prompt = prompt

Excused(prompt) == prompt \in named \cup {0}

\* But for those, a prompt is one agent's, and was inserted.
OwnPrompts ==
  /\ \A a, b, p : a # b /\ Uses(a, p) /\ Uses(b, p) => Excused(p)
  /\ \A h \in Handlers : \A a, p : Drafts(h, p) /\ Uses(a, p) => Excused(p)
  /\ \A h, k \in Handlers : \A p : h # k /\ Drafts(h, p) /\ Drafts(k, p) => Excused(p)
  /\ \A a, p : Uses(a, p) => Excused(p) \/ p \in 1 .. prompts.last
  /\ \A h \in Handlers : \A p : Drafts(h, p) => Excused(p) \/ p \in 1 .. prompts.last

\* What a thread has yet to serve was published while it ran.
Listed(local, watched) == local.pc # "idle" => local.todo \subseteq watched

AllListed == \A h \in Handlers : Listed(agentRequest[h], seen[h])

AgentInv == AllNoted /\ OwnPrompts /\ AllListed

\* Who is published now.
PublishedNow == {a \in Ids(agents) : agents.rows[a].public /\ ~agents.rows[a].private}

LEMMA IdleAgent ==
  /\ AgentLocal(Agent!Idle) /\ Agent!Idle.pc = "idle"
  /\ \A local \in AgentLocals : local.pc = "idle" <=> local = Agent!Idle
BY DEF AgentLocal, AgentLocals, Agent!Idle, Agent!Stages

LEMMA AgentAtWork ==
  ASSUME NEW local, AgentLocal(local), local.pc # "idle"
  PROVE  local \in [pc : Agent!Stages, asked : Agent!Request,
                    row : Agent!Agent \cup {Nothing}, changes : Changes,
                    id : 0 .. MaxAgent, todo : SUBSET Agent!AgentId]
BY IdleAgent DEF AgentLocal, AgentLocals

\* The requests by their operation.
LEMMA ChangesTyped ==
  /\ Agent!NoChange \in Changes
  /\ Agent!NoChange.prompt = Keep /\ Agent!NoChange.private = Keep
  /\ Agent!RouteChanges \subseteq Changes /\ Agent!ViewChanges \subseteq Changes
<1>1. /\ Agent!NoChange \in Changes
      /\ Agent!NoChange.prompt = Keep /\ Agent!NoChange.private = Keep
  BY DEF Agent!NoChange, Changes
<1> HIDE DEF Agent!NoChange
<1>2. ASSUME NEW x
      PROVE  /\ x \in People \cup {Nothing} => [Agent!NoChange EXCEPT !.owner = x] \in Changes
             /\ x \in Agent!Groups \cup {Nothing} =>
                  [Agent!NoChange EXCEPT !.group = x] \in Changes
             /\ x \in Names => [Agent!NoChange EXCEPT !.name = x] \in Changes
             /\ x \in Agent!PromptId => [Agent!NoChange EXCEPT !.prompt = x] \in Changes
  <2>1. x \in Agent!PromptId => x \in 1 .. MaxPrompt
    BY BoundsAre DEF Agent!PromptId
  <2> QED  BY <1>1, <2>1 DEF Changes
<1> DEFINE Truth == BOOLEAN \cup {Keep}
           Flag(p, q) == [Agent!NoChange EXCEPT !.private = p, !.public = q]
           flags == {Flag(p, q) : p \in Truth, q \in Truth}
           raw == {[Agent!NoChange EXCEPT !.private = p, !.public = q] :
                     p \in BOOLEAN \cup {Keep}, q \in BOOLEAN \cup {Keep}}
<1>3. Changes = [owner : People \cup {Nothing, Keep}, group : Agent!Groups \cup {Nothing, Keep},
                 mode : Agent!Modes \cup {Keep}, name : Names \cup {Keep},
                 prompt : (1 .. MaxPrompt) \cup {Keep}, private : Truth, public : Truth]
  BY DEF Changes
<1>4. flags = raw
  OBVIOUS
<1> HIDE DEF Truth
<1>5. \A p, q \in Truth : Flag(p, q) \in Changes
  BY <1>1, <1>3
<1> HIDE DEF Flag
<1>6. Agent!RouteChanges \subseteq Changes
  <2> DEFINE owners  == {[Agent!NoChange EXCEPT !.owner = u] : u \in People}
             joins   == {[Agent!NoChange EXCEPT !.group = g] : g \in Agent!Groups}
             titles  == {[Agent!NoChange EXCEPT !.name = n] : n \in Names}
             texts   == {[Agent!NoChange EXCEPT !.prompt = p] : p \in Agent!PromptId}
  <2>1. /\ owners \subseteq Changes /\ joins \subseteq Changes
        /\ titles \subseteq Changes /\ texts \subseteq Changes
    BY <1>2
  <2>2. flags \subseteq Changes
    BY <1>5
  <2> HIDE DEF flags
  <2>3. Agent!RouteChanges = owners \cup joins \cup titles \cup texts \cup raw
    BY DEF Agent!RouteChanges
  <2> HIDE DEF owners, joins, titles, texts, raw
  <2> QED  BY <1>4, <2>1, <2>2, <2>3
<1>7. Agent!ViewChanges \subseteq Changes
  BY <1>2, <1>6 DEF Agent!ViewChanges
<1> QED  BY <1>1, <1>6, <1>7

LEMMA AskedAgents ==
  ASSUME NEW r \in Agent!Request
  PROVE  /\ r.op \in {"create", "update", "viewEdit", "clone", "delete", "viewDelete",
                      "equip", "list", "show"}
         /\ r.op \in {"create", "update", "viewEdit", "clone"} => r.me \in People
         /\ r.op \notin {"create", "list"} => r.agent \in 1 .. MaxAgent
         /\ r.op \in {"create", "clone"} => r.name \in Names
         /\ r.op = "create" => r.private \in BOOLEAN /\ r.prompt \in 0 .. MaxPrompt
         /\ r.op \in {"update", "viewEdit"} => r.changes \in Changes
         /\ r.op = "viewEdit" => r.text \in BOOLEAN
<1>1. Agent!RouteChanges \subseteq Changes /\ Agent!ViewChanges \subseteq Changes
  BY ChangesTyped
<1> QED  BY <1>1 DEF Agent!Request, Agent!AgentId

\* A thread moves on, or ends, and the others stay where they are.
LEMMA AgentMoves ==
  ASSUME AgentTyped, NEW h \in Handlers, NEW local, AgentLocal(local), Agent!Go(h, local)
  PROVE  /\ agentRequest' \in [Handlers -> AgentLocals]
         /\ agentRequest'[h] = local
         /\ \A k \in Handlers : k # h => agentRequest'[k] = agentRequest[k]
         /\ \A k \in Handlers : AgentLocal(agentRequest'[k])
<1>1. agentRequest \in [Handlers -> AgentLocals] /\ local \in AgentLocals
  BY DEF AgentTyped, AgentLocal
<1>2. agentRequest' = [agentRequest EXCEPT ![h] = local]
  BY DEF Agent!Go
<1>3. /\ agentRequest' \in [Handlers -> AgentLocals]
      /\ agentRequest'[h] = local
      /\ \A k \in Handlers : k # h => agentRequest'[k] = agentRequest[k]
  BY <1>1, <1>2
<1> QED  BY <1>3 DEF AgentTyped

LEMMA AgentTypedRest ==
  ASSUME AgentTyped, NEW h \in Handlers, NEW local, AgentLocal(local), Agent!Go(h, local),
         Shaped(agents'), IsTable(agents', Agent!Agent, MaxAgent),
         Shaped(prompts'), IsTable(prompts', 0 .. 1, MaxPrompt),
         asked' \in 0 .. MaxCalls, named' \subseteq 1 .. MaxPrompt
  PROVE  AgentTyped'
<1>1. /\ agentRequest' \in [Handlers -> AgentLocals]
      /\ \A k \in Handlers : AgentLocal(agentRequest'[k])
  BY AgentMoves
<1>2. \A k \in Handlers : AgentLocal(agentRequest[k])'
  BY <1>1 DEF AgentLocal
<1> QED  BY <1>1, <1>2 DEF AgentTyped

\* What is noted stays noted.
LEMMA NotedKept ==
  ASSUME AgentTyped, AgentInv, NEW h \in Handlers, NEW local, AgentLocal(local),
         Agent!Go(h, local), named \subseteq named', Noted(local)'
  PROVE  AllNoted'
<1>1. /\ agentRequest'[h] = local
      /\ \A k \in Handlers : k # h => agentRequest'[k] = agentRequest[k]
  BY AgentMoves
<1>2. ASSUME NEW k \in Handlers PROVE Noted(agentRequest[k])'
  BY <1>1 DEF AgentInv, AllNoted, Noted
<1> QED  BY <1>2 DEF AllNoted

\* Every step notes who is published, before it and after it.
LEMMA ListedKept ==
  ASSUME AgentTyped, AgentInv, NEW h \in Handlers, NEW local, AgentLocal(local),
         Agent!Go(h, local), NEW new, Agent!Watch(new),
         local.pc # "idle" =>
           \A a \in local.todo : \/ agentRequest[h].pc # "idle" /\ a \in agentRequest[h].todo
                                 \/ a \in PublishedNow
  PROVE  AllListed'
<1>1. /\ agentRequest'[h] = local
      /\ \A k \in Handlers : k # h => agentRequest'[k] = agentRequest[k]
  BY AgentMoves
<1>2. ASSUME NEW k \in Handlers, agentRequest'[k].pc # "idle"
      PROVE  /\ PublishedNow \subseteq seen'[k]
             /\ agentRequest[k].pc # "idle" => seen[k] \subseteq seen'[k]
  BY <1>2, AgentCalls DEF Agent!Watch, PublishedNow
<1>3. ASSUME NEW k \in Handlers, agentRequest'[k].pc # "idle"
      PROVE  agentRequest'[k].todo \subseteq seen'[k]
  <2>1. CASE k = h
    BY <1>1, <1>2, <1>3, <2>1 DEF AgentInv, AllListed, Listed
  <2>2. CASE k # h
    BY <1>1, <1>2, <1>3, <2>2 DEF AgentInv, AllListed, Listed
  <2> QED  BY <2>1, <2>2
<1> QED  BY <1>3 DEF AllListed, Listed

\* Nobody comes to use another prompt, but for those that clients named.
LEMMA OwnKept ==
  ASSUME AgentTyped, OwnPrompts, prompts'.last \in Nat, prompts.last <= prompts'.last,
         \A p : Excused(p) => Excused(p)',
         \A a, p : Uses(a, p)' => Uses(a, p) \/ Excused(p)',
         \A h \in Handlers : \A p : Drafts(h, p)' => Drafts(h, p) \/ Excused(p)'
  PROVE  OwnPrompts'
<1>1. /\ \A a, b, p : a # b /\ Uses(a, p)' /\ Uses(b, p)' => Excused(p)'
      /\ \A h \in Handlers : \A a, p : Drafts(h, p)' /\ Uses(a, p)' => Excused(p)'
      /\ \A h, k \in Handlers : \A p : h # k /\ Drafts(h, p)' /\ Drafts(k, p)' => Excused(p)'
  BY DEF OwnPrompts
<1>2. \A p : p \in 1 .. prompts.last => p \in 1 .. prompts'.last
  BY DEF AgentTyped, Shaped
<1>3. /\ \A a, p : Uses(a, p)' => Excused(p)' \/ p \in 1 .. prompts'.last
      /\ \A h \in Handlers : \A p : Drafts(h, p)' => Excused(p)' \/ p \in 1 .. prompts'.last
  BY <1>2 DEF OwnPrompts
<1> QED  BY <1>1, <1>3 DEF OwnPrompts

\* Who uses a prompt after a step of a thread.
LEMMA UsesAfter ==
  ASSUME AgentTyped, NEW h \in Handlers, NEW local, AgentLocal(local), Agent!Go(h, local)
  PROVE  /\ \A a, p : Uses(a, p)' =>
              \/ a \in Ids(agents') /\ agents'.rows[a].prompt = p
              \/ Uses(a, p)
              \/ Plans(local, a, p)
         /\ \A k \in Handlers : \A p : Drafts(k, p)' =>
              \/ k # h /\ Drafts(k, p)
              \/ k = h /\ local.pc = "insert" /\ local.row.prompt = p
<1>1. /\ agentRequest'[h] = local
      /\ \A k \in Handlers : k # h => agentRequest'[k] = agentRequest[k]
  BY AgentMoves
<1>2. ASSUME NEW a, NEW p, Uses(a, p)'
      PROVE  \/ a \in Ids(agents') /\ agents'.rows[a].prompt = p
             \/ Uses(a, p)
             \/ Plans(local, a, p)
  <2>1. CASE a \in Ids(agents') /\ agents'.rows[a].prompt = p
    BY <2>1
  <2>2. ASSUME NEW k \in Handlers, Plans(agentRequest'[k], a, p)
        PROVE  Uses(a, p) \/ Plans(local, a, p)
    BY <1>1, <2>2 DEF Uses
  <2> QED  BY <1>2, <2>1, <2>2 DEF Uses, Plans
<1>3. ASSUME NEW k \in Handlers, NEW p, Drafts(k, p)'
      PROVE  \/ k # h /\ Drafts(k, p)
             \/ k = h /\ local.pc = "insert" /\ local.row.prompt = p
  BY <1>1, <1>3 DEF Drafts
<1> QED  BY <1>2, <1>3

\* Steps that leave the tables alone.
LEMMA AgentQuietInv ==
  ASSUME AgentTyped, AgentInv, NEW h \in Handlers, NEW local, AgentLocal(local),
         Agent!Go(h, local), UNCHANGED <<agents, prompts>>, Agent!Watch(agents),
         asked' \in 0 .. MaxCalls, named \subseteq named', named' \subseteq 1 .. MaxPrompt,
         Noted(local)',
         local.pc # "insert",
         \A a, p : Plans(local, a, p) => Uses(a, p) \/ Excused(p)',
         local.pc # "idle" =>
           \A a \in local.todo : \/ agentRequest[h].pc # "idle" /\ a \in agentRequest[h].todo
                                 \/ a \in PublishedNow
  PROVE  AgentTyped' /\ AgentInv'
<1>1. AllNoted' /\ AllListed'
  BY NotedKept, ListedKept
<1>2. \A p : Excused(p) => Excused(p)'
  BY DEF Excused
<1>3. \A a, p : Uses(a, p)' => Uses(a, p) \/ Excused(p)'
  <2>1. \A a, p : a \in Ids(agents') /\ agents'.rows[a].prompt = p => Uses(a, p)
    BY DEF Uses
  <2> QED  BY <2>1, UsesAfter
<1>4. \A k \in Handlers : \A p : Drafts(k, p)' => Drafts(k, p)
  BY UsesAfter
<1>5. prompts'.last \in Nat /\ prompts.last <= prompts'.last
  BY DEF AgentTyped, Shaped
<1>6. OwnPrompts'
  BY <1>2, <1>3, <1>4, <1>5, OwnKept DEF AgentInv
<1>7. AgentTyped'
  BY AgentTypedRest DEF AgentTyped
<1> QED  BY <1>1, <1>6, <1>7 DEF AgentInv

LEMMA AgentReceiveStep ==
  ASSUME AgentTyped, AgentInv, NEW h \in Handlers, Agent!Receive(h)
  PROVE  AgentTyped' /\ AgentInv'
<1>1. PICK r \in Agent!Request :
        /\ asked' = asked + 1
        /\ Agent!Go(h, Agent!At(CASE r.op = "create" -> "free"
                                  [] r.op = "equip"  -> "merge"
                                  [] r.op = "delete" -> "delete"
                                  [] r.op = "list"   -> "list"
                                  [] OTHER           -> "read",
                     r, Nothing,
                     IF r.op = "equip" THEN [Agent!NoChange EXCEPT !.private = TRUE]
                     ELSE Agent!NoChange,
                     IF r.op \in {"create", "list"} THEN 0 ELSE r.agent, {}))
        /\ named' = named \cup (CASE r.op \in {"update", "viewEdit"} -> {r.changes.prompt} \ {Keep}
                                  [] r.op = "create"               -> {r.prompt} \ {0}
                                  [] OTHER                         -> {})
        /\ UNCHANGED <<agents, prompts>>
        /\ Agent!Watch(agents)
  BY DEF Agent!Receive
<1>2. asked < MaxCalls
  BY DEF Agent!Receive
<1> DEFINE pc      == CASE r.op = "create" -> "free"
                        [] r.op = "equip"  -> "merge"
                        [] r.op = "delete" -> "delete"
                        [] r.op = "list"   -> "list"
                        [] OTHER           -> "read"
           changes == IF r.op = "equip" THEN [Agent!NoChange EXCEPT !.private = TRUE]
                      ELSE Agent!NoChange
           id      == IF r.op \in {"create", "list"} THEN 0 ELSE r.agent
           new     == Agent!At(pc, r, Nothing, changes, id, {})
<1>3. /\ pc \in {"free", "merge", "delete", "list", "read"}
      /\ pc = "free" => r.op = "create"
      /\ pc = "read" => r.op \in {"update", "show", "viewEdit", "viewDelete", "clone"}
  <2>1. /\ r.op = "create" => pc = "free"
        /\ r.op = "equip" => pc = "merge"
        /\ r.op = "delete" => pc = "delete"
        /\ r.op = "list" => pc = "list"
        /\ r.op \notin {"create", "equip", "delete", "list"} => pc = "read"
    OBVIOUS
  <2> HIDE DEF pc
  <2> QED  BY <2>1, AskedAgents
<1>4. changes \in Changes /\ changes.prompt = Keep
  BY ChangesTyped DEF Changes
<1>5. id \in 0 .. MaxAgent
  BY AskedAgents, BoundsAre
<1> HIDE DEF pc, changes, id
<1>6. /\ new.pc = pc /\ new.asked = r /\ new.row = Nothing /\ new.changes = changes
      /\ new.id = id /\ new.todo = {}
  BY DEF Agent!At
<1>7. new \in AgentLocals
  BY <1>3, <1>4, <1>5 DEF AgentLocals, Agent!At, Agent!Stages
<1>8. Agent!Go(h, new)
  BY <1>1 DEF pc, changes, id
<1> HIDE DEF new
<1>9. AgentLocal(new)
  BY <1>3, <1>6, <1>7 DEF AgentLocal
<1>14. /\ r.op \in {"update", "viewEdit"} => named' = named \cup ({r.changes.prompt} \ {Keep})
       /\ r.op = "create" => named' = named \cup ({r.prompt} \ {0})
       /\ r.op \notin {"create", "update", "viewEdit"} => named' = named
  BY <1>1
<1>10. Noted(new)'
  BY <1>3, <1>6, <1>14 DEF Noted
<1>11. named \subseteq named' /\ named' \subseteq 1 .. MaxPrompt
  <2>1. CASE r.op \in {"update", "viewEdit"}
    BY <1>14, <2>1, AskedAgents DEF AgentTyped, Changes
  <2>2. CASE r.op = "create"
    <3>1. r.prompt \in 0 .. MaxPrompt
      BY <2>2, AskedAgents
    <3>2. r.prompt # 0 => r.prompt \in 1 .. MaxPrompt
      BY <3>1, BoundsAre
    <3>3. {r.prompt} \ {0} \subseteq 1 .. MaxPrompt
      BY <3>2
    <3> QED  BY <1>14, <2>2, <3>3 DEF AgentTyped
  <2> QED  BY <1>14, <2>1, <2>2 DEF AgentTyped
<1>12. asked' \in 0 .. MaxCalls
  BY <1>1, <1>2, BoundsAre DEF AgentTyped
<1>13. \A a, p : ~Plans(new, a, p)
  BY <1>3, <1>4, <1>6 DEF Plans
<1> QED  BY <1>1, <1>3, <1>6, <1>8, <1>9, <1>10, <1>11, <1>12, <1>13, AgentQuietInv

\* The steps that only read.
LEMMA AgentReadStep ==
  ASSUME AgentTyped, AgentInv, NEW h \in Handlers, NEW local, AgentLocal(local),
         Agent!Go(h, local), Agent!Quiet, Noted(local), local.pc # "insert",
         \A a, p : Plans(local, a, p) => Uses(a, p) \/ Excused(p),
         local.pc # "idle" =>
           \A a \in local.todo : \/ agentRequest[h].pc # "idle" /\ a \in agentRequest[h].todo
                                 \/ a \in PublishedNow
  PROVE  AgentTyped' /\ AgentInv'
<1>1. UNCHANGED <<agents, prompts, asked, named>> /\ Agent!Watch(agents)
  BY DEF Agent!Quiet
<1>2. Noted(local)' /\ \A p : Excused(p) => Excused(p)'
  BY <1>1 DEF Noted, Excused
<1>3. asked' \in 0 .. MaxCalls /\ named \subseteq named' /\ named' \subseteq 1 .. MaxPrompt
  BY <1>1 DEF AgentTyped
<1> QED  BY <1>1, <1>2, <1>3, AgentQuietInv

LEMMA AgentEnds ==
  ASSUME AgentTyped, AgentInv, NEW h \in Handlers, Agent!Go(h, Agent!Idle), Agent!Quiet
  PROVE  AgentTyped' /\ AgentInv'
<1>1. \A a, p : ~Plans(Agent!Idle, a, p)
  BY DEF Plans, Agent!Idle
<1>2. Noted(Agent!Idle)
  BY DEF Noted, Agent!Idle
<1> QED  BY <1>1, <1>2, IdleAgent, AgentReadStep

\* What a thread at work is and knows.
LEMMA AgentHere ==
  ASSUME AgentTyped, AgentInv, NEW h \in Handlers, NEW here, here = agentRequest[h],
         here.pc # "idle"
  PROVE  /\ AgentLocal(here) /\ Noted(here)
         /\ here \in [pc : Agent!Stages, asked : Agent!Request,
                      row : Agent!Agent \cup {Nothing}, changes : Changes,
                      id : 0 .. MaxAgent, todo : SUBSET Agent!AgentId]
         /\ here.asked \in Agent!Request /\ here.changes \in Changes
         /\ here.id \in 0 .. MaxAgent
         /\ \A a \in Ids(agents) : agents.rows[a] \in Agent!Agent /\ a \in Agent!AgentId
<1>1. AgentLocal(here) /\ Noted(here)
  BY DEF AgentTyped, AgentInv, AllNoted
<1>2. \A a \in Ids(agents) : agents.rows[a] \in Agent!Agent /\ a \in Agent!AgentId
  BY BoundsAre DEF AgentTyped, IsTable, Agent!AgentId
<1> QED  BY <1>1, <1>2, AgentAtWork

\* What the route makes of the changes names no other prompt.
LEMMA DecidedTyped ==
  ASSUME NEW row, NEW me, NEW changes \in Changes
  PROVE  /\ Agent!Decided(row, me, changes) \in Changes
         /\ Agent!Decided(row, me, changes).prompt = changes.prompt
<1> DEFINE given == IF row.mode = Agent!NoMode
                      /\ Agent!OwnedBySession(Agent!Merged(row, changes), me)
                    THEN Agent!PrivateMode ELSE Keep
           flag  == IF row.public /\ changes.public # FALSE /\ ~Agent!Eligible(row, changes)
                    THEN FALSE ELSE changes.public
<1>1. Agent!PrivateMode \in Agent!Modes
  BY DEF Agent!PrivateMode, Agent!Modes
<1>2. given \in Agent!Modes \cup {Keep}
  BY <1>1
<1>3. flag \in BOOLEAN \cup {Keep}
  BY DEF Changes
<1>4. Agent!Decided(row, me, changes) = [changes EXCEPT !.mode = given, !.public = flag]
  BY DEF Agent!Decided
<1> HIDE DEF given, flag
<1> DEFINE Truth == BOOLEAN \cup {Keep}
<1>5. Changes = [owner : People \cup {Nothing, Keep}, group : Agent!Groups \cup {Nothing, Keep},
                 mode : Agent!Modes \cup {Keep}, name : Names \cup {Keep},
                 prompt : (1 .. MaxPrompt) \cup {Keep}, private : Truth, public : Truth]
  BY DEF Changes
<1> HIDE DEF Truth
<1>6. flag \in Truth
  BY <1>3 DEF Truth
<1> QED  BY <1>2, <1>4, <1>5, <1>6

\* A merge is of the row's fields and of the changes'.
LEMMA MergedTyped ==
  ASSUME NEW row \in Agent!Agent, NEW changes \in Changes
  PROVE  /\ Agent!Merged(row, changes) \in Agent!Agent
         /\ Agent!Merged(row, changes).prompt =
              IF changes.prompt = Keep THEN row.prompt ELSE changes.prompt
<1> DEFINE Truth == BOOLEAN
           Pick(new, old) == IF new = Keep THEN old ELSE new
<1>1. Agent!Agent = [owner : People \cup {Nothing}, group : Agent!Groups \cup {Nothing},
                     mode : Agent!Modes, name : Names, prompt : 0 .. MaxPrompt,
                     private : Truth, public : Truth]
  BY DEF Agent!Agent
<1>2. /\ changes.owner \in People \cup {Nothing, Keep}
      /\ changes.group \in Agent!Groups \cup {Nothing, Keep}
      /\ changes.mode \in Agent!Modes \cup {Keep} /\ changes.name \in Names \cup {Keep}
      /\ changes.prompt \in (0 .. MaxPrompt) \cup {Keep}
      /\ changes.private \in Truth \cup {Keep} /\ changes.public \in Truth \cup {Keep}
  BY DEF Changes
<1> HIDE DEF Truth
<1>3. /\ Pick(changes.owner, row.owner) \in People \cup {Nothing}
      /\ Pick(changes.group, row.group) \in Agent!Groups \cup {Nothing}
      /\ Pick(changes.mode, row.mode) \in Agent!Modes
      /\ Pick(changes.name, row.name) \in Names
      /\ Pick(changes.prompt, row.prompt) \in 0 .. MaxPrompt
      /\ Pick(changes.private, row.private) \in Truth
      /\ Pick(changes.public, row.public) \in Truth
  BY <1>1, <1>2
<1>4. Agent!Merged(row, changes) =
        [row EXCEPT !.owner   = Pick(changes.owner, row.owner),
                    !.group   = Pick(changes.group, row.group),
                    !.mode    = Pick(changes.mode, row.mode),
                    !.name    = Pick(changes.name, row.name),
                    !.prompt  = Pick(changes.prompt, row.prompt),
                    !.private = Pick(changes.private, row.private),
                    !.public  = Pick(changes.public, row.public)]
  BY <1>1 DEF Agent!Merged, Agent!Chosen
<1>5. Pick(changes.prompt, row.prompt) =
        IF changes.prompt = Keep THEN row.prompt ELSE changes.prompt
  OBVIOUS
<1> HIDE DEF Pick
<1> QED  BY <1>1, <1>3, <1>4, <1>5

LEMMA ReadAgentStep ==
  ASSUME AgentTyped, AgentInv, NEW h \in Handlers, Agent!ReadAgent(h)
  PROVE  AgentTyped' /\ AgentInv'
<1>1. PICK here : here = agentRequest[h]
  OBVIOUS
<1>2. PICK row : row = agents.rows[here.id]
  OBVIOUS
<1>3. here.pc = "read" /\ Agent!Quiet
  BY <1>1 DEF Agent!ReadAgent
<1>4. /\ AgentLocal(here) /\ Noted(here)
      /\ here \in [pc : Agent!Stages, asked : Agent!Request,
                   row : Agent!Agent \cup {Nothing}, changes : Changes,
                   id : 0 .. MaxAgent, todo : SUBSET Agent!AgentId]
      /\ here.asked \in Agent!Request /\ here.id \in 0 .. MaxAgent
      /\ here.id \in Ids(agents) => row \in Agent!Agent /\ here.id \in Agent!AgentId
  BY <1>1, <1>2, <1>3, AgentHere
<1> DEFINE r == here.asked
           Goal == AgentTyped' /\ AgentInv'
<1> SUFFICES Goal
  OBVIOUS
<1>5. CASE Agent!Go(h, Agent!Idle)
  BY <1>3, <1>5, AgentEnds
<1>6. CASE /\ here.id \in Ids(agents) /\ r.op = "update"
           /\ Agent!Go(h, [here EXCEPT !.pc = "merge",
                             !.changes = Agent!Decided(row, r.me, r.changes)])
  <2> DEFINE changes == Agent!Decided(row, r.me, r.changes)
             new == [here EXCEPT !.pc = "merge", !.changes = changes]
  <2>1. r.changes \in Changes /\ r.changes.prompt \in named \cup {Keep}
    BY <1>3, <1>4, <1>6, AskedAgents DEF Noted
  <2>2. changes \in Changes /\ changes.prompt \in named \cup {Keep}
    BY <2>1, DecidedTyped
  <2> HIDE DEF changes
  <2>3. /\ new.pc = "merge" /\ new.asked = here.asked /\ new.changes = changes
        /\ new.id = here.id /\ new.todo = here.todo
    BY <1>4
  <2>4. new \in AgentLocals
    BY <1>4, <2>2 DEF AgentLocals, Agent!Stages
  <2>5. Agent!Go(h, new)
    BY <1>6 DEF changes
  <2> HIDE DEF new
  <2>6. AgentLocal(new) /\ Noted(new)
    BY <1>3, <1>4, <2>3, <2>4 DEF AgentLocal, Noted
  <2>7. \A a, p : Plans(new, a, p) => Excused(p)
    BY <2>2, <2>3 DEF Plans, Excused
  <2> QED  BY <1>1, <1>3, <2>3, <2>5, <2>6, <2>7, AgentReadStep
<1>7. CASE /\ here.id \in Ids(agents) /\ r.op = "show" /\ Agent!Published(row)
           /\ Agent!Go(h, [here EXCEPT !.pc = "serve", !.todo = {here.id}])
  <2> DEFINE new == [here EXCEPT !.pc = "serve", !.todo = {here.id}]
  <2>1. /\ new.pc = "serve" /\ new.asked = here.asked /\ new.todo = {here.id}
        /\ new \in AgentLocals
    BY <1>4, <1>7 DEF AgentLocals, Agent!Stages
  <2>2. here.id \in PublishedNow
    BY <1>2, <1>7, ChangesTyped
       DEF PublishedNow, Agent!Published, Agent!Eligible, Agent!Chosen
  <2> HIDE DEF new
  <2>3. AgentLocal(new) /\ Noted(new) /\ \A a, p : ~Plans(new, a, p)
    BY <1>3, <1>4, <2>1 DEF AgentLocal, Noted, Plans
  <2>4. Agent!Go(h, new)
    BY <1>7 DEF new
  <2> QED  BY <1>1, <1>3, <2>1, <2>2, <2>3, <2>4, AgentReadStep
<1>8. ASSUME NEW pc \in {"text", "merge", "delete", "clone"}, NEW changes \in Changes,
             here.id \in Ids(agents),
             pc = "text" => r.op = "viewEdit", pc = "clone" => r.op = "clone",
             IF r.op = "viewEdit" THEN changes = r.changes ELSE changes = Agent!NoChange,
             Agent!Go(h, [here EXCEPT !.pc = pc, !.changes = changes, !.row = row])
      PROVE  Goal
  <2> DEFINE new == [here EXCEPT !.pc = pc, !.changes = changes, !.row = row]
  <2>1. changes.prompt \in named \cup {Keep}
    BY <1>3, <1>4, <1>8, ChangesTyped DEF Noted
  <2>2. /\ new.pc = pc /\ new.asked = here.asked /\ new.changes = changes
        /\ new.row = row /\ new.todo = here.todo
        /\ new \in AgentLocals
    BY <1>4, <1>8 DEF AgentLocals, Agent!Stages
  <2> HIDE DEF new
  <2>3. AgentLocal(new)
    BY <1>4, <1>8, <2>2 DEF AgentLocal
  <2>4. Noted(new) /\ \A a, p : Plans(new, a, p) => Excused(p)
    BY <1>3, <1>4, <2>1, <2>2 DEF Noted, Plans, Excused
  <2>5. Agent!Go(h, new)
    BY <1>8 DEF new
  <2> QED  BY <1>1, <1>3, <1>8, <2>2, <2>3, <2>4, <2>5, AgentReadStep
<1>9. CASE /\ here.id \in Ids(agents) /\ r.op \in {"viewEdit", "viewDelete", "clone"}
           /\ Agent!Go(h, [here EXCEPT
                      !.pc = CASE r.op = "viewEdit"   -> IF r.text THEN "text" ELSE "merge"
                               [] r.op = "viewDelete" -> "delete"
                               [] r.op = "clone"      -> "clone",
                      !.changes = IF r.op = "viewEdit" THEN r.changes ELSE Agent!NoChange,
                      !.row = row])
  <2>1. CASE r.op = "viewEdit"
    <3>1. r.changes \in Changes
      BY <1>4, <2>1, AskedAgents
    <3>2. \E pc \in {"text", "merge"} :
            Agent!Go(h, [here EXCEPT !.pc = pc, !.changes = r.changes, !.row = row])
      BY <1>9, <2>1
    <3> HIDE DEF Goal
    <3> QED  BY <1>8, <1>9, <2>1, <3>1, <3>2
  <2>2. CASE r.op \in {"viewDelete", "clone"}
    <3>1. \E pc \in {"delete", "clone"} :
            /\ pc = "clone" => r.op = "clone"
            /\ Agent!Go(h, [here EXCEPT !.pc = pc, !.changes = Agent!NoChange, !.row = row])
      BY <1>9, <2>2
    <3> HIDE DEF Goal
    <3> QED  BY <1>8, <1>9, <2>2, <3>1, ChangesTyped
  <2> QED  BY <1>9, <2>1, <2>2
<1>10. \/ Agent!Go(h, Agent!Idle)
       \/ /\ here.id \in Ids(agents) /\ r.op = "update"
          /\ Agent!Go(h, [here EXCEPT !.pc = "merge",
                            !.changes = Agent!Decided(row, r.me, r.changes)])
       \/ /\ here.id \in Ids(agents) /\ r.op = "show" /\ Agent!Published(row)
          /\ Agent!Go(h, [here EXCEPT !.pc = "serve", !.todo = {here.id}])
       \/ /\ here.id \in Ids(agents) /\ r.op \in {"viewEdit", "viewDelete", "clone"}
          /\ Agent!Go(h, [here EXCEPT
                      !.pc = CASE r.op = "viewEdit"   -> IF r.text THEN "text" ELSE "merge"
                               [] r.op = "viewDelete" -> "delete"
                               [] r.op = "clone"      -> "clone",
                      !.changes = IF r.op = "viewEdit" THEN r.changes ELSE Agent!NoChange,
                      !.row = row])
  BY <1>1, <1>2, AgentCalls DEF Agent!ReadAgent
<1> HIDE DEF Goal
<1> QED  BY <1>5, <1>6, <1>7, <1>9, <1>10

LEMMA AgentChecksStep ==
  ASSUME AgentTyped, AgentInv, NEW h \in Handlers,
         Agent!CheckFree(h) \/ Agent!ReadSource(h) \/ Agent!TextRefused(h)
  PROVE  AgentTyped' /\ AgentInv'
<1>1. PICK here : here = agentRequest[h]
  OBVIOUS
<1>2. here.pc \in {"free", "clone", "text"} /\ Agent!Quiet
  BY <1>1 DEF Agent!CheckFree, Agent!ReadSource, Agent!TextRefused
<1>3. /\ AgentLocal(here) /\ Noted(here)
      /\ here \in [pc : Agent!Stages, asked : Agent!Request,
                   row : Agent!Agent \cup {Nothing}, changes : Changes,
                   id : 0 .. MaxAgent, todo : SUBSET Agent!AgentId]
      /\ \A a \in Ids(agents) : agents.rows[a] \in Agent!Agent
  BY <1>1, <1>2, AgentHere
<1> DEFINE Goal == AgentTyped' /\ AgentInv'
<1> SUFFICES Goal
  OBVIOUS
<1>4. CASE Agent!Go(h, Agent!Idle)
  BY <1>2, <1>4, AgentEnds
<1>5. CASE here.pc = "free" /\ Agent!Go(h, [here EXCEPT !.pc = "prompt"])
  <2> DEFINE new == [here EXCEPT !.pc = "prompt"]
  <2>1. /\ new.pc = "prompt" /\ new.asked = here.asked /\ new.row = here.row
        /\ new.todo = here.todo /\ new \in AgentLocals
    BY <1>3 DEF AgentLocals, Agent!Stages
  <2> HIDE DEF new
  <2>2. AgentLocal(new) /\ Noted(new) /\ \A a, p : ~Plans(new, a, p)
    BY <1>2, <1>3, <1>5, <2>1 DEF AgentLocal, Noted, Plans
  <2>3. Agent!Go(h, new)
    BY <1>5 DEF new
  <2> QED  BY <1>1, <1>2, <2>1, <2>2, <2>3, AgentReadStep
<1>6. CASE /\ here.pc = "clone" /\ here.id \in Ids(agents)
           /\ Agent!Go(h, [here EXCEPT !.pc = "free", !.row = agents.rows[here.id]])
  <2>1. PICK row : row = agents.rows[here.id]
    OBVIOUS
  <2> DEFINE new == [here EXCEPT !.pc = "free", !.row = row]
  <2>2. row \in Agent!Agent
    BY <1>3, <1>6, <2>1
  <2>3. /\ new.pc = "free" /\ new.asked = here.asked /\ new.row = row
        /\ new.todo = here.todo /\ new \in AgentLocals
    BY <1>3, <2>2 DEF AgentLocals, Agent!Stages
  <2> HIDE DEF new
  <2>4. AgentLocal(new) /\ Noted(new) /\ \A a, p : ~Plans(new, a, p)
    BY <1>2, <1>3, <1>6, <2>2, <2>3 DEF AgentLocal, Noted, Plans
  <2>5. Agent!Go(h, new)
    BY <1>6, <2>1 DEF new
  <2> QED  BY <1>1, <1>2, <2>3, <2>4, <2>5, AgentReadStep
<1>7. \/ Agent!Go(h, Agent!Idle)
      \/ here.pc = "free" /\ Agent!Go(h, [here EXCEPT !.pc = "prompt"])
      \/ /\ here.pc = "clone" /\ here.id \in Ids(agents)
         /\ Agent!Go(h, [here EXCEPT !.pc = "free", !.row = agents.rows[here.id]])
  BY <1>1, AgentCalls DEF Agent!CheckFree, Agent!ReadSource, Agent!TextRefused
<1> HIDE DEF Goal
<1> QED  BY <1>4, <1>5, <1>6, <1>7

\* A merge plans for the agent what it uses, or what the changes name.
LEMMA ReadAndMergeStep ==
  ASSUME AgentTyped, AgentInv, NEW h \in Handlers, Agent!ReadAndMerge(h)
  PROVE  AgentTyped' /\ AgentInv'
<1>1. PICK here : here = agentRequest[h]
  OBVIOUS
<1>2. here.pc = "merge" /\ Agent!Quiet
  BY <1>1 DEF Agent!ReadAndMerge
<1>3. /\ AgentLocal(here) /\ Noted(here) /\ here.changes \in Changes
      /\ here \in [pc : Agent!Stages, asked : Agent!Request,
                   row : Agent!Agent \cup {Nothing}, changes : Changes,
                   id : 0 .. MaxAgent, todo : SUBSET Agent!AgentId]
      /\ \A a \in Ids(agents) : agents.rows[a] \in Agent!Agent
  BY <1>1, <1>2, AgentHere
<1>4. CASE Agent!Go(h, Agent!Idle)
  BY <1>2, <1>4, AgentEnds
<1>5. CASE /\ here.id \in Ids(agents)
           /\ Agent!Go(h, [here EXCEPT !.pc = "write",
                             !.row = Agent!Merged(agents.rows[here.id], here.changes)])
  <2>1. PICK row : row = Agent!Merged(agents.rows[here.id], here.changes)
    OBVIOUS
  <2>2. /\ row \in Agent!Agent
        /\ row.prompt = IF here.changes.prompt = Keep THEN agents.rows[here.id].prompt
                        ELSE here.changes.prompt
    BY <1>3, <1>5, <2>1, MergedTyped
  <2> DEFINE new == [here EXCEPT !.pc = "write", !.row = row]
  <2>3. /\ new.pc = "write" /\ new.asked = here.asked /\ new.row = row
        /\ new.id = here.id /\ new.todo = here.todo /\ new \in AgentLocals
    BY <1>3, <2>2 DEF AgentLocals, Agent!Stages
  <2> HIDE DEF new
  <2>4. AgentLocal(new) /\ Noted(new)
    BY <1>2, <1>3, <2>2, <2>3 DEF AgentLocal, Noted
  <2>5. Agent!Go(h, new)
    BY <1>5, <2>1 DEF new
  <2>6. Uses(here.id, row.prompt)
    BY <1>1, <1>2, <1>5, <2>2 DEF Uses, Plans
  <2>7. \A a, p : Plans(new, a, p) => Uses(a, p)
    BY <2>3, <2>6 DEF Plans
  <2> QED  BY <1>1, <1>2, <2>3, <2>4, <2>5, <2>7, AgentReadStep
<1> QED  BY <1>1, <1>4, <1>5, AgentCalls DEF Agent!ReadAndMerge

\* The listing takes who is published now, and then serves no other.
LEMMA AgentServeStep ==
  ASSUME AgentTyped, AgentInv, NEW h \in Handlers, Agent!ListPublic(h) \/ Agent!ServeNext(h)
  PROVE  AgentTyped' /\ AgentInv'
<1>1. PICK here : here = agentRequest[h]
  OBVIOUS
<1>2. here.pc \in {"list", "serve"} /\ Agent!Quiet
  BY <1>1 DEF Agent!ListPublic, Agent!ServeNext
<1>3. /\ AgentLocal(here) /\ Noted(here)
      /\ here \in [pc : Agent!Stages, asked : Agent!Request,
                   row : Agent!Agent \cup {Nothing}, changes : Changes,
                   id : 0 .. MaxAgent, todo : SUBSET Agent!AgentId]
      /\ \A a \in Ids(agents) : a \in Agent!AgentId
  BY <1>1, <1>2, AgentHere
<1>4. CASE Agent!Go(h, Agent!Idle)
  BY <1>2, <1>4, AgentEnds
<1>5. ASSUME NEW todo \in SUBSET Agent!AgentId, todo \subseteq here.todo \cup PublishedNow,
             Agent!Go(h, [here EXCEPT !.pc = "serve", !.todo = todo])
      PROVE  AgentTyped' /\ AgentInv'
  <2> DEFINE new == [here EXCEPT !.pc = "serve", !.todo = todo]
  <2>1. /\ new.pc = "serve" /\ new.asked = here.asked /\ new.todo = todo
        /\ new \in AgentLocals
    BY <1>3 DEF AgentLocals, Agent!Stages
  <2> HIDE DEF new
  <2>2. AgentLocal(new) /\ Noted(new) /\ \A a, p : ~Plans(new, a, p)
    BY <1>2, <1>3, <2>1 DEF AgentLocal, Noted, Plans
  <2>3. Agent!Go(h, new)
    BY <1>5 DEF new
  <2> QED  BY <1>1, <1>2, <1>5, <2>1, <2>2, <2>3, AgentReadStep
<1>6. CASE Agent!ListPublic(h)
  <2> DEFINE todo == {a \in Ids(agents) : Agent!Published(agents.rows[a])}
  <2>1. \A a \in todo : a \in PublishedNow /\ a \in Agent!AgentId
    BY <1>3, ChangesTyped DEF PublishedNow, Agent!Published, Agent!Eligible, Agent!Chosen
  <2>2. Agent!Go(h, [here EXCEPT !.pc = "serve", !.todo = todo])
    BY <1>1, <1>6, AgentCalls DEF Agent!ListPublic
  <2> HIDE DEF todo
  <2> QED  BY <1>5, <2>1, <2>2
<1>7. CASE Agent!ServeNext(h)
  <2>1. here.pc = "serve"
    BY <1>1, <1>7 DEF Agent!ServeNext
  <2>2. \/ Agent!Go(h, Agent!Idle)
        \/ \E a : Agent!Go(h, [here EXCEPT !.todo = here.todo \ {a}])
    BY <1>1, <1>7 DEF Agent!ServeNext
  <2>3. \A a : [here EXCEPT !.todo = here.todo \ {a}] =
                 [here EXCEPT !.pc = "serve", !.todo = here.todo \ {a}]
    BY <1>3, <2>1
  <2>4. \A a : /\ here.todo \ {a} \in SUBSET Agent!AgentId
               /\ here.todo \ {a} \subseteq here.todo \cup PublishedNow
    BY <1>3
  <2>5. ASSUME NEW a, Agent!Go(h, [here EXCEPT !.todo = here.todo \ {a}])
        PROVE  AgentTyped' /\ AgentInv'
    <3>1. PICK todo : todo = here.todo \ {a}
      OBVIOUS
    <3>2. Agent!Go(h, [here EXCEPT !.pc = "serve", !.todo = todo])
      BY <2>3, <2>5, <3>1
    <3>3. todo \in SUBSET Agent!AgentId /\ todo \subseteq here.todo \cup PublishedNow
      BY <2>4, <3>1
    <3> QED  BY <1>5, <3>2, <3>3
  <2> QED  BY <1>4, <2>2, <2>5
<1> QED  BY <1>6, <1>7

\* Steps that write the tables: what is left to show of them.
LEMMA AgentWrites ==
  ASSUME AgentTyped, AgentInv, NEW h \in Handlers, NEW local, AgentLocal(local),
         Agent!Go(h, local), NEW new, Agent!Watch(new), UNCHANGED <<asked, named>>,
         Noted(local), OwnPrompts',
         local.pc # "idle" => agentRequest[h].pc # "idle" /\ local.todo = agentRequest[h].todo,
         Shaped(agents'), IsTable(agents', Agent!Agent, MaxAgent),
         Shaped(prompts'), IsTable(prompts', 0 .. 1, MaxPrompt)
  PROVE  AgentTyped' /\ AgentInv'
<1>1. Noted(local)'
  BY DEF Noted
<1>2. AllNoted' /\ AllListed'
  BY <1>1, NotedKept, ListedKept
<1>3. AgentTyped'
  BY AgentTypedRest DEF AgentTyped
<1> QED  BY <1>2, <1>3 DEF AgentInv

LEMMA AgentTablesTyped ==
  ASSUME AgentTyped
  PROVE  /\ Shaped(agents) /\ IsTable(agents, Agent!Agent, MaxAgent)
         /\ Shaped(prompts) /\ IsTable(prompts, 0 .. 1, MaxPrompt)
         /\ agents.last \in Nat /\ prompts.last \in Nat
         /\ MaxAgent \in Nat /\ MaxPrompt \in Nat
BY BoundsAre DEF AgentTyped, Shaped

\* The row that is written has the prompt its thread planned.
LEMMA WriteAgentStep ==
  ASSUME AgentTyped, AgentInv, NEW h \in Handlers, Agent!WriteAgent(h) \/ Agent!DeleteAgent(h)
  PROVE  AgentTyped' /\ AgentInv'
<1>1. PICK here : here = agentRequest[h]
  OBVIOUS
<1>2. /\ here.pc \in {"write", "delete"} /\ Agent!Go(h, Agent!Idle)
      /\ UNCHANGED <<prompts, asked, named>> /\ \E new : Agent!Watch(new)
  BY <1>1 DEF Agent!WriteAgent, Agent!DeleteAgent
<1>3. AgentLocal(here)
  BY <1>1, <1>2, AgentHere
<1>4. /\ Shaped(agents') /\ IsTable(agents', Agent!Agent, MaxAgent)
      /\ \A a \in Ids(agents') : a \in Ids(agents)
      /\ \A a \in Ids(agents') : \/ agents'.rows[a] = agents.rows[a]
                                 \/ /\ here.pc = "write" /\ a = here.id
                                    /\ agents'.rows[a] = here.row
  <2>1. CASE Agent!WriteAgent(h)
    <3>1. agents' = Update(agents, here.id, here.row) /\ here.pc = "write"
      BY <1>1, <2>1, AgentCalls DEF Agent!WriteAgent
    <3>2. here.row \in Agent!Agent
      BY <1>3, <3>1 DEF AgentLocal
    <3>3. IsTable(agents', Agent!Agent, MaxAgent)
      BY <3>1, <3>2, AgentTablesTyped, TableKept
    <3> QED  BY <3>1, <3>3, AgentTablesTyped, Updated
  <2>2. CASE Agent!DeleteAgent(h)
    <3>1. agents' = Delete(agents, here.id)
      BY <1>1, <2>2, AgentCalls DEF Agent!DeleteAgent
    <3>2. IsTable(agents', Agent!Agent, MaxAgent)
      BY <3>1, AgentTablesTyped, TableLeft
    <3> QED  BY <3>1, <3>2, AgentTablesTyped, Deleted
  <2> QED  BY <2>1, <2>2
<1>5. \A a, p : ~Plans(Agent!Idle, a, p)
  BY DEF Plans, Agent!Idle
<1>6. \A a, p : Uses(a, p)' => Uses(a, p)
  <2>1. \A a, p : a \in Ids(agents') /\ agents'.rows[a].prompt = p => Uses(a, p)
    BY <1>1, <1>4 DEF Uses, Plans
  <2> QED  BY <1>2, <1>5, <2>1, IdleAgent, UsesAfter
<1>7. \A k \in Handlers : \A p : Drafts(k, p)' => Drafts(k, p)
  BY <1>2, IdleAgent, UsesAfter
<1>8. OwnPrompts'
  <2>1. \A p : Excused(p) => Excused(p)'
    BY <1>2 DEF Excused
  <2> QED  BY <1>2, <1>6, <1>7, <2>1, OwnKept, AgentTablesTyped DEF AgentInv
<1>9. Noted(Agent!Idle)
  BY DEF Noted, Agent!Idle
<1> QED  BY <1>2, <1>4, <1>8, <1>9, IdleAgent, AgentTablesTyped, AgentWrites

\* The agent that is inserted takes over the prompt of its draft.
LEMMA InsertAgentStep ==
  ASSUME AgentTyped, AgentInv, NEW h \in Handlers, Agent!InsertAgent(h)
  PROVE  AgentTyped' /\ AgentInv'
<1>1. PICK here : here = agentRequest[h]
  OBVIOUS
<1>2. PICK id : id = agents.last + 1
  OBVIOUS
<1> DEFINE new == [here EXCEPT !.pc = "write", !.id = id]
<1>3. /\ here.pc = "insert" /\ agents.last < MaxAgent /\ agents' = Insert(agents, here.row)
      /\ UNCHANGED <<prompts, asked, named>> /\ \E table : Agent!Watch(table)
      /\ Agent!Go(h, [here EXCEPT !.pc = "write",
                        !.id = CHOOSE a \in Ids(agents') : a \notin Ids(agents)])
  BY <1>1, AgentCalls DEF Agent!InsertAgent
<1>4. /\ AgentLocal(here) /\ Noted(here)
      /\ here \in [pc : Agent!Stages, asked : Agent!Request,
                   row : Agent!Agent \cup {Nothing}, changes : Changes,
                   id : 0 .. MaxAgent, todo : SUBSET Agent!AgentId]
      /\ here.row \in Agent!Agent
  BY <1>1, <1>3, AgentHere DEF AgentLocal
<1>5. /\ Shaped(agents') /\ Ids(agents') = Ids(agents) \cup {id} /\ id \notin Ids(agents)
      /\ agents'.rows[id] = here.row
      /\ \A a \in Ids(agents) : agents'.rows[a] = agents.rows[a]
      /\ IsTable(agents', Agent!Agent, MaxAgent)
  <2>1. IsTable(agents', Agent!Agent, MaxAgent)
    BY <1>3, <1>4, AgentTablesTyped, TableKept
  <2> QED  BY <1>2, <1>3, <2>1, AgentTablesTyped, Inserted
<1>6. Agent!Go(h, new) /\ id \in 0 .. MaxAgent
  <2>1. (CHOOSE a \in Ids(agents') : a \notin Ids(agents)) = id
    BY <1>5
  <2>2. id \in 0 .. MaxAgent
    BY <1>2, <1>3, AgentTablesTyped
  <2> QED  BY <1>3, <2>1, <2>2
<1>7. /\ new.pc = "write" /\ new.asked = here.asked /\ new.row = here.row
      /\ new.id = id /\ new.todo = here.todo /\ new \in AgentLocals
  BY <1>4, <1>6 DEF AgentLocals, Agent!Stages
<1> HIDE DEF new
<1>8. AgentLocal(new) /\ Noted(new)
  BY <1>3, <1>4, <1>7 DEF AgentLocal, Noted
<1>9. \A a, p : Uses(a, p)' => Uses(a, p) \/ (a = id /\ Drafts(h, p))
  <2>1. \A a, p : a \in Ids(agents') /\ agents'.rows[a].prompt = p =>
                    Uses(a, p) \/ (a = id /\ Drafts(h, p))
    BY <1>1, <1>3, <1>5 DEF Uses, Drafts
  <2>2. \A a, p : Plans(new, a, p) => a = id /\ Drafts(h, p)
    BY <1>1, <1>3, <1>7 DEF Plans, Drafts
  <2> QED  BY <1>6, <1>8, <2>1, <2>2, UsesAfter
<1>10. \A k \in Handlers : \A p : Drafts(k, p)' => k # h /\ Drafts(k, p)
  BY <1>6, <1>7, <1>8, UsesAfter
<1>11. \A p : Excused(p)' <=> Excused(p)
  BY <1>3 DEF Excused
<1>12. OwnPrompts'
  <2>1. OwnPrompts /\ prompts'.last = prompts.last
    BY <1>3 DEF AgentInv
  <2>2. /\ \A a, b, p : a # b /\ Uses(a, p)' /\ Uses(b, p)' => Excused(p)'
        /\ \A k \in Handlers : \A a, p : Drafts(k, p)' /\ Uses(a, p)' => Excused(p)'
        /\ \A j, k \in Handlers : \A p : j # k /\ Drafts(j, p)' /\ Drafts(k, p)' => Excused(p)'
        /\ \A a, p : Uses(a, p)' => Excused(p)' \/ p \in 1 .. prompts'.last
        /\ \A k \in Handlers : \A p : Drafts(k, p)' => Excused(p)' \/ p \in 1 .. prompts'.last
    BY <1>9, <1>10, <1>11, <2>1 DEF OwnPrompts
  <2> QED  BY <2>2 DEF OwnPrompts
<1> QED  BY <1>1, <1>3, <1>5, <1>6, <1>7, <1>8, <1>12, AgentTablesTyped, AgentWrites

\* A new prompt, which nobody uses.
LEMMA PromptInserted ==
  ASSUME AgentTyped, prompts.last < MaxPrompt, NEW new, new = prompts.last + 1,
         prompts' = Insert(prompts, 0), OwnPrompts
  PROVE  /\ Shaped(prompts') /\ IsTable(prompts', 0 .. 1, MaxPrompt)
         /\ prompts'.last = new /\ new \in 1 .. MaxPrompt
         /\ \A a : Uses(a, new) => Excused(new)
         /\ \A k \in Handlers : Drafts(k, new) => Excused(new)
         /\ \A p : p \in 1 .. prompts.last => p \in 1 .. prompts'.last
<1>1. /\ Shaped(prompts') /\ prompts'.last = new /\ new \in 1 .. MaxPrompt
      /\ new \notin 1 .. prompts.last
      /\ \A p : p \in 1 .. prompts.last => p \in 1 .. prompts'.last
  BY AgentTablesTyped, Inserted
<1>2. IsTable(prompts', 0 .. 1, MaxPrompt)
  BY AgentTablesTyped, TableKept
<1> QED  BY <1>1, <1>2 DEF OwnPrompts

LEMMA RowsTyped ==
  ASSUME NEW here, AgentLocal(here), here.pc = "prompt", NEW prompt \in 0 .. MaxPrompt
  PROVE  /\ Agent!NewRow(here, prompt) \in Agent!Agent
         /\ Agent!NewRow(here, prompt).prompt = prompt
<1>1. /\ here.asked \in Agent!Request /\ here.asked.op \in {"create", "clone"}
      /\ here.asked.op = "clone" => here.row \in Agent!Agent
  BY AgentAtWork DEF AgentLocal
<1> DEFINE r == here.asked
<1>2. /\ r.me \in People /\ r.name \in Names
      /\ r.op = "create" => r.private \in BOOLEAN
  BY <1>1, AskedAgents
<1>3. CASE r.op = "create"
  <2>1. Agent!NewRow(here, prompt) =
          [owner |-> r.me, group |-> Nothing, mode |-> Agent!PrivateMode, name |-> r.name,
           prompt |-> prompt, private |-> r.private, public |-> FALSE]
    BY <1>3 DEF Agent!NewRow, Agent!Blank
  <2>2. Agent!PrivateMode \in Agent!Modes
    BY DEF Agent!PrivateMode, Agent!Modes
  <2> QED  BY <1>2, <1>3, <2>1, <2>2 DEF Agent!Agent
<1>4. CASE r.op = "clone"
  <2> DEFINE row  == here.row
             bits == [row.mode EXCEPT !["owner"] = @ \cup {"w"}]
  <2>1. row \in Agent!Agent
    BY <1>1, <1>4
  <2>2. bits \in Agent!Modes
    BY <2>1 DEF Agent!Agent, Agent!Modes
  <2>3. Agent!NewRow(here, prompt) =
          [row EXCEPT !.owner = r.me, !.mode = bits, !.name = r.name,
                      !.prompt = prompt, !.public = FALSE]
    <3>1. Agent!NewRow(here, prompt) =
            [row EXCEPT !.owner = r.me, !.mode["owner"] = @ \cup {"w"}, !.name = r.name,
                        !.prompt = prompt, !.public = FALSE]
      BY <1>4 DEF Agent!NewRow, Agent!Cloned
    <3> QED  BY <2>1, <3>1 DEF Agent!Agent
  <2> HIDE DEF bits
  <2> QED  BY <1>2, <2>1, <2>2, <2>3 DEF Agent!Agent
<1> QED  BY <1>1, <1>3, <1>4

\* A draft has a new prompt, or none.
LEMMA InsertPromptStep ==
  ASSUME AgentTyped, AgentInv, NEW h \in Handlers, Agent!InsertPrompt(h)
  PROVE  AgentTyped' /\ AgentInv'
<1>1. PICK here : here = agentRequest[h]
  OBVIOUS
<1>2. PICK fresh : fresh = prompts.last + 1
  OBVIOUS
<1>3. /\ here.pc = "prompt" /\ UNCHANGED <<agents, asked, named>>
      /\ \E table : Agent!Watch(table)
  BY <1>1 DEF Agent!InsertPrompt
<1>4. /\ AgentLocal(here) /\ Noted(here)
      /\ here \in [pc : Agent!Stages, asked : Agent!Request,
                   row : Agent!Agent \cup {Nothing}, changes : Changes,
                   id : 0 .. MaxAgent, todo : SUBSET Agent!AgentId]
  BY <1>1, <1>3, AgentHere
<1>5. PICK prompt :
        /\ Agent!Go(h, [here EXCEPT !.pc = "insert", !.row = Agent!NewRow(here, prompt)])
        /\ \/ prompt \in 0 .. MaxPrompt /\ Excused(prompt) /\ prompts' = prompts
           \/ prompts.last < MaxPrompt /\ prompts' = Insert(prompts, 0) /\ prompt = fresh
  <2>1. \/ /\ Agent!NoPromptOfItsOwn(here) /\ prompts' = prompts
           /\ Agent!Go(h, [here EXCEPT !.pc = "insert",
                             !.row = Agent!NewRow(here, Agent!GivenPrompt(here))])
        \/ /\ prompts.last < MaxPrompt /\ prompts' = Insert(prompts, 0)
           /\ Agent!Go(h, [here EXCEPT !.pc = "insert",
                             !.row = Agent!NewRow(here, Insert(prompts, 0).last)])
    BY <1>1, AgentCalls DEF Agent!InsertPrompt
  <2>2. Insert(prompts, 0).last = fresh
    BY <1>2, AgentTablesTyped, Inserted
  <2>3. Agent!NoPromptOfItsOwn(here)
          => Agent!GivenPrompt(here) \in 0 .. MaxPrompt /\ Excused(Agent!GivenPrompt(here))
    BY <1>3, <1>4, AskedAgents, BoundsAre
       DEF Agent!NoPromptOfItsOwn, Agent!GivenPrompt, Noted, Excused
  <2> QED  BY <2>1, <2>2, <2>3
<1>6. prompt \in 0 .. MaxPrompt
  BY <1>2, <1>5, AgentTablesTyped
<1>7. PICK row : row = Agent!NewRow(here, prompt)
  OBVIOUS
<1>8. row \in Agent!Agent /\ row.prompt = prompt
  BY <1>3, <1>4, <1>6, <1>7, RowsTyped
<1> DEFINE new == [here EXCEPT !.pc = "insert", !.row = row]
<1>9. /\ new.pc = "insert" /\ new.asked = here.asked /\ new.row = row
      /\ new.todo = here.todo /\ new \in AgentLocals
  BY <1>4, <1>8 DEF AgentLocals, Agent!Stages
<1>10. Agent!Go(h, new)
  BY <1>5, <1>7
<1> HIDE DEF new
<1>11. AgentLocal(new) /\ Noted(new) /\ \A a, p : ~Plans(new, a, p)
  BY <1>3, <1>4, <1>8, <1>9 DEF AgentLocal, Noted, Plans
<1>12. \A a, p : Uses(a, p)' => Uses(a, p)
  <2>1. \A a, p : a \in Ids(agents') /\ agents'.rows[a].prompt = p => Uses(a, p)
    BY <1>3 DEF Uses
  <2> QED  BY <1>10, <1>11, <2>1, UsesAfter
<1>13. \A k \in Handlers : \A p : Drafts(k, p)' => (k # h /\ Drafts(k, p)) \/ (k = h /\ p = prompt)
  BY <1>8, <1>9, <1>10, <1>11, UsesAfter
<1>14. \A p : Excused(p)' <=> Excused(p)
  BY <1>3 DEF Excused
<1>15. /\ OwnPrompts' /\ Shaped(prompts') /\ IsTable(prompts', 0 .. 1, MaxPrompt)
  <2>1. CASE Excused(prompt) /\ prompts' = prompts
    <3>2. \A k \in Handlers : \A p : Drafts(k, p)' => Drafts(k, p) \/ Excused(p)'
      BY <1>13, <1>14, <2>1
    <3> QED  BY <1>12, <1>14, <2>1, <3>2, AgentTablesTyped, OwnKept DEF AgentInv
  <2>2. CASE prompts.last < MaxPrompt /\ prompts' = Insert(prompts, 0) /\ prompt = fresh
    <3>1. /\ Shaped(prompts') /\ IsTable(prompts', 0 .. 1, MaxPrompt)
          /\ prompts'.last = fresh /\ fresh \in 1 .. prompts'.last
          /\ \A a : Uses(a, fresh) => Excused(fresh)
          /\ \A k \in Handlers : Drafts(k, fresh) => Excused(fresh)
          /\ \A p : p \in 1 .. prompts.last => p \in 1 .. prompts'.last
      BY <1>2, <2>2, PromptInserted DEF AgentInv
    <3>2. /\ \A a, b, p : a # b /\ Uses(a, p)' /\ Uses(b, p)' => Excused(p)'
          /\ \A k \in Handlers : \A a, p : Drafts(k, p)' /\ Uses(a, p)' => Excused(p)'
          /\ \A j, k \in Handlers : \A p : j # k /\ Drafts(j, p)' /\ Drafts(k, p)' => Excused(p)'
          /\ \A a, p : Uses(a, p)' => Excused(p)' \/ p \in 1 .. prompts'.last
          /\ \A k \in Handlers : \A p : Drafts(k, p)' => Excused(p)' \/ p \in 1 .. prompts'.last
      BY <1>12, <1>13, <1>14, <2>2, <3>1 DEF AgentInv, OwnPrompts
    <3> QED  BY <3>1, <3>2 DEF OwnPrompts
  <2> QED  BY <1>5, <2>1, <2>2
<1> QED  BY <1>1, <1>3, <1>9, <1>10, <1>11, <1>15, AgentTablesTyped, AgentWrites

\* The edit of the view makes a prompt for an agent that has none.
LEMMA WriteTextStep ==
  ASSUME AgentTyped, AgentInv, NEW h \in Handlers, Agent!WriteText(h)
  PROVE  AgentTyped' /\ AgentInv'
<1>1. PICK here : here = agentRequest[h]
  OBVIOUS
<1>2. PICK fresh : fresh = prompts.last + 1
  OBVIOUS
<1>3. /\ here.pc = "text" /\ UNCHANGED <<agents, asked, named>>
      /\ \E table : Agent!Watch(table)
  BY <1>1 DEF Agent!WriteText
<1>4. /\ AgentLocal(here) /\ Noted(here)
      /\ here \in [pc : Agent!Stages, asked : Agent!Request,
                   row : Agent!Agent \cup {Nothing}, changes : Changes,
                   id : 0 .. MaxAgent, todo : SUBSET Agent!AgentId]
      /\ here.changes \in Changes
  BY <1>1, <1>3, AgentHere
<1>5. \/ /\ prompts.last < MaxPrompt /\ prompts' = Insert(prompts, 0)
         /\ Agent!Go(h, [here EXCEPT !.pc = "merge", !.changes.prompt = fresh])
      \/ /\ \E p : prompts' = Update(prompts, p, 1)
         /\ Agent!Go(h, [here EXCEPT !.pc = "merge"])
  <2>1. Insert(prompts, 0).last = fresh
    BY <1>2, AgentTablesTyped, Inserted
  <2> QED  BY <1>1, <2>1, AgentCalls DEF Agent!WriteText
<1>6. \A p : Excused(p)' <=> Excused(p)
  BY <1>3 DEF Excused
<1>7. \A a, p : a \in Ids(agents') /\ agents'.rows[a].prompt = p => Uses(a, p)
  BY <1>3 DEF Uses
<1>8. CASE /\ prompts.last < MaxPrompt /\ prompts' = Insert(prompts, 0)
           /\ Agent!Go(h, [here EXCEPT !.pc = "merge", !.changes.prompt = fresh])
  <2>1. /\ Shaped(prompts') /\ IsTable(prompts', 0 .. 1, MaxPrompt)
        /\ prompts'.last = fresh /\ fresh \in 1 .. MaxPrompt /\ fresh \in 1 .. prompts'.last
        /\ \A a : Uses(a, fresh) => Excused(fresh)
        /\ \A k \in Handlers : Drafts(k, fresh) => Excused(fresh)
        /\ \A p : p \in 1 .. prompts.last => p \in 1 .. prompts'.last
    BY <1>2, <1>8, PromptInserted DEF AgentInv
  <2> DEFINE changes == [here.changes EXCEPT !.prompt = fresh]
             new     == [here EXCEPT !.pc = "merge", !.changes = changes]
  <2>2. changes \in Changes /\ changes.prompt = fresh
    BY <1>4, <2>1 DEF Changes
  <2>3. [here EXCEPT !.pc = "merge", !.changes.prompt = fresh] = new
    BY <1>4
  <2> HIDE DEF changes
  <2>4. /\ new.pc = "merge" /\ new.asked = here.asked /\ new.changes = changes
        /\ new.id = here.id /\ new.todo = here.todo /\ new \in AgentLocals
    BY <1>4, <2>2 DEF AgentLocals, Agent!Stages
  <2>5. Agent!Go(h, new)
    BY <1>8, <2>3
  <2> HIDE DEF new
  <2>6. AgentLocal(new) /\ Noted(new)
    BY <1>3, <1>4, <2>4 DEF AgentLocal, Noted
  <2>7. \A a, p : Uses(a, p)' => Uses(a, p) \/ (a = here.id /\ p = fresh)
    BY <1>7, <2>2, <2>4, <2>5, <2>6, UsesAfter DEF Plans
  <2>8. \A k \in Handlers : \A p : Drafts(k, p)' => Drafts(k, p)
    BY <2>4, <2>5, <2>6, UsesAfter
  <2>9. /\ \A a, b, p : a # b /\ Uses(a, p)' /\ Uses(b, p)' => Excused(p)'
        /\ \A k \in Handlers : \A a, p : Drafts(k, p)' /\ Uses(a, p)' => Excused(p)'
        /\ \A j, k \in Handlers : \A p : j # k /\ Drafts(j, p)' /\ Drafts(k, p)' => Excused(p)'
        /\ \A a, p : Uses(a, p)' => Excused(p)' \/ p \in 1 .. prompts'.last
        /\ \A k \in Handlers : \A p : Drafts(k, p)' => Excused(p)' \/ p \in 1 .. prompts'.last
    BY <1>6, <2>1, <2>7, <2>8 DEF AgentInv, OwnPrompts
  <2>10. OwnPrompts'
    BY <2>9 DEF OwnPrompts
  <2> QED  BY <1>1, <1>3, <2>1, <2>4, <2>5, <2>6, <2>10, AgentTablesTyped, AgentWrites
<1>9. CASE /\ \E p : prompts' = Update(prompts, p, 1)
           /\ Agent!Go(h, [here EXCEPT !.pc = "merge"])
  <2>1. /\ Shaped(prompts') /\ prompts'.last = prompts.last
        /\ IsTable(prompts', 0 .. 1, MaxPrompt)
    BY <1>9, AgentTablesTyped, Updated, TableKept
  <2> DEFINE new == [here EXCEPT !.pc = "merge"]
  <2>2. /\ new.pc = "merge" /\ new.asked = here.asked /\ new.changes = here.changes
        /\ new.todo = here.todo /\ new \in AgentLocals
    BY <1>4 DEF AgentLocals, Agent!Stages
  <2>3. Agent!Go(h, new)
    BY <1>9
  <2> HIDE DEF new
  <2>4. AgentLocal(new) /\ Noted(new)
    BY <1>3, <1>4, <2>2 DEF AgentLocal, Noted
  <2>5. \A a, p : Plans(new, a, p) => Excused(p)
    BY <1>3, <1>4, <2>2 DEF Noted, Plans, Excused
  <2>6. \A a, p : Uses(a, p)' => Uses(a, p) \/ Excused(p)'
    BY <1>6, <1>7, <2>3, <2>4, <2>5, UsesAfter
  <2>7. \A k \in Handlers : \A p : Drafts(k, p)' => Drafts(k, p)
    BY <2>2, <2>3, <2>4, UsesAfter
  <2>8. OwnPrompts'
    BY <1>6, <2>1, <2>6, <2>7, AgentTablesTyped, OwnKept DEF AgentInv
  <2> QED  BY <1>1, <1>3, <2>1, <2>2, <2>3, <2>4, <2>8, AgentTablesTyped, AgentWrites
<1> QED  BY <1>5, <1>8, <1>9

\* A store of one agent at most, of any kind it starts with.
LEMMA AgentInit == Agent!Init => AgentTyped /\ AgentInv
<1> SUFFICES ASSUME Agent!Init PROVE AgentTyped /\ AgentInv
  OBVIOUS
<1>1. /\ asked = 0 /\ named = {}
      /\ agentRequest = [h \in Handlers |-> Agent!Idle]
  BY DEF Agent!Init
<1>2. /\ Shaped(EmptyTable) /\ Ids(EmptyTable) = {} /\ EmptyTable.last = 0
      /\ IsTable(EmptyTable, Agent!Agent, MaxAgent)
      /\ IsTable(EmptyTable, 0 .. 1, MaxPrompt)
      /\ MaxAgent \in Nat \ {0} /\ MaxPrompt \in Nat \ {0} /\ MaxCalls \in Nat
  BY EmptyShaped, BoundsAre DEF IsTable
<1>3. \/ agents = EmptyTable /\ prompts = EmptyTable
      \/ \E row \in Agent!Agent :
           /\ agents = Insert(EmptyTable, row)
           /\ \/ row.prompt = 0 /\ prompts = EmptyTable
              \/ row.prompt = 1 /\ prompts = Insert(EmptyTable, 0)
  <2> DEFINE old(n) == [owner |-> Nothing, group |-> Nothing, mode |-> Agent!NoMode,
                        name |-> n, prompt |-> 0, private |-> FALSE, public |-> FALSE]
  <2>1. \A n : Agent!OldRow(n) = old(n)
    BY DEF Agent!OldRow
  <2>2. Agent!NoMode \in Agent!Modes /\ Agent!PrivateMode \in Agent!Modes
    BY DEF Agent!NoMode, Agent!PrivateMode, Agent!Modes
  <2>3. 0 \in 0 .. MaxPrompt /\ 1 \in 0 .. MaxPrompt
    BY <1>2
  <2>4. ASSUME NEW n \in Names PROVE old(n) \in Agent!Agent /\ old(n).prompt = 0
    BY <2>2, <2>3 DEF Agent!Agent
  <2> DEFINE Truth == BOOLEAN
  <2>5. /\ Agent!Agent = [owner : People \cup {Nothing}, group : Agent!Groups \cup {Nothing},
                          mode : Agent!Modes, name : Names, prompt : 0 .. MaxPrompt,
                          private : Truth, public : Truth]
        /\ TRUE \in Truth
    BY DEF Agent!Agent
  <2> HIDE DEF old, Truth
  <2>6. ASSUME NEW row \in Agent!Agent, row.prompt = 0, NEW g \in Agent!Groups
        PROVE  /\ [row EXCEPT !.group = g, !.mode = Agent!PrivateMode] \in Agent!Agent
               /\ [row EXCEPT !.group = g, !.mode = Agent!PrivateMode].prompt = 0
    BY <2>2, <2>5, <2>6
  <2>7. ASSUME NEW row \in Agent!Agent, NEW u \in People
        PROVE  LET new == [row EXCEPT !.owner = u, !.mode = Agent!PrivateMode,
                                      !.prompt = 1, !.public = TRUE]
               IN  new \in Agent!Agent /\ new.prompt = 1
    BY <2>2, <2>3, <2>5
  <2> QED  BY <2>1, <2>4, <2>6, <2>7, AgentCalls DEF Agent!Init
<1>4. /\ Shaped(agents) /\ IsTable(agents, Agent!Agent, MaxAgent)
      /\ Shaped(prompts) /\ IsTable(prompts, 0 .. 1, MaxPrompt)
      /\ \A a, b \in Ids(agents) : a = b
      /\ \A a \in Ids(agents) : agents.rows[a].prompt = 0 \/ agents.rows[a].prompt \in 1 .. prompts.last
  <2>1. CASE agents = EmptyTable /\ prompts = EmptyTable
    BY <1>2, <2>1
  <2>2. ASSUME NEW row \in Agent!Agent, agents = Insert(EmptyTable, row),
               \/ row.prompt = 0 /\ prompts = EmptyTable
               \/ row.prompt = 1 /\ prompts = Insert(EmptyTable, 0)
        PROVE  /\ Shaped(agents) /\ IsTable(agents, Agent!Agent, MaxAgent)
               /\ Shaped(prompts) /\ IsTable(prompts, 0 .. 1, MaxPrompt)
               /\ \A a, b \in Ids(agents) : a = b
               /\ \A a \in Ids(agents) : \/ agents.rows[a].prompt = 0
                                         \/ agents.rows[a].prompt \in 1 .. prompts.last
    <3>1. /\ Shaped(agents) /\ Ids(agents) = {1} /\ agents.rows[1] = row
          /\ IsTable(agents, Agent!Agent, MaxAgent)
      BY <1>2, <2>2, Inserted, TableKept
    <3>2. /\ Shaped(prompts) /\ IsTable(prompts, 0 .. 1, MaxPrompt)
          /\ row.prompt = 0 \/ row.prompt \in 1 .. prompts.last
      BY <1>2, <2>2, Inserted, TableKept
    <3> QED  BY <3>1, <3>2
  <2> QED  BY <1>3, <2>1, <2>2
<1>5. /\ agentRequest \in [Handlers -> AgentLocals]
      /\ \A h \in Handlers : AgentLocal(agentRequest[h]) /\ agentRequest[h].pc = "idle"
  BY <1>1, IdleAgent DEF AgentLocal
<1>6. AgentTyped
  BY <1>1, <1>2, <1>4, <1>5 DEF AgentTyped
<1>7. AllNoted /\ AllListed
  BY <1>5 DEF AllNoted, AllListed, Noted, Listed
<1>8. OwnPrompts
  <2>1. /\ \A a, p : Uses(a, p) => a \in Ids(agents) /\ agents.rows[a].prompt = p
        /\ \A h \in Handlers : \A p : ~Drafts(h, p)
    BY <1>5 DEF Uses, Plans, Drafts
  <2> QED  BY <1>4, <2>1 DEF OwnPrompts, Excused
<1> QED  BY <1>6, <1>7, <1>8 DEF AgentInv

LEMMA AgentStep ==
  ASSUME AgentTyped, AgentInv, [Agent!Next]_agentState
  PROVE  AgentTyped' /\ AgentInv'
<1>1. CASE UNCHANGED agentState
  <2>1. UNCHANGED <<agents, prompts, agentRequest, asked, named, seen>>
    BY <1>1 DEF agentState
  <2>2. AgentTyped'
    BY <2>1 DEF AgentTyped, AgentLocal, Shaped, Ids, IsTable
  <2>3. AllNoted' /\ AllListed'
    BY <2>1 DEF AgentInv, AllNoted, AllListed, Noted, Listed
  <2>4. /\ \A a, p : Uses(a, p)' <=> Uses(a, p)
        /\ \A h, p : Drafts(h, p)' <=> Drafts(h, p)
        /\ \A p : Excused(p)' <=> Excused(p)
    BY <2>1 DEF Uses, Plans, Drafts, Excused, Ids
  <2> QED  BY <2>1, <2>2, <2>3, <2>4, OwnKept, AgentTablesTyped DEF AgentInv
<1>2. ASSUME NEW h \in Handlers,
             \/ Agent!Receive(h) \/ Agent!ReadAgent(h) \/ Agent!CheckFree(h)
             \/ Agent!ReadSource(h) \/ Agent!InsertPrompt(h) \/ Agent!InsertAgent(h)
             \/ Agent!WriteText(h) \/ Agent!TextRefused(h) \/ Agent!ReadAndMerge(h)
             \/ Agent!WriteAgent(h) \/ Agent!DeleteAgent(h) \/ Agent!ListPublic(h)
             \/ Agent!ServeNext(h)
      PROVE  AgentTyped' /\ AgentInv'
  BY <1>2, AgentReceiveStep, ReadAgentStep, AgentChecksStep, InsertPromptStep, InsertAgentStep,
     WriteTextStep, ReadAndMergeStep, WriteAgentStep, AgentServeStep
<1> QED  BY <1>1, <1>2 DEF Agent!Next

\* What the runs check of agents.
LEMMA AgentTypeIs == AgentTyped => Agent!TypeOK
<1> SUFFICES ASSUME AgentTyped PROVE Agent!TypeOK
  OBVIOUS
<1>1. \A h \in Handlers : agentRequest[h] # Agent!Idle =>
        /\ agentRequest[h].pc \in Agent!Stages
        /\ agentRequest[h].row \in Agent!Agent \cup {Nothing}
        /\ agentRequest[h].id \in 0 .. MaxAgent
        /\ agentRequest[h].todo \subseteq Agent!AgentId
  BY DEF AgentTyped, AgentLocals
<1> QED  BY <1>1, AgentCalls DEF AgentTyped, Agent!TypeOK, Agent!PromptId

LEMMA ServedArePublished == AgentTyped /\ AgentInv => Agent!ServedWasPublished
BY IdleAgent DEF AgentTyped, AgentInv, AllListed, Listed, Agent!ServedWasPublished

LEMMA PromptsAreOwn == AgentInv => Agent!PromptsSharedOnRequest
BY AgentCalls DEF AgentInv, OwnPrompts, Uses, Excused, Agent!PromptsSharedOnRequest

-----------------------------------------------------------------------------
(* Tools: what runs was allowed *)

LEMMA ToolCalls ==
  /\ Tool!EmptyTable = EmptyTable
  /\ \A table : Tool!Ids(table) = Ids(table)
  /\ \A table, row : Tool!Insert(table, row) = Insert(table, row)
  /\ \A table, id, row : Tool!Update(table, id, row) = Update(table, id, row)
  /\ \A table, Row, max : Tool!IsTable(table, Row, max) <=> IsTable(table, Row, max)
BY DEF Tool!EmptyTable, Tool!Ids, Tool!Insert, Tool!Update, Tool!IsTable,
       EmptyTable, Ids, Insert, Update, IsTable

\* The row with its id that the change of a flag goes by.
Flagged == [id : Nat, row : Tool!Tool]

ToolLocals ==
  {Tool!Idle} \cup
  [pc : Tool!Stages, asked : Tool!Request \cup {Nothing}, dev : BOOLEAN,
   todo : SUBSET Tool!Providers, row : Tool!Tool \cup Flagged \cup {Nothing},
   ids : SUBSET Tool!ToolId]

\* The stages of the construction of a manager, and those of a call of it.
Building == {"flag", "setFlag", "define", "name", "insert", "publish", "stamp"}
Serving  == {"newName", "edit", "agent", "tool", "resolve", "save", "ids", "run"}

\* What the locals of a thread are at each stage of a request.
ToolLocal(local) ==
  /\ local \in ToolLocals
  /\ local.pc \in Serving => local.asked \in Tool!Request
  /\ local.pc = "setFlag" => local.row \in Flagged
  /\ local.pc = "newName" => local.asked.op \in {"create", "update"}
  /\ local.pc = "edit" => local.asked.op = "update"
  /\ local.pc = "agent" => local.asked.op \in {"assign", "unassign", "execute"}
  /\ local.pc = "tool" => local.asked.op \in {"assign", "execute"}
  /\ local.pc \in {"resolve", "run"} => local.asked.op = "execute"
  /\ local.pc = "resolve" => local.row \in Tool!Tool
  /\ local.pc = "save" => local.asked.op \in {"create", "update", "assign", "unassign"}
  /\ local.pc = "ids" => local.asked.op \in {"assign", "unassign"}

ToolTables ==
  /\ Shaped(tools) /\ IsTable(tools, Tool!Tool, MaxTool)
  /\ assignments \in [Tool!ToolId -> Tool!Assignment \cup {Nothing}]
  /\ toolIds \in (SUBSET Tool!ToolId) \cup {Nothing}

\* A manager is built in a bundle that there is.
ToolRuntime ==
  /\ mode \in BOOLEAN
  /\ runtime \in [bundle : BOOLEAN, mode : BOOLEAN \cup {Nothing},
                  providers : {Nothing, {"stable"}, Tool!Providers}]
  /\ runtime.providers # Nothing => runtime.bundle
  /\ \A h \in Handlers : toolRequest[h].pc \in Building => runtime.bundle

ToolTyped ==
  /\ ToolTables /\ ToolRuntime
  /\ toolRequest \in [Handlers -> ToolLocals]
  /\ \A h \in Handlers : ToolLocal(toolRequest[h])

\* What a call has read was so at a moment of it.
Sound(local, known) ==
  local.asked.op = "execute" =>
    /\ (local.pc \in {"tool", "resolve"} /\ local.asked.tool \in local.ids)
         => "listed" \in known
    /\ local.pc = "resolve" =>
         ("on" \in known /\ (local.row.confirm = FALSE => "unasked" \in known))
    /\ local.pc = "run" =>
         /\ "on" \in known
         /\ "row" \in known \/ {"bare", "listed"} \subseteq known
         /\ local.asked.approved \/ known \cap {"waived", "unasked"} # {}

ToolInv == \A h \in Handlers : toolRequest[h].pc \in Serving => Sound(toolRequest[h], facts[h])

LEMMA IdleTool ==
  /\ ToolLocal(Tool!Idle) /\ Tool!Idle.pc = "idle"
  /\ \A local \in ToolLocals : local.pc = "idle" <=> local = Tool!Idle
BY DEF ToolLocal, ToolLocals, Tool!Idle, Tool!Stages, Serving

\* What a thread at work is.
LEMMA ToolHere ==
  ASSUME ToolTyped, NEW h \in Handlers, NEW here, here = toolRequest[h], here.pc # "idle"
  PROVE  /\ ToolLocal(here)
         /\ here \in [pc : Tool!Stages, asked : Tool!Request \cup {Nothing}, dev : BOOLEAN,
                      todo : SUBSET Tool!Providers, row : Tool!Tool \cup Flagged \cup {Nothing},
                      ids : SUBSET Tool!ToolId]
         /\ here.pc \in Building => runtime.bundle
<1>1. ToolLocal(here) /\ (here.pc \in Building => runtime.bundle)
  BY DEF ToolTyped, ToolRuntime
<1>2. here \in ToolLocals
  BY <1>1 DEF ToolLocal
<1> QED  BY <1>1, <1>2, IdleTool DEF ToolLocals

\* The drafts and the requests by their operation.
LEMMA AskedTools ==
  ASSUME NEW r \in Tool!Request
  PROVE  /\ r.op \in {"create", "update", "assign", "unassign", "execute"}
         /\ r.op \in {"create", "update"} => r.row \in Tool!Tool
         /\ r.op # "create" => r.tool \in Tool!ToolId
         /\ r.op = "assign" => r.to \in Tool!Assignment
<1>1. Tool!Drafts \subseteq Tool!Tool
  <2> DEFINE Truth == BOOLEAN
             base  == Tool!Definition("stable")
             Own(e, c) == [base EXCEPT !.name = "own", !.enabled = e, !.confirm = c]
             first == {[base EXCEPT !.name = "dev"]}
             owns  == {Own(e, c) : e \in Truth, c \in Truth}
  <2>1. /\ Tool!Tool = [name : Tool!ToolNames, provider : Tool!Providers,
                        enabled : Truth, confirm : Truth]
        /\ base \in Tool!Tool
        /\ "dev" \in Tool!ToolNames /\ "own" \in Tool!ToolNames
    BY DEF Tool!Tool, Tool!Definition, Tool!ToolNames, Tool!Providers
  <2>2. Tool!Drafts = first \cup owns
    BY DEF Tool!Drafts
  <2> HIDE DEF Truth, base
  <2>3. first \subseteq Tool!Tool
    BY <2>1
  <2>4. \A e, c \in Truth : Own(e, c) \in Tool!Tool
    BY <2>1
  <2> HIDE DEF first, Own
  <2>5. owns \subseteq Tool!Tool
    BY <2>4
  <2> HIDE DEF owns
  <2> QED  BY <2>2, <2>3, <2>5
<1> QED  BY <1>1 DEF Tool!Request

\* A thread moves on, or ends, and the others stay where they are.
LEMMA ToolMoves ==
  ASSUME ToolTyped, NEW h \in Handlers, NEW local, ToolLocal(local), Tool!Go(h, local)
  PROVE  /\ toolRequest' \in [Handlers -> ToolLocals]
         /\ toolRequest'[h] = local
         /\ \A k \in Handlers : k # h => toolRequest'[k] = toolRequest[k]
         /\ \A k \in Handlers : ToolLocal(toolRequest'[k])
<1>1. toolRequest \in [Handlers -> ToolLocals] /\ local \in ToolLocals
  BY DEF ToolTyped, ToolLocal
<1>2. toolRequest' = [toolRequest EXCEPT ![h] = local]
  BY DEF Tool!Go
<1>3. /\ toolRequest' \in [Handlers -> ToolLocals]
      /\ toolRequest'[h] = local
      /\ \A k \in Handlers : k # h => toolRequest'[k] = toolRequest[k]
  BY <1>1, <1>2
<1> QED  BY <1>3 DEF ToolTyped

\* The facts of a call are those of its moments.
LEMMA FactsNoted ==
  ASSUME Tool!Watch, NEW h \in Handlers, Tool!Calling(toolRequest'[h])
  PROVE  /\ facts[h] \subseteq facts'[h]
         /\ Tool!FactsOf(toolRequest'[h].asked, tools, assignments, toolIds) \subseteq facts'[h]
BY DEF Tool!Watch

\* More facts make nothing unsound.
LEMMA SoundStays ==
  ASSUME NEW local, NEW known, NEW more, Sound(local, known), known \subseteq more
  PROVE  Sound(local, more)
BY DEF Sound

LEMMA OthersSound ==
  ASSUME ToolInv, Tool!Watch, NEW k \in Handlers, toolRequest'[k] = toolRequest[k],
         toolRequest[k].pc \in Serving
  PROVE  Sound(toolRequest[k], facts'[k])
<1>1. Sound(toolRequest[k], facts[k])
  BY DEF ToolInv
<1>2. CASE Tool!Calling(toolRequest[k])
  BY <1>1, <1>2, FactsNoted, SoundStays
<1>3. CASE ~Tool!Calling(toolRequest[k])
  BY <1>3 DEF Tool!Calling, Sound
<1> QED  BY <1>2, <1>3

\* A step of a thread: what is left to show of it.
LEMMA ToolThread ==
  ASSUME ToolTyped, ToolInv, NEW h \in Handlers, NEW local, ToolLocal(local),
         Tool!Go(h, local), Tool!Watch, ToolTables', mode' \in BOOLEAN,
         runtime' \in [bundle : BOOLEAN, mode : BOOLEAN \cup {Nothing},
                       providers : {Nothing, {"stable"}, Tool!Providers}],
         runtime'.providers # Nothing => runtime'.bundle,
         runtime.bundle => runtime'.bundle,
         local.pc \in Building => runtime'.bundle,
         local.pc \in Serving => Sound(local, facts'[h])
  PROVE  ToolTyped' /\ ToolInv'
<1>1. /\ toolRequest' \in [Handlers -> ToolLocals]
      /\ toolRequest'[h] = local
      /\ \A k \in Handlers : k # h => toolRequest'[k] = toolRequest[k]
      /\ \A k \in Handlers : ToolLocal(toolRequest'[k])
  BY ToolMoves
<1>2. \A k \in Handlers : toolRequest'[k].pc \in Building => runtime'.bundle
  BY <1>1 DEF ToolTyped, ToolRuntime
<1>3. ToolRuntime'
  BY <1>2 DEF ToolRuntime
<1>4. \A k \in Handlers : ToolLocal(toolRequest[k])'
  BY <1>1 DEF ToolLocal
<1>5. ToolTyped'
  BY <1>1, <1>3, <1>4 DEF ToolTyped
<1>6. ASSUME NEW k \in Handlers, toolRequest'[k].pc \in Serving
      PROVE  Sound(toolRequest'[k], facts'[k])
  BY <1>1, <1>6, OthersSound
<1>7. ToolInv'
  BY <1>6 DEF ToolInv, Sound
<1> QED  BY <1>5, <1>7

\* A step of a thread that leaves the runtime alone.
LEMMA ToolManagerStep ==
  ASSUME ToolTyped, ToolInv, NEW h \in Handlers, NEW local, ToolLocal(local),
         Tool!Go(h, local), Tool!Watch, ToolTables', UNCHANGED <<mode, runtime>>,
         local.pc \in Building => runtime.bundle,
         local.pc \in Serving => Sound(local, facts'[h])
  PROVE  ToolTyped' /\ ToolInv'
BY ToolThread DEF ToolTyped, ToolRuntime

\* A step of a thread that only reads.
LEMMA ToolReadStep ==
  ASSUME ToolTyped, ToolInv, NEW h \in Handlers, NEW local, ToolLocal(local),
         Tool!Go(h, local), Tool!Quiet,
         local.pc \in Building => runtime.bundle,
         local.pc \in Serving => Sound(local, facts'[h])
  PROVE  ToolTyped' /\ ToolInv'
<1>1. UNCHANGED <<tools, assignments, toolIds, mode, runtime>> /\ Tool!Watch
  BY DEF Tool!Quiet
<1>2. ToolTables'
  BY <1>1 DEF ToolTyped, ToolTables, Shaped, Ids, IsTable
<1> QED  BY <1>1, <1>2, ToolManagerStep

LEMMA ToolEnds ==
  ASSUME ToolTyped, ToolInv, NEW h \in Handlers, Tool!Go(h, Tool!Idle), Tool!Quiet
  PROVE  ToolTyped' /\ ToolInv'
<1>1. Tool!Idle.pc \notin Building \cup Serving
  BY IdleTool DEF Building, Serving
<1> QED  BY <1>1, IdleTool, ToolReadStep

\* The stages at which nothing is asked yet.
LEMMA BuildLocal ==
  ASSUME NEW local \in ToolLocals, local.pc \in (Building \ {"setFlag"}) \cup {"ensure", "use"}
  PROVE  ToolLocal(local) /\ local.pc \notin Serving
BY DEF ToolLocal, Building, Serving

LEMMA ToolTablesTyped ==
  ASSUME ToolTyped
  PROVE  /\ Shaped(tools) /\ IsTable(tools, Tool!Tool, MaxTool)
         /\ tools.last \in Nat /\ MaxTool \in Nat
         /\ \A t \in Ids(tools) : tools.rows[t] \in Tool!Tool
         /\ Ids(tools) \subseteq Nat \ {0}
BY BoundsAre DEF ToolTyped, ToolTables, Shaped, IsTable

LEMMA ByProviderIs ==
  ASSUME ToolTyped, NEW p
  PROVE  Tool!ByProvider(p) \in Ids(tools) \cup {0}
<1> DEFINE found == {t \in Ids(tools) : tools.rows[t].provider = p}
<1>1. Tool!ByProvider(p) =
        IF found = {} THEN 0 ELSE CHOOSE id \in found : \A other \in found : id <= other
  BY DEF Tool!ByProvider, Tool!First, Tool!Find, Tool!Ids, Ids
<1>2. found \in SUBSET (Nat \ {0}) /\ found \subseteq Ids(tools)
  BY ToolTablesTyped
<1> HIDE DEF found
<1> QED  BY <1>1, <1>2, Earliest

\* A request sees to it that there is a manager.
LEMMA ToolEnsureStep ==
  ASSUME ToolTyped, ToolInv, NEW h \in Handlers, Tool!Receive(h) \/ Tool!Ensure(h)
  PROVE  ToolTyped' /\ ToolInv'
<1>1. PICK here : here = toolRequest[h]
  OBVIOUS
<1>2. /\ UNCHANGED <<tools, assignments, toolIds, mode>> /\ Tool!Watch
  BY DEF Tool!Receive, Tool!Ensure
<1>3. ToolTables' /\ mode \in BOOLEAN
  BY <1>2 DEF ToolTyped, ToolTables, ToolRuntime, Shaped, Ids, IsTable
<1>4. CASE Tool!Receive(h)
  <2> DEFINE new == Tool!At("ensure", Nothing)
  <2>1. new \in ToolLocals /\ new.pc = "ensure"
    BY DEF Tool!At, ToolLocals, Tool!Stages
  <2>2. Tool!Go(h, new) /\ UNCHANGED <<mode, runtime>>
    BY <1>4 DEF Tool!Receive
  <2> HIDE DEF new
  <2>3. ToolLocal(new) /\ new.pc \notin Building \cup Serving
    BY <2>1, BuildLocal DEF Building
  <2> QED  BY <1>2, <1>3, <2>2, <2>3, ToolManagerStep
<1>5. CASE Tool!Ensure(h)
  <2>1. here.pc = "ensure"
    BY <1>1, <1>5 DEF Tool!Ensure
  <2>2. here \in [pc : Tool!Stages, asked : Tool!Request \cup {Nothing}, dev : BOOLEAN,
                  todo : SUBSET Tool!Providers, row : Tool!Tool \cup Flagged \cup {Nothing},
                  ids : SUBSET Tool!ToolId]
    BY <1>1, <2>1, ToolHere
  <2>3. CASE Tool!Go(h, [here EXCEPT !.pc = "use"]) /\ UNCHANGED runtime
    <3> DEFINE new == [here EXCEPT !.pc = "use"]
    <3>1. new \in ToolLocals /\ new.pc = "use"
      BY <2>2 DEF ToolLocals, Tool!Stages
    <3>2. Tool!Go(h, new)
      BY <2>3
    <3> HIDE DEF new
    <3>3. ToolLocal(new) /\ new.pc \notin Building \cup Serving
      BY <3>1, BuildLocal DEF Building
    <3> QED  BY <1>2, <1>3, <2>3, <3>2, <3>3, ToolManagerStep
  <2>4. CASE /\ Tool!Go(h, [here EXCEPT !.pc = "flag", !.dev = mode])
             /\ runtime' = [runtime EXCEPT !.bundle = TRUE]
    <3>1. PICK dev \in BOOLEAN : dev = mode
      BY <1>3
    <3> DEFINE new == [here EXCEPT !.pc = "flag", !.dev = dev]
    <3>2. new \in ToolLocals /\ new.pc = "flag"
      BY <2>2 DEF ToolLocals, Tool!Stages
    <3>3. Tool!Go(h, new)
      BY <2>4, <3>1
    <3> HIDE DEF new
    <3>4. ToolLocal(new) /\ new.pc \notin Serving
      BY <3>2, BuildLocal DEF Building
    <3>5. /\ runtime' \in [bundle : BOOLEAN, mode : BOOLEAN \cup {Nothing},
                           providers : {Nothing, {"stable"}, Tool!Providers}]
          /\ runtime'.bundle
      BY <2>4 DEF ToolTyped, ToolRuntime
    <3> QED  BY <1>2, <1>3, <3>3, <3>4, <3>5, ToolThread
  <2> QED  BY <1>1, <1>5, <2>3, <2>4 DEF Tool!Ensure, Tool!Step
<1> QED  BY <1>4, <1>5

\* Reads of the definitions, on the way to a manager.
LEMMA ToolDefinitionsStep ==
  ASSUME ToolTyped, ToolInv, NEW h \in Handlers,
         Tool!ReadFlag(h) \/ Tool!Define(h) \/ Tool!CheckDefinitionName(h)
  PROVE  ToolTyped' /\ ToolInv'
<1>1. PICK here : here = toolRequest[h]
  OBVIOUS
<1>2. here.pc \in {"flag", "define", "name"} /\ Tool!Quiet
  BY <1>1 DEF Tool!ReadFlag, Tool!Define, Tool!CheckDefinitionName
<1>3. /\ here \in [pc : Tool!Stages, asked : Tool!Request \cup {Nothing}, dev : BOOLEAN,
                   todo : SUBSET Tool!Providers, row : Tool!Tool \cup Flagged \cup {Nothing},
                   ids : SUBSET Tool!ToolId]
      /\ runtime.bundle
  BY <1>1, <1>2, ToolHere DEF Building
<1>4. CASE Tool!Go(h, Tool!Idle)
  BY <1>2, <1>4, ToolEnds
<1>5. ASSUME NEW pc \in {"define", "publish", "name", "insert"}, NEW todo \in SUBSET Tool!Providers,
             Tool!Go(h, [here EXCEPT !.pc = pc, !.todo = todo])
      PROVE  ToolTyped' /\ ToolInv'
  <2> DEFINE new == [here EXCEPT !.pc = pc, !.todo = todo]
  <2>1. new \in ToolLocals /\ new.pc = pc
    BY <1>3 DEF ToolLocals, Tool!Stages
  <2>2. Tool!Go(h, new)
    BY <1>5
  <2> HIDE DEF new
  <2>3. ToolLocal(new) /\ new.pc \notin Serving
    BY <2>1, BuildLocal DEF Building
  <2> QED  BY <1>2, <1>3, <2>2, <2>3, ToolReadStep
<1>6. ASSUME NEW pc \in {"publish", "name", "insert"}, Tool!Step(h, pc)
      PROVE  ToolTyped' /\ ToolInv'
  <2>1. [here EXCEPT !.pc = pc] = [here EXCEPT !.pc = pc, !.todo = here.todo]
    BY <1>3
  <2>2. here.todo \in SUBSET Tool!Providers
    BY <1>3
  <2> QED  BY <1>1, <1>5, <1>6, <2>1, <2>2 DEF Tool!Step
<1>7. CASE Tool!ReadFlag(h)
  <2> DEFINE id   == Tool!ByProvider("dev")
             some == IF here.dev THEN Tool!Providers ELSE {"stable"}
  <2>1. PICK todo : todo = some
    OBVIOUS
  <2>2. todo \in SUBSET Tool!Providers
    BY <2>1 DEF Tool!Providers
  <2>3. \/ Tool!Go(h, [here EXCEPT !.pc = "define", !.todo = todo])
        \/ /\ id # 0
           /\ Tool!Go(h, [here EXCEPT !.pc = "setFlag", !.todo = todo,
                            !.row = [id |-> id, row |-> tools.rows[id]]])
    BY <1>1, <1>7, <2>1 DEF Tool!ReadFlag
  <2>4. CASE /\ id # 0
             /\ Tool!Go(h, [here EXCEPT !.pc = "setFlag", !.todo = todo,
                              !.row = [id |-> id, row |-> tools.rows[id]]])
    <3>1. PICK row : row = [id |-> id, row |-> tools.rows[id]]
      OBVIOUS
    <3>2. row \in Flagged
      BY <2>4, <3>1, ByProviderIs, ToolTablesTyped DEF Flagged
    <3> DEFINE new == [here EXCEPT !.pc = "setFlag", !.todo = todo, !.row = row]
    <3>3. new \in ToolLocals /\ new.pc = "setFlag" /\ new.row = row
      BY <1>3, <2>2, <3>2 DEF ToolLocals, Tool!Stages
    <3>4. Tool!Go(h, new)
      BY <2>4, <3>1
    <3> HIDE DEF new
    <3>5. ToolLocal(new) /\ new.pc \notin Serving
      BY <3>2, <3>3 DEF ToolLocal, Serving
    <3> QED  BY <1>2, <1>3, <3>4, <3>5, ToolReadStep
  <2> QED  BY <1>5, <2>2, <2>3, <2>4
<1>8. CASE Tool!Define(h)
  <2>1. \/ Tool!Step(h, "publish") \/ Tool!Step(h, "name")
        \/ here.pc = "define" /\ \E p : Tool!Go(h, [here EXCEPT !.todo = @ \ {p}])
    BY <1>1, <1>8 DEF Tool!Define
  <2>2. ASSUME NEW p, here.pc = "define", Tool!Go(h, [here EXCEPT !.todo = @ \ {p}])
        PROVE  ToolTyped' /\ ToolInv'
    <3>1. [here EXCEPT !.todo = @ \ {p}] = [here EXCEPT !.pc = "define", !.todo = here.todo \ {p}]
      BY <1>3, <2>2
    <3>2. here.todo \ {p} \in SUBSET Tool!Providers
      BY <1>3
    <3> QED  BY <1>5, <2>2, <3>1, <3>2
  <2> QED  BY <1>6, <2>1, <2>2
<1>9. CASE Tool!CheckDefinitionName(h)
  <2>1. Tool!Step(h, "insert") \/ Tool!Go(h, Tool!Idle)
    BY <1>9 DEF Tool!CheckDefinitionName
  <2> QED  BY <1>4, <1>6, <2>1
<1> QED  BY <1>7, <1>8, <1>9

\* Writes of the definitions, on the way to a manager.
LEMMA ToolDefinitionWrites ==
  ASSUME ToolTyped, ToolInv, NEW h \in Handlers,
         Tool!WriteFlag(h) \/ Tool!InsertDefinition(h)
  PROVE  ToolTyped' /\ ToolInv'
<1>1. PICK here : here = toolRequest[h]
  OBVIOUS
<1>2. here.pc \in {"setFlag", "insert"}
  BY <1>1 DEF Tool!WriteFlag, Tool!InsertDefinition
<1>3. /\ ToolLocal(here)
      /\ here \in [pc : Tool!Stages, asked : Tool!Request \cup {Nothing}, dev : BOOLEAN,
                   todo : SUBSET Tool!Providers, row : Tool!Tool \cup Flagged \cup {Nothing},
                   ids : SUBSET Tool!ToolId]
      /\ runtime.bundle
  BY <1>1, <1>2, ToolHere DEF Building
<1>4. UNCHANGED <<assignments, toolIds, mode, runtime>> /\ Tool!Watch
  BY DEF Tool!WriteFlag, Tool!InsertDefinition, Tool!Writing
<1>5. Shaped(tools') /\ IsTable(tools', Tool!Tool, MaxTool)
  <2>1. CASE Tool!WriteFlag(h)
    <3>1. tools' = Update(tools, here.row.id, [here.row.row EXCEPT !.enabled = here.dev])
      BY <1>1, <2>1, ToolCalls DEF Tool!WriteFlag, Tool!Writing
    <3>2. here.row.row \in Tool!Tool /\ here.dev \in BOOLEAN
      BY <1>1, <1>3, <2>1 DEF ToolLocal, Flagged, Tool!WriteFlag
    <3>3. [here.row.row EXCEPT !.enabled = here.dev] \in Tool!Tool
      BY <3>2 DEF Tool!Tool
    <3> QED  BY <3>1, <3>3, ToolTablesTyped, Updated, TableKept
  <2>2. CASE Tool!InsertDefinition(h)
    <3>1. PICK p \in Tool!Providers : tools' = Insert(tools, Tool!Definition(p))
      BY <2>2, ToolCalls DEF Tool!InsertDefinition, Tool!Writing, Tool!NextDefinition, Tool!Providers
    <3>2. Tool!Definition(p) \in Tool!Tool /\ tools.last < MaxTool
      BY <2>2 DEF Tool!Definition, Tool!Tool, Tool!ToolNames, Tool!InsertDefinition
    <3> QED  BY <3>1, <3>2, ToolTablesTyped, Inserted, TableKept
  <2> QED  BY <2>1, <2>2
<1>6. ToolTables'
  BY <1>4, <1>5 DEF ToolTyped, ToolTables
<1>7. PICK todo \in SUBSET Tool!Providers :
        Tool!Go(h, [here EXCEPT !.pc = "define", !.todo = todo])
  <2>1. CASE Tool!WriteFlag(h)
    <3>1. [here EXCEPT !.pc = "define"] = [here EXCEPT !.pc = "define", !.todo = here.todo]
      BY <1>3
    <3> QED  BY <1>1, <1>3, <2>1, <3>1 DEF Tool!WriteFlag, Tool!Step
  <2>2. CASE Tool!InsertDefinition(h)
    <3>1. \E p : Tool!Go(h, [here EXCEPT !.pc = "define", !.todo = here.todo \ {p}])
      BY <1>1, <2>2 DEF Tool!InsertDefinition
    <3>2. \A p : here.todo \ {p} \in SUBSET Tool!Providers
      BY <1>3
    <3> QED  BY <3>1, <3>2
  <2> QED  BY <2>1, <2>2
<1> DEFINE new == [here EXCEPT !.pc = "define", !.todo = todo]
<1>8. new \in ToolLocals /\ new.pc = "define"
  BY <1>3 DEF ToolLocals, Tool!Stages
<1> HIDE DEF new
<1>9. ToolLocal(new) /\ new.pc \notin Serving
  BY <1>8, BuildLocal DEF Building
<1>10. Tool!Go(h, new)
  BY <1>7 DEF new
<1> QED  BY <1>3, <1>4, <1>6, <1>9, <1>10, ToolManagerStep

\* The manager is published, and stamped with its mode.
LEMMA ToolPublishStep ==
  ASSUME ToolTyped, ToolInv, NEW h \in Handlers, Tool!Publish(h) \/ Tool!Stamp(h)
  PROVE  ToolTyped' /\ ToolInv'
<1>1. PICK here : here = toolRequest[h]
  OBVIOUS
<1>2. here.pc \in {"publish", "stamp"}
  BY <1>1 DEF Tool!Publish, Tool!Stamp
<1>3. /\ here \in [pc : Tool!Stages, asked : Tool!Request \cup {Nothing}, dev : BOOLEAN,
                   todo : SUBSET Tool!Providers, row : Tool!Tool \cup Flagged \cup {Nothing},
                   ids : SUBSET Tool!ToolId]
      /\ runtime.bundle
      /\ runtime \in [bundle : BOOLEAN, mode : BOOLEAN \cup {Nothing},
                      providers : {Nothing, {"stable"}, Tool!Providers}]
  BY <1>1, <1>2, ToolHere DEF Building, ToolTyped, ToolRuntime
<1>4. UNCHANGED <<tools, assignments, toolIds, mode>> /\ Tool!Watch
  BY DEF Tool!Publish, Tool!Stamp
<1>5. ToolTables' /\ mode' \in BOOLEAN
  BY <1>4 DEF ToolTyped, ToolTables, ToolRuntime, Shaped, Ids, IsTable
<1>6. /\ runtime' \in [bundle : BOOLEAN, mode : BOOLEAN \cup {Nothing},
                       providers : {Nothing, {"stable"}, Tool!Providers}]
      /\ runtime'.bundle
  <2>1. CASE Tool!Publish(h)
    <3>1. runtime' = [runtime EXCEPT !.providers =
                        IF here.dev THEN Tool!Providers ELSE {"stable"}]
      BY <1>1, <2>1 DEF Tool!Publish
    <3>2. PICK set \in {{"stable"}, Tool!Providers} : runtime' = [runtime EXCEPT !.providers = set]
      BY <3>1
    <3> QED  BY <1>3, <3>2
  <2>2. CASE Tool!Stamp(h)
    <3>1. runtime' = [runtime EXCEPT !.mode = here.dev] /\ here.dev \in BOOLEAN
      BY <1>1, <1>3, <2>2 DEF Tool!Stamp
    <3> QED  BY <1>3, <3>1
  <2> QED  BY <2>1, <2>2
<1>7. PICK new \in ToolLocals : new.pc \in {"stamp", "use"} /\ Tool!Go(h, new)
  <2>1. CASE Tool!Publish(h)
    <3>1. Tool!Go(h, [here EXCEPT !.pc = "stamp"])
      BY <1>1, <2>1 DEF Tool!Publish, Tool!Step
    <3>2. [here EXCEPT !.pc = "stamp"] \in ToolLocals /\ [here EXCEPT !.pc = "stamp"].pc = "stamp"
      BY <1>3 DEF ToolLocals, Tool!Stages
    <3> QED  BY <3>1, <3>2
  <2>2. CASE Tool!Stamp(h)
    <3>1. Tool!At("use", Nothing) \in ToolLocals /\ Tool!At("use", Nothing).pc = "use"
      BY DEF Tool!At, ToolLocals, Tool!Stages
    <3> QED  BY <2>2, <3>1 DEF Tool!Stamp
  <2> QED  BY <2>1, <2>2
<1>8. ToolLocal(new) /\ new.pc \notin Serving
  BY <1>7, BuildLocal DEF Building
<1> QED  BY <1>4, <1>5, <1>6, <1>7, <1>8, ToolThread

\* What is asked of the manager.
LEMMA UseManagerStep ==
  ASSUME ToolTyped, ToolInv, NEW h \in Handlers, Tool!UseManager(h)
  PROVE  ToolTyped' /\ ToolInv'
<1>1. Tool!Quiet
  BY DEF Tool!UseManager
<1>2. CASE Tool!Go(h, Tool!Idle)
  BY <1>1, <1>2, ToolEnds
<1>3. ASSUME NEW r \in Tool!Request, Tool!Go(h, Tool!At(Tool!FirstStage(r.op), r))
      PROVE  ToolTyped' /\ ToolInv'
  <2> DEFINE pc  == Tool!FirstStage(r.op)
             new == Tool!At(pc, r)
  <2>1. /\ r.op = "create" => pc = "newName"
        /\ r.op = "update" => pc = "edit"
        /\ r.op \notin {"create", "update"} => pc = "agent"
    BY DEF Tool!FirstStage
  <2> HIDE DEF pc
  <2>2. new.pc = pc /\ new.asked = r
    BY DEF Tool!At
  <2>3. /\ r.op \in {"create", "update", "assign", "unassign", "execute"}
        /\ pc \in {"newName", "edit", "agent"}
    BY <2>1, AskedTools
  <2>4. new \in ToolLocals
    BY <2>3 DEF Tool!At, ToolLocals, Tool!Stages
  <2>5. Tool!Go(h, new)
    BY <1>3 DEF pc
  <2> HIDE DEF new
  <2>6. ToolLocal(new) /\ new.pc \notin Building
    BY <2>1, <2>2, <2>3, <2>4 DEF ToolLocal, Serving, Building
  <2>7. Sound(new, facts'[h])
    BY <2>2, <2>3 DEF Sound
  <2> QED  BY <1>1, <2>5, <2>6, <2>7, ToolReadStep
<1> QED  BY <1>2, <1>3 DEF Tool!UseManager

\* Reads of a tool and of its name before a write.
LEMMA ToolChecksStep ==
  ASSUME ToolTyped, ToolInv, NEW h \in Handlers, Tool!ReadTool(h) \/ Tool!CheckName(h)
  PROVE  ToolTyped' /\ ToolInv'
<1>1. PICK here : here = toolRequest[h]
  OBVIOUS
<1>2. here.pc \in {"edit", "newName"} /\ Tool!Quiet
  BY <1>1 DEF Tool!ReadTool, Tool!CheckName
<1>3. /\ ToolLocal(here)
      /\ here \in [pc : Tool!Stages, asked : Tool!Request \cup {Nothing}, dev : BOOLEAN,
                   todo : SUBSET Tool!Providers, row : Tool!Tool \cup Flagged \cup {Nothing},
                   ids : SUBSET Tool!ToolId]
  BY <1>1, <1>2, ToolHere
<1>4. CASE Tool!Go(h, Tool!Idle)
  BY <1>2, <1>4, ToolEnds
<1>5. ASSUME NEW pc, \/ here.pc = "edit" /\ pc = "newName"
                     \/ here.pc = "newName" /\ pc = "save",
             Tool!Go(h, [here EXCEPT !.pc = pc])
      PROVE  ToolTyped' /\ ToolInv'
  <2> DEFINE new == [here EXCEPT !.pc = pc]
  <2>1. new.pc = pc /\ new.asked = here.asked /\ new \in ToolLocals
    BY <1>3, <1>5 DEF ToolLocals, Tool!Stages
  <2>2. Tool!Go(h, new)
    BY <1>5
  <2> HIDE DEF new
  <2>3. ToolLocal(new) /\ new.pc \notin Building
    BY <1>3, <1>5, <2>1 DEF ToolLocal, Serving, Building
  <2>4. Sound(new, facts'[h])
    BY <1>5, <2>1 DEF Sound
  <2> QED  BY <1>2, <2>2, <2>3, <2>4, ToolReadStep
<1>6. \/ Tool!Go(h, Tool!Idle)
      \/ here.pc = "edit" /\ Tool!Go(h, [here EXCEPT !.pc = "newName"])
      \/ here.pc = "newName" /\ Tool!Go(h, [here EXCEPT !.pc = "save"])
  BY <1>1 DEF Tool!ReadTool, Tool!CheckName, Tool!Step
<1> QED  BY <1>4, <1>5, <1>6

\* A write of a tool or of the agent's list ends the request.
LEMMA ToolWriteStep ==
  ASSUME ToolTyped, ToolInv, NEW h \in Handlers,
         Tool!WriteTool(h) \/ Tool!WriteIds(h) \/ Tool!RunProvider(h)
  PROVE  ToolTyped' /\ ToolInv'
<1>1. PICK here : here = toolRequest[h]
  OBVIOUS
<1>2. /\ here.pc \in {"save", "ids", "run"} /\ Tool!Go(h, Tool!Idle)
      /\ UNCHANGED <<assignments, mode, runtime>> /\ Tool!Watch
  BY <1>1 DEF Tool!WriteTool, Tool!WriteIds, Tool!RunProvider, Tool!Writing, Tool!Quiet
<1>3. /\ ToolLocal(here)
      /\ here \in [pc : Tool!Stages, asked : Tool!Request \cup {Nothing}, dev : BOOLEAN,
                   todo : SUBSET Tool!Providers, row : Tool!Tool \cup Flagged \cup {Nothing},
                   ids : SUBSET Tool!ToolId]
      /\ here.asked \in Tool!Request
  <2>1. ToolLocal(here)
    BY <1>1, <1>2, ToolHere
  <2> QED  BY <1>1, <1>2, <2>1, ToolHere DEF ToolLocal, Serving
<1>4. ToolTables'
  <2>1. CASE Tool!WriteTool(h)
    <3>1. /\ toolIds' = toolIds
          /\ \/ here.asked.op = "create" /\ tools.last < MaxTool
                /\ tools' = Insert(tools, here.asked.row)
             \/ here.asked.op = "update" /\ tools' = Update(tools, here.asked.tool, here.asked.row)
      BY <1>1, <2>1, ToolCalls DEF Tool!WriteTool, Tool!Writing
    <3>2. here.asked.row \in Tool!Tool
      BY <1>3, <3>1, AskedTools
    <3>3. Shaped(tools') /\ IsTable(tools', Tool!Tool, MaxTool)
      BY <3>1, <3>2, ToolTablesTyped, Inserted, Updated, TableKept
    <3> QED  BY <1>2, <3>1, <3>3 DEF ToolTyped, ToolTables
  <2>2. CASE Tool!WriteIds(h)
    <3>1. here.asked.op \in {"assign", "unassign"}
      BY <1>1, <1>3, <2>2 DEF ToolLocal, Tool!WriteIds
    <3>2. here.asked.tool \in Tool!ToolId /\ here.ids \in SUBSET Tool!ToolId
      BY <1>3, <3>1, AskedTools
    <3>3. tools' = tools /\ toolIds' \in (SUBSET Tool!ToolId) \cup {Nothing}
      BY <1>1, <2>2, <3>2 DEF Tool!WriteIds
    <3> QED  BY <1>2, <3>3 DEF ToolTyped, ToolTables, Shaped, Ids, IsTable
  <2>3. CASE Tool!RunProvider(h)
    BY <2>3 DEF ToolTyped, ToolTables, Shaped, Ids, IsTable, Tool!RunProvider, Tool!Quiet
  <2> QED  BY <2>1, <2>2, <2>3
<1>5. Tool!Idle.pc \notin Building \cup Serving
  BY IdleTool DEF Building, Serving
<1> QED  BY <1>2, <1>4, <1>5, IdleTool, ToolManagerStep

\* The assignment is written, and then the agent's list may have to be.
LEMMA WriteAssignmentStep ==
  ASSUME ToolTyped, ToolInv, NEW h \in Handlers, Tool!WriteAssignment(h)
  PROVE  ToolTyped' /\ ToolInv'
<1>1. PICK here : here = toolRequest[h]
  OBVIOUS
<1>2. /\ here.pc = "save" /\ here.asked.op \in {"assign", "unassign"}
      /\ UNCHANGED <<tools, toolIds, mode, runtime>> /\ Tool!Watch
      /\ assignments' = [assignments EXCEPT ![here.asked.tool] =
                           IF here.asked.op = "assign" THEN here.asked.to ELSE Nothing]
      /\ Tool!Go(h, [here EXCEPT !.pc = "ids"]) \/ Tool!Go(h, Tool!Idle)
  BY <1>1 DEF Tool!WriteAssignment
<1>3. /\ ToolLocal(here)
      /\ here \in [pc : Tool!Stages, asked : Tool!Request \cup {Nothing}, dev : BOOLEAN,
                   todo : SUBSET Tool!Providers, row : Tool!Tool \cup Flagged \cup {Nothing},
                   ids : SUBSET Tool!ToolId]
  BY <1>1, <1>2, ToolHere
<1>4. ToolTables'
  <2>1. here.asked \in Tool!Request
    BY <1>2, <1>3 DEF ToolLocal, Serving
  <2>2. (IF here.asked.op = "assign" THEN here.asked.to ELSE Nothing)
          \in Tool!Assignment \cup {Nothing}
    BY <2>1, AskedTools
  <2> QED  BY <1>2, <2>2 DEF ToolTyped, ToolTables, Shaped, Ids, IsTable
<1>5. CASE Tool!Go(h, Tool!Idle)
  <2>1. Tool!Idle.pc \notin Building \cup Serving
    BY IdleTool DEF Building, Serving
  <2> QED  BY <1>2, <1>4, <1>5, <2>1, IdleTool, ToolManagerStep
<1>6. CASE Tool!Go(h, [here EXCEPT !.pc = "ids"])
  <2> DEFINE new == [here EXCEPT !.pc = "ids"]
  <2>1. new.pc = "ids" /\ new.asked = here.asked /\ new \in ToolLocals
    BY <1>3 DEF ToolLocals, Tool!Stages
  <2>2. Tool!Go(h, new)
    BY <1>6
  <2> HIDE DEF new
  <2>3. ToolLocal(new) /\ new.pc \notin Building /\ Sound(new, facts'[h])
    BY <1>2, <1>3, <2>1 DEF ToolLocal, Serving, Building, Sound
  <2> QED  BY <1>2, <1>4, <2>2, <2>3, ToolManagerStep
<1> QED  BY <1>2, <1>5, <1>6

\* A thread that reads the agent, and notes its list.
LEMMA ToolReadAgentStep ==
  ASSUME ToolTyped, ToolInv, NEW h \in Handlers, Tool!ReadAgent(h)
  PROVE  ToolTyped' /\ ToolInv'
<1>1. PICK here : here = toolRequest[h]
  OBVIOUS
<1>2. here.pc = "agent" /\ Tool!Quiet
  BY <1>1 DEF Tool!ReadAgent
<1>3. /\ ToolLocal(here)
      /\ here \in [pc : Tool!Stages, asked : Tool!Request \cup {Nothing}, dev : BOOLEAN,
                   todo : SUBSET Tool!Providers, row : Tool!Tool \cup Flagged \cup {Nothing},
                   ids : SUBSET Tool!ToolId]
  BY <1>1, <1>2, ToolHere
<1>4. CASE toolIds = Nothing
  BY <1>2, <1>4, ToolEnds DEF Tool!ReadAgent
<1>5. CASE toolIds # Nothing
  <2> DEFINE pc  == IF here.asked.op = "unassign" THEN "save" ELSE "tool"
             new == [here EXCEPT !.ids = toolIds, !.pc = pc]
  <2>1. /\ here.asked.op = "unassign" => pc = "save"
        /\ here.asked.op # "unassign" => pc = "tool"
    OBVIOUS
  <2>2. Tool!Go(h, new)
    BY <1>1, <1>5 DEF Tool!ReadAgent
  <2> HIDE DEF pc
  <2>3. toolIds \in SUBSET Tool!ToolId
    BY <1>5 DEF ToolTyped, ToolTables
  <2>4. /\ new.pc = pc /\ new.asked = here.asked /\ new.ids = toolIds
        /\ new \in ToolLocals
    BY <1>3, <2>1, <2>3 DEF ToolLocals, Tool!Stages
  <2> HIDE DEF new
  <2>5. ToolLocal(new) /\ new.pc \notin Building
    BY <1>2, <1>3, <2>1, <2>4 DEF ToolLocal, Serving, Building
  <2>6. toolRequest'[h] = new
    BY <2>2, <2>5, ToolMoves
  <2>7. Tool!Watch
    BY <1>2 DEF Tool!Quiet
  <2>8. ASSUME new.asked.op = "execute"
        PROVE  Tool!FactsOf(new.asked, tools, assignments, toolIds) \subseteq facts'[h]
    <3>1. Tool!Calling(toolRequest'[h])
      BY <2>1, <2>4, <2>6, <2>8 DEF Tool!Calling
    <3> QED  BY <2>6, <2>7, <3>1, FactsNoted
  <2>9. ASSUME new.asked.op = "execute", new.asked.tool \in new.ids
        PROVE  "listed" \in facts'[h]
    <3> DEFINE noted == Tool!FactsOf(new.asked, tools, assignments, toolIds)
    <3>1. "listed" \in noted
      BY <1>5, <2>4, <2>9 DEF Tool!FactsOf
    <3> QED  BY <2>8, <2>9, <3>1
  <2>10. Sound(new, facts'[h])
    BY <2>1, <2>4, <2>9 DEF Sound
  <2> QED  BY <1>2, <2>2, <2>5, <2>10, ToolReadStep
<1> QED  BY <1>4, <1>5

\* A thread that reads the tool, and notes whether it is on and asks.
LEMMA ToolCheckStep ==
  ASSUME ToolTyped, ToolInv, NEW h \in Handlers, Tool!CheckTool(h)
  PROVE  ToolTyped' /\ ToolInv'
<1>1. PICK here : here = toolRequest[h]
  OBVIOUS
<1>2. here.pc = "tool" /\ Tool!Quiet
  BY <1>1 DEF Tool!CheckTool
<1>3. /\ ToolLocal(here)
      /\ here \in [pc : Tool!Stages, asked : Tool!Request \cup {Nothing}, dev : BOOLEAN,
                   todo : SUBSET Tool!Providers, row : Tool!Tool \cup Flagged \cup {Nothing},
                   ids : SUBSET Tool!ToolId]
      /\ here.asked.op \in {"assign", "execute"}
  <2>1. ToolLocal(here)
    BY <1>1, <1>2, ToolHere
  <2> QED  BY <1>1, <1>2, <2>1, ToolHere DEF ToolLocal
<1>4. \/ Tool!Go(h, Tool!Idle)
      \/ here.asked.op = "assign" /\ Tool!Go(h, [here EXCEPT !.pc = "save"])
      \/ /\ here.asked.op = "execute" /\ here.asked.tool \in Ids(tools)
         /\ tools.rows[here.asked.tool].enabled
         /\ Tool!Go(h, [here EXCEPT !.pc = "resolve", !.row = tools.rows[here.asked.tool]])
  BY <1>1, <1>3, ToolCalls DEF Tool!CheckTool, Tool!Step
<1>5. CASE Tool!Go(h, Tool!Idle)
  BY <1>2, <1>5, ToolEnds
<1>6. CASE here.asked.op = "assign" /\ Tool!Go(h, [here EXCEPT !.pc = "save"])
  <2> DEFINE new == [here EXCEPT !.pc = "save"]
  <2>1. new.pc = "save" /\ new.asked = here.asked /\ new \in ToolLocals
    BY <1>3 DEF ToolLocals, Tool!Stages
  <2>2. Tool!Go(h, new)
    BY <1>6
  <2> HIDE DEF new
  <2>3. ToolLocal(new) /\ new.pc \notin Building /\ Sound(new, facts'[h])
    BY <1>2, <1>3, <1>6, <2>1 DEF ToolLocal, Serving, Building, Sound
  <2> QED  BY <1>2, <2>2, <2>3, ToolReadStep
<1>7. CASE /\ here.asked.op = "execute" /\ here.asked.tool \in Ids(tools)
           /\ tools.rows[here.asked.tool].enabled
           /\ Tool!Go(h, [here EXCEPT !.pc = "resolve", !.row = tools.rows[here.asked.tool]])
  <2>1. PICK row \in Tool!Tool : row = tools.rows[here.asked.tool]
    BY <1>7, ToolTablesTyped DEF IsTable
  <2> DEFINE new == [here EXCEPT !.pc = "resolve", !.row = row]
  <2>2. Tool!Go(h, new)
    BY <1>7, <2>1
  <2>3. /\ new.pc = "resolve" /\ new.asked = here.asked /\ new.row = row
        /\ new \in ToolLocals
    BY <1>3, <2>1 DEF ToolLocals, Tool!Stages
  <2> HIDE DEF new
  <2>4. here.asked \in Tool!Request
    BY <1>2, <1>3 DEF ToolLocal, Serving
  <2>5. ToolLocal(new) /\ new.pc \notin Building
    BY <1>2, <1>3, <1>7, <2>1, <2>3, <2>4 DEF ToolLocal, Serving, Building
  <2>6. toolRequest'[h] = new
    BY <2>2, <2>5, ToolMoves
  <2>7. facts[h] \subseteq facts'[h]
        /\ Tool!FactsOf(new.asked, tools, assignments, toolIds) \subseteq facts'[h]
    <3>1. Tool!Watch
      BY <1>2 DEF Tool!Quiet
    <3>2. Tool!Calling(toolRequest'[h])
      BY <1>7, <2>3, <2>6 DEF Tool!Calling
    <3> QED  BY <2>6, <3>1, <3>2, FactsNoted
  <2>8. Sound(here, facts'[h])
    <3>1. Sound(here, facts[h])
      BY <1>1, <1>2 DEF ToolInv, Serving
    <3> QED  BY <2>7, <3>1, SoundStays
  <2>9. "on" \in facts'[h] /\ (row.confirm = FALSE => "unasked" \in facts'[h])
    <3> DEFINE noted == Tool!FactsOf(here.asked, tools, assignments, toolIds)
    <3>1. "on" \in noted /\ (~row.confirm => "unasked" \in noted)
      BY <1>7, <2>1, ToolCalls DEF Tool!FactsOf
    <3> QED  BY <2>1, <2>3, <2>7, <3>1
  <2>10. here.ids = new.ids
    BY <1>3 DEF new
  <2>11. Sound(new, facts'[h])
    BY <1>2, <1>7, <2>3, <2>8, <2>9, <2>10 DEF Sound
  <2> QED  BY <1>2, <2>2, <2>5, <2>11, ToolReadStep
<1> QED  BY <1>4, <1>5, <1>6, <1>7

\* The access is resolved from the assignment, or from the list without one.
LEMMA ToolResolveStep ==
  ASSUME ToolTyped, ToolInv, NEW h \in Handlers, Tool!Resolve(h)
  PROVE  ToolTyped' /\ ToolInv'
<1>1. PICK here : here = toolRequest[h]
  OBVIOUS
<1>2. here.pc = "resolve" /\ Tool!Quiet
  BY <1>1 DEF Tool!Resolve
<1>3. ToolLocal(here)
  BY <1>1, <1>2, ToolHere
<1>4. here.asked \in Tool!Request /\ here.asked.op = "execute" /\ here.row \in Tool!Tool
  BY <1>2, <1>3 DEF ToolLocal, Serving
<1>5. CASE Tool!Go(h, Tool!Idle)
  BY <1>2, <1>5, ToolEnds
<1> DEFINE tool   == here.asked.tool
           access == Tool!Resolved(here.row, assignments[tool], tool \in here.ids)
<1>6. CASE access # {} /\ (here.asked.approved \/ FALSE \in access)
           /\ Tool!Go(h, Tool!At("run", here.asked))
  <2> DEFINE new == Tool!At("run", here.asked)
  <2>1. new.pc = "run" /\ new.asked = here.asked
    BY DEF Tool!At
  <2>2. new \in ToolLocals
    BY <1>4 DEF Tool!At, ToolLocals, Tool!Stages
  <2>3. Tool!Go(h, new)
    BY <1>6
  <2> HIDE DEF new
  <2>4. ToolLocal(new) /\ new.pc \notin Building
    BY <1>4, <2>1, <2>2 DEF ToolLocal, Serving, Building
  <2>5. toolRequest'[h] = new
    BY <2>3, <2>4, ToolMoves
  <2>6. facts[h] \subseteq facts'[h]
        /\ Tool!FactsOf(here.asked, tools, assignments, toolIds) \subseteq facts'[h]
    <3>1. Tool!Watch
      BY <1>2 DEF Tool!Quiet
    <3>2. Tool!Calling(toolRequest'[h])
      BY <1>4, <2>1, <2>5 DEF Tool!Calling
    <3> QED  BY <2>1, <2>5, <3>1, <3>2, FactsNoted
  <2>7. Sound(here, facts'[h])
    <3>1. Sound(here, facts[h])
      BY <1>1, <1>2 DEF ToolInv, Serving
    <3> QED  BY <2>6, <3>1, SoundStays
  <2>8. /\ "on" \in facts'[h]
        /\ here.row.confirm = FALSE => "unasked" \in facts'[h]
        /\ tool \in here.ids => "listed" \in facts'[h]
    BY <1>2, <1>4, <2>7 DEF Sound
  <2>9. /\ (assignments[tool] # Nothing /\ assignments[tool].enabled) => "row" \in facts'[h]
        /\ assignments[tool] = Nothing => "bare" \in facts'[h]
        /\ (assignments[tool] # Nothing /\ assignments[tool].confirm = FALSE)
             => "waived" \in facts'[h]
    <3> DEFINE noted == Tool!FactsOf(here.asked, tools, assignments, toolIds)
    <3>1. /\ (assignments[tool] # Nothing /\ assignments[tool].enabled) => "row" \in noted
          /\ assignments[tool] = Nothing => "bare" \in noted
          /\ (assignments[tool] # Nothing /\ assignments[tool].confirm = FALSE)
               => "waived" \in noted
      BY DEF Tool!FactsOf
    <3> QED  BY <2>6, <3>1
  <2>10. CASE assignments[tool] # Nothing
    <3>1. assignments[tool].enabled
      BY <1>6, <2>10 DEF Tool!Resolved
    <3>2. ASSUME assignments[tool].confirm = Nothing PROVE Sound(new, facts'[h])
      <4>1. access = {here.row.confirm}
        BY <2>10, <3>1, <3>2 DEF Tool!Resolved
      <4>2. FALSE \in access => here.row.confirm = FALSE
        BY <4>1
      <4> QED
        <5>1. /\ "on" \in facts'[h] /\ "row" \in facts'[h]
              /\ here.asked.approved \/ facts'[h] \cap {"waived", "unasked"} # {}
          BY <1>6, <2>8, <2>9, <2>10, <3>1, <4>2
        <5> HIDE DEF access
        <5> QED  BY <2>1, <5>1 DEF Sound
    <3>3. ASSUME assignments[tool].confirm # Nothing PROVE Sound(new, facts'[h])
      <4>1. access = {assignments[tool].confirm}
        BY <2>10, <3>1, <3>3 DEF Tool!Resolved
      <4>2. FALSE \in access => assignments[tool].confirm = FALSE
        BY <4>1
      <4> QED
        <5>1. /\ "on" \in facts'[h] /\ "row" \in facts'[h]
              /\ here.asked.approved \/ facts'[h] \cap {"waived", "unasked"} # {}
          BY <1>6, <2>8, <2>9, <2>10, <3>1, <4>2
        <5> HIDE DEF access
        <5> QED  BY <2>1, <5>1 DEF Sound
    <3>4. Sound(new, facts'[h])
      BY <3>2, <3>3
    <3> QED  BY <1>2, <2>3, <2>4, <3>4, ToolReadStep
  <2>11. CASE assignments[tool] = Nothing
    <3>1. tool \in here.ids /\ access = {here.row.confirm}
      BY <1>6, <2>11 DEF Tool!Resolved
    <3>2. FALSE \in access => here.row.confirm = FALSE
      BY <3>1
    <3>3. Sound(new, facts'[h])
      BY <1>6, <2>1, <2>8, <2>9, <2>11, <3>1, <3>2 DEF Sound
    <3> QED  BY <1>2, <2>3, <2>4, <3>3, ToolReadStep
  <2> QED  BY <2>10, <2>11
<1> QED  BY <1>1, <1>5, <1>6 DEF Tool!Resolve

\* What happens beside the requests only adds facts.
LEMMA ToolChangeStep ==
  ASSUME ToolTyped, ToolInv,
         Tool!SetMode \/ \E ids \in {{}, Nothing} : Tool!ChangeAgent(ids)
  PROVE  ToolTyped' /\ ToolInv'
<1>1. UNCHANGED <<tools, assignments, runtime, toolRequest>> /\ Tool!Watch
  BY DEF Tool!SetMode, Tool!ChangeAgent
<1>2. /\ mode' \in BOOLEAN
      /\ toolIds' \in (SUBSET Tool!ToolId) \cup {Nothing}
  BY DEF Tool!SetMode, Tool!ChangeAgent, ToolTyped, ToolTables, ToolRuntime
<1>3. ToolTables' /\ ToolRuntime'
  BY <1>1, <1>2 DEF ToolTyped, ToolTables, ToolRuntime, Shaped, Ids, IsTable
<1>4. ToolTyped'
  BY <1>1, <1>3 DEF ToolTyped, ToolLocal
<1>5. ASSUME NEW h \in Handlers, toolRequest'[h].pc \in Serving
      PROVE  Sound(toolRequest'[h], facts'[h])
  BY <1>1, <1>5, OthersSound
<1>6. ToolInv'
  BY <1>5 DEF ToolInv, Sound
<1> QED  BY <1>4, <1>6

LEMMA ToolInit == Tool!Init => ToolTyped /\ ToolInv
<1> SUFFICES ASSUME Tool!Init PROVE ToolTyped /\ ToolInv
  OBVIOUS
<1>1. MaxTool \in Nat \ {0}
  BY BoundsAre
<1>2. toolRequest = [h \in Handlers |-> Tool!Idle] /\ mode \in BOOLEAN /\ toolIds = {1}
  BY DEF Tool!Init
<1>3. /\ toolRequest \in [Handlers -> ToolLocals]
      /\ \A h \in Handlers : toolRequest[h] = Tool!Idle
  BY <1>2 DEF ToolLocals
<1>4. assignments \in [Tool!ToolId -> Tool!Assignment \cup {Nothing}]
  <2>1. PICK first \in {Nothing, [enabled |-> FALSE, confirm |-> Nothing]} :
          assignments = [t \in Tool!ToolId |-> IF t = 1 THEN first ELSE Nothing]
    BY DEF Tool!Init
  <2>2. [enabled |-> FALSE, confirm |-> Nothing]
          \in [enabled : BOOLEAN, confirm : BOOLEAN \cup {Nothing}]
    OBVIOUS
  <2>3. first \in Tool!Assignment \cup {Nothing}
    BY <2>1, <2>2 DEF Tool!Assignment
  <2> QED  BY <2>1, <2>3
<1>5. /\ Shaped(tools) /\ IsTable(tools, Tool!Tool, MaxTool)
      /\ runtime \in [bundle : BOOLEAN, mode : BOOLEAN \cup {Nothing},
                      providers : {Nothing, {"stable"}, Tool!Providers}]
      /\ runtime.providers # Nothing => runtime.bundle
  <2> DEFINE Truth == BOOLEAN
             definition == Tool!Definition("stable")
             other(m)   == [Tool!Definition("dev") EXCEPT !.enabled = m]
  <2>1. /\ Tool!Tool = [name : Tool!ToolNames, provider : Tool!Providers,
                        enabled : Truth, confirm : Truth]
        /\ definition \in Tool!Tool /\ Tool!Definition("dev") \in Tool!Tool
    BY DEF Tool!Tool, Tool!Definition, Tool!ToolNames, Tool!Providers
  <2>2. mode \in Truth
    BY <1>2
  <2> HIDE DEF Truth, definition
  <2>3. other(mode) \in Tool!Tool
    BY <2>1, <2>2
  <2>4. /\ Shaped(EmptyTable) /\ Ids(EmptyTable) = {} /\ EmptyTable.last = 0
        /\ IsTable(EmptyTable, Tool!Tool, MaxTool) /\ MaxTool \in Nat /\ MaxTool >= 2
    BY EmptyShaped, BoundsAre, DefinitionsAssumption DEF IsTable
  <2>5. CASE Tool!Established(mode)
    <3> DEFINE one == Insert(EmptyTable, definition)
    <3>1. tools = Insert(one, other(mode))
      BY <2>5, ToolCalls DEF Tool!Established, definition
    <3> HIDE DEF other
    <3>2. Shaped(one) /\ one.last = 1
      BY <2>4, Inserted
    <3>3. IsTable(one, Tool!Tool, MaxTool)
      <4>1. EmptyTable.last < MaxTool
        BY <2>4
      <4>2. IsTable(Insert(EmptyTable, definition), Tool!Tool, MaxTool)
        BY <2>1, <2>4, <4>1, TableKept
      <4> QED  BY <4>2
    <3> HIDE DEF one
    <3>4. Shaped(tools) /\ IsTable(tools, Tool!Tool, MaxTool)
      BY <2>3, <2>4, <3>1, <3>2, <3>3, Inserted, TableKept
    <3>5. PICK set \in {{"stable"}, Tool!Providers} :
            runtime = [bundle |-> TRUE, mode |-> mode, providers |-> set]
      BY <2>5 DEF Tool!Established
    <3> QED  BY <1>2, <3>4, <3>5
  <2>6. CASE Tool!Fresh
    <3>1. /\ Shaped(tools) /\ IsTable(tools, Tool!Tool, MaxTool)
          /\ runtime = [bundle |-> FALSE, mode |-> Nothing, providers |-> Nothing]
      BY <2>4, <2>6, ToolCalls DEF Tool!Fresh
    <3> QED  BY <3>1
  <2> QED  BY <2>5, <2>6 DEF Tool!Init
<1>6. ToolTables
  BY <1>1, <1>2, <1>4, <1>5 DEF ToolTables, Tool!ToolId
<1>7. ToolRuntime
  BY <1>2, <1>3, <1>5, IdleTool DEF ToolRuntime, Building
<1> QED  BY <1>3, <1>6, <1>7, IdleTool DEF ToolTyped, ToolInv, Serving

\* Whatever tools a request of the module makes, edits, assigns or runs.
LEMMA ToolStep ==
  ASSUME ToolTyped, ToolInv, [Tool!Next]_toolState
  PROVE  ToolTyped' /\ ToolInv'
<1>1. CASE UNCHANGED toolState
  BY <1>1 DEF toolState, ToolTyped, ToolTables, ToolRuntime, ToolLocal, ToolInv, Sound,
              Shaped, Ids, IsTable
<1>2. ASSUME NEW h \in Handlers,
             \/ Tool!Receive(h) \/ Tool!Ensure(h) \/ Tool!ReadFlag(h) \/ Tool!WriteFlag(h)
             \/ Tool!Define(h) \/ Tool!CheckDefinitionName(h) \/ Tool!InsertDefinition(h)
             \/ Tool!Publish(h) \/ Tool!Stamp(h) \/ Tool!UseManager(h) \/ Tool!ReadTool(h)
             \/ Tool!CheckName(h) \/ Tool!WriteTool(h) \/ Tool!ReadAgent(h)
             \/ Tool!CheckTool(h) \/ Tool!WriteAssignment(h) \/ Tool!WriteIds(h)
             \/ Tool!Resolve(h) \/ Tool!RunProvider(h)
      PROVE  ToolTyped' /\ ToolInv'
  BY <1>2, ToolEnsureStep, ToolDefinitionsStep, ToolDefinitionWrites, ToolPublishStep,
     UseManagerStep, ToolChecksStep, ToolWriteStep, WriteAssignmentStep, ToolReadAgentStep,
     ToolCheckStep, ToolResolveStep
<1>3. CASE Tool!SetMode \/ \E ids \in {{}, Nothing} : Tool!ChangeAgent(ids)
  BY <1>3, ToolChangeStep
<1> QED  BY <1>1, <1>2, <1>3 DEF Tool!Next

LEMMA ToolTypeIs == ToolTyped => Tool!TypeOK
<1> SUFFICES ASSUME ToolTyped PROVE Tool!TypeOK
  OBVIOUS
<1>1. Tool!IsTable(tools, Tool!Tool, MaxTool)
  BY ToolCalls DEF ToolTyped, ToolTables
<1>2. ASSUME NEW h \in Handlers, toolRequest[h] # Tool!Idle
      PROVE  /\ toolRequest[h].pc \in Tool!Stages
             /\ toolRequest[h].asked \in Tool!Request \cup {Nothing}
             /\ toolRequest[h].todo \subseteq Tool!Providers
             /\ toolRequest[h].ids \subseteq Tool!ToolId
  BY <1>2 DEF ToolTyped, ToolLocals
<1> QED  BY <1>1, <1>2 DEF Tool!TypeOK, ToolTyped, ToolTables, ToolRuntime

LEMMA RunsAllowed == ToolTyped /\ ToolInv => Tool!ExecutedWasAllowed
<1> SUFFICES ASSUME ToolTyped, ToolInv, NEW h \in Handlers, toolRequest[h].pc = "run"
             PROVE  /\ "on" \in facts[h]
                    /\ "row" \in facts[h] \/ {"bare", "listed"} \subseteq facts[h]
                    /\ toolRequest[h].asked.approved \/ facts[h] \cap {"waived", "unasked"} # {}
  BY DEF Tool!ExecutedWasAllowed
<1>1. Sound(toolRequest[h], facts[h])
  BY DEF ToolInv, Serving
<1>2. toolRequest[h].asked.op = "execute"
  BY DEF ToolTyped, ToolLocal
<1> QED  BY <1>1, <1>2 DEF Sound

-----------------------------------------------------------------------------
(* Deleted rows *)

\* No write of one row revives another.
LEMMA NoneRevived ==
  ASSUME NEW table, Shaped(table), NEW new,
         \/ new = table
         \/ \E row : new = Insert(table, row)
         \/ \E id, row : new = Update(table, id, row)
         \/ \E id : new = Delete(table, id)
  PROVE  \A k \in 1 .. table.last : k \in Ids(new) => k \in Ids(table)
<1>1. table.last \in Nat
  BY DEF Shaped
<1>2. ASSUME NEW row, new = Insert(table, row)
      PROVE  \A k \in 1 .. table.last : k \in Ids(new) => k \in Ids(table)
  BY <1>1, <1>2, Inserted
<1>3. ASSUME NEW id, NEW row, new = Update(table, id, row)
      PROVE  \A k \in 1 .. table.last : k \in Ids(new) => k \in Ids(table)
  BY <1>3, Updated
<1>4. ASSUME NEW id, new = Delete(table, id)
      PROVE  \A k \in 1 .. table.last : k \in Ids(new) => k \in Ids(table)
  BY <1>4, Deleted
<1> QED  BY <1>2, <1>3, <1>4

LEMMA UsersStayDeleted ==
  ASSUME AccountInv, [Account!Next]_accountState
  PROVE  \A u \in 1 .. users.last : u \in Ids(users') => u \in Ids(users)
<1>1. \/ users' = users
      \/ \E row : users' = Insert(users, row)
      \/ \E id, row : users' = Update(users, id, row)
      \/ \E id : users' = Delete(users, id)
  <2>1. ASSUME NEW h \in Handlers, Account!InsertUser(h)
        PROVE  \E row : users' = Insert(users, row)
    BY <2>1, AccountCalls DEF Account!InsertUser
  <2>2. ASSUME NEW h \in Handlers, Account!WriteUser(h)
        PROVE  \E id, row : users' = Update(users, id, row)
    BY <2>2, AccountCalls DEF Account!WriteUser
  <2>3. ASSUME NEW h \in Handlers, Account!DeleteUser(h)
        PROVE  \E id : users' = Delete(users, id)
    BY <2>3, AccountCalls DEF Account!DeleteUser
  <2>4. ASSUME NEW h \in Handlers,
               \/ Account!Receive(h) \/ Account!CheckFree(h) \/ Account!Verify(h)
               \/ Account!OpenSession(h) \/ Account!ReadUser(h) \/ Account!CheckName(h)
        PROVE  users' = users
    BY <2>4 DEF Account!Receive, Account!CheckFree, Account!Verify, Account!OpenSession,
                Account!ReadUser, Account!CheckName
  <2>5. Account!Restart \/ Account!Tick \/ UNCHANGED accountState => users' = users
    BY DEF Account!Restart, Account!Tick, accountState
  <2> QED  BY <2>1, <2>2, <2>3, <2>4, <2>5 DEF Account!Next
<1> QED  BY <1>1, NoneRevived DEF AccountInv, UsersInv

LEMMA GroupsStayDeleted ==
  ASSUME GroupInv, [Group!Next]_groupState
  PROVE  \A g \in 1 .. groups.last : g \in Ids(groups') => g \in Ids(groups)
<1>1. \/ groups' = groups
      \/ \E row : groups' = Insert(groups, row)
      \/ \E id, row : groups' = Update(groups, id, row)
      \/ \E id : groups' = Delete(groups, id)
  <2>1. ASSUME NEW h \in Handlers, Group!InsertGroup(h)
        PROVE  \E row : groups' = Insert(groups, row)
    BY <2>1, GroupCalls DEF Group!InsertGroup
  <2>2. ASSUME NEW h \in Handlers, Group!WriteRoot(h) \/ Group!WriteGroup(h)
        PROVE  \E id, row : groups' = Update(groups, id, row)
    BY <2>2, GroupCalls DEF Group!WriteRoot, Group!WriteGroup
  <2>3. ASSUME NEW h \in Handlers, Group!DeleteGroup(h)
        PROVE  \E id : groups' = Delete(groups, id)
    BY <2>3, GroupCalls DEF Group!DeleteGroup
  <2>4. ASSUME NEW h \in Handlers,
               \/ Group!Receive(h) \/ Group!CheckFree(h) \/ Group!InsertOwner(h)
               \/ Group!ReadGroup(h) \/ Group!CheckName(h) \/ Group!CheckMember(h)
               \/ Group!LookForMember(h) \/ Group!RenewMember(h) \/ Group!InsertMember(h)
               \/ Group!CheckSwitch(h) \/ Group!ReadMember(h) \/ Group!WriteMember(h)
        PROVE  groups' = groups
    BY <2>4 DEF Group!Receive, Group!CheckFree, Group!InsertOwner, Group!ReadGroup,
                Group!CheckName, Group!CheckMember, Group!LookForMember, Group!RenewMember,
                Group!InsertMember, Group!CheckSwitch, Group!ReadMember, Group!WriteMember
  <2>5. Group!Restart \/ UNCHANGED groupState => groups' = groups
    BY DEF Group!Restart, groupState
  <2> QED  BY <2>1, <2>2, <2>3, <2>4, <2>5 DEF Group!Next
<1> QED  BY <1>1, NoneRevived DEF GroupInv, GroupTables

LEMMA AgentsStayDeleted ==
  ASSUME AgentTyped, [Agent!Next]_agentState
  PROVE  \A a \in 1 .. agents.last : a \in Ids(agents') => a \in Ids(agents)
<1>1. \/ agents' = agents
      \/ \E row : agents' = Insert(agents, row)
      \/ \E id, row : agents' = Update(agents, id, row)
      \/ \E id : agents' = Delete(agents, id)
  <2>1. ASSUME NEW h \in Handlers, Agent!InsertAgent(h)
        PROVE  \E row : agents' = Insert(agents, row)
    BY <2>1, AgentCalls DEF Agent!InsertAgent
  <2>2. ASSUME NEW h \in Handlers, Agent!WriteAgent(h)
        PROVE  \E id, row : agents' = Update(agents, id, row)
    BY <2>2, AgentCalls DEF Agent!WriteAgent
  <2>3. ASSUME NEW h \in Handlers, Agent!DeleteAgent(h)
        PROVE  \E id : agents' = Delete(agents, id)
    BY <2>3, AgentCalls DEF Agent!DeleteAgent
  <2>4. ASSUME NEW h \in Handlers,
               \/ Agent!Receive(h) \/ Agent!ReadAgent(h) \/ Agent!CheckFree(h)
               \/ Agent!ReadSource(h) \/ Agent!InsertPrompt(h) \/ Agent!WriteText(h)
               \/ Agent!TextRefused(h) \/ Agent!ReadAndMerge(h) \/ Agent!ListPublic(h)
               \/ Agent!ServeNext(h)
        PROVE  agents' = agents
    BY <2>4 DEF Agent!Receive, Agent!ReadAgent, Agent!CheckFree, Agent!ReadSource,
                Agent!InsertPrompt, Agent!WriteText, Agent!TextRefused, Agent!ReadAndMerge,
                Agent!ListPublic, Agent!ServeNext, Agent!Quiet
  <2>5. UNCHANGED agentState => agents' = agents
    BY DEF agentState
  <2> QED  BY <2>1, <2>2, <2>3, <2>4, <2>5 DEF Agent!Next
<1> QED  BY <1>1, NoneRevived DEF AgentTyped

-----------------------------------------------------------------------------
(* The behaviours of the four parts *)

AccessInv ==
  /\ AccountTyped /\ AccountInv
  /\ GroupTyped /\ GroupInv
  /\ AgentTyped /\ AgentInv
  /\ ToolTyped /\ ToolInv

LEMMA AccessInit == Init => AccessInv
<1> SUFFICES ASSUME Init PROVE AccessInv
  OBVIOUS
<1>1. Account!Init /\ Group!Init /\ Agent!Init /\ Tool!Init
  BY DEF Init
<1> QED  BY <1>1, AccountInit, AccountTypedInit, GroupInit, AgentInit, ToolInit DEF AccessInv

\* A step is of one part, or none.
LEMMA StepOfParts ==
  ASSUME [Next]_vars
  PROVE  /\ [Account!Next]_accountState /\ [Group!Next]_groupState
         /\ [Agent!Next]_agentState /\ [Tool!Next]_toolState
BY DEF Next, vars

LEMMA AccessStep == AccessInv /\ [Next]_vars => AccessInv'
<1> SUFFICES ASSUME AccessInv, [Next]_vars PROVE AccessInv'
  OBVIOUS
<1>1. /\ [Account!Next]_accountState /\ [Group!Next]_groupState
      /\ [Agent!Next]_agentState /\ [Tool!Next]_toolState
  BY StepOfParts
<1>2. AccountTyped' /\ AccountInv'
  BY <1>1, AccountStep, AccountTypedStep DEF AccessInv
<1>3. GroupTyped' /\ GroupInv'
  BY <1>1, GroupStep DEF AccessInv
<1>4. AgentTyped' /\ AgentInv'
  BY <1>1, AgentStep DEF AccessInv
<1>5. ToolTyped' /\ ToolInv'
  BY <1>1, ToolStep DEF AccessInv
<1> QED  BY <1>2, <1>3, <1>4, <1>5 DEF AccessInv

\* The inductive invariant of accounts, groups, agents and tools.
THEOREM Inductive == Spec => []AccessInv
BY AccessInit, AccessStep, PTL DEF Spec

\* The tables, the globals and the locals of every thread keep their types,
\* whatever the threads interleave.
THEOREM TypeCorrect == Spec => []TypeOK
<1>1. AccessInv => TypeOK
  BY AgentTypeIs, ToolTypeIs DEF AccessInv, TypeOK, AccountTyped, GroupTyped
<1> QED  BY <1>1, Inductive, PTL

\* auth/sessions.py: a session serves until it is logged out or has expired,
\* through any number of restarts, and never again after it has ended.
THEOREM SessionsLast == Spec => []SessionsDurable
<1>1. AccessInv => SessionsDurable
  BY DEF AccessInv, AccountInv, SessionsDurable
<1> QED  BY <1>1, Inductive, PTL

\* sqlite_store.py: no session of a deleted user, and no membership of a
\* deleted group, ever becomes one of another.
THEOREM RightsStay == Spec => []RightsNotInherited
<1>1. AccountInv => Account!SessionsKeepTheirUser
  BY DEF AccountInv, Holds, IssuedInv, Account!SessionsKeepTheirUser
<1>2. AccessInv => RightsNotInherited
  BY <1>1, MembershipsTheirs DEF AccessInv, RightsNotInherited
<1> QED  BY <1>2, Inductive, PTL

\* users/manager.py create_group: whatever crashes and overlaps, a group
\* that is not whole is being made or was cut short, and nobody sees it.
THEOREM HalvesUnseen == Spec => []HalfCreatedExplained
<1>1. AccessInv => HalfCreatedExplained
  BY HalvesExplained DEF AccessInv, HalfCreatedExplained
<1> QED  BY <1>1, Inductive, PTL

\* public_agent_routes.py: an agent that the public listing serves was public
\* and eligible at some moment of that request.
THEOREM ServedPublished == Spec => []ServedWasPublished
<1>1. AccessInv => ServedWasPublished
  BY ServedArePublished DEF AccessInv, ServedWasPublished
<1> QED  BY <1>1, Inductive, PTL

\* agents/manager.py: no two agents share a prompt but those for which a
\* client named one that another has.
THEOREM PromptsShared == Spec => []PromptsSharedOnRequest
<1>1. AccessInv => PromptsSharedOnRequest
  BY PromptsAreOwn DEF AccessInv, PromptsSharedOnRequest
<1> QED  BY <1>1, Inductive, PTL

\* agent_tools/executor.py: whatever is assigned, revoked, edited or rebuilt
\* beside a call, what runs was on, the agent's, and approved or not to be
\* asked about, at moments of the call.
THEOREM ExecutedAllowed == Spec => []ExecutedWasAllowed
<1>1. AccessInv => ExecutedWasAllowed
  BY RunsAllowed DEF AccessInv, ExecutedWasAllowed
<1> QED  BY <1>1, Inductive, PTL

\* No stale copy of a row, written whole, brings a deleted user, group or
\* agent back.
THEOREM DeletedStay == Spec => DeletedStaysDeleted
<1> DEFINE Kept ==
      /\ \A u \in 1 .. users.last : u \in Account!Ids(users') => u \in Account!Ids(users)
      /\ \A g \in 1 .. groups.last : g \in Group!Ids(groups') => g \in Group!Ids(groups)
      /\ \A a \in 1 .. agents.last : a \in Agent!Ids(agents') => a \in Agent!Ids(agents)
<1>1. AccessInv /\ [Next]_vars => [Kept]_vars
  <2> SUFFICES ASSUME AccessInv, [Next]_vars PROVE Kept
    OBVIOUS
  <2>1. /\ \A table : Account!Ids(table) = Ids(table)
        /\ \A table : Group!Ids(table) = Ids(table)
        /\ \A table : Agent!Ids(table) = Ids(table)
    BY AccountCalls, GroupCalls, AgentCalls
  <2>2. \A u \in 1 .. users.last : u \in Ids(users') => u \in Ids(users)
    BY StepOfParts, UsersStayDeleted DEF AccessInv
  <2>3. \A g \in 1 .. groups.last : g \in Ids(groups') => g \in Ids(groups)
    BY StepOfParts, GroupsStayDeleted DEF AccessInv
  <2>4. \A a \in 1 .. agents.last : a \in Ids(agents') => a \in Ids(agents)
    BY StepOfParts, AgentsStayDeleted DEF AccessInv
  <2> QED  BY <2>1, <2>2, <2>3, <2>4
<1>2. Spec => [][Kept]_vars
  BY <1>1, Inductive, PTL DEF Spec
<1> QED  BY <1>2 DEF DeletedStaysDeleted

=============================================================================
