---------------------------- MODULE WorkProofs ----------------------------
(***************************************************************************)
(* What Work promises, for every number of threads, users, tabs and keys   *)
(* and every bound. The nine modules share no state, so each has an        *)
(* inductive invariant of its own, which its steps keep and the steps of   *)
(* the others do not touch; together they are that of Work.                *)
(***************************************************************************)
EXTENDS Work, Sequences, SqliteStoreProofs, FiniteSetTheorems, TLAPS

\* The provers take a variable of this type for a value as any other.
Truth == BOOLEAN

LEMMA TruthIs == \A x : x \in BOOLEAN <=> x \in Truth
BY DEF Truth

-----------------------------------------------------------------------------
(* ModelCatalog: what a scan knows of the files it has yet to record, and  *)
(* what an edit has seen of an endpoint                                    *)

Secrets == Keys \cup {"", Nothing}

Todos == {<<"single", "part1">>, <<"single">>, <<"part1">>, <<>>}

\* Whether a scan has yet to record a file.
Ahead(todo, f) == \/ f = "single" /\ todo \in {<<"single", "part1">>, <<"single">>}
                  \/ f = "part1" /\ todo \in {<<"single", "part1">>, <<"part1">>}

CatalogLocal ==
  [pc : {"scan", "edit", "legacy"}, todo : Todos, known : [Catalog!Files -> Nat],
   matches : SUBSET Catalog!Files, id : Nat, key : Secrets, held : SUBSET Secrets]

\* What the listing of a scan says of the files that are yet to be recorded
\* is so.
Listed(local) ==
  \A f \in Catalog!Files :
    Ahead(local.todo, f) =>
      /\ local.known[f] = 0 => \A m \in models : m.path # f
      /\ local.known[f] # 0 => \E m \in models : m.id = local.known[f] /\ m.path = f

\* The id says which.
Told(list) == \A m, n \in list : m.id = n.id => m = n

Single == \A m, n \in models : m.path = n.path => m = n

CatalogAt(h) ==
  \/ work[h] = Catalog!Idle
  \/ /\ work[h] \in CatalogLocal
     /\ work[h].pc = "edit" => work[h].key \in work[h].held
     /\ work[h].pc = "scan" /\ h \notin stale => Listed(work[h])

EndpointsGood(list) == list \subseteq Catalog!Endpoint /\ Told(list)

CatalogLists ==
  /\ models \subseteq Catalog!Model /\ Told(models)
  /\ preferences \subseteq Catalog!Id /\ disk \subseteq Catalog!Files
  /\ endpoints = [list |-> endpoints.list, legacy |-> endpoints.legacy]
  /\ EndpointsGood(endpoints.list) /\ EndpointsGood(endpoints.legacy)
  /\ stale \subseteq Handlers /\ excused \in BOOLEAN

CatalogInv ==
  /\ CatalogLists
  /\ work = [h \in Handlers |-> work[h]]
  /\ \A h \in Handlers : CatalogAt(h)
  /\ excused \/ Single

\* An edit that ends has stored a key it was to keep.
KeyKept == Catalog!KeyIsKept

LEMMA CatalogIdle == Catalog!Idle.pc = "idle" /\ \A l \in CatalogLocal : l.pc # "idle"
BY DEF Catalog!Idle, CatalogLocal

LEMMA CatalogHeld ==
  ASSUME CatalogInv, NEW h \in Handlers, work[h].pc # "idle"
  PROVE  /\ work[h] \in CatalogLocal /\ work[h] # Catalog!Idle
         /\ work[h].pc = "edit" => work[h].key \in work[h].held
         /\ work[h].pc = "scan" /\ h \notin stale => Listed(work[h])
BY CatalogIdle DEF CatalogInv, CatalogAt

LEMMA Largest ==
  ASSUME NEW n \in Nat, NEW S \in SUBSET (1 .. n), S # {}
  PROVE  \E i \in S : \A j \in S : j <= i
<1> DEFINE mirror == {n - i : i \in S}
<1>1. mirror \in SUBSET Nat /\ mirror # {}
  OBVIOUS
<1>2. PICK k \in mirror : \A l \in mirror : k <= l
  BY <1>1, Least
<1>3. PICK i \in S : k = n - i
  BY <1>2
<1>4. ASSUME NEW j \in S PROVE j <= i
  <2>1. n - j \in mirror /\ i \in Nat /\ j \in Nat
    OBVIOUS
  <2>2. n - i <= n - j
    BY <1>2, <1>3, <2>1
  <2> QED  BY <2>1, <2>2
<1> QED  BY <1>3, <1>4

\* The next id is of no entry.
LEMMA NextIdFresh ==
  ASSUME NEW ids \in SUBSET Catalog!Id
  PROVE  Catalog!NextId(ids) \in Nat /\ Catalog!NextId(ids) \notin ids
<1>1. CASE ids = {}
  BY <1>1 DEF Catalog!NextId
<1>2. CASE ids # {}
  <2>1. MaxId \in Nat
    BY BoundsAssumption
  <2>2. \E i \in ids : \A j \in ids : j <= i
    BY <1>2, <2>1, Largest DEF Catalog!Id
  <2> DEFINE i == CHOOSE k \in ids : \A j \in ids : j <= k
  <2>3. i \in ids /\ \A j \in ids : j <= i
    BY <2>2
  <2>4. Catalog!NextId(ids) = 1 + i
    BY <1>2 DEF Catalog!NextId
  <2> HIDE DEF i
  <2>5. i \in Nat
    BY <2>1, <2>3 DEF Catalog!Id
  <2> QED  BY <2>3, <2>4, <2>5
<1> QED  BY <1>1, <1>2

\* The listing knows the records there are.
LEMMA KnownIs ==
  ASSUME CatalogLists, NEW f \in Catalog!Files
  PROVE  /\ Catalog!Known(f) \in Nat
         /\ Catalog!Known(f) = 0 => \A m \in models : m.path # f
         /\ Catalog!Known(f) # 0 => \E m \in models : m.id = Catalog!Known(f) /\ m.path = f
<1> DEFINE ids == {m.id : m \in {n \in models : n.path = f}}
<1>0. models \subseteq Catalog!Model /\ MaxId \in Nat
  BY BoundsAssumption DEF CatalogLists
<1>1. ids \in SUBSET (1 .. MaxId)
  BY <1>0 DEF Catalog!Model, Catalog!Id
<1>2. \A i \in ids : \E m \in models : m.id = i /\ m.path = f
  OBVIOUS
<1>3. \A m \in models : m.path = f => m.id \in ids
  OBVIOUS
<1>4. Catalog!Known(f) = IF ids = {} THEN 0 ELSE CHOOSE i \in ids : \A j \in ids : j <= i
  BY DEF Catalog!Known
<1> HIDE DEF ids
<1>5. CASE ids = {}
  BY <1>3, <1>4, <1>5
<1>6. CASE ids # {}
  <2>1. \E i \in ids : \A j \in ids : j <= i
    BY <1>0, <1>1, <1>6, Largest
  <2>2. Catalog!Known(f) \in ids
    BY <1>4, <1>6, <2>1
  <2>3. Catalog!Known(f) \in Nat /\ Catalog!Known(f) # 0
    <3>1. \A i \in ids : i \in Nat /\ i # 0
      BY <1>0, <1>1
    <3> QED  BY <2>2, <3>1
  <2>4. \E m \in models : m.id = Catalog!Known(f) /\ m.path = f
    BY <1>2, <2>2
  <2> QED  BY <2>3, <2>4
<1> QED  BY <1>5, <1>6

LEMMA PrimaryTodos == ASSUME NEW files PROVE Catalog!PrimaryFiles(files) \in Todos
<1> DEFINE both == [i \in 1 .. 2 |-> IF i = 1 THEN "single" ELSE "part1"]
<1>1. both = <<"single", "part1">>
  OBVIOUS
<1>2. both = Append(<<"single">>, "part1")
  OBVIOUS
<1>3. Append(<<>>, "part1") = <<"part1">>
  OBVIOUS
<1> HIDE DEF both
<1> QED  BY <1>1, <1>2, <1>3 DEF Catalog!PrimaryFiles, Todos

\* A scan goes on to its next file.
LEMMA TodoNext ==
  ASSUME NEW todo \in Todos, todo # <<>>
  PROVE  /\ Head(todo) \in {"single", "part1"} /\ Tail(todo) \in Todos
         /\ Ahead(todo, Head(todo)) /\ ~Ahead(Tail(todo), Head(todo))
         /\ \A f : Ahead(Tail(todo), f) => Ahead(todo, f)
<1>1. CASE todo = <<"single">>
  BY <1>1 DEF Todos, Ahead
<1>2. CASE todo = <<"part1">>
  BY <1>2 DEF Todos, Ahead
<1>3. CASE todo = <<"single", "part1">>
  BY <1>3 DEF Todos, Ahead
<1> QED  BY <1>1, <1>2, <1>3 DEF Todos

LEMMA EndpointIs ==
  ASSUME NEW id \in Catalog!Id, NEW key \in Keys \cup {""}, NEW owned \in BOOLEAN
  PROVE  [id |-> id, key |-> key, owned |-> owned] \in Catalog!Endpoint
<1>1. Catalog!Endpoint = [id : Catalog!Id, key : Keys \cup {""}, owned : Truth]
  BY Zenon DEF Catalog!Endpoint, Truth
<1>2. owned \in Truth
  BY TruthIs, Zenon
<1> QED  BY <1>1, <1>2, Zenon

LEMMA ModelIs ==
  ASSUME NEW id \in Catalog!Id, NEW path \in Catalog!Files, NEW scanned \in BOOLEAN
  PROVE  /\ [id |-> id, path |-> path, scanned |-> scanned] \in Catalog!Model
         /\ [id |-> id, path |-> path, scanned |-> scanned].id = id
         /\ [id |-> id, path |-> path, scanned |-> scanned].path = path
<1>1. Catalog!Model = [id : Catalog!Id, path : Catalog!Files, scanned : Truth]
  BY DEF Catalog!Model, Truth
<1>2. scanned \in Truth
  BY TruthIs
<1> QED  BY <1>1, <1>2

LEMMA CatalogInit == Catalog!Init => CatalogInv
<1> SUFFICES ASSUME Catalog!Init PROVE CatalogInv
  OBVIOUS
<1>1. PICK key \in Keys, old \in BOOLEAN :
        endpoints = [list   |-> {},
                     legacy |-> IF old THEN {[id |-> 1, key |-> key, owned |-> FALSE]} ELSE {}]
  BY DEF Catalog!Init
<1>2. /\ models = {} /\ preferences = {} /\ stale = {} /\ excused = FALSE
      /\ disk \subseteq Catalog!Files /\ work = [h \in Handlers |-> Catalog!Idle]
  BY DEF Catalog!Init, Catalog!Files
<1>3. EndpointsGood(endpoints.list)
  BY <1>1 DEF EndpointsGood, Told
<1>4. EndpointsGood(endpoints.legacy)
  <2>1. MaxId \in Nat \ {0}
    BY BoundsAssumption
  <2> DEFINE one == [id |-> 1, key |-> key, owned |-> FALSE]
  <2>2. one \in Catalog!Endpoint
    <3>1. 1 \in Catalog!Id
      BY <2>1 DEF Catalog!Id
    <3>2. key \in Keys \cup {""} /\ FALSE \in BOOLEAN
      BY Zenon
    <3> QED  BY <3>1, <3>2, EndpointIs, Zenon
  <2> HIDE DEF one
  <2>3. endpoints.legacy \in {{}, {one}}
    BY <1>1 DEF one
  <2> QED  BY <2>2, <2>3 DEF EndpointsGood, Told
<1>5. CatalogLists
  <2>1. models \subseteq Catalog!Model /\ Told(models)
    BY <1>2 DEF Told
  <2>2. endpoints = [list |-> endpoints.list, legacy |-> endpoints.legacy]
    BY <1>1
  <2> QED  BY <1>2, <1>3, <1>4, <2>1, <2>2 DEF CatalogLists
<1> QED  BY <1>2, <1>5 DEF CatalogInv, CatalogAt, Single

\* A thread goes on.
LEMMA CatalogGo ==
  ASSUME CatalogInv, NEW h \in Handlers, NEW local, Catalog!Go(h, local)
  PROVE  /\ work' = [g \in Handlers |-> work'[g]]
         /\ work'[h] = local /\ \A g \in Handlers \ {h} : work'[g] = work[g]
BY DEF CatalogInv, Catalog!Go

\* A thread whose scan is not affected by what another does to the models.
LEMMA CatalogOther ==
  ASSUME CatalogInv, NEW g \in Handlers, work'[g] = work[g],
         \/ UNCHANGED models /\ (g \in stale => g \in stale')
         \/ work[g] # Catalog!Idle => g \in stale'
  PROVE  CatalogAt(g)'
<1>1. CatalogAt(g)
  BY DEF CatalogInv
<1>2. CASE work[g] = Catalog!Idle
  BY <1>2 DEF CatalogAt
<1>3. CASE work[g] # Catalog!Idle
  <2>1. /\ work[g] \in CatalogLocal
        /\ work[g].pc = "edit" => work[g].key \in work[g].held
        /\ work[g].pc = "scan" /\ g \notin stale => Listed(work[g])
    BY <1>1, <1>3 DEF CatalogAt
  <2>2. CASE UNCHANGED models /\ (g \in stale => g \in stale')
    <3>1. Listed(work[g]) => Listed(work[g])'
      BY <2>2 DEF Listed
    <3> QED  BY <2>1, <2>2, <3>1 DEF CatalogAt
  <2>3. CASE g \in stale'
    BY <2>1, <2>3 DEF CatalogAt
  <2> QED  BY <1>3, <2>2, <2>3
<1> QED  BY <1>2, <1>3

\* The list of models is stored.
LEMMA ModelsStored ==
  ASSUME CatalogInv, NEW h, NEW list, Catalog!ModelsBecome(list, h)
  PROVE  /\ models' = list /\ stale' \subseteq Handlers
         /\ \A g \in Handlers : g # h /\ work'[g] = work[g] => CatalogAt(g)'
         /\ \A g \in Handlers : g \in stale /\ work'[g] # Catalog!Idle => g \in stale'
<1>1. /\ models' = list /\ stale \subseteq Handlers
      /\ stale' = (stale \ {g \in Handlers : work'[g] = Catalog!Idle})
                    \cup (IF list = models THEN {}
                          ELSE {g \in Handlers \ {h} : work'[g] # Catalog!Idle})
  BY DEF CatalogInv, CatalogLists, Catalog!ModelsBecome
<1>2. stale' \subseteq Handlers
  BY <1>1
<1>3. \A g \in Handlers : g \in stale /\ work'[g] # Catalog!Idle => g \in stale'
  BY <1>1
<1>4. ASSUME NEW g \in Handlers, g # h, work'[g] = work[g] PROVE CatalogAt(g)'
  <2>1. CASE work[g] = Catalog!Idle
    BY <1>4, <2>1 DEF CatalogAt
  <2>2. CASE work[g] # Catalog!Idle
    <3>1. CASE list = models
      <4>1. UNCHANGED models
        BY <1>1, <3>1
      <4> QED  BY <1>3, <1>4, <2>2, <4>1, CatalogOther
    <3>2. CASE list # models
      <4>1. g \in stale'
        BY <1>1, <1>4, <2>2, <3>2
      <4> QED  BY <1>4, <4>1, CatalogOther
    <3> QED  BY <3>1, <3>2
  <2> QED  BY <2>1, <2>2
<1> QED  BY <1>1, <1>2, <1>3, <1>4

\* Only the end of an edit ends one.
LEMMA KeysUntouched ==
  ASSUME CatalogInv, \A h \in Handlers : work[h].pc = "edit" => work'[h].pc = "edit"
  PROVE  KeyKept
BY CatalogIdle DEF KeyKept, Catalog!KeyIsKept

\* A step of a thread that is in no edit.
LEMMA KeysLeft ==
  ASSUME CatalogInv, NEW h \in Handlers, work[h].pc # "edit",
         \A g \in Handlers \ {h} : work'[g] = work[g]
  PROVE  KeyKept
<1>1. \A g \in Handlers : work[g].pc = "edit" => work'[g].pc = "edit"
  OBVIOUS
<1> QED  BY <1>1, KeysUntouched

\* What has just been listed is so.
LEMMA ListingGood ==
  ASSUME CatalogLists
  PROVE  Catalog!Listing \in CatalogLocal /\ Catalog!Listing.pc = "scan" /\ Listed(Catalog!Listing)
<1> DEFINE known == [f \in Catalog!Files |-> Catalog!Known(f)]
           todo  == Catalog!PrimaryFiles(disk)
<1>1. known \in [Catalog!Files -> Nat]
  BY KnownIs
<1>2. todo \in Todos
  BY PrimaryTodos
<1>3. \A f \in Catalog!Files : known[f] = Catalog!Known(f)
  OBVIOUS
<1>4. Catalog!Listing = [Catalog!At("scan") EXCEPT !.todo = todo, !.matches = disk, !.known = known]
  BY DEF Catalog!Listing
<1> HIDE DEF known, todo
<1>5. /\ Catalog!Listing = [pc |-> "scan", todo |-> todo, known |-> known, matches |-> disk,
                            id |-> 0, key |-> Nothing, held |-> {}]
  BY <1>4 DEF Catalog!At
<1>6. Catalog!Listing \in CatalogLocal /\ Catalog!Listing.pc = "scan"
  BY <1>1, <1>2, <1>5 DEF CatalogLocal, Secrets, CatalogLists
<1>7. Listed(Catalog!Listing)
  BY <1>3, <1>5, KnownIs DEF Listed
<1> QED  BY <1>6, <1>7

\* A thread begins or goes on, and the models stay what they are.
LEMMA CatalogThread ==
  ASSUME CatalogInv, NEW h \in Handlers, NEW local, Catalog!Go(h, local),
         UNCHANGED <<models, preferences, endpoints, disk, excused>>,
         stale' \in {stale, stale \ {h}}, work[h].pc # "edit",
         \/ local = Catalog!Idle
         \/ local \in CatalogLocal /\ local.pc = "legacy"
         \/ local = Catalog!Listing
  PROVE  CatalogInv' /\ KeyKept
<1>1. /\ work' = [g \in Handlers |-> work'[g]]
      /\ work'[h] = local /\ \A g \in Handlers \ {h} : work'[g] = work[g]
  BY CatalogGo
<1>2. CatalogLists' /\ (excused \/ Single)'
  BY DEF CatalogInv, CatalogLists, Single
<1>3. CatalogAt(h)'
  <2>1. CASE local = Catalog!Idle
    BY <1>1, <2>1 DEF CatalogAt
  <2>2. CASE local \in CatalogLocal /\ local.pc = "legacy"
    BY <1>1, <2>2 DEF CatalogAt
  <2>3. CASE local = Catalog!Listing
    <3>1. /\ Catalog!Listing \in CatalogLocal /\ Catalog!Listing.pc = "scan"
          /\ Listed(Catalog!Listing)
      BY ListingGood DEF CatalogInv
    <3>2. Listed(work[h])'
      BY <1>1, <2>3, <3>1 DEF Listed
    <3> QED  BY <1>1, <2>3, <3>1, <3>2 DEF CatalogAt
  <2> QED  BY <2>1, <2>2, <2>3
<1>4. ASSUME NEW g \in Handlers, g # h PROVE CatalogAt(g)'
  BY <1>1, <1>4, CatalogOther
<1>5. KeyKept
  BY <1>1, KeysLeft
<1> QED  BY <1>1, <1>2, <1>3, <1>4, <1>5 DEF CatalogInv

LEMMA CatalogScan ==
  ASSUME CatalogInv, NEW h \in Handlers, Catalog!Scan(h)
  PROVE  CatalogInv' /\ KeyKept
<1>1. /\ work[h] = Catalog!Idle /\ Catalog!Go(h, Catalog!Listing) /\ stale' = stale \ {h}
      /\ UNCHANGED <<models, excused, preferences, endpoints, disk>>
  BY DEF Catalog!Scan, Catalog!OthersKeep
<1>2. work[h].pc # "edit"
  BY <1>1, CatalogIdle
<1> QED  BY <1>1, <1>2, CatalogThread

LEMMA CatalogSettings ==
  ASSUME CatalogInv, NEW h \in Handlers,
         (\E named \in BOOLEAN : Catalog!SaveSettings(h, named)) \/ Catalog!SaveLegacyDirectory(h)
  PROVE  CatalogInv' /\ KeyKept
<1>1. ASSUME NEW named \in BOOLEAN, Catalog!SaveSettings(h, named) PROVE CatalogInv' /\ KeyKept
  <2> DEFINE id    == IF named THEN 1 ELSE 0
             local == [Catalog!At("legacy") EXCEPT !.id = id]
  <2>1. id \in Nat
    OBVIOUS
  <2>2. /\ work[h] = Catalog!Idle /\ Catalog!Go(h, local)
        /\ UNCHANGED <<models, excused, preferences, endpoints, disk, stale>>
    BY <1>1 DEF Catalog!SaveSettings
  <2> HIDE DEF id
  <2>3. local \in CatalogLocal /\ local.pc = "legacy"
    BY <2>1, Zenon DEF Catalog!At, CatalogLocal, Secrets, Todos
  <2> HIDE DEF local
  <2>4. work[h].pc # "edit"
    BY <2>2, CatalogIdle
  <2> QED  BY <2>2, <2>3, <2>4, CatalogThread
<1>2. CASE Catalog!SaveLegacyDirectory(h)
  <2> DEFINE local == IF work[h].id = 1 THEN Catalog!Listing ELSE Catalog!Idle
  <2>1. /\ work[h].pc = "legacy" /\ Catalog!Go(h, local) /\ stale' = stale \ {h}
        /\ UNCHANGED <<models, excused, preferences, endpoints, disk>>
    BY <1>2 DEF Catalog!SaveLegacyDirectory
  <2>2. local = Catalog!Listing \/ local = Catalog!Idle
    OBVIOUS
  <2> HIDE DEF local
  <2> QED  BY <2>1, <2>2, CatalogThread
<1> QED  BY <1>1, <1>2

\* The list with the record of a file that was there or gets a new id.
LEMMA ScanStored ==
  ASSUME CatalogLists, NEW id, NEW new \in Catalog!Model, new.id = id
  PROVE  /\ {m \in models : m.id # id} \cup {new} \subseteq Catalog!Model
         /\ Told({m \in models : m.id # id} \cup {new})
BY DEF CatalogLists, Told

Recorded(list, f, id, new) ==
  /\ new.path = f /\ list = {m \in models : m.id # id} \cup {new}
  /\ (\A m \in models : m.path # f) \/ (\E m \in models : m.id = id /\ m.path = f)

LEMMA ScanSingle ==
  ASSUME Single, NEW f, NEW id, NEW new, NEW list, Recorded(list, f, id, new)
  PROVE  \A m, n \in list : m.path = n.path => m = n
<1>1. \A m \in list : m = new \/ (m \in models /\ m.path # f)
  BY DEF Single, Recorded
<1> QED  BY <1>1 DEF Single, Recorded

LEMMA CatalogScanFile ==
  ASSUME CatalogInv, NEW h \in Handlers, Catalog!ScanFile(h) \/ Catalog!ScanFails(h)
  PROVE  CatalogInv' /\ KeyKept
<1> DEFINE here == work[h]
           f    == Head(here.todo)
           id   == here.known[f]
           newId == IF id = 0 THEN Catalog!NextId(Catalog!IdsOf(models)) ELSE id
           new  == [id |-> newId, path |-> f, scanned |-> TRUE]
           next == [here EXCEPT !.todo = Tail(@)]
           list == {m \in models : m.id # newId} \cup {new}
<1>1. /\ here.pc = "scan" /\ here.todo # <<>>
      /\ UNCHANGED <<preferences, endpoints, disk>>
  BY DEF Catalog!ScanFile, Catalog!ScanFails, Catalog!Scanning, Catalog!OthersKeep
<1>2. \/ /\ Catalog!Go(h, Catalog!Idle) /\ Catalog!ModelsBecome(models, h)
         /\ UNCHANGED excused
      \/ /\ ~(id # 0 /\ id \notin Catalog!IdsOf(models)) /\ newId \in Catalog!Id
         /\ Catalog!Go(h, next) /\ Catalog!ModelsBecome(list, h)
         /\ excused' = (excused \/ h \in stale)
  BY DEF Catalog!ScanFile, Catalog!ScanFails
<1>3. /\ here \in CatalogLocal /\ CatalogLists
      /\ h \notin stale => Listed(here)
  BY <1>1, CatalogHeld DEF CatalogInv
<1> HIDE DEF here
<1>4. /\ f \in Catalog!Files /\ Tail(here.todo) \in Todos
      /\ Ahead(here.todo, f) /\ ~Ahead(Tail(here.todo), f)
      /\ \A g : Ahead(Tail(here.todo), g) => Ahead(here.todo, g)
  <2>1. here.todo \in Todos
    BY <1>3 DEF CatalogLocal
  <2> QED  BY <1>1, <2>1, TodoNext DEF Catalog!Files
<1>5. KeyKept
  <2>1. \A g \in Handlers \ {h} : work'[g] = work[g]
    BY <1>2, CatalogGo
  <2> QED  BY <1>1, <2>1, KeysLeft DEF here
<1> HIDE DEF f
<1>6. CASE Catalog!Go(h, Catalog!Idle) /\ Catalog!ModelsBecome(models, h) /\ UNCHANGED excused
  <2>1. /\ work' = [g \in Handlers |-> work'[g]]
        /\ work'[h] = Catalog!Idle /\ \A g \in Handlers \ {h} : work'[g] = work[g]
    BY <1>6, CatalogGo
  <2>2. /\ models' = models /\ stale' \subseteq Handlers
        /\ \A g \in Handlers : g # h /\ work'[g] = work[g] => CatalogAt(g)'
    BY <1>6, ModelsStored
  <2>3. CatalogAt(h)'
    BY <2>1 DEF CatalogAt
  <2>4. CatalogLists' /\ (excused \/ Single)'
    BY <1>1, <1>6, <2>2 DEF CatalogInv, CatalogLists, Single
  <2> QED  BY <1>5, <2>1, <2>2, <2>3, <2>4 DEF CatalogInv
<1>7. CASE /\ ~(id # 0 /\ id \notin Catalog!IdsOf(models)) /\ newId \in Catalog!Id
           /\ Catalog!Go(h, next) /\ Catalog!ModelsBecome(list, h)
           /\ excused' = (excused \/ h \in stale)
  <2>0. newId \in Catalog!Id
    BY <1>7
  <2>1. new \in Catalog!Model /\ new.id = newId /\ new.path = f
    <3>1. TRUE \in BOOLEAN
      OBVIOUS
    <3> HIDE DEF newId
    <3> QED  BY <1>4, <2>0, <3>1, ModelIs, Zenon
  <2>2. /\ next \in CatalogLocal /\ next.pc = "scan" /\ next.todo = Tail(here.todo)
        /\ next.known = here.known /\ next # Catalog!Idle
    <3>1. next \in CatalogLocal /\ next.pc = "scan" /\ next.todo = Tail(here.todo) /\ next.known = here.known
      BY <1>1, <1>3, <1>4 DEF CatalogLocal
    <3> QED  BY <3>1, CatalogIdle
  <2>3. id \in Nat
    BY <1>3, <1>4 DEF CatalogLocal
  <2>4. id = 0 => newId \notin Catalog!IdsOf(models)
    <3>1. Catalog!IdsOf(models) \in SUBSET Catalog!Id
      BY <1>3 DEF CatalogLists, Catalog!IdsOf, Catalog!Model
    <3> QED  BY <3>1, NextIdFresh
  <2>5. id # 0 => newId = id
    OBVIOUS
  <2>6. \A m \in models : m.id \in Catalog!IdsOf(models)
    BY DEF Catalog!IdsOf
  <2> HIDE DEF newId, new, next
  <2>7. list \subseteq Catalog!Model /\ Told(list)
    BY <1>3, <2>1, ScanStored
  <2>8. /\ models' = list /\ stale' \subseteq Handlers
        /\ \A g \in Handlers : g # h /\ work'[g] = work[g] => CatalogAt(g)'
        /\ \A g \in Handlers : g \in stale /\ work'[g] # Catalog!Idle => g \in stale'
    BY <1>7, ModelsStored
  <2>9. /\ work' = [g \in Handlers |-> work'[g]]
        /\ work'[h] = next /\ \A g \in Handlers \ {h} : work'[g] = work[g]
    BY <1>7, CatalogGo
  <2>10. excused' \in BOOLEAN
    BY <1>7
  <2>11. CatalogLists'
    BY <1>1, <1>3, <2>7, <2>8, <2>10 DEF CatalogLists
  <2>12. h \notin stale =>
           /\ id = 0 => \A m \in models : m.path # f
           /\ id # 0 => \E m \in models : m.id = id /\ m.path = f
    BY <1>3, <1>4 DEF Listed
  <2>13. (excused \/ Single)'
    <3>1. CASE h \in stale \/ excused
      BY <1>7, <3>1
    <3>2. CASE h \notin stale /\ ~excused
      <4>1. Single
        BY <3>2 DEF CatalogInv
      <4>2. (\A m \in models : m.path # f) \/ \E m \in models : m.id = newId /\ m.path = f
        BY <2>5, <2>12, <3>2
      <4>3. \A m, n \in list : m.path = n.path => m = n
        <5>1. list = {m \in models : m.id # newId} \cup {new}
          OBVIOUS
        <5> HIDE DEF list, id
        <5>2. Recorded(list, f, newId, new)
          BY <2>1, <4>2, <5>1 DEF Recorded
        <5> QED  BY <4>1, <5>2, ScanSingle
      <4> QED  BY <2>8, <4>3 DEF Single
    <3> QED  BY <3>1, <3>2
  <2>14. CatalogAt(h)'
    <3>1. ASSUME h \notin stale' PROVE Listed(work[h])'
      <4>1. h \notin stale /\ Listed(here)
        BY <1>3, <2>2, <2>8, <2>9, <3>1
      <4> SUFFICES ASSUME NEW g \in Catalog!Files, Ahead(Tail(here.todo), g)
                   PROVE  /\ here.known[g] = 0 => \A m \in list : m.path # g
                          /\ here.known[g] # 0 => \E m \in list : m.id = here.known[g] /\ m.path = g
        BY <2>2, <2>8, <2>9 DEF Listed
      <4>2. /\ here.known[g] = 0 => \A m \in models : m.path # g
            /\ here.known[g] # 0 => \E m \in models : m.id = here.known[g] /\ m.path = g
        BY <1>4, <4>1 DEF Listed
      <4>3. g # f
        BY <1>4
      <4>4. here.known[g] = 0 => \A m \in list : m.path # g
        BY <2>1, <4>2, <4>3
      <4>5. ASSUME here.known[g] # 0 PROVE \E m \in list : m.id = here.known[g] /\ m.path = g
        <5>1. PICK m \in models : m.id = here.known[g] /\ m.path = g
          BY <4>2, <4>5
        <5>2. m.id # newId
          <6>1. CASE id = 0
            BY <2>4, <2>6, <6>1
          <6>2. CASE id # 0
            <7>1. PICK n \in models : n.id = newId /\ n.path = f
              BY <2>5, <2>12, <4>1, <6>2
            <7> QED  BY <1>3, <4>3, <5>1, <7>1 DEF CatalogLists, Told
          <6> QED  BY <6>1, <6>2
        <5> QED  BY <5>1, <5>2
      <4> QED  BY <4>4, <4>5
    <3> QED  BY <2>2, <2>9, <3>1 DEF CatalogAt
  <2> QED  BY <1>5, <2>8, <2>9, <2>11, <2>13, <2>14 DEF CatalogInv
<1> QED  BY <1>2, <1>6, <1>7

\* A step that stores models and lets at most one thread end.
LEMMA ModelsStep ==
  ASSUME CatalogInv, NEW h, NEW list, Catalog!ModelsBecome(list, h),
         list \subseteq Catalog!Model, Told(list),
         work' = [g \in Handlers |-> work'[g]],
         \A g \in Handlers : IF g = h THEN work'[g] = Catalog!Idle ELSE work'[g] = work[g],
         UNCHANGED <<preferences, endpoints, disk>>, excused' \in BOOLEAN,
         excused' \/ \A m, n \in list : m.path = n.path => m = n
  PROVE  CatalogInv'
<1>1. /\ models' = list /\ stale' \subseteq Handlers
      /\ \A g \in Handlers : g # h /\ work'[g] = work[g] => CatalogAt(g)'
  BY ModelsStored
<1>2. CatalogLists'
  BY <1>1 DEF CatalogInv, CatalogLists
<1>3. ASSUME NEW g \in Handlers PROVE CatalogAt(g)'
  BY <1>1 DEF CatalogAt
<1>4. (excused \/ Single)'
  BY <1>1 DEF Single
<1> QED  BY <1>2, <1>3, <1>4 DEF CatalogInv

LEMMA CatalogPurge ==
  ASSUME CatalogInv, NEW h \in Handlers, Catalog!Purge(h)
  PROVE  CatalogInv' /\ KeyKept
<1> DEFINE list == {m \in models : ~(m.scanned /\ m.path \in Catalog!Secondary(work[h].matches))}
<1>1. /\ Catalog!Go(h, Catalog!Idle) /\ Catalog!ModelsBecome(list, h)
      /\ UNCHANGED <<preferences, endpoints, disk, excused>> /\ work[h].pc = "scan"
  BY DEF Catalog!Purge, Catalog!OthersKeep
<1>2. /\ work' = [g \in Handlers |-> work'[g]]
      /\ work'[h] = Catalog!Idle /\ \A g \in Handlers \ {h} : work'[g] = work[g]
  BY <1>1, CatalogGo
<1>3. list \subseteq models
  OBVIOUS
<1> HIDE DEF list
<1>4. /\ list \subseteq Catalog!Model /\ Told(list) /\ excused' \in BOOLEAN
      /\ excused' \/ \A m, n \in list : m.path = n.path => m = n
  BY <1>1, <1>3 DEF CatalogInv, CatalogLists, Told, Single
<1>5. KeyKept
  BY <1>1, <1>2, KeysLeft
<1>6. \A g \in Handlers : IF g = h THEN work'[g] = Catalog!Idle ELSE work'[g] = work[g]
  BY <1>2
<1> QED  BY <1>1, <1>2, <1>4, <1>5, <1>6, ModelsStep

\* What clients do to the list of models.
LEMMA ClientsStep ==
  ASSUME CatalogInv, NEW list, Catalog!ModelsBecome(list, Nothing),
         list \subseteq Catalog!Model, Told(list),
         UNCHANGED <<work, preferences, endpoints, disk>>, excused' \in BOOLEAN,
         excused' \/ \A m, n \in list : m.path = n.path => m = n
  PROVE  CatalogInv' /\ KeyKept
<1>1. Nothing \notin Handlers
  BY NothingAssumption, Zenon
<1>2. /\ work' = [g \in Handlers |-> work'[g]]
      /\ \A g \in Handlers : IF g = Nothing THEN work'[g] = Catalog!Idle ELSE work'[g] = work[g]
  BY <1>1 DEF CatalogInv
<1>3. KeyKept
  BY KeysUntouched
<1> QED  BY <1>2, <1>3, ModelsStep

LEMMA CatalogCreate ==
  ASSUME CatalogInv, NEW path \in Catalog!Files, Catalog!CreateModel(path)
  PROVE  CatalogInv' /\ KeyKept
<1> DEFINE id   == Catalog!NextId(Catalog!IdsOf(models))
           new  == [id |-> id, path |-> path, scanned |-> FALSE]
           list == models \cup {new}
<1>1. /\ Catalog!ModelsBecome(list, Nothing) /\ id \in Catalog!Id
      /\ UNCHANGED <<work, preferences, endpoints, disk>>
      /\ excused' = (excused \/ \E m \in models : m.path = path)
  BY DEF Catalog!CreateModel, Catalog!OthersKeep
<1>2. CatalogLists /\ (excused \/ Single)
  BY DEF CatalogInv
<1>3. \A m \in models : m.id # id
  <2>1. Catalog!IdsOf(models) \in SUBSET Catalog!Id
    BY <1>2 DEF CatalogLists, Catalog!IdsOf, Catalog!Model
  <2>2. \A m \in models : m.id \in Catalog!IdsOf(models)
    BY DEF Catalog!IdsOf
  <2> QED  BY <2>1, <2>2, NextIdFresh
<1> HIDE DEF id
<1>4. new \in Catalog!Model /\ new.id = id /\ new.path = path
  <2>1. FALSE \in BOOLEAN
    OBVIOUS
  <2> QED  BY <1>1, <2>1, ModelIs, Zenon
<1> HIDE DEF new
<1>5. list \subseteq Catalog!Model /\ Told(list)
  BY <1>2, <1>3, <1>4 DEF CatalogLists, Told
<1>6. excused' \in BOOLEAN
  BY <1>1
<1>7. excused' \/ \A m, n \in list : m.path = n.path => m = n
  <2>1. CASE excused'
    BY <2>1
  <2>2. CASE ~excused'
    <3>1. Single /\ \A m \in models : m.path # path
      BY <1>1, <1>2, <2>2
    <3> QED  BY <1>4, <3>1 DEF Single
  <2> QED  BY <2>1, <2>2
<1> HIDE DEF list
<1> QED  BY <1>1, <1>5, <1>6, <1>7, ClientsStep

LEMMA CatalogUpdate ==
  ASSUME CatalogInv, NEW model \in models, NEW path \in Catalog!Files, NEW marked \in BOOLEAN,
         Catalog!UpdateModel(model, path, marked)
  PROVE  CatalogInv' /\ KeyKept
<1> DEFINE new  == [model EXCEPT !.path = path, !.scanned = @ /\ marked]
           list == (models \ {model}) \cup {new}
<1>1. /\ Catalog!ModelsBecome(list, Nothing)
      /\ UNCHANGED <<work, preferences, endpoints, disk>>
      /\ excused' = (excused \/ \E m \in models \ {model} : m.path = path)
  BY DEF Catalog!UpdateModel, Catalog!OthersKeep
<1>2. CatalogLists /\ (excused \/ Single)
  BY DEF CatalogInv
<1>3. new \in Catalog!Model /\ new.id = model.id /\ new.path = path
  <2> DEFINE mark == model.scanned /\ marked
  <2>1. mark \in BOOLEAN
    OBVIOUS
  <2>2. new = [model EXCEPT !.path = path, !.scanned = mark]
    OBVIOUS
  <2> HIDE DEF mark, new
  <2>3. mark \in Truth
    BY <2>1, TruthIs
  <2>4. Catalog!Model = [id : Catalog!Id, path : Catalog!Files, scanned : Truth]
    BY DEF Catalog!Model, Truth
  <2>5. model \in Catalog!Model
    BY <1>2 DEF CatalogLists
  <2> QED  BY <2>2, <2>3, <2>4, <2>5
<1> HIDE DEF new
<1>4. list \subseteq Catalog!Model /\ Told(list)
  BY <1>2, <1>3 DEF CatalogLists, Told
<1>5. excused' \in BOOLEAN
  BY <1>1
<1>6. excused' \/ \A m, n \in list : m.path = n.path => m = n
  <2>1. CASE excused'
    BY <2>1
  <2>2. CASE ~excused'
    <3>1. Single /\ \A m \in models \ {model} : m.path # path
      BY <1>1, <1>2, <2>2
    <3> QED  BY <1>3, <3>1 DEF Single
  <2> QED  BY <2>1, <2>2
<1> HIDE DEF list
<1> QED  BY <1>1, <1>4, <1>5, <1>6, ClientsStep

LEMMA CatalogDelete ==
  ASSUME CatalogInv, NEW model \in models, Catalog!DeleteModel(model)
  PROVE  CatalogInv' /\ KeyKept
<1> DEFINE list == models \ {model}
<1>1. /\ Catalog!ModelsBecome(list, Nothing)
      /\ UNCHANGED <<work, preferences, endpoints, disk, excused>>
  BY DEF Catalog!DeleteModel, Catalog!OthersKeep
<1>2. CatalogLists /\ (excused \/ Single)
  BY DEF CatalogInv
<1>3. list \subseteq models
  OBVIOUS
<1> HIDE DEF list
<1>4. /\ list \subseteq Catalog!Model /\ Told(list) /\ excused' \in BOOLEAN
      /\ excused' \/ \A m, n \in list : m.path = n.path => m = n
  BY <1>1, <1>2, <1>3 DEF CatalogLists, Told, Single
<1> QED  BY <1>1, <1>4, ClientsStep

\* A step that leaves the models, the listings and the edits alone.
LEMMA CatalogLeft ==
  ASSUME CatalogInv, UNCHANGED <<models, endpoints, work, stale, excused>>,
         preferences' \subseteq Catalog!Id, disk' \subseteq Catalog!Files
  PROVE  CatalogInv' /\ KeyKept
<1>1. CatalogLists' /\ (excused \/ Single)' /\ work' = [h \in Handlers |-> work'[h]]
  BY DEF CatalogInv, CatalogLists, Single
<1>2. \A g \in Handlers : CatalogAt(g)'
  BY CatalogOther
<1> QED  BY <1>1, <1>2, KeysUntouched DEF CatalogInv

LEMMA CatalogPlain ==
  ASSUME CatalogInv,
         \/ \E id \in {0, MaxId} : Catalog!UpsertPreference(id)
         \/ \E id \in preferences : Catalog!DeletePreference(id)
         \/ \E path \in Catalog!Files : Catalog!ChangeDisk(path)
  PROVE  CatalogInv' /\ KeyKept
<1>0. preferences \subseteq Catalog!Id /\ disk \subseteq Catalog!Files
  BY DEF CatalogInv, CatalogLists
<1>1. CASE \E id \in {0, MaxId} : Catalog!UpsertPreference(id)
  <2>1. /\ UNCHANGED <<models, endpoints, work, stale, excused, disk>>
        /\ preferences' \subseteq Catalog!Id
    BY <1>0, <1>1 DEF Catalog!UpsertPreference
  <2> QED  BY <1>0, <2>1, CatalogLeft
<1>2. CASE \E id \in preferences : Catalog!DeletePreference(id)
  <2>1. /\ UNCHANGED <<models, endpoints, work, stale, excused, disk>>
        /\ preferences' \subseteq Catalog!Id
    BY <1>0, <1>2 DEF Catalog!DeletePreference
  <2> QED  BY <1>0, <2>1, CatalogLeft
<1>3. CASE \E path \in Catalog!Files : Catalog!ChangeDisk(path)
  <2>1. /\ UNCHANGED <<models, endpoints, work, stale, excused, preferences>>
        /\ disk' \subseteq Catalog!Files
    BY <1>0, <1>3 DEF Catalog!ChangeDisk
  <2> QED  BY <1>0, <2>1, CatalogLeft
<1> QED  BY <1>1, <1>2, <1>3

\* The key of an endpoint is one, or there is no such endpoint.
LEMMA KeyOfSecret ==
  ASSUME NEW list, EndpointsGood(list), NEW id
  PROVE  Catalog!KeyOf(list, id) \in Secrets
<1>1. CASE id \in Catalog!IdsOf(list)
  <2>1. \E e \in list : e.id = id
    BY <1>1 DEF Catalog!IdsOf
  <2> DEFINE e == CHOOSE x \in list : x.id = id
  <2>2. e \in list
    BY <2>1
  <2>3. Catalog!KeyOf(list, id) = e.key
    BY <1>1 DEF Catalog!KeyOf
  <2> HIDE DEF e
  <2> QED  BY <2>2, <2>3, Zenon DEF EndpointsGood, Catalog!Endpoint, Secrets
<1>2. CASE id \notin Catalog!IdsOf(list)
  BY <1>2 DEF Catalog!KeyOf, Secrets
<1> QED  BY <1>1, <1>2

LEMMA LoadedGood == ASSUME CatalogInv PROVE EndpointsGood(Catalog!Loaded)
BY DEF CatalogInv, CatalogLists, Catalog!Loaded

LEMMA NewEndpoint ==
  ASSUME CatalogInv, NEW id \in Catalog!Id, NEW key \in Keys \cup {""}, NEW owned \in BOOLEAN
  PROVE  /\ EndpointsGood({e \in Catalog!Loaded : e.id # id}
                            \cup {[id |-> id, key |-> key, owned |-> owned]})
         /\ id \notin Catalog!IdsOf(Catalog!Loaded) =>
              EndpointsGood(Catalog!Loaded \cup {[id |-> id, key |-> key, owned |-> owned]})
         /\ EndpointsGood({e \in Catalog!Loaded : e.id # id})
<1> DEFINE new == [id |-> id, key |-> key, owned |-> owned]
<1>1. new \in Catalog!Endpoint /\ new.id = id
  BY EndpointIs, Zenon
<1>2. Catalog!Loaded \subseteq Catalog!Endpoint /\ Told(Catalog!Loaded)
  BY LoadedGood, Zenon DEF EndpointsGood
<1>3. \A e \in Catalog!Loaded : e.id \in Catalog!IdsOf(Catalog!Loaded)
  BY Zenon DEF Catalog!IdsOf
<1> HIDE DEF new
<1>4. EndpointsGood({e \in Catalog!Loaded : e.id # id} \cup {new})
  BY <1>1, <1>2, Zenon DEF EndpointsGood, Told
<1>5. id \notin Catalog!IdsOf(Catalog!Loaded) => EndpointsGood(Catalog!Loaded \cup {new})
  BY <1>1, <1>2, <1>3, Zenon DEF EndpointsGood, Told
<1>6. EndpointsGood({e \in Catalog!Loaded : e.id # id})
  BY <1>2, Zenon DEF EndpointsGood, Told
<1> QED  BY <1>4, <1>5, <1>6, Zenon DEF new

\* The list of endpoints is stored, and the edits that are under way note it.
LEMMA EndpointsStep ==
  ASSUME CatalogInv, NEW h, NEW list, EndpointsGood(list), Catalog!EndpointsBecome(list),
         NEW local, Catalog!Noting(h, local),
         \/ local = Catalog!Idle
         \/ local \in CatalogLocal /\ local.pc = "edit" /\ local.key \in local.held
  PROVE  /\ CatalogInv' /\ endpoints'.list = list
         /\ \A g \in Handlers : work[g].pc = "edit" => g = h \/ work'[g].pc = "edit"
<1>1. /\ endpoints' = [endpoints EXCEPT !.list = list]
      /\ UNCHANGED <<models, preferences, disk, stale, excused>>
  BY DEF Catalog!EndpointsBecome
<1>2. CatalogLists /\ (excused \/ Single)
  BY DEF CatalogInv
<1>3. /\ endpoints'.list = list /\ endpoints'.legacy = endpoints.legacy
      /\ endpoints' = [list |-> endpoints'.list, legacy |-> endpoints'.legacy]
  BY <1>1, <1>2 DEF CatalogLists
<1>4. CatalogLists' /\ (excused \/ Single)'
  BY <1>1, <1>2, <1>3 DEF CatalogLists, Single
<1>5. /\ work' = [g \in Handlers |-> work'[g]]
      /\ \A g \in Handlers :
           work'[g] = IF g = h THEN local
                      ELSE IF work[g].pc = "edit"
                      THEN [work[g] EXCEPT !.held = @ \cup {Catalog!KeyOf(list, work[g].id)}]
                      ELSE work[g]
  BY <1>3 DEF Catalog!Noting
<1>6. ASSUME NEW g \in Handlers
      PROVE  CatalogAt(g)' /\ (work[g].pc = "edit" => g = h \/ work'[g].pc = "edit")
  <2>1. CASE g = h
    <3>1. work'[g] = local
      BY <1>5, <2>1
    <3> QED  BY <2>1, <3>1 DEF CatalogAt
  <2>2. CASE g # h /\ work[g].pc # "edit"
    <3>1. work'[g] = work[g]
      BY <1>5, <2>2
    <3> QED  BY <1>1, <2>2, <3>1, CatalogOther
  <2>3. CASE g # h /\ work[g].pc = "edit"
    <3> DEFINE key == Catalog!KeyOf(list, work[g].id)
    <3>1. work'[g] = [work[g] EXCEPT !.held = @ \cup {key}]
      BY <1>5, <2>3
    <3>2. key \in Secrets
      BY KeyOfSecret
    <3> HIDE DEF key
    <3>3. work[g] \in CatalogLocal /\ work[g].key \in work[g].held
      BY <2>3, CatalogHeld
    <3>4. work'[g] \in CatalogLocal /\ work'[g].pc = "edit" /\ work'[g].key \in work'[g].held
      BY <2>3, <3>1, <3>2, <3>3 DEF CatalogLocal
    <3> QED  BY <3>4 DEF CatalogAt
  <2> QED  BY <2>1, <2>2, <2>3
<1> QED  BY <1>3, <1>4, <1>5, <1>6 DEF CatalogInv

LEMMA EndpointsQuiet ==
  ASSUME CatalogInv, NEW list, EndpointsGood(list), Catalog!EndpointsBecome(list),
         Catalog!Noting(Nothing, Catalog!Idle)
  PROVE  CatalogInv' /\ KeyKept
<1>1. Nothing \notin Handlers
  BY NothingAssumption, Zenon
<1>2. /\ CatalogInv'
      /\ \A g \in Handlers : work[g].pc = "edit" => g = Nothing \/ work'[g].pc = "edit"
  BY EndpointsStep
<1> QED  BY <1>1, <1>2, KeysUntouched

LEMMA CatalogEndpoints ==
  ASSUME CatalogInv, NEW id \in Catalog!Id, NEW key \in Keys \cup {""}, NEW owned \in BOOLEAN,
         \/ Catalog!ReadEndpoints \/ Catalog!DeleteEndpoint(id)
         \/ Catalog!CreateEndpoint(key, owned) \/ Catalog!PutEndpoint(id, key)
  PROVE  CatalogInv' /\ KeyKept
<1>1. CASE Catalog!ReadEndpoints
  <2>1. Catalog!EndpointsBecome(Catalog!Loaded) /\ Catalog!Noting(Nothing, Catalog!Idle)
    BY <1>1, Zenon DEF Catalog!ReadEndpoints
  <2> QED  BY <2>1, LoadedGood, EndpointsQuiet, Zenon
<1>2. CASE Catalog!DeleteEndpoint(id)
  <2> DEFINE list == {e \in Catalog!Loaded : e.id # id}
  <2>1. Catalog!EndpointsBecome(list) /\ Catalog!Noting(Nothing, Catalog!Idle)
    BY <1>2, Zenon DEF Catalog!DeleteEndpoint
  <2>2. EndpointsGood(list)
    BY NewEndpoint, Zenon
  <2> HIDE DEF list
  <2> QED  BY <2>1, <2>2, EndpointsQuiet, Zenon
<1>3. CASE Catalog!CreateEndpoint(key, owned)
  <2> DEFINE new  == Catalog!NextId(Catalog!IdsOf(Catalog!Loaded))
             list == Catalog!Loaded \cup {[id |-> new, key |-> key, owned |-> owned]}
  <2>1. /\ Catalog!EndpointsBecome(list) /\ Catalog!Noting(Nothing, Catalog!Idle)
        /\ new \in Catalog!Id
    BY <1>3, Zenon DEF Catalog!CreateEndpoint
  <2>2. Catalog!IdsOf(Catalog!Loaded) \in SUBSET Catalog!Id
    BY LoadedGood, Zenon DEF EndpointsGood, Catalog!IdsOf, Catalog!Endpoint
  <2>3. new \notin Catalog!IdsOf(Catalog!Loaded)
    BY <2>2, NextIdFresh, Zenon
  <2> HIDE DEF new
  <2>4. EndpointsGood(list)
    BY <2>1, <2>3, NewEndpoint, Zenon
  <2> HIDE DEF list
  <2> QED  BY <2>1, <2>4, EndpointsQuiet, Zenon
<1>4. CASE Catalog!PutEndpoint(id, key)
  <2> DEFINE list == Catalog!Replaced(id, key)
  <2>1. Catalog!EndpointsBecome(list) /\ Catalog!Noting(Nothing, Catalog!Idle)
    BY <1>4, Zenon DEF Catalog!PutEndpoint
  <2>2. EndpointsGood(list)
    <3>1. FALSE \in BOOLEAN
      BY Zenon
    <3>2. EndpointsGood({e \in Catalog!Loaded : e.id # id}
                            \cup {[id |-> id, key |-> key, owned |-> FALSE]})
      BY <3>1, NewEndpoint, Zenon
    <3> QED  BY <3>2, Zenon DEF Catalog!Replaced
  <2> HIDE DEF list
  <2> QED  BY <2>1, <2>2, EndpointsQuiet, Zenon
<1> QED  BY <1>1, <1>2, <1>3, <1>4, Zenon

LEMMA CatalogEdit ==
  ASSUME CatalogInv, NEW h \in Handlers, NEW id \in Catalog!Id, Catalog!EditWithBlankKey(h, id)
  PROVE  CatalogInv' /\ KeyKept
<1> DEFINE key   == Catalog!KeyOf(Catalog!Loaded, id)
           local == [Catalog!At("edit") EXCEPT !.id = id, !.key = key, !.held = {key}]
<1>1. /\ work[h] = Catalog!Idle /\ Catalog!EndpointsBecome(Catalog!Loaded)
      /\ Catalog!Noting(h, local)
  BY DEF Catalog!EditWithBlankKey
<1>2. key \in Secrets
  BY LoadedGood, KeyOfSecret
<1>3. id \in Nat
  BY BoundsAssumption DEF Catalog!Id
<1> HIDE DEF key
<1>4. local \in CatalogLocal /\ local.pc = "edit" /\ local.key \in local.held
  BY <1>2, <1>3, Zenon DEF Catalog!At, CatalogLocal, Secrets, Todos
<1> HIDE DEF local
<1>5. /\ CatalogInv'
      /\ \A g \in Handlers : work[g].pc = "edit" => g = h \/ work'[g].pc = "edit"
  BY <1>1, <1>4, LoadedGood, EndpointsStep
<1>6. work[h].pc # "edit"
  BY <1>1, CatalogIdle
<1> QED  BY <1>5, <1>6, KeysUntouched

\* The end of an edit stores the key that it read, or a blank one for none.
LEMMA CatalogFinish ==
  ASSUME CatalogInv, NEW h \in Handlers, Catalog!FinishEdit(h)
  PROVE  CatalogInv' /\ KeyKept
<1> DEFINE here == work[h]
           kept == Catalog!KeyToKeep(here.key)
           list == IF here.id \in Catalog!IdsOf(Catalog!Loaded)
                   THEN Catalog!Replaced(here.id, kept) ELSE Catalog!Loaded
<1>1. /\ here.pc = "edit" /\ Catalog!EndpointsBecome(list) /\ Catalog!Noting(h, Catalog!Idle)
  BY DEF Catalog!FinishEdit
<1>2. here \in CatalogLocal /\ here.key \in here.held
  BY <1>1, CatalogHeld
<1> HIDE DEF here
<1>3. kept \in Keys \cup {""} /\ (here.key # Nothing => kept = here.key)
  BY <1>2, Zenon DEF Catalog!KeyToKeep, CatalogLocal, Secrets
<1> HIDE DEF kept
<1>4. \A i \in Catalog!IdsOf(Catalog!Loaded) : i \in Catalog!Id
  BY LoadedGood, Zenon DEF EndpointsGood, Catalog!IdsOf, Catalog!Endpoint
<1> DEFINE new == [id |-> here.id, key |-> kept, owned |-> FALSE]
<1>5. ASSUME here.id \in Catalog!IdsOf(Catalog!Loaded)
      PROVE  EndpointsGood(list) /\ list = {e \in Catalog!Loaded : e.id # here.id} \cup {new}
  <2>1. list = {e \in Catalog!Loaded : e.id # here.id} \cup {new}
    BY <1>5 DEF Catalog!Replaced
  <2>2. FALSE \in BOOLEAN /\ here.id \in Catalog!Id
    BY <1>4, <1>5
  <2>3. EndpointsGood({e \in Catalog!Loaded : e.id # here.id} \cup {new})
    BY <1>3, <2>2, NewEndpoint, Zenon
  <2> QED  BY <2>1, <2>3
<1>6. here.id \notin Catalog!IdsOf(Catalog!Loaded) => list = Catalog!Loaded
  OBVIOUS
<1>7. new.id = here.id /\ new.key = kept
  OBVIOUS
<1> HIDE DEF list, new
<1>8. EndpointsGood(list)
  BY <1>5, <1>6, LoadedGood
<1>9. /\ CatalogInv' /\ endpoints'.list = list
      /\ \A g \in Handlers : work[g].pc = "edit" => g = h \/ work'[g].pc = "edit"
  BY <1>1, <1>8, EndpointsStep
<1>10. KeyKept
  <2> SUFFICES ASSUME NEW g \in Handlers, work[g].pc = "edit", work'[g] = Catalog!Idle,
                      work[g].id \in Catalog!IdsOf(list)
               PROVE  \/ Catalog!KeyOf(list, work[g].id) \in work[g].held
                      \/ Nothing \in work[g].held
    BY <1>9 DEF KeyKept, Catalog!KeyIsKept
  <2>1. work'[g].pc # "edit"
    BY CatalogIdle
  <2>2. g = h
    BY <1>9, <2>1
  <2>3. here.id \in Catalog!IdsOf(list) /\ work[g] = here
    BY <2>2 DEF here
  <2>4. here.id \in Catalog!IdsOf(Catalog!Loaded)
    BY <1>6, <2>3
  <2>5. \A e \in list : e.id = here.id => e = new
    BY <1>5, <2>4
  <2>6. new \in list
    BY <1>5, <2>4
  <2>7. Catalog!KeyOf(list, here.id) = kept
    <3>1. (CHOOSE e \in list : e.id = here.id) = new
      BY <1>7, <2>5, <2>6
    <3> QED  BY <1>7, <2>3, <3>1 DEF Catalog!KeyOf
  <2> QED  BY <1>2, <1>3, <2>3, <2>7, Zenon
<1> QED  BY <1>9, <1>10

LEMMA CatalogStep ==
  ASSUME CatalogInv, [Catalog!Next]_catalogState
  PROVE  CatalogInv' /\ KeyKept
<1>0. preferences \subseteq Catalog!Id /\ disk \subseteq Catalog!Files /\ models \subseteq Catalog!Model
  BY DEF CatalogInv, CatalogLists
<1>1. CASE UNCHANGED catalogState
  BY <1>0, <1>1, CatalogLeft DEF catalogState
<1>2. ASSUME NEW h \in Handlers,
             \/ Catalog!Scan(h) \/ Catalog!ListModels(h) \/ Catalog!ScanFile(h)
             \/ Catalog!ScanFails(h) \/ Catalog!Purge(h)
             \/ (\E id \in Catalog!Id : Catalog!EditWithBlankKey(h, id)) \/ Catalog!FinishEdit(h)
             \/ (\E named \in BOOLEAN : Catalog!SaveSettings(h, named))
             \/ Catalog!SaveLegacyDirectory(h)
      PROVE  CatalogInv' /\ KeyKept
  <2>1. CASE Catalog!Scan(h) \/ Catalog!ListModels(h)
    BY <2>1, CatalogScan DEF Catalog!ListModels
  <2>2. CASE Catalog!ScanFile(h) \/ Catalog!ScanFails(h)
    BY <2>2, CatalogScanFile
  <2>3. CASE Catalog!Purge(h)
    BY <2>3, CatalogPurge
  <2>4. CASE \E id \in Catalog!Id : Catalog!EditWithBlankKey(h, id)
    BY <2>4, CatalogEdit
  <2>5. CASE Catalog!FinishEdit(h)
    BY <2>5, CatalogFinish
  <2>6. CASE \/ \E named \in BOOLEAN : Catalog!SaveSettings(h, named)
             \/ Catalog!SaveLegacyDirectory(h)
    BY <2>6, CatalogSettings
  <2> QED  BY <1>2, <2>1, <2>2, <2>3, <2>4, <2>5, <2>6
<1>3. ASSUME NEW path \in {"single", "part2"}, Catalog!CreateModel(path)
      PROVE  CatalogInv' /\ KeyKept
  BY <1>3, CatalogCreate DEF Catalog!Files
<1>4. ASSUME NEW m \in models,
             \/ Catalog!DeleteModel(m)
             \/ \E path \in {m.path, "part1"}, marked \in BOOLEAN : Catalog!UpdateModel(m, path, marked)
      PROVE  CatalogInv' /\ KeyKept
  <2>1. {m.path, "part1"} \subseteq Catalog!Files
    BY <1>0 DEF Catalog!Model, Catalog!Files
  <2> QED  BY <1>4, <2>1, CatalogDelete, CatalogUpdate
<1>5. ASSUME NEW id \in Catalog!Id, NEW key \in Keys \cup {""}, NEW owned \in BOOLEAN,
             \/ Catalog!ReadEndpoints \/ Catalog!DeleteEndpoint(id)
             \/ Catalog!CreateEndpoint(key, owned) \/ Catalog!PutEndpoint(id, key)
      PROVE  CatalogInv' /\ KeyKept
  BY <1>5, CatalogEndpoints, Zenon
<1>6. 1 \in Catalog!Id /\ "" \in Keys \cup {""} /\ TRUE \in BOOLEAN
  BY BoundsAssumption DEF Catalog!Id
<1>7. ASSUME \/ Catalog!ReadEndpoints
             \/ \E id \in Catalog!Id : Catalog!DeleteEndpoint(id)
             \/ \E key \in Keys \cup {""} :
                  \/ \E owned \in BOOLEAN : Catalog!CreateEndpoint(key, owned)
                  \/ \E id \in Catalog!Id : Catalog!PutEndpoint(id, key)
      PROVE  CatalogInv' /\ KeyKept
  <2>1. CASE Catalog!ReadEndpoints
    BY <1>5, <1>6, <2>1, Zenon
  <2>2. CASE \E id \in Catalog!Id : Catalog!DeleteEndpoint(id)
    BY <1>5, <1>6, <2>2, Zenon
  <2>3. CASE \E key \in Keys \cup {""}, owned \in BOOLEAN : Catalog!CreateEndpoint(key, owned)
    BY <1>5, <1>6, <2>3, Zenon
  <2>4. CASE \E key \in Keys \cup {""}, id \in Catalog!Id : Catalog!PutEndpoint(id, key)
    BY <1>5, <1>6, <2>4, Zenon
  <2> QED  BY <1>7, <2>1, <2>2, <2>3, <2>4, Zenon
<1> QED  BY <1>1, <1>2, <1>3, <1>4, <1>7, CatalogPlain, Zenon DEF Catalog!Next

LEMMA DoublesExcused == CatalogInv => Catalog!DoublesAreExcused
BY DEF CatalogInv, Single, Catalog!DoublesAreExcused

\* Where the ids tell, there are as many of them as entries.
LEMMA IdsCount ==
  ASSUME NEW list, Told(list), Catalog!IdsOf(list) \subseteq Catalog!Id
  PROVE  Catalog!Cardinality(Catalog!IdsOf(list)) = Catalog!Cardinality(list)
<1> DEFINE ids == Catalog!IdsOf(list)
           f   == [i \in ids |-> CHOOSE e \in list : e.id = i]
<1>1. \A i \in ids : \E e \in list : e.id = i
  BY DEF Catalog!IdsOf
<1>2. \A i \in ids : f[i] \in list /\ f[i].id = i
  BY <1>1
<1>3. \A e \in list : e.id \in ids
  BY DEF Catalog!IdsOf
<1>4. f \in [ids -> list]
  BY <1>2
<1> HIDE DEF f
<1>5. \A e \in list : f[e.id] = e
  BY <1>2, <1>3 DEF Told
<1>6. f \in Bijection(ids, list)
  <2>1. \A i, j \in ids : f[i] = f[j] => i = j
    BY <1>2
  <2>2. \A e \in list : \E i \in ids : f[i] = e
    BY <1>3, <1>5
  <2> QED  BY <1>4, <2>1, <2>2 DEF Bijection, Injection, Surjection, IsInjective
<1>7. ExistsBijection(ids, list)
  BY <1>6 DEF ExistsBijection
<1>8. IsFiniteSet(ids)
  <2>1. MaxId \in Nat
    BY BoundsAssumption
  <2>2. IsFiniteSet(1 .. MaxId)
    BY <2>1, FS_Interval
  <2> QED  BY <2>2, FS_Subset DEF Catalog!Id
<1> HIDE DEF ids
<1>9. Cardinality(ids) = Cardinality(list)
  BY <1>7, <1>8, FS_Bijection
<1>10. \A S : Catalog!Cardinality(S) = Cardinality(S)
  BY DEF Catalog!Cardinality, Cardinality
<1> QED  BY <1>9, <1>10 DEF ids

LEMMA CatalogTyped == CatalogInv => Catalog!TypeOK
<1> SUFFICES ASSUME CatalogInv PROVE Catalog!TypeOK
  OBVIOUS
<1>1. CatalogLists
  BY DEF CatalogInv
<1>2. /\ Catalog!IdsOf(models) \subseteq Catalog!Id
      /\ Catalog!IdsOf(endpoints.list) \subseteq Catalog!Id
  BY <1>1, Zenon DEF CatalogLists, EndpointsGood, Catalog!IdsOf, Catalog!Model, Catalog!Endpoint
<1>3. /\ Catalog!Cardinality(Catalog!IdsOf(models)) = Catalog!Cardinality(models)
      /\ Catalog!Cardinality(Catalog!IdsOf(endpoints.list)) = Catalog!Cardinality(endpoints.list)
  BY <1>1, <1>2, IdsCount DEF CatalogLists, EndpointsGood
<1> QED  BY <1>1, <1>3 DEF CatalogLists, EndpointsGood, Catalog!TypeOK

-----------------------------------------------------------------------------
(* FletClient: where each request finds the client, and what is known of   *)
(* the sessions that it holds                                              *)

\* The sessions there have been.
Begun == {t \in Client!Token : owners[t] # Nothing}

Routes == {"/", "/login"} \cup Client!Views

ClientPages ==
  [route : Routes,
   screen : Client!InShell \cup {"connecting", "disconnected", "login", "error", "status"},
   view : Client!Views \cup {Nothing}]

Requests == {"none", "version", "session", "auth views", "modules", "document", "command",
             "login", "confirm", "logout"}

ClientTypes ==
  /\ owners \in [Client!Token -> Users \cup {Nothing}] /\ live \subseteq Begun
  /\ jar \in [restored : Begun \cup {0}, received : Begun \cup {0}]
  /\ sessionFile \in Begun \cup {0} /\ left \subseteq Client!Token
  /\ signed \in Users \cup {Nothing} /\ catalog \in Truth
  /\ clientPage \in ClientPages /\ shared.item \in Client!Views \cup {Nothing}
  /\ task.request \in Requests /\ (task.request = "login" => task.user \in Users)

\* Which request finds the client on which route, and with whom signed in.
ClientFlow ==
  /\ task.request \in {"version", "session"} =>
       clientPage.route = "/" /\ clientPage.screen = "connecting"
  /\ clientPage.screen = "disconnected" => task.request = "none" /\ clientPage.route = "/"
  /\ task.request = "auth views" => clientPage.route = "/login"
  /\ task.request = "modules" => signed # Nothing
  /\ task.request = "document" => signed # Nothing /\ clientPage.route \in Client!Views
  /\ task.request \in {"login", "confirm"} => clientPage.screen = "status"
  /\ task.request \in {"command", "logout"} => clientPage.screen \in Client!InShell
  /\ clientPage.screen = "login" => task.request = "none" /\ clientPage.route = "/login"
  /\ clientPage.route = "/login" => signed = Nothing
  /\ task.request \in {"none", "command", "logout"} /\ clientPage.screen \in Client!InShell =>
       signed # Nothing \/ clientPage.route = "/login"

\* Which sessions the client has not lost sight of.
ClientSessions ==
  /\ task.request \in {"version", "session"} \/ clientPage.screen = "disconnected" =>
       jar.received = 0
  /\ task.request = "confirm" => jar.received # 0
  /\ clientPage.screen = "login" => sessionFile = Client!Persisted(jar)
  /\ clientPage.route = "/login" /\ task.request # "confirm" =>
       {jar.restored, jar.received} \cap live \subseteq left
  /\ jar.received # 0 => jar.restored \in left \cup {0}
  /\ Client!NameIsOfSession

ClientInv == ClientTypes /\ ClientFlow /\ ClientSessions

LEMMA RequestIs ==
  Client!Idle.request = "none" /\ \A name : Client!Request(name).request = name
BY DEF Client!Idle, Client!Request

LEMMA ClientInit == Client!Init => ClientInv
<1> SUFFICES ASSUME Client!Init PROVE ClientInv
  OBVIOUS
<1>1. /\ owners = [t \in Client!Token |-> Nothing] /\ live = {} /\ left = {}
      /\ jar = [restored |-> 0, received |-> 0] /\ sessionFile = 0 /\ signed = Nothing
      /\ clientPage = [route |-> "/", screen |-> "connecting", view |-> Nothing]
      /\ catalog = FALSE /\ shared = [form |-> "none", item |-> Nothing]
      /\ task.request = "version"
  BY RequestIs DEF Client!Init
<1>2. catalog \in Truth
  BY <1>1, TruthIs
<1>3. jar \in [restored : Begun \cup {0}, received : Begun \cup {0}]
  BY <1>1
<1>4. clientPage \in ClientPages
  BY <1>1 DEF ClientPages, Routes
<1>5. owners \in [Client!Token -> Users \cup {Nothing}]
  BY <1>1
<1>6. ClientTypes
  BY <1>1, <1>2, <1>3, <1>4, <1>5 DEF ClientTypes, Requests
<1>7. clientPage.route = "/" /\ clientPage.screen = "connecting"
  BY <1>1
<1>8. ClientFlow
  BY <1>1, <1>7 DEF ClientFlow, Client!InShell
<1>9. ClientSessions
  BY <1>1, <1>7 DEF ClientSessions, Client!NameIsOfSession
<1> QED  BY <1>6, <1>8, <1>9 DEF ClientInv

\* Where a route leads to.
Rendered(route, user) ==
  /\ clientPage' \in ClientPages
  /\ \/ /\ user = Nothing \/ route = "/login"
        /\ clientPage'.route = "/login" /\ clientPage'.screen = clientPage.screen
        /\ task'.request = "auth views"
     \/ /\ user # Nothing /\ route # "/login" /\ clientPage'.route = route
        /\ \/ clientPage'.screen = clientPage.screen /\ task'.request = "modules"
           \/ clientPage'.screen = "workspace" /\ task'.request = "none"
           \/ /\ route \in Client!Views
              /\ clientPage'.screen = clientPage.screen /\ task'.request = "document"

LEMMA RenderTo ==
  ASSUME ClientTypes, NEW route \in Routes, NEW user, NEW loaded \in Truth,
         Client!Render(route, user, loaded)
  PROVE  Rendered(route, user)
<1>1. clientPage \in ClientPages
  BY DEF ClientTypes
<1> DEFINE to == IF user = Nothing THEN "/login" ELSE route
<1>2. to \in Routes
  BY DEF Routes
<1>3. ASSUME clientPage' = [clientPage EXCEPT !.route = to]
      PROVE  /\ clientPage' \in ClientPages /\ clientPage'.route = to
             /\ clientPage'.screen = clientPage.screen
  BY <1>1, <1>2, <1>3 DEF ClientPages
<1>4. CASE to = "/login"
  <2>1. clientPage' = [clientPage EXCEPT !.route = to] /\ task' = Client!Request("auth views")
    BY <1>4, Zenon DEF Client!Render
  <2> QED  BY <1>3, <1>4, <2>1, RequestIs, Zenon DEF Rendered
<1>5. CASE to # "/login" /\ ~loaded
  <2>1. clientPage' = [clientPage EXCEPT !.route = to] /\ task' = Client!Request("modules")
    BY <1>5 DEF Client!Render
  <2> QED  BY <1>3, <1>5, <2>1, RequestIs, Zenon DEF Rendered
<1>6. CASE to = "/" /\ loaded
  <2>1. /\ clientPage' = [route |-> to, screen |-> "workspace", view |-> Nothing]
        /\ task' = Client!Idle
    BY <1>6, Zenon DEF Client!Render
  <2>2. /\ clientPage' \in ClientPages /\ clientPage'.route = to
        /\ clientPage'.screen = "workspace"
    BY <1>2, <2>1 DEF ClientPages, Client!InShell
  <2> QED  BY <1>6, <2>1, <2>2, RequestIs DEF Rendered
<1>7. CASE to \notin {"/login", "/"} /\ loaded
  <2>1. clientPage' = [clientPage EXCEPT !.route = to] /\ task' = Client!Request("document")
    BY <1>7, Zenon DEF Client!Render
  <2>2. to \in Client!Views /\ to = route /\ user # Nothing
    BY <1>7 DEF Routes
  <2> QED  BY <1>3, <1>7, <2>1, <2>2, RequestIs, Zenon DEF Rendered
<1>8. loaded \in BOOLEAN
  BY TruthIs
<1> QED  BY <1>4, <1>5, <1>6, <1>7, <1>8, Zenon

\* What comes on the screen.
Shown(screen) ==
  /\ clientPage' \in ClientPages /\ clientPage'.route = clientPage.route
  /\ clientPage'.screen = screen /\ task'.request = "none"

LEMMA ShowTo ==
  ASSUME ClientTypes, NEW screen \in {"login", "error", "disconnected", "unavailable", "view"},
         screen = "view" => clientPage.route \in Client!Views, Client!Show(screen)
  PROVE  Shown(screen)
<1> DEFINE page == IF screen = "view" THEN clientPage.route ELSE Nothing
<1>1. clientPage' = [clientPage EXCEPT !.screen = screen, !.view = page] /\ task' = Client!Idle
  BY DEF Client!Show
<1>2. page \in Client!Views \cup {Nothing}
  OBVIOUS
<1> HIDE DEF page
<1> QED  BY <1>1, <1>2, RequestIs DEF ClientTypes, ClientPages, Client!InShell, Shown

\* Sessions end, and begin, and are never somebody else's.
SessionsGo ==
  /\ owners' \in [Client!Token -> Users \cup {Nothing}]
  /\ \A t \in Begun : owners'[t] = owners[t]
  /\ live' \subseteq Begun' /\ live' \cap Begun \subseteq live

LEMMA SessionsEnd ==
  ASSUME ClientTypes, UNCHANGED owners, live' \subseteq live
  PROVE  SessionsGo
BY DEF ClientTypes, SessionsGo, Begun

LEMMA NoneLives == ASSUME SessionsGo PROVE 0 \notin live'
<1>1. live' \subseteq Client!Token /\ 0 \notin Client!Token
  BY DEF SessionsGo, Begun, Client!Token
<1> QED  BY <1>1

\* A step that leaves the cookies of the client alone.
LEMMA SessionsStay ==
  ASSUME ClientInv, SessionsGo, UNCHANGED jar, left \subseteq left',
         \/ /\ signed' = signed
            /\ \/ task.request # "confirm" \/ task'.request = "confirm"
               \/ Client!Sent(jar) \in left' \/ Client!Sent(jar) \notin live
         \/ signed' = Nothing \/ signed' = owners[Client!Sent(jar)],
         task'.request \in {"version", "session"} \/ clientPage'.screen = "disconnected" =>
           jar.received = 0,
         task'.request = "confirm" => task.request = "confirm",
         clientPage'.screen = "login" => sessionFile' = Client!Persisted(jar),
         clientPage'.route = "/login" /\ task'.request # "confirm" =>
           \/ clientPage.route = "/login" /\ task.request # "confirm"
           \/ Client!Sent(jar) \notin live' \/ Client!Sent(jar) \in left'
  PROVE  ClientSessions'
<1>1. /\ ClientSessions /\ 0 \notin live'
      /\ {jar.restored, jar.received} \cap live' \subseteq live
      /\ Client!Sent(jar) \in {jar.restored, jar.received}
      /\ \A t \in live' \cap {jar.restored, jar.received} : owners'[t] = owners[t]
  <2>1. 0 \notin live'
    BY NoneLives
  <2>2. {jar.restored, jar.received} \subseteq Begun \cup {0}
    BY DEF ClientInv, ClientTypes
  <2>3. Client!Sent(jar) \in {jar.restored, jar.received}
    BY DEF Client!Sent
  <2> QED  BY <2>1, <2>2, <2>3 DEF ClientInv, SessionsGo
<1>2. Client!NameIsOfSession'
  <2> DEFINE t == Client!Sent(jar)
  <2>1. Client!Sent(jar') = t
    OBVIOUS
  <2> HIDE DEF t
  <2>2. signed # Nothing /\ t \in live /\ task.request # "confirm" => signed = owners[t] \/ t \in left
    BY <1>1 DEF ClientSessions, Client!NameIsOfSession, t
  <2>3. t \in live' => t \in live /\ owners'[t] = owners[t]
    BY <1>1 DEF t
  <2>4. signed' # Nothing /\ t \in live' /\ task'.request # "confirm"
          => signed' = owners'[t] \/ t \in left'
    BY <2>2, <2>3 DEF t
  <2> QED  BY <2>1, <2>4 DEF Client!NameIsOfSession
<1>3. clientPage'.route = "/login" /\ task'.request # "confirm" =>
        {jar.restored, jar.received} \cap live' \subseteq left'
  BY <1>1 DEF ClientSessions, Client!Sent
<1> QED  BY <1>1, <1>2, <1>3 DEF ClientSessions

LEMMA TypesStay ==
  ASSUME ClientInv, SessionsGo,
         jar' \in [restored : Begun \cup {0}, received : Begun \cup {0}],
         sessionFile' \in Begun \cup {0}, left' \subseteq Client!Token,
         signed' \in Users \cup {Nothing}, catalog' \in Truth, clientPage' \in ClientPages,
         shared'.item \in Client!Views \cup {Nothing}, task'.request \in Requests,
         task'.request = "login" => task'.user \in Users
  PROVE  ClientTypes'
<1>1. \A t \in Begun : t \in Begun'
  BY DEF SessionsGo, Begun
<1>2. jar' \in [restored : Begun' \cup {0}, received : Begun' \cup {0}]
  BY <1>1
<1> QED  BY <1>1, <1>2 DEF SessionsGo, ClientTypes

\* What an answer and a failure leave of the cookies and the file.
LEMMA FilesAfter ==
  ASSUME ClientTypes
  PROVE  /\ Client!Answered(jar, FALSE) => UNCHANGED jar /\ sessionFile' = Client!Persisted(jar)
         /\ Client!Refused => UNCHANGED jar /\ sessionFile' = 0
         /\ Client!Fails => UNCHANGED <<jar, sessionFile>>
         /\ Client!Persisted(jar) \in Begun \cup {0} /\ Client!Sent(jar) \in Begun \cup {0}
BY DEF ClientTypes, Client!Answered, Client!Refused, Client!Fails, Client!Persisted, Client!Sent

\* A request ends on a screen, or with the one there was.
LEMMA ClientEnds ==
  ASSUME ClientInv, SessionsGo, UNCHANGED <<jar, signed>>,
         left \subseteq left', left' \subseteq Client!Token, sessionFile' \in Begun \cup {0},
         catalog' \in Truth, shared'.item \in Client!Views \cup {Nothing},
         task.request # "none",
         task.request = "confirm" => Client!Sent(jar) \in left' \/ Client!Sent(jar) \notin live,
         NEW screen \in {"login", "error", "disconnected", "unavailable", "view"},
         Shown(screen) \/ (UNCHANGED clientPage /\ task'.request = "none"),
         screen \in {"unavailable", "view"} => signed # Nothing,
         screen = "disconnected" => task.request = "version",
         screen = "login" => task.request = "auth views" /\ sessionFile' = Client!Persisted(jar)
  PROVE  ClientInv'
<1>0. ClientTypes /\ ClientFlow /\ ClientSessions
  BY Zenon DEF ClientInv
<1>1. /\ clientPage' \in ClientPages /\ clientPage'.route = clientPage.route
      /\ task'.request = "none" /\ clientPage'.screen \in {clientPage.screen, screen}
  BY <1>0, Zenon DEF Shown, ClientTypes
<1>2. clientPage.screen \notin {"login", "disconnected"}
  BY <1>0, Zenon DEF ClientFlow
<1>3. ClientTypes'
  <2>1. jar' \in [restored : Begun \cup {0}, received : Begun \cup {0}]
        /\ signed' \in Users \cup {Nothing} /\ task'.request \in Requests
        /\ (task'.request = "login" => task'.user \in Users)
    BY <1>0, <1>1, Zenon DEF ClientTypes, Requests
  <2> QED  BY <1>1, <2>1, TypesStay, Zenon
<1>4. ClientFlow'
  <2>1. clientPage'.screen = "disconnected" => clientPage'.route = "/"
    BY <1>0, <1>1, <1>2, Zenon DEF ClientFlow
  <2>2. clientPage'.screen = "login" => clientPage'.route = "/login"
    BY <1>0, <1>1, <1>2, Zenon DEF ClientFlow
  <2>3. clientPage'.route = "/login" => signed' = Nothing
    BY <1>0, <1>1, Zenon DEF ClientFlow
  <2>4. clientPage'.screen \in Client!InShell => signed' # Nothing \/ clientPage'.route = "/login"
    <3>1. CASE clientPage'.screen = screen
      BY <3>1, Zenon DEF Client!InShell
    <3>2. CASE clientPage'.screen = clientPage.screen
      BY <1>0, <1>1, <3>2, Zenon DEF ClientFlow, Client!InShell, ClientTypes, Requests
    <3> QED  BY <1>1, <3>1, <3>2, Zenon
  <2> QED  BY <1>1, <2>1, <2>2, <2>3, <2>4, Zenon DEF ClientFlow
<1>5. clientPage'.screen = "disconnected" => jar.received = 0
  BY <1>0, <1>1, <1>2, Zenon DEF ClientSessions
<1>6. clientPage'.screen = "login" => sessionFile' = Client!Persisted(jar)
  BY <1>1, <1>2, Zenon
<1>7. Client!Sent(jar) \notin live => Client!Sent(jar) \notin live'
  <2>1. Client!Sent(jar) \in Begun \cup {0}
    BY <1>0, FilesAfter, Zenon
  <2> QED  BY <2>1, NoneLives, Zenon DEF SessionsGo
<1>8. ClientSessions'
  BY <1>1, <1>5, <1>6, <1>7, SessionsStay, Zenon
<1> QED  BY <1>3, <1>4, <1>8, Zenon DEF ClientInv

\* A route is rendered.
LEMMA ClientRenders ==
  ASSUME ClientInv, SessionsGo, UNCHANGED jar,
         left \subseteq left', left' \subseteq Client!Token, sessionFile' \in Begun \cup {0},
         catalog' \in Truth, shared'.item \in Client!Views \cup {Nothing},
         signed' \in Users \cup {Nothing},
         \/ signed' = Nothing \/ signed' = owners[Client!Sent(jar)]
         \/ signed' = signed /\ task.request # "confirm",
         NEW route \in Routes, Rendered(route, signed'), route = "/login" => signed' = Nothing,
         clientPage.screen \notin {"login", "disconnected"},
         signed' = Nothing =>
           \/ clientPage.route = "/login" /\ task.request # "confirm"
           \/ Client!Sent(jar) \notin live' \/ Client!Sent(jar) \in left'
  PROVE  ClientInv'
<1>0. ClientTypes /\ ClientFlow /\ ClientSessions
  BY DEF ClientInv
<1>1. /\ clientPage' \in ClientPages
      /\ clientPage'.screen \in {clientPage.screen, "workspace"}
      /\ task'.request \in {"auth views", "modules", "document", "none"}
      /\ task'.request = "none" => clientPage'.screen = "workspace" /\ signed' # Nothing
      /\ task'.request \in {"modules", "document"} => signed' # Nothing
      /\ task'.request = "document" => clientPage'.route \in Client!Views
      /\ task'.request = "auth views" => clientPage'.route = "/login"
      /\ clientPage'.route = "/login" => signed' = Nothing
  BY Zenon DEF Rendered
<1>2. ClientTypes'
  <2>1. jar' \in [restored : Begun \cup {0}, received : Begun \cup {0}]
        /\ task'.request \in Requests /\ (task'.request = "login" => task'.user \in Users)
    BY <1>0, <1>1, Zenon DEF ClientTypes, Requests
  <2> QED  BY <1>1, <2>1, TypesStay, Zenon
<1>3. ClientFlow'
  BY <1>1, Zenon DEF ClientFlow
<1>4. ClientSessions'
  BY <1>1, SessionsStay, Zenon
<1> QED  BY <1>2, <1>3, <1>4 DEF ClientInv

\* A live session is somebody's.
LEMMA HereIs ==
  ASSUME ClientTypes, Client!Here
  PROVE  /\ Client!Sent(jar) \in live /\ Client!Sent(jar) # 0
         /\ owners[Client!Sent(jar)] \in Users /\ owners[Client!Sent(jar)] # Nothing
<1>1. Client!Sent(jar) \in live /\ live \subseteq Begun
  BY DEF Client!Here, ClientTypes
<1> DEFINE t == Client!Sent(jar)
<1> HIDE DEF t
<1>2. t \in live /\ t \in Client!Token /\ owners[t] # Nothing
  BY <1>1 DEF Begun, t
<1>3. t # 0 /\ owners[t] \in Users
  BY <1>2 DEF Client!Token, ClientTypes
<1> QED  BY <1>2, <1>3 DEF t

LEMMA ClientFails ==
  ASSUME ClientInv, NEW screen \in {"error", "disconnected", "unavailable"},
         Client!Fails, Client!Show(screen) \/ (UNCHANGED clientPage /\ task' = Client!Idle),
         SessionsGo, UNCHANGED <<signed, catalog, shared>>,
         left \subseteq left', left' \subseteq Client!Token, task.request # "none",
         task.request = "confirm" => Client!Sent(jar) \in left' \/ Client!Sent(jar) \notin live,
         screen = "unavailable" => signed # Nothing,
         screen = "disconnected" => task.request = "version"
  PROVE  ClientInv'
<1>1. ClientTypes
  BY DEF ClientInv
<1>3. UNCHANGED <<jar, sessionFile>>
  BY <1>1, FilesAfter
<1>4. Shown(screen) \/ (UNCHANGED clientPage /\ task'.request = "none")
  BY <1>1, ShowTo, RequestIs
<1>5. /\ sessionFile' \in Begun \cup {0} /\ catalog' \in Truth
      /\ shared'.item \in Client!Views \cup {Nothing}
  BY <1>1, <1>3 DEF ClientTypes
<1> QED  BY <1>3, <1>4, <1>5, ClientEnds, Zenon

\* The session is found to be no more.
LEMMA ClientExpelled ==
  ASSUME ClientInv, Client!Expelled, ~Client!Here, task.request \in {"modules", "document"},
         UNCHANGED <<owners, live, catalog, shared, left>>
  PROVE  ClientInv'
<1>1. ClientTypes /\ ClientFlow
  BY DEF ClientInv
<1>2. /\ UNCHANGED jar /\ sessionFile' = 0 /\ signed' = Nothing
      /\ Client!Render("/login", Nothing, catalog)
  BY <1>1, FilesAfter DEF Client!Expelled
<1>3. "/login" \in Routes /\ catalog \in Truth
  BY <1>1 DEF Routes, ClientTypes
<1>4. Rendered("/login", Nothing)
  BY <1>1, <1>2, <1>3, RenderTo
<1>5. clientPage.screen \notin {"login", "disconnected"}
  BY <1>1, Zenon DEF ClientFlow
<1>6. Client!Sent(jar) \notin live'
  BY DEF Client!Here
<1>7. /\ left' \subseteq Client!Token /\ catalog' \in Truth /\ SessionsGo
      /\ shared'.item \in Client!Views \cup {Nothing} /\ left \subseteq left'
  BY <1>1, SessionsEnd DEF ClientTypes
<1> QED  BY <1>2, <1>3, <1>4, <1>5, <1>6, <1>7, ClientRenders

LEMMA ClientStart ==
  ASSUME ClientInv, Client!Start
  PROVE  ClientInv'
<1>1. ClientTypes /\ ClientFlow /\ task.request = "session"
  BY DEF ClientInv, Client!Start, Client!Waiting
<1>2. /\ UNCHANGED <<owners, live, catalog, shared, left>>
      /\ SessionsGo /\ left \subseteq left' /\ left' \subseteq Client!Token
      /\ catalog' \in Truth /\ catalog \in Truth
      /\ shared'.item \in Client!Views \cup {Nothing}
  BY <1>1, SessionsEnd DEF Client!Start, ClientTypes
<1>3. CASE Client!FailsTo("error") /\ UNCHANGED signed
  BY <1>1, <1>2, <1>3, ClientFails DEF Client!FailsTo
<1>4. CASE /\ Client!Answered(jar, FALSE)
           /\ signed' = IF Client!Here THEN owners[Client!Sent(jar)] ELSE Nothing
           /\ Client!Render("/", signed', catalog)
  <2>1. UNCHANGED jar /\ sessionFile' \in Begun \cup {0}
    BY <1>1, <1>4, FilesAfter
  <2>2. "/" \in Routes /\ "/" # "/login"
    BY DEF Routes
  <2>3. Rendered("/", signed')
    BY <1>1, <1>2, <1>4, <2>2, RenderTo
  <2>4. clientPage.screen \notin {"login", "disconnected"}
    BY <1>1 DEF ClientFlow
  <2>5. CASE Client!Here
    <3>1. signed' = owners[Client!Sent(jar)] /\ signed' \in Users /\ signed' # Nothing
      BY <1>1, <1>4, <2>5, HereIs
    <3> QED  BY <1>2, <2>1, <2>2, <2>3, <2>4, <3>1, ClientRenders
  <2>6. CASE ~Client!Here
    <3>1. signed' = Nothing /\ Client!Sent(jar) \notin live'
      BY <1>2, <1>4, <2>6 DEF Client!Here
    <3> QED  BY <1>2, <2>1, <2>2, <2>3, <2>4, <3>1, ClientRenders
  <2> QED  BY <2>5, <2>6
<1> QED  BY <1>3, <1>4 DEF Client!Start

LEMMA ClientLogin ==
  ASSUME ClientInv, Client!LoadLogin
  PROVE  ClientInv'
<1>1. ClientTypes /\ ClientFlow /\ task.request = "auth views"
  BY Zenon DEF ClientInv, Client!LoadLogin, Client!Waiting
<1>2. /\ UNCHANGED <<owners, live, signed, catalog, shared, left>>
      /\ SessionsGo /\ left \subseteq left' /\ left' \subseteq Client!Token
      /\ catalog' \in Truth /\ shared'.item \in Client!Views \cup {Nothing}
  BY <1>1, SessionsEnd, Zenon DEF Client!LoadLogin, ClientTypes
<1>3. CASE Client!FailsTo("error")
  BY <1>1, <1>2, <1>3, ClientFails, Zenon DEF Client!FailsTo
<1>4. CASE Client!Answered(jar, FALSE) /\ Client!Show("login")
  <2>1. /\ UNCHANGED jar /\ sessionFile' = Client!Persisted(jar)
        /\ sessionFile' \in Begun \cup {0}
    BY <1>1, <1>4, FilesAfter, Zenon
  <2>2. Shown("login")
    BY <1>1, <1>4, ShowTo, Zenon
  <2> QED  BY <1>1, <1>2, <2>1, <2>2, ClientEnds, Zenon
<1> QED  BY <1>3, <1>4, Zenon DEF Client!LoadLogin

\* The rendering of the route there is, by a request or a click.
LEMMA ClientRefresh ==
  ASSUME ClientInv, UNCHANGED <<owners, live, left, signed, jar>>, sessionFile' \in Begun \cup {0},
         catalog' \in Truth, shared'.item \in Client!Views \cup {Nothing},
         NEW route \in Routes, route = "/login" => signed = Nothing,
         NEW loaded \in Truth, Client!Render(route, signed, loaded),
         task.request \in {"none", "modules", "command"},
         clientPage.screen \notin {"login", "disconnected"},
         signed = Nothing => clientPage.screen \in Client!InShell /\ task.request # "modules"
  PROVE  ClientInv'
<1>1. ClientTypes /\ ClientFlow
  BY DEF ClientInv
<1>2. Rendered(route, signed)
  BY <1>1, RenderTo
<1>3. signed = Nothing => clientPage.route = "/login" /\ task.request # "confirm"
  BY <1>1, Zenon DEF ClientFlow
<1>4. /\ left' \subseteq Client!Token /\ signed' \in Users \cup {Nothing} /\ left \subseteq left'
      /\ SessionsGo /\ Rendered(route, signed')
      /\ signed' = signed /\ task.request # "confirm"
  BY <1>1, <1>2, SessionsEnd DEF ClientTypes
<1> QED  BY <1>3, <1>4, ClientRenders

LEMMA ClientModules ==
  ASSUME ClientInv, Client!LoadModules
  PROVE  ClientInv'
<1>1. /\ ClientTypes /\ ClientFlow /\ task.request = "modules"
      /\ UNCHANGED <<owners, live, shared, left>>
  BY DEF ClientInv, Client!LoadModules, Client!Waiting
<1>2. /\ signed # Nothing /\ clientPage.screen \notin {"login", "disconnected"}
      /\ clientPage.route \in Routes /\ left' \subseteq Client!Token /\ left \subseteq left'
      /\ shared'.item \in Client!Views \cup {Nothing} /\ SessionsGo
  BY <1>1, SessionsEnd DEF ClientFlow, ClientTypes, ClientPages
<1>3. CASE /\ Client!Answered(jar, FALSE) /\ catalog' = TRUE
           /\ Client!Render(clientPage.route, signed, TRUE) /\ UNCHANGED signed
  <2>1. UNCHANGED jar /\ sessionFile' \in Begun \cup {0} /\ TRUE \in Truth
    BY <1>1, <1>3, FilesAfter, TruthIs
  <2>2. clientPage.route = "/login" => signed = Nothing
    BY <1>1 DEF ClientFlow
  <2>3. catalog' \in Truth
    BY <1>3, <2>1
  <2> QED  BY <1>1, <1>2, <1>3, <2>1, <2>2, <2>3, ClientRefresh
<1>4. CASE ~Client!Here /\ Client!Expelled /\ UNCHANGED catalog
  BY <1>1, <1>4, ClientExpelled
<1>5. CASE Client!FailsTo("unavailable") /\ UNCHANGED <<signed, catalog>>
  BY <1>1, <1>2, <1>5, ClientFails DEF Client!FailsTo
<1> QED  BY <1>3, <1>4, <1>5 DEF Client!LoadModules

LEMMA ClientView ==
  ASSUME ClientInv, Client!LoadView
  PROVE  ClientInv'
<1>1. /\ ClientTypes /\ ClientFlow /\ task.request = "document"
      /\ UNCHANGED <<owners, live, catalog, shared, left>>
  BY DEF ClientInv, Client!LoadView, Client!Waiting
<1>2. /\ signed # Nothing /\ clientPage.route \in Client!Views
      /\ left' \subseteq Client!Token /\ left \subseteq left'
      /\ shared'.item \in Client!Views \cup {Nothing} /\ SessionsGo /\ catalog' \in Truth
  BY <1>1, SessionsEnd DEF ClientFlow, ClientTypes
<1>3. CASE Client!Answered(jar, FALSE) /\ Client!Show("view") /\ UNCHANGED signed
  <2>1. UNCHANGED jar /\ sessionFile' \in Begun \cup {0}
    BY <1>1, <1>3, FilesAfter
  <2>2. Shown("view")
    BY <1>1, <1>2, <1>3, ShowTo
  <2> QED  BY <1>1, <1>2, <1>3, <2>1, <2>2, ClientEnds
<1>4. CASE ~Client!Here /\ Client!Expelled
  BY <1>1, <1>4, ClientExpelled
<1>5. CASE Client!FailsTo("unavailable") /\ UNCHANGED signed
  BY <1>1, <1>2, <1>5, ClientFails DEF Client!FailsTo
<1> QED  BY <1>3, <1>4, <1>5, Zenon DEF Client!LoadView

\* What is clicked in the shell.
LEMMA ClientShell ==
  ASSUME ClientInv, NEW route \in {"/"} \cup Client!Views, NEW form,
         Client!Navigate(route) \/ Client!Retry \/ Client!OpenForm(form)
  PROVE  ClientInv'
<1>1. /\ ClientTypes /\ ClientFlow /\ task.request = "none"
      /\ UNCHANGED <<owners, live, jar, sessionFile, signed, left>>
  BY RequestIs DEF ClientInv, Client!Navigate, Client!Retry, Client!OpenForm, Client!Unmoved
<1>2. /\ sessionFile' \in Begun \cup {0} /\ clientPage.route \in Routes /\ catalog \in Truth
      /\ clientPage.view \in Client!Views \cup {Nothing}
      /\ shared.item \in Client!Views \cup {Nothing}
      /\ clientPage.route = "/login" => signed = Nothing
  BY <1>1 DEF ClientTypes, ClientPages, ClientFlow
<1>3. CASE Client!Navigate(route)
  <2>1. /\ Client!Render(route, signed, catalog) /\ UNCHANGED <<catalog, shared>>
        /\ clientPage.screen \in Client!InShell
    BY <1>3 DEF Client!Navigate
  <2>2. clientPage.screen \notin {"login", "disconnected"} /\ route \in Routes /\ route # "/login"
    BY <2>1 DEF Client!InShell, Routes, Client!Views
  <2> QED  BY <1>1, <1>2, <2>1, <2>2, ClientRefresh
<1>4. CASE Client!Retry
  <2>1. /\ signed # Nothing /\ clientPage.screen \notin {"login", "disconnected"}
        /\ Client!Render(clientPage.route, signed, catalog') /\ UNCHANGED shared
        /\ catalog' = catalog \/ catalog' = FALSE
    BY <1>4 DEF Client!Retry
  <2>2. catalog' \in Truth
    BY <1>2, <2>1, TruthIs
  <2> QED  BY <1>1, <1>2, <2>1, <2>2, ClientRefresh
<1>5. CASE Client!OpenForm(form)
  <2>1. /\ clientPage.screen = "view" /\ UNCHANGED catalog
        /\ Client!Render(clientPage.route, signed, catalog)
        /\ \/ shared' = [form |-> "create", item |-> Nothing]
           \/ shared' = [form |-> "edit", item |-> clientPage.view]
           \/ UNCHANGED shared
    BY <1>5 DEF Client!OpenForm
  <2>2. shared'.item \in Client!Views \cup {Nothing}
    BY <1>2, <2>1
  <2>3. clientPage.screen \notin {"login", "disconnected"} /\ clientPage.screen \in Client!InShell
    BY <2>1 DEF Client!InShell
  <2> QED  BY <1>1, <1>2, <2>1, <2>2, <2>3, ClientRefresh
<1> QED  BY <1>3, <1>4, <1>5

LEMMA ClientCommand ==
  ASSUME ClientInv, Client!FinishCommand
  PROVE  ClientInv'
<1>1. /\ ClientTypes /\ ClientFlow /\ task.request = "command"
      /\ UNCHANGED <<owners, live, signed, catalog, shared, left>>
  BY DEF ClientInv, Client!FinishCommand, Client!Waiting
<1>2. /\ left' \subseteq Client!Token /\ left \subseteq left' /\ catalog' \in Truth
      /\ shared'.item \in Client!Views \cup {Nothing} /\ SessionsGo
  BY <1>1, SessionsEnd DEF ClientTypes
<1>3. CASE Client!Answered(jar, FALSE) /\ Client!Render(clientPage.route, signed, catalog)
  <2>1. UNCHANGED jar /\ sessionFile' \in Begun \cup {0}
    BY <1>1, <1>3, FilesAfter
  <2>2. /\ clientPage.route = "/login" => signed = Nothing
        /\ clientPage.screen \notin {"login", "disconnected"}
        /\ clientPage.route \in Routes /\ catalog \in Truth
    BY <1>1 DEF ClientFlow, ClientTypes, ClientPages
  <2>3. signed = Nothing => clientPage.screen \in Client!InShell
    BY <1>1 DEF ClientFlow
  <2> QED  BY <1>1, <1>2, <1>3, <2>1, <2>2, <2>3, ClientRefresh
<1>4. CASE Client!Refused /\ Client!Show("error")
  <2>1. UNCHANGED jar /\ sessionFile' \in Begun \cup {0}
    BY <1>1, <1>4, FilesAfter
  <2>2. Shown("error")
    BY <1>1, <1>4, ShowTo
  <2> QED  BY <1>1, <1>2, <1>4, <2>1, <2>2, ClientEnds
<1>5. CASE Client!FailsTo("error")
  BY <1>1, <1>2, <1>5, ClientFails DEF Client!FailsTo
<1> QED  BY <1>3, <1>4, <1>5 DEF Client!FinishCommand

\* The client is started again: it has the cookie of the file.
LEMMA ClientOpen ==
  ASSUME ClientInv, Client!Open
  PROVE  ClientInv'
<1>1. /\ jar' = [restored |-> sessionFile, received |-> 0] /\ signed' = Nothing
      /\ catalog' = FALSE /\ shared' = [form |-> "none", item |-> Nothing]
      /\ clientPage' = [route |-> "/", screen |-> "connecting", view |-> Nothing]
      /\ task' = Client!Request("version") /\ UNCHANGED <<owners, live, sessionFile>>
      /\ left' = left \cup ({Client!Sent(jar)} \ {0, sessionFile}) /\ ClientTypes
  BY DEF ClientInv, Client!Open
<1>2. task'.request = "version" /\ catalog' \in Truth /\ SessionsGo
  BY <1>1, RequestIs, TruthIs, SessionsEnd
<1>3. jar'.received = 0 /\ jar' \in [restored : Begun \cup {0}, received : Begun \cup {0}]
  BY <1>1 DEF ClientTypes
<1>4. left' \subseteq Client!Token
  <2>1. Client!Sent(jar) \in Begun \cup {0}
    BY <1>1, FilesAfter
  <2> QED  BY <1>1, <2>1 DEF ClientTypes, Begun
<1>5. /\ clientPage' \in ClientPages /\ clientPage'.route = "/"
      /\ clientPage'.screen = "connecting"
  BY <1>1 DEF ClientPages, Routes
<1>6. ClientTypes'
  BY <1>1, <1>2, <1>3, <1>4, <1>5, TypesStay, Zenon DEF ClientTypes, Requests
<1>7. ClientFlow'
  BY <1>2, <1>5 DEF ClientFlow, Client!InShell
<1>8. Client!NameIsOfSession'
  BY <1>1 DEF Client!NameIsOfSession
<1>9. ClientSessions'
  BY <1>2, <1>3, <1>5, <1>8 DEF ClientSessions
<1> QED  BY <1>6, <1>7, <1>9 DEF ClientInv

\* Another request is made, and what is on the screen stays or gives way to
\* the status.
LEMMA ClientAsks ==
  ASSUME ClientInv, UNCHANGED <<owners, live, jar, sessionFile, signed, catalog, shared, left>>,
         clientPage' \in ClientPages, clientPage'.route = clientPage.route,
         task'.request \in Requests, task'.request # "confirm", task.request # "confirm",
         task'.request = "login" => task'.user \in Users,
         clientPage'.screen \notin {"login", "disconnected"},
         task'.request \in {"version", "session"} => jar.received = 0,
         ClientFlow'
  PROVE  ClientInv'
<1>1. ClientTypes
  BY DEF ClientInv
<1>2. SessionsGo /\ left' \subseteq Client!Token
  BY <1>1, SessionsEnd DEF ClientTypes
<1>3. ClientTypes'
  BY <1>1, <1>2, TypesStay DEF ClientTypes
<1>4. ClientSessions'
  BY <1>2, SessionsStay
<1> QED  BY <1>3, <1>4 DEF ClientInv

LEMMA ClientCheck ==
  ASSUME ClientInv, Client!CheckCore \/ Client!RetryConnection
  PROVE  ClientInv'
<1>0. ClientTypes /\ ClientFlow /\ ClientSessions
  BY DEF ClientInv
<1>1. ASSUME Client!CheckCore, Client!Fails, Client!Show("disconnected") PROVE ClientInv'
  <2>1. task.request = "version" /\ UNCHANGED <<owners, live, signed, catalog, shared, left>>
    BY <1>1 DEF Client!CheckCore, Client!Waiting
  <2>2. SessionsGo /\ left \subseteq left' /\ left' \subseteq Client!Token
    BY <1>0, <2>1, SessionsEnd DEF ClientTypes
  <2> QED  BY <1>1, <2>1, <2>2, ClientFails
<1>2. ASSUME Client!CheckCore, Client!Answered(jar, FALSE), UNCHANGED clientPage,
             task' = Client!Request("session")
      PROVE  ClientInv'
  <2>1. /\ task.request = "version" /\ UNCHANGED <<owners, live, signed, catalog, shared, left>>
        /\ task'.request = "session"
    BY <1>2, RequestIs DEF Client!CheckCore, Client!Waiting
  <2>2. /\ UNCHANGED jar /\ sessionFile' = Client!Persisted(jar) /\ sessionFile' \in Begun \cup {0}
    BY <1>0, <1>2, FilesAfter
  <2>3. /\ SessionsGo /\ left \subseteq left' /\ left' \subseteq Client!Token
        /\ jar' \in [restored : Begun \cup {0}, received : Begun \cup {0}]
        /\ signed' \in Users \cup {Nothing} /\ catalog' \in Truth /\ clientPage' \in ClientPages
        /\ shared'.item \in Client!Views \cup {Nothing}
    BY <1>0, <1>2, <2>1, <2>2, SessionsEnd DEF ClientTypes
  <2>4. task'.request \in Requests /\ (task'.request = "login" => task'.user \in Users)
    BY <2>1 DEF Requests
  <2>5. ClientTypes'
    BY <2>2, <2>3, <2>4, TypesStay
  <2>6. ClientFlow'
    BY <1>0, <1>2, <2>1, Zenon DEF ClientFlow
  <2>7. ClientSessions'
    <3>1. jar.received = 0 /\ clientPage'.screen = "connecting" /\ clientPage'.route = "/"
      BY <1>0, <1>2, <2>1 DEF ClientSessions, ClientFlow
    <3> QED  BY <2>1, <2>2, <2>3, <3>1, SessionsStay
  <2> QED  BY <2>5, <2>6, <2>7 DEF ClientInv
<1>3. ASSUME Client!RetryConnection PROVE ClientInv'
  <2>1. /\ task.request = "none" /\ clientPage.screen = "disconnected"
        /\ clientPage' = [clientPage EXCEPT !.screen = "connecting"] /\ task'.request = "version"
        /\ UNCHANGED <<owners, live, jar, sessionFile, signed, catalog, shared, left>>
    BY <1>3, RequestIs DEF Client!RetryConnection
  <2>2. /\ clientPage' \in ClientPages /\ clientPage'.screen = "connecting"
        /\ clientPage'.route = clientPage.route
    BY <1>0, <2>1 DEF ClientTypes, ClientPages
  <2>3. clientPage.route = "/" /\ jar.received = 0
    BY <1>0, <2>1 DEF ClientFlow, ClientSessions
  <2>4. ClientFlow'
    BY <2>1, <2>2, <2>3 DEF ClientFlow
  <2> QED  BY <2>1, <2>2, <2>3, <2>4, ClientAsks DEF Requests
<1> QED  BY <1>1, <1>2, <1>3, Zenon DEF Client!CheckCore

LEMMA ClientClicks ==
  ASSUME ClientInv, NEW user, NEW right, NEW connected,
         \/ user \in Users /\ Client!SubmitCredentials(user, right)
         \/ Client!RunCommand(connected) \/ Client!AskLogout
  PROVE  ClientInv'
<1>0. ClientTypes /\ ClientFlow /\ ClientSessions
  BY DEF ClientInv
<1>1. CASE user \in Users /\ Client!SubmitCredentials(user, right)
  <2>1. /\ task.request = "none" /\ UNCHANGED <<catalog, shared>>
        /\ task'.request = "login" /\ task'.user = user
        /\ clientPage' = [clientPage EXCEPT !.screen = "status", !.view = Nothing]
        /\ UNCHANGED <<owners, live, jar, sessionFile, signed, left>>
    BY <1>1, RequestIs DEF Client!SubmitCredentials, Client!Unmoved
  <2>2. /\ clientPage' \in ClientPages /\ clientPage'.screen = "status"
        /\ clientPage'.route = clientPage.route
    BY <1>0, <2>1 DEF ClientTypes, ClientPages
  <2>3. ClientFlow'
    BY <1>0, <2>1, <2>2 DEF ClientFlow, Client!InShell
  <2>4. task'.request = "login" => task'.user \in Users
    BY <1>1, <2>1
  <2> QED  BY <2>4, <2>1, <2>2, <2>3, ClientAsks DEF Requests
<1>2. CASE Client!RunCommand(connected)
  <2>1. /\ task.request = "none" /\ UNCHANGED <<catalog, shared>> /\ clientPage.screen = "view"
        /\ UNCHANGED <<owners, live, jar, sessionFile, signed, left>>
    BY <1>2, RequestIs DEF Client!RunCommand, Client!Unmoved
  <2>2. \/ task'.request = "command" /\ UNCHANGED clientPage
        \/ Client!Show("error")
    BY <1>2, RequestIs DEF Client!RunCommand
  <2>3. CASE task'.request = "command" /\ UNCHANGED clientPage
    <3>1. ClientFlow'
      BY <1>0, <2>1, <2>3 DEF ClientFlow, Client!InShell
    <3>2. clientPage' \in ClientPages
      BY <1>0, <2>3 DEF ClientTypes
    <3> QED  BY <2>1, <2>3, <3>1, <3>2, ClientAsks DEF Requests
  <2>4. CASE Client!Show("error")
    <3>1. Shown("error")
      BY <1>0, <2>4, ShowTo
    <3>2. ClientFlow'
      BY <1>0, <2>1, <3>1 DEF ClientFlow, Client!InShell, Shown
    <3> QED  BY <2>1, <3>1, <3>2, ClientAsks DEF Requests, Shown
  <2> QED  BY <2>2, <2>3, <2>4
<1>3. CASE Client!AskLogout
  <2>1. /\ task.request = "none" /\ UNCHANGED <<catalog, shared, clientPage>>
        /\ clientPage.screen \in Client!InShell /\ task'.request = "logout"
        /\ UNCHANGED <<owners, live, jar, sessionFile, signed, left>>
    BY <1>3, RequestIs DEF Client!AskLogout, Client!Unmoved
  <2>2. ClientFlow'
    BY <1>0, <2>1 DEF ClientFlow, Client!InShell
  <2>3. clientPage' \in ClientPages /\ clientPage.screen \notin {"login", "disconnected"}
    BY <1>0, <2>1 DEF ClientTypes, Client!InShell
  <2> QED  BY <2>1, <2>2, <2>3, ClientAsks DEF Requests
<1> QED  BY <1>1, <1>2, <1>3

\* A session ends, or nothing happens.
LEMMA ClientQuiet ==
  ASSUME ClientInv, UNCHANGED <<owners, jar, sessionFile, signed, clientPage, catalog, shared, task, left>>,
         live' \subseteq live
  PROVE  ClientInv'
<1>0. ClientTypes /\ ClientFlow /\ ClientSessions
  BY DEF ClientInv
<1>1. SessionsGo
  BY <1>0, SessionsEnd
<1>2. ClientTypes'
  BY <1>0, <1>1, TypesStay DEF ClientTypes
<1>3. ClientFlow'
  BY <1>0, Zenon DEF ClientFlow
<1>4. ClientSessions'
  <2>1. clientPage.screen = "login" => sessionFile = Client!Persisted(jar)
    BY <1>0 DEF ClientSessions
  <2>2. task.request \in {"version", "session"} \/ clientPage.screen = "disconnected" => jar.received = 0
    BY <1>0 DEF ClientSessions
  <2> QED  BY <1>1, <2>1, <2>2, SessionsStay
<1> QED  BY <1>2, <1>3, <1>4 DEF ClientInv

\* Core opens a session that the client has not had.
LEMMA SessionBegins ==
  ASSUME ClientTypes, NEW user \in Users, Client!Opens(user)
  PROVE  /\ SessionsGo /\ Client!NextToken \in Begun' /\ Client!NextToken \in Client!Token
         /\ Begun \subseteq Begun'
<1> DEFINE free == {t \in Client!Token : owners[t] = Nothing}
           new  == Client!NextToken
<1>1. free # {} /\ free \in SUBSET Nat /\ Client!Token \subseteq Nat
  BY DEF Client!Opens, Client!Token
<1>2. PICK m \in free : \A k \in free : m <= k
  BY <1>1, Least
<1>3. m \in Client!Token /\ owners[m] = Nothing /\ \A s \in 1 .. m - 1 : owners[s] # Nothing
  <2>1. m \in 1 .. MaxToken /\ MaxToken \in Nat
    BY BoundsAssumption DEF Client!Token
  <2>2. ASSUME NEW s \in 1 .. m - 1 PROVE s \notin free /\ s \in Client!Token
    BY <1>1, <1>2, <2>1 DEF Client!Token
  <2> QED  BY <2>2
<1>4. new \in Client!Token /\ owners[new] = Nothing
  BY <1>3 DEF Client!NextToken
<1>5. owners' = [owners EXCEPT ![new] = user] /\ live' = live \cup {new}
  BY DEF Client!Opens
<1> HIDE DEF new
<1>6. user # Nothing
  BY NothingAssumption, Zenon
<1>7. /\ owners' \in [Client!Token -> Users \cup {Nothing}] /\ owners'[new] = user
      /\ \A t \in Client!Token \ {new} : owners'[t] = owners[t]
  BY <1>4, <1>5 DEF ClientTypes
<1>8. /\ \A t \in Begun : owners'[t] = owners[t]
      /\ Begun \subseteq Begun' /\ new \in Begun' /\ new \notin Begun
  BY <1>4, <1>6, <1>7 DEF Begun
<1>9. SessionsGo
  BY <1>5, <1>7, <1>8 DEF SessionsGo, ClientTypes
<1> QED  BY <1>4, <1>8, <1>9 DEF new

LEMMA ClientLogsIn ==
  ASSUME ClientInv, Client!Login
  PROVE  ClientInv'
<1>0. /\ ClientTypes /\ ClientFlow /\ ClientSessions /\ task.request = "login"
      /\ task.user \in Users /\ UNCHANGED <<signed, catalog, shared>>
      /\ clientPage.screen = "status" /\ clientPage \in ClientPages
  BY DEF ClientInv, ClientTypes, ClientFlow, Client!Login, Client!Waiting
<1>1. CASE ~task.right /\ Client!Refused /\ Client!Show("error") /\ UNCHANGED <<owners, live, left>>
  <2>1. UNCHANGED jar /\ sessionFile' \in Begun \cup {0}
    BY <1>0, <1>1, FilesAfter
  <2>2. Shown("error")
    BY <1>0, <1>1, ShowTo
  <2>3. /\ SessionsGo /\ left' \subseteq Client!Token /\ left \subseteq left' /\ catalog' \in Truth
        /\ shared'.item \in Client!Views \cup {Nothing}
    BY <1>0, <1>1, SessionsEnd DEF ClientTypes
  <2> QED  BY <1>0, <2>1, <2>2, <2>3, ClientEnds
<1>2. CASE /\ Client!FailsTo("error") /\ UNCHANGED left
           /\ Client!Opens(task.user) \/ UNCHANGED <<owners, live>>
  <2>1. SessionsGo
    BY <1>0, <1>2, SessionsEnd, SessionBegins
  <2>2. left' \subseteq Client!Token /\ left \subseteq left'
    BY <1>0, <1>2 DEF ClientTypes
  <2> QED  BY <1>0, <1>2, <2>1, <2>2, ClientFails DEF Client!FailsTo
<1>3. CASE /\ Client!Opens(task.user)
           /\ Client!Answered([jar EXCEPT !.received = Client!NextToken], FALSE)
           /\ left' = left \cup ({jar.restored, jar.received} \ {0})
           /\ task' = Client!Request("confirm") /\ UNCHANGED clientPage
  <2> DEFINE new == Client!NextToken
  <2>1. SessionsGo /\ new \in Begun' /\ new # 0 /\ Begun \subseteq Begun'
    BY <1>0, <1>3, SessionBegins DEF Client!Token
  <2>2. jar' = [jar EXCEPT !.received = new] /\ sessionFile' = Client!Persisted(jar')
    BY <1>3 DEF Client!Answered
  <2> HIDE DEF new
  <2>3. jar \in [restored : Begun \cup {0}, received : Begun \cup {0}]
    BY <1>0 DEF ClientTypes
  <2>4. /\ jar' \in [restored : Begun' \cup {0}, received : Begun' \cup {0}]
        /\ jar'.received = new /\ jar'.restored = jar.restored
    BY <2>1, <2>2, <2>3
  <2>5. sessionFile' \in Begun' \cup {0}
    BY <2>2, <2>4 DEF Client!Persisted
  <2>6. left' \subseteq Client!Token
    BY <1>0, <1>3, <2>3 DEF ClientTypes, Begun
  <2>7. task'.request = "confirm"
    BY <1>3, RequestIs
  <2>8. ClientTypes'
    BY <1>0, <1>3, <2>1, <2>4, <2>5, <2>6, <2>7, Zenon DEF ClientTypes, SessionsGo, Requests
  <2>9. ClientFlow'
    BY <1>0, <1>3, <2>7, Zenon DEF ClientFlow, Client!InShell
  <2>10. ClientSessions'
    <3>1. Client!NameIsOfSession'
      BY <2>7 DEF Client!NameIsOfSession
    <3>2. jar'.restored \in left' \cup {0}
      BY <1>3, <2>4
    <3> QED  BY <1>0, <1>3, <2>1, <2>4, <2>7, <3>1, <3>2 DEF ClientSessions
  <2> QED  BY <2>8, <2>9, <2>10 DEF ClientInv
<1> QED  BY <1>1, <1>2, <1>3 DEF Client!Login

LEMMA ClientConfirms ==
  ASSUME ClientInv, Client!ConfirmLogin
  PROVE  ClientInv'
<1>0. /\ ClientTypes /\ ClientFlow /\ ClientSessions /\ task.request = "confirm"
      /\ UNCHANGED <<owners, live, catalog, shared>>
  BY DEF ClientInv, Client!ConfirmLogin, Client!Waiting
<1>1. /\ SessionsGo /\ catalog' \in Truth /\ shared'.item \in Client!Views \cup {Nothing}
      /\ left \subseteq Client!Token
  BY <1>0, SessionsEnd DEF ClientTypes
<1>2. CASE Client!FailsTo("error") /\ left' = left \cup {Client!Sent(jar)} /\ UNCHANGED signed
  <2>1. Client!Sent(jar) \in Client!Token
    <3>1. jar.received # 0 /\ jar.received \in Begun \cup {0}
      BY <1>0 DEF ClientSessions, ClientTypes
    <3> QED  BY <3>1 DEF Client!Sent, Begun
  <2>2. left \subseteq left' /\ left' \subseteq Client!Token /\ Client!Sent(jar) \in left'
    BY <1>1, <1>2, <2>1
  <2> QED  BY <1>0, <1>1, <1>2, <2>2, ClientFails DEF Client!FailsTo
<1>3. CASE /\ Client!Answered(jar, FALSE) /\ UNCHANGED left /\ Client!Here
           /\ signed' = Client!SignedAs(Client!Sent(jar)) /\ Client!Render("/", signed', catalog)
  <2>1. UNCHANGED jar /\ sessionFile' \in Begun \cup {0}
    BY <1>0, <1>3, FilesAfter
  <2>2. /\ signed' = owners[Client!Sent(jar)] /\ signed' \in Users \cup {Nothing}
        /\ signed' # Nothing
    BY <1>0, <1>3, HereIs DEF Client!SignedAs
  <2>3. "/" \in Routes /\ catalog \in Truth
    BY <1>0 DEF Routes, ClientTypes
  <2>4. Rendered("/", signed')
    BY <1>0, <1>3, <2>3, RenderTo
  <2>5. clientPage.screen \notin {"login", "disconnected"}
    BY <1>0 DEF ClientFlow
  <2>6. left' \subseteq Client!Token /\ left \subseteq left'
    BY <1>1, <1>3
  <2> QED  BY <1>1, <2>1, <2>2, <2>3, <2>4, <2>5, <2>6, ClientRenders
<1>4. CASE /\ Client!Answered(jar, FALSE) /\ UNCHANGED left /\ ~Client!Here
           /\ Client!Show("error") /\ UNCHANGED signed
  <2>1. UNCHANGED jar /\ sessionFile' \in Begun \cup {0}
    BY <1>0, <1>4, FilesAfter
  <2>2. Shown("error")
    BY <1>0, <1>4, ShowTo
  <2>3. left' \subseteq Client!Token /\ left \subseteq left' /\ Client!Sent(jar) \notin live
    BY <1>1, <1>4 DEF Client!Here
  <2> QED  BY <1>0, <1>1, <1>4, <2>1, <2>2, <2>3, ClientEnds
<1> QED  BY <1>2, <1>3, <1>4 DEF Client!ConfirmLogin

LEMMA ClientLogsOut ==
  ASSUME ClientInv, Client!Logout
  PROVE  ClientInv'
<1>0. /\ ClientTypes /\ ClientFlow /\ ClientSessions /\ task.request = "logout"
      /\ UNCHANGED <<owners, catalog, shared>>
  BY DEF ClientInv, Client!Logout, Client!Waiting
<1>1. /\ "/login" \in Routes /\ catalog \in Truth /\ catalog' \in Truth
      /\ clientPage.screen \notin {"login", "disconnected"}
      /\ shared'.item \in Client!Views \cup {Nothing} /\ left \subseteq Client!Token
      /\ Client!Sent(jar) \in Begun \cup {0} /\ 0 \notin live
  <2>1. Client!Sent(jar) \in Begun \cup {0}
    BY <1>0, FilesAfter
  <2>2. 0 \notin live
    BY <1>0 DEF ClientTypes, Begun, Client!Token
  <2> QED  BY <1>0, <2>1, <2>2 DEF ClientTypes, ClientFlow, Routes
<1>2. CASE /\ Client!Answered([jar EXCEPT !.received = 0], TRUE)
           /\ live' = live \ {Client!Sent(jar)} /\ UNCHANGED left
           /\ signed' = Nothing /\ Client!Render("/login", Nothing, catalog)
  <2>1. Rendered("/login", Nothing)
    BY <1>0, <1>1, <1>2, RenderTo
  <2>2. jar' = [jar EXCEPT !.received = 0] /\ sessionFile' = 0
    BY <1>2 DEF Client!Answered
  <2>3. /\ jar' \in [restored : Begun \cup {0}, received : Begun \cup {0}]
        /\ jar'.received = 0 /\ jar'.restored = jar.restored
    BY <1>0, <2>2 DEF ClientTypes
  <2>4. SessionsGo
    BY <1>0, <1>2, SessionsEnd
  <2>5. /\ clientPage' \in ClientPages /\ clientPage'.route = "/login"
        /\ clientPage'.screen = clientPage.screen /\ task'.request = "auth views"
    BY <2>1, Zenon DEF Rendered
  <2>6. ClientTypes'
    BY <1>1, <1>2, <2>2, <2>3, <2>4, <2>5, TypesStay, Zenon DEF Requests
  <2>7. ClientFlow'
    BY <1>1, <1>2, <2>5, Zenon DEF ClientFlow
  <2>8. {jar'.restored, jar'.received} \cap live' \subseteq left'
    BY <1>0, <1>1, <1>2, <2>3 DEF ClientSessions, Client!Sent
  <2>9. Client!NameIsOfSession'
    BY <1>2 DEF Client!NameIsOfSession
  <2>10. ClientSessions'
    BY <1>1, <2>3, <2>5, <2>8, <2>9, Zenon DEF ClientSessions
  <2> QED  BY <2>6, <2>7, <2>10 DEF ClientInv
<1>3. CASE /\ Client!Fails /\ left' = left \cup ({Client!Sent(jar)} \ {0})
           /\ live' \in {live, live \ {Client!Sent(jar)}}
           /\ \/ signed' = Nothing /\ Client!Render("/login", Nothing, catalog)
              \/ UNCHANGED <<signed, clientPage>> /\ task' = Client!Idle
  <2>1. /\ UNCHANGED <<jar, sessionFile>> /\ sessionFile' \in Begun \cup {0}
    BY <1>0, <1>3, FilesAfter DEF ClientTypes
  <2>2. /\ left' \subseteq Client!Token /\ left \subseteq left'
        /\ Client!Sent(jar) \in left' \/ Client!Sent(jar) \notin live'
    <3> DEFINE t == Client!Sent(jar)
    <3>1. left' = left \cup ({t} \ {0}) /\ live' \subseteq live /\ t \in Begun \cup {0} /\ 0 \notin live
      BY <1>1, <1>3
    <3> HIDE DEF t
    <3>2. left' \subseteq Client!Token /\ left \subseteq left' /\ (t \in left' \/ t \notin live')
      BY <1>1, <3>1 DEF Begun
    <3> QED  BY <3>2 DEF t
  <2>3. SessionsGo
    BY <1>0, <1>3, SessionsEnd
  <2>4. CASE signed' = Nothing /\ Client!Render("/login", Nothing, catalog)
    <3>1. Rendered("/login", signed')
      BY <1>0, <1>1, <2>4, RenderTo
    <3> QED  BY <1>1, <2>1, <2>2, <2>3, <2>4, <3>1, ClientRenders
  <2>5. CASE UNCHANGED <<signed, clientPage>> /\ task' = Client!Idle
    <3>1. UNCHANGED clientPage /\ task'.request = "none" /\ UNCHANGED signed
      BY <2>5, RequestIs
    <3> QED  BY <1>0, <1>1, <2>1, <2>2, <2>3, <3>1, ClientEnds
  <2> QED  BY <1>3, <2>4, <2>5
<1> QED  BY <1>2, <1>3 DEF Client!Logout

LEMMA ClientStep ==
  ASSUME ClientInv, [Client!Next]_clientState
  PROVE  ClientInv'
<1>1. CASE UNCHANGED clientState
  BY <1>1, ClientQuiet DEF clientState
<1>2. ASSUME NEW t \in Client!Token, Client!EndSession(t) PROVE ClientInv'
  BY <1>2, ClientQuiet DEF Client!EndSession
<1>3. ASSUME \E route \in {"/"} \cup Client!Views : Client!Navigate(route) PROVE ClientInv'
  BY <1>3, ClientShell
<1>4. ASSUME \/ Client!Retry
             \/ \E form \in {"create", "edit"} : Client!OpenForm(form)
      PROVE  ClientInv'
  <2>1. "/" \in {"/"} \cup Client!Views
    OBVIOUS
  <2> QED  BY <1>4, <2>1, ClientShell
<1>5. ASSUME \/ \E user \in Users, right \in BOOLEAN : Client!SubmitCredentials(user, right)
             \/ \E connected \in BOOLEAN : Client!RunCommand(connected)
             \/ Client!AskLogout
      PROVE  ClientInv'
  BY <1>5, ClientClicks
<1> QED
  BY <1>1, <1>2, <1>3, <1>4, <1>5, ClientOpen, ClientCheck, ClientStart, ClientLogin,
     ClientModules, ClientView, ClientCommand, ClientLogsIn, ClientConfirms, ClientLogsOut
     DEF Client!Next

LEMMA ClientScreens ==
  ClientInv => /\ Client!NameIsOfSession /\ Client!ScreensAreReachable /\ Client!LogoutForgets
               /\ Client!TypeOK
<1> SUFFICES ASSUME ClientInv
             PROVE  /\ Client!NameIsOfSession /\ Client!ScreensAreReachable
                    /\ Client!LogoutForgets /\ Client!TypeOK
  OBVIOUS
<1>0. ClientTypes /\ ClientFlow /\ ClientSessions
  BY DEF ClientInv
<1>1. Client!ScreensAreReachable
  BY <1>0, RequestIs, Zenon DEF ClientFlow, Client!ScreensAreReachable
<1>2. Client!LogoutForgets
  <2> SUFFICES ASSUME task.request = "none", clientPage.screen = "login"
               PROVE  {jar.restored, jar.received, sessionFile} \cap live \subseteq left
    BY RequestIs DEF Client!LogoutForgets
  <2>1. sessionFile \in {jar.restored, jar.received} /\ clientPage.route = "/login"
    BY <1>0 DEF ClientFlow, ClientSessions, Client!Persisted
  <2> QED  BY <1>0, <2>1 DEF ClientSessions
<1>3. Client!TypeOK
  <2>1. MaxToken \in Nat /\ Begun \cup {0} \subseteq 0 .. MaxToken /\ Begun \subseteq Client!Token
    <3>1. MaxToken \in Nat
      BY BoundsAssumption
    <3> QED  BY <3>1 DEF Begun, Client!Token
  <2>2. jar \in [restored : 0 .. MaxToken, received : 0 .. MaxToken]
    BY <1>0, <2>1 DEF ClientTypes
  <2> QED  BY <1>0, <2>1, <2>2 DEF ClientTypes, ClientPages, Routes, Client!TypeOK
<1> QED  BY <1>0, <1>1, <1>2, <1>3 DEF ClientSessions

-----------------------------------------------------------------------------
(* StreamlitPage: what the questions of a page are about while a run of its *)
(* script goes on                                                           *)

Targets == [view : Browser!Views, id : Browser!Id]

PageTypes ==
  /\ pageItems \in [Browser!Views -> [ids : SUBSET Browser!Id, last : 0 .. MaxItem]]
  /\ \A v \in Browser!Views : pageItems[v].ids \subseteq 1 .. pageItems[v].last
  /\ selected \in Browser!Views /\ shown \subseteq Browser!Id
  /\ open \in [Browser!Views -> [form : Truth, draft : Truth]]
  /\ run.at \in {"rest", "load", "render", "send", "answer"} /\ run.listed \subseteq Browser!Id
  /\ DOMAIN run = {"at", "click", "listed", "id", "done"}

\* The portable page has its own keys, and asks about no disabling.
PageTargets ==
  /\ pageTarget \in [Browser!Pages -> [Browser!AllKinds -> Targets \cup {Nothing}]]
  /\ pageTarget["portable"]["disable"] = Nothing
  /\ \A k \in Browser!AllKinds :
       pageTarget["portable"][k] # Nothing => pageTarget["portable"][k].view = "portable"

\* From when a run has loaded the items its questions are about those.
PageAsks(listed) ==
  \A k \in Browser!AllKinds :
    \/ Browser!Mine(k) = Nothing
    \/ Browser!Here = "portable" /\ k = "edit"
    \/ Browser!Mine(k).view = selected /\ Browser!Mine(k).id \in listed

BrowserInv ==
  /\ PageTypes /\ PageTargets
  /\ run.at = "rest" => PageAsks(shown)
  /\ run.at \in {"render", "send", "answer"} => PageAsks(run.listed)
  /\ Browser!CommandsAreOfListed

LEMMA HereIsPage ==
  ASSUME PageTypes
  PROVE  /\ Browser!Here \in Browser!Pages /\ Browser!Here \in {"portable", "schema"}
         /\ Browser!Here = "portable" <=> selected = "portable"
BY DEF PageTypes, Browser!Here, Browser!Page, Browser!Pages

LEMMA TopIs ==
  ASSUME NEW click
  PROVE  LET top == Browser!Top(click)
         IN  /\ top.at = "load" /\ top.listed = {} /\ top.click = click
             /\ DOMAIN top = {"at", "click", "listed", "id", "done"}
<1> DEFINE none == Browser!NoClick  no == FALSE
           rest == [at |-> "rest", click |-> none, listed |-> {}, id |-> 0, done |-> no]
           top == [rest EXCEPT !.at = "load", !.click = click]
<1>1. Browser!Top(click) = top
  BY DEF Browser!Top, Browser!Resting
<1> HIDE DEF none, no
<1>2. DOMAIN rest = {"at", "click", "listed", "id", "done"} /\ rest.listed = {}
  OBVIOUS
<1> HIDE DEF rest
<1> QED  BY <1>1, <1>2

LEMMA BrowserInit == Browser!Init => BrowserInv
<1> SUFFICES ASSUME Browser!Init PROVE BrowserInv
  OBVIOUS
<1>1. /\ pageItems = [v \in Browser!Views |-> [ids |-> {1}, last |-> 1]]
      /\ selected \in Browser!Views /\ shown = {}
      /\ pageTarget = [p \in Browser!Pages |-> [k \in Browser!AllKinds |-> Nothing]]
      /\ open = [v \in Browser!Views |-> [form |-> FALSE, draft |-> FALSE]]
      /\ run = Browser!Top(Browser!NoClick)
  BY DEF Browser!Init
<1>2. MaxItem \in Nat \ {0}
  BY BoundsAssumption
<1>3. pageItems \in [Browser!Views -> [ids : SUBSET Browser!Id, last : 0 .. MaxItem]]
  BY <1>1, <1>2 DEF Browser!Id
<1>4. \A v \in Browser!Views : pageItems[v].ids \subseteq 1 .. pageItems[v].last
  BY <1>1
<1>5. open \in [Browser!Views -> [form : Truth, draft : Truth]]
  <2>1. FALSE \in Truth
    BY TruthIs
  <2> DEFINE closed == [form |-> FALSE, draft |-> FALSE]
  <2>2. closed \in [form : Truth, draft : Truth]
    BY <2>1
  <2> HIDE DEF closed
  <2> QED  BY <1>1, <2>2 DEF closed
<1>6. /\ run.at = "load" /\ run.listed = {}
      /\ DOMAIN run = {"at", "click", "listed", "id", "done"}
  BY <1>1, TopIs
<1>7. PageTypes
  BY <1>1, <1>3, <1>4, <1>5, <1>6 DEF PageTypes
<1>8. PageTargets
  BY <1>1 DEF PageTargets, Browser!Pages, Browser!AllKinds
<1> QED  BY <1>6, <1>7, <1>8 DEF BrowserInv, Browser!CommandsAreOfListed

\* A target is set or dropped.
LEMMA TargetPut ==
  ASSUME PageTargets, PageTypes, NEW asked \in Browser!AllKinds, NEW t,
         pageTarget' = [pageTarget EXCEPT ![Browser!Here][asked] = t],
         \/ t = Nothing
         \/ t \in Targets /\ t.view = selected /\ asked \in Browser!Kinds(Browser!Here)
  PROVE  /\ PageTargets' /\ pageTarget'[Browser!Here][asked] = t
         /\ \A k \in Browser!AllKinds \ {asked} :
              pageTarget'[Browser!Here][k] = pageTarget[Browser!Here][k]
<1> DEFINE here == Browser!Here
<1>1. /\ here \in Browser!Pages /\ here \in {"portable", "schema"}
      /\ here = "portable" => selected = "portable"
  BY HereIsPage
<1>2. here = "portable" => asked # "disable" \/ t = Nothing
  BY DEF Browser!Kinds
<1>3. pageTarget \in [Browser!Pages -> [Browser!AllKinds -> Targets \cup {Nothing}]]
  BY DEF PageTargets
<1>4. pageTarget' = [pageTarget EXCEPT ![here][asked] = t]
  OBVIOUS
<1> HIDE DEF here
<1> DEFINE row == [pageTarget[here] EXCEPT ![asked] = t]
<1>5. /\ row \in [Browser!AllKinds -> Targets \cup {Nothing}] /\ row[asked] = t
      /\ \A k \in Browser!AllKinds \ {asked} : row[k] = pageTarget[here][k]
  BY <1>1, <1>3
<1>6. pageTarget' = [pageTarget EXCEPT ![here] = row]
  BY <1>1, <1>3, <1>4
<1> HIDE DEF row
<1>7. /\ pageTarget' \in [Browser!Pages -> [Browser!AllKinds -> Targets \cup {Nothing}]]
      /\ pageTarget'[here] = row
      /\ \A p \in Browser!Pages \ {here} : pageTarget'[p] = pageTarget[p]
  BY <1>1, <1>3, <1>5, <1>6
<1>8. "portable" \in Browser!Pages /\ "disable" \in Browser!AllKinds
  BY DEF Browser!Pages, Browser!AllKinds
<1>9. pageTarget'["portable"]["disable"] = Nothing
  BY <1>2, <1>5, <1>7, <1>8 DEF PageTargets
<1>10. ASSUME NEW k \in Browser!AllKinds, pageTarget'["portable"][k] # Nothing
       PROVE  pageTarget'["portable"][k].view = "portable"
  <2>1. CASE here = "portable" /\ k = asked
    BY <1>1, <1>5, <1>7, <1>10, <2>1
  <2>2. CASE ~(here = "portable" /\ k = asked)
    <3>1. pageTarget'["portable"][k] = pageTarget["portable"][k]
      BY <1>5, <1>7, <1>8, <2>2
    <3> QED  BY <1>10, <3>1 DEF PageTargets
  <2> QED  BY <2>1, <2>2
<1>11. PageTargets'
  BY <1>7, <1>9, <1>10 DEF PageTargets
<1> QED  BY <1>5, <1>7, <1>11 DEF here

\* What a step of a run does to it.
RunGoes ==
  \/ Browser!Rests(run.listed) \/ Browser!Reruns
  \/ \E id : /\ Browser!Sends(id)
             /\ \/ id = 0 \/ id \in run.listed
                \/ Browser!Here = "portable" /\ run.click.what = "edit"

\* The questions a step of a run leaves there.
QuestionsLeft ==
  \A k \in Browser!AllKinds :
    \/ pageTarget'[Browser!Here][k] \in {Nothing, pageTarget[Browser!Here][k]}
    \/ /\ pageTarget'[Browser!Here][k].view = selected
       /\ pageTarget'[Browser!Here][k].id \in run.listed

LEMMA BrowserRun ==
  ASSUME BrowserInv, run.at \in {"render", "answer"}, RunGoes, QuestionsLeft,
         PageTargets', UNCHANGED <<pageItems, selected>>,
         open' \in [Browser!Views -> [form : Truth, draft : Truth]]
  PROVE  BrowserInv'
<1>1. PageTypes /\ PageTargets /\ PageAsks(run.listed) /\ run.listed \subseteq Browser!Id
  BY DEF BrowserInv, PageTypes
<1>2. Browser!Here' = Browser!Here
  BY DEF Browser!Here, Browser!Page
<1>3. PageAsks(run.listed)'
        \/ PageAsks(run.listed)
  BY <1>1
<1>4. \A k \in Browser!AllKinds :
        \/ pageTarget'[Browser!Here][k] = Nothing
        \/ Browser!Here = "portable" /\ k = "edit"
        \/ /\ pageTarget'[Browser!Here][k].view = selected
           /\ pageTarget'[Browser!Here][k].id \in run.listed
  BY <1>1 DEF QuestionsLeft, PageAsks, Browser!Mine
<1>5. ASSUME Browser!Rests(run.listed) PROVE BrowserInv'
  <2>1. run' = Browser!Resting /\ shown' = run.listed
    BY <1>5 DEF Browser!Rests
  <2>2. /\ run'.at = "rest" /\ run'.listed = {}
        /\ DOMAIN run' = {"at", "click", "listed", "id", "done"}
    BY <2>1 DEF Browser!Resting
  <2>3. PageTypes'
    BY <1>1, <2>1, <2>2 DEF PageTypes
  <2>4. PageAsks(shown)'
    BY <1>2, <1>4, <2>1 DEF PageAsks, Browser!Mine
  <2> QED  BY <2>2, <2>3, <2>4 DEF BrowserInv, Browser!CommandsAreOfListed
<1>6. ASSUME Browser!Reruns PROVE BrowserInv'
  <2>1. run' = Browser!Top(Browser!NoClick) /\ UNCHANGED shown
    BY <1>6 DEF Browser!Reruns
  <2>2. /\ run'.at = "load" /\ run'.listed = {}
        /\ DOMAIN run' = {"at", "click", "listed", "id", "done"}
    BY <2>1, TopIs
  <2>3. PageTypes'
    BY <1>1, <2>1, <2>2 DEF PageTypes
  <2> QED  BY <2>2, <2>3 DEF BrowserInv, Browser!CommandsAreOfListed
<1>7. ASSUME NEW id, Browser!Sends(id),
             \/ id = 0 \/ id \in run.listed
             \/ Browser!Here = "portable" /\ run.click.what = "edit"
      PROVE  BrowserInv'
  <2>1. run' = [run EXCEPT !.at = "send", !.id = id] /\ UNCHANGED shown
    BY <1>7 DEF Browser!Sends
  <2>2. /\ run'.at = "send" /\ run'.listed = run.listed /\ run'.id = id /\ run'.click = run.click
        /\ DOMAIN run' = {"at", "click", "listed", "id", "done"}
    BY <1>1, <2>1 DEF PageTypes
  <2>3. PageTypes'
    BY <1>1, <2>1, <2>2 DEF PageTypes
  <2>4. PageAsks(run.listed)'
    BY <1>2, <1>4, <2>2 DEF PageAsks, Browser!Mine
  <2>5. Browser!CommandsAreOfListed'
    BY <1>2, <1>7, <2>2 DEF Browser!CommandsAreOfListed
  <2> QED  BY <2>2, <2>3, <2>4, <2>5 DEF BrowserInv
<1> QED  BY <1>5, <1>6, <1>7 DEF RunGoes

\* A run that leaves the questions alone.
LEMMA QuestionsKept ==
  ASSUME PageTargets, UNCHANGED <<pageTarget, selected>>
  PROVE  QuestionsLeft /\ PageTargets'
BY DEF QuestionsLeft, PageTargets

LEMMA BrowserSend ==
  ASSUME BrowserInv, run.at = "render", UNCHANGED <<pageItems, selected, pageTarget, open>>, NEW id,
         Browser!Sends(id),
         \/ id = 0 \/ id \in run.listed
         \/ Browser!Here = "portable" /\ run.click.what = "edit"
  PROVE  BrowserInv'
<1>1. RunGoes
  BY DEF RunGoes
<1>2. open' \in [Browser!Views -> [form : Truth, draft : Truth]] /\ PageTargets
  BY DEF BrowserInv, PageTypes
<1> QED  BY <1>1, <1>2, BrowserRun, QuestionsKept

LEMMA BrowserAsk ==
  ASSUME BrowserInv, NEW k \in Browser!AllKinds, Browser!AskAbout(k) PROVE BrowserInv'
<1> DEFINE t == Browser!Target(selected, run.click.id)
<1>1. /\ PageTypes /\ PageTargets /\ run.at = "render" /\ k \in Browser!Kinds(Browser!Here)
      /\ run.click.id \in run.listed /\ run.listed \subseteq Browser!Id
      /\ pageTarget' = [pageTarget EXCEPT ![Browser!Here][k] = t]
      /\ UNCHANGED <<pageItems, selected, open>>
  BY DEF BrowserInv, PageTypes, Browser!AskAbout
<1>2. t.view = selected /\ t.id = run.click.id /\ t \in Targets
  BY <1>1 DEF Browser!Target, Targets, PageTypes
<1> HIDE DEF t
<1>3. /\ PageTargets' /\ pageTarget'[Browser!Here][k] = t
      /\ \A o \in Browser!AllKinds \ {k} :
           pageTarget'[Browser!Here][o] = pageTarget[Browser!Here][o]
  BY <1>1, <1>2, TargetPut
<1>4. QuestionsLeft
  BY <1>1, <1>2, <1>3 DEF QuestionsLeft
<1>5. RunGoes
  BY DEF RunGoes, Browser!AskAbout
<1>6. open' \in [Browser!Views -> [form : Truth, draft : Truth]]
  BY <1>1 DEF PageTypes
<1> QED  BY <1>1, <1>3, <1>4, <1>5, <1>6, BrowserRun

LEMMA QuestionDropped ==
  ASSUME PageTypes, PageTargets, NEW k \in Browser!AllKinds, UNCHANGED selected,
         pageTarget' = [pageTarget EXCEPT ![Browser!Here][k] = Nothing]
  PROVE  QuestionsLeft /\ PageTargets'
<1>1. /\ PageTargets' /\ pageTarget'[Browser!Here][k] = Nothing
      /\ \A o \in Browser!AllKinds \ {k} :
           pageTarget'[Browser!Here][o] = pageTarget[Browser!Here][o]
  BY TargetPut
<1> QED  BY <1>1 DEF QuestionsLeft

LEMMA BrowserCancel ==
  ASSUME BrowserInv, NEW k \in Browser!AllKinds, Browser!Cancel(k) PROVE BrowserInv'
<1>1. /\ PageTypes /\ PageTargets /\ run.at = "render" /\ Browser!Reruns
      /\ pageTarget' = [pageTarget EXCEPT ![Browser!Here][k] = Nothing]
      /\ UNCHANGED <<pageItems, selected, open>>
  BY DEF BrowserInv, Browser!Cancel
<1>2. QuestionsLeft /\ PageTargets'
  BY <1>1, QuestionDropped
<1>3. open' \in [Browser!Views -> [form : Truth, draft : Truth]]
  BY <1>1 DEF PageTypes
<1> QED  BY <1>1, <1>2, <1>3, BrowserRun DEF RunGoes

LEMMA BrowserConfirm ==
  ASSUME BrowserInv, NEW k \in Browser!AllKinds, Browser!Confirm(k) PROVE BrowserInv'
<1>1. /\ k # "edit" /\ run.at = "render" /\ Browser!Mine(k) # Nothing
      /\ Browser!Sends(Browser!Mine(k).id)
      /\ UNCHANGED <<pageItems, selected, pageTarget, open>>
  BY DEF Browser!Confirm
<1>2. Browser!Mine(k).id \in run.listed
  BY <1>1 DEF BrowserInv, PageAsks
<1> QED  BY <1>1, <1>2, BrowserSend

LEMMA BrowserEdit ==
  ASSUME BrowserInv, Browser!SubmitEdit PROVE BrowserInv'
<1>1. /\ run.at = "render" /\ Browser!Mine("edit") # Nothing /\ run.click.what = "edit"
      /\ Browser!Sends(Browser!Mine("edit").id)
      /\ UNCHANGED <<pageItems, selected, pageTarget, open>>
  BY DEF Browser!SubmitEdit, Browser!Clicked
<1>2. Browser!Mine("edit").id \in run.listed \/ Browser!Here = "portable"
  BY <1>1 DEF BrowserInv, PageAsks, Browser!AllKinds
<1> QED  BY <1>1, <1>2, BrowserSend

LEMMA BrowserAct ==
  ASSUME BrowserInv, Browser!ActAtOnce PROVE BrowserInv'
BY BrowserSend DEF Browser!ActAtOnce

LEMMA BrowserCreate ==
  ASSUME BrowserInv, NEW what \in {"create", "prepare"}, Browser!SubmitCreate(what)
  PROVE  BrowserInv'
BY BrowserSend DEF Browser!SubmitCreate

LEMMA BrowserNothing ==
  ASSUME BrowserInv, Browser!NothingToDo PROVE BrowserInv'
<1>1. /\ run.at = "render" /\ Browser!Rests(run.listed)
      /\ UNCHANGED <<pageItems, selected, pageTarget, open>>
  BY DEF Browser!NothingToDo
<1>2. open' \in [Browser!Views -> [form : Truth, draft : Truth]] /\ PageTargets
  BY <1>1 DEF BrowserInv, PageTypes
<1> QED  BY <1>1, <1>2, BrowserRun, QuestionsKept DEF RunGoes

\* Forms open and close.
LEMMA OpenPut ==
  ASSUME PageTypes
  PROVE  /\ [open EXCEPT ![selected].form = TRUE] \in [Browser!Views -> [form : Truth, draft : Truth]]
         /\ [open EXCEPT ![selected].draft = TRUE] \in [Browser!Views -> [form : Truth, draft : Truth]]
         /\ [open EXCEPT ![selected] = [form |-> FALSE, draft |-> FALSE]]
              \in [Browser!Views -> [form : Truth, draft : Truth]]
<1> DEFINE yes == TRUE  no == FALSE
<1>1. yes \in Truth /\ no \in Truth
  BY TruthIs
<1>2. open \in [Browser!Views -> [form : Truth, draft : Truth]] /\ selected \in Browser!Views
  BY DEF PageTypes
<1> HIDE DEF yes, no
<1>3. [open EXCEPT ![selected].form = yes] \in [Browser!Views -> [form : Truth, draft : Truth]]
  BY <1>1, <1>2
<1>4. [open EXCEPT ![selected].draft = yes] \in [Browser!Views -> [form : Truth, draft : Truth]]
  BY <1>1, <1>2
<1>5. [open EXCEPT ![selected] = [form |-> no, draft |-> no]]
        \in [Browser!Views -> [form : Truth, draft : Truth]]
  BY <1>1, <1>2
<1> QED  BY <1>3, <1>4, <1>5 DEF yes, no

LEMMA BrowserForm ==
  ASSUME BrowserInv, Browser!OpenCreate \/ Browser!CancelCreate PROVE BrowserInv'
<1>1. /\ run.at = "render" /\ RunGoes
      /\ \/ open' = [open EXCEPT ![selected].form = TRUE]
         \/ open' = [open EXCEPT ![selected] = [form |-> FALSE, draft |-> FALSE]]
      /\ UNCHANGED <<pageItems, selected, pageTarget>>
  BY DEF Browser!OpenCreate, Browser!CancelCreate, RunGoes
<1>2. PageTypes /\ PageTargets
  BY DEF BrowserInv
<1>3. open' \in [Browser!Views -> [form : Truth, draft : Truth]]
  BY <1>1, <1>2, OpenPut
<1> QED  BY <1>1, <1>2, <1>3, BrowserRun, QuestionsKept

\* An answer drops the question it answers, or none.
LEMMA BrowserAnswer ==
  ASSUME BrowserInv, run.at = "answer", RunGoes, UNCHANGED <<pageItems, selected>>,
         \/ UNCHANGED pageTarget
         \/ \E k \in Browser!AllKinds :
              pageTarget' = [pageTarget EXCEPT ![Browser!Here][k] = Nothing],
         \/ UNCHANGED open
         \/ open' = [open EXCEPT ![selected].draft = TRUE]
         \/ open' = [open EXCEPT ![selected] = [form |-> FALSE, draft |-> FALSE]]
  PROVE  BrowserInv'
<1>1. PageTypes /\ PageTargets
  BY DEF BrowserInv
<1>2. QuestionsLeft /\ PageTargets'
  BY <1>1, QuestionsKept, QuestionDropped
<1>3. open' \in [Browser!Views -> [form : Truth, draft : Truth]]
  BY <1>1, OpenPut DEF PageTypes
<1> QED  BY <1>1, <1>2, <1>3, BrowserRun

LEMMA BrowserAnswers ==
  ASSUME BrowserInv,
         \/ \E refresh \in BOOLEAN : Browser!AnswerPortable(refresh)
         \/ Browser!AnswerSchema \/ Browser!AnswerPrepare
  PROVE  BrowserInv'
<1>1. ASSUME NEW refresh \in BOOLEAN, Browser!AnswerPortable(refresh) PROVE BrowserInv'
  <2>1. /\ run.at = "answer" /\ Browser!Here = "portable" /\ RunGoes
        /\ UNCHANGED <<pageItems, selected>>
    BY <1>1 DEF Browser!AnswerPortable, RunGoes
  <2>2. \/ UNCHANGED pageTarget
        \/ \E k \in Browser!AllKinds :
             pageTarget' = [pageTarget EXCEPT ![Browser!Here][k] = Nothing]
    BY <1>1, <2>1 DEF Browser!AnswerPortable
  <2>3. \/ UNCHANGED open
        \/ open' = [open EXCEPT ![selected] = [form |-> FALSE, draft |-> FALSE]]
    BY <1>1 DEF Browser!AnswerPortable
  <2> QED  BY <2>1, <2>2, <2>3, BrowserAnswer
<1>2. ASSUME Browser!AnswerSchema PROVE BrowserInv'
  <2>1. /\ run.at = "answer" /\ Browser!Here = "schema" /\ RunGoes
        /\ UNCHANGED <<pageItems, selected>>
    BY <1>2 DEF Browser!AnswerSchema, RunGoes
  <2>2. \/ UNCHANGED pageTarget
        \/ \E k \in Browser!AllKinds :
             pageTarget' = [pageTarget EXCEPT ![Browser!Here][k] = Nothing]
    BY <1>2, <2>1 DEF Browser!AnswerSchema
  <2>3. \/ UNCHANGED open
        \/ open' = [open EXCEPT ![selected] = [form |-> FALSE, draft |-> FALSE]]
    BY <1>2 DEF Browser!AnswerSchema
  <2> QED  BY <2>1, <2>2, <2>3, BrowserAnswer
<1>3. ASSUME Browser!AnswerPrepare PROVE BrowserInv'
  <2>1. /\ run.at = "answer" /\ RunGoes /\ UNCHANGED <<pageItems, selected, pageTarget>>
        /\ UNCHANGED open \/ open' = [open EXCEPT ![selected].draft = TRUE]
    BY <1>3 DEF Browser!AnswerPrepare, RunGoes
  <2> QED  BY <2>1, BrowserAnswer
<1> QED  BY <1>1, <1>2, <1>3

\* A run that starts anew has no questions to answer for yet.
LEMMA BrowserTop ==
  ASSUME BrowserInv, NEW click, run' = Browser!Top(click), selected' \in Browser!Views,
         UNCHANGED <<pageItems, shown, pageTarget, open>>
  PROVE  BrowserInv'
<1>1. /\ run'.at = "load" /\ run'.listed = {}
      /\ DOMAIN run' = {"at", "click", "listed", "id", "done"}
  BY TopIs
<1>2. PageTypes'
  BY <1>1 DEF BrowserInv, PageTypes
<1>3. PageTargets'
  BY DEF BrowserInv, PageTargets
<1> QED  BY <1>1, <1>2, <1>3 DEF BrowserInv, Browser!CommandsAreOfListed

LEMMA BrowserStarts ==
  ASSUME BrowserInv,
         \/ \E v \in Browser!Views : Browser!Navigate(v)
         \/ Browser!UserClicks
  PROVE  BrowserInv'
<1>1. ASSUME NEW v \in Browser!Views, Browser!Navigate(v) PROVE BrowserInv'
  BY <1>1, BrowserTop DEF Browser!Navigate, Browser!Reruns
<1>2. ASSUME Browser!UserClicks PROVE BrowserInv'
  <2>1. \E click : run' = Browser!Top(click)
    BY <1>2 DEF Browser!UserClicks
  <2>2. selected' \in Browser!Views /\ UNCHANGED <<pageItems, shown, pageTarget, open>>
    BY <1>2 DEF Browser!UserClicks, BrowserInv, PageTypes
  <2> QED  BY <2>1, <2>2, BrowserTop
<1> QED  BY <1>1, <1>2

\* An item is added to a view, or deleted.
LEMMA ItemsPut ==
  ASSUME PageTypes, NEW v \in Browser!Views, NEW id,
         \/ UNCHANGED pageItems
         \/ pageItems' = [pageItems EXCEPT ![v].ids = @ \ {id}]
         \/ /\ pageItems[v].last < MaxItem
            /\ pageItems' = [pageItems EXCEPT ![v] = [ids |-> pageItems[v].ids \cup {pageItems[v].last + 1},
                                                     last |-> pageItems[v].last + 1]]
  PROVE  /\ pageItems' \in [Browser!Views -> [ids : SUBSET Browser!Id, last : 0 .. MaxItem]]
         /\ \A w \in Browser!Views : pageItems'[w].ids \subseteq 1 .. pageItems'[w].last
<1>1. /\ pageItems \in [Browser!Views -> [ids : SUBSET Browser!Id, last : 0 .. MaxItem]]
      /\ \A w \in Browser!Views : pageItems[w].ids \subseteq 1 .. pageItems[w].last
  BY DEF PageTypes
<1>2. MaxItem \in Nat
  BY BoundsAssumption
<1> DEFINE row == pageItems[v]
           less == [row EXCEPT !.ids = @ \ {id}]
           more == [ids |-> row.ids \cup {row.last + 1}, last |-> row.last + 1]
<1>3. row \in [ids : SUBSET Browser!Id, last : 0 .. MaxItem] /\ row.ids \subseteq 1 .. row.last
  BY <1>1
<1> HIDE DEF row
<1>4. /\ less \in [ids : SUBSET Browser!Id, last : 0 .. MaxItem]
      /\ less.ids \subseteq 1 .. less.last
  BY <1>3
<1>5. ASSUME row.last < MaxItem
      PROVE  /\ more \in [ids : SUBSET Browser!Id, last : 0 .. MaxItem]
             /\ more.ids \subseteq 1 .. more.last
  <2> DEFINE next == row.last + 1
  <2>1. next \in 1 .. MaxItem /\ row.ids \cup {next} \subseteq 1 .. next
    BY <1>2, <1>3, <1>5
  <2>2. row.ids \cup {next} \subseteq Browser!Id /\ next \in 0 .. MaxItem
    BY <1>2, <1>3, <2>1 DEF Browser!Id
  <2>3. more = [ids |-> row.ids \cup {next}, last |-> next]
    OBVIOUS
  <2> HIDE DEF next, more
  <2> QED  BY <2>1, <2>2, <2>3
<1>6. \/ UNCHANGED pageItems
      \/ pageItems' = [pageItems EXCEPT ![v] = less]
      \/ row.last < MaxItem /\ pageItems' = [pageItems EXCEPT ![v] = more]
  BY DEF row
<1> HIDE DEF less, more
<1> QED  BY <1>1, <1>4, <1>5, <1>6

LEMMA BrowserOthers ==
  ASSUME BrowserInv, Browser!OthersChange PROVE BrowserInv'
<1>1. UNCHANGED <<selected, shown, pageTarget, open, run>>
  BY DEF Browser!OthersChange
<1>2. \E v \in Browser!Views :
        \/ /\ pageItems[v].last < MaxItem
           /\ pageItems' = [pageItems EXCEPT ![v] = [ids |-> @.ids \cup {@.last + 1},
                                                    last |-> @.last + 1]]
        \/ \E id \in pageItems[v].ids : pageItems' = [pageItems EXCEPT ![v].ids = @ \ {id}]
  BY DEF Browser!OthersChange
<1>3. PICK v \in Browser!Views :
        \/ /\ pageItems[v].last < MaxItem
           /\ pageItems' = [pageItems EXCEPT ![v] = [ids |-> pageItems[v].ids \cup {pageItems[v].last + 1},
                                                    last |-> pageItems[v].last + 1]]
        \/ \E id \in pageItems[v].ids : pageItems' = [pageItems EXCEPT ![v].ids = @ \ {id}]
  BY <1>2
<1>4. PageTypes /\ PageTargets
  BY DEF BrowserInv
<1>5. /\ pageItems' \in [Browser!Views -> [ids : SUBSET Browser!Id, last : 0 .. MaxItem]]
      /\ \A w \in Browser!Views : pageItems'[w].ids \subseteq 1 .. pageItems'[w].last
  BY <1>3, <1>4, ItemsPut
<1>6. PageTypes' /\ PageTargets'
  BY <1>1, <1>4, <1>5 DEF PageTypes, PageTargets
<1>7. /\ (run.at = "rest" => PageAsks(shown))'
      /\ (run.at \in {"render", "send", "answer"} => PageAsks(run.listed))'
      /\ Browser!CommandsAreOfListed'
  BY <1>1 DEF BrowserInv, PageAsks, Browser!Mine, Browser!Here, Browser!Page,
              Browser!CommandsAreOfListed
<1> QED  BY <1>6, <1>7 DEF BrowserInv

LEMMA BrowserExecute ==
  ASSUME BrowserInv, Browser!Execute PROVE BrowserInv'
<1>1. run.at = "send" /\ UNCHANGED <<selected, shown, pageTarget, open>>
  BY DEF Browser!Execute
<1>2. PageTypes /\ PageTargets /\ PageAsks(run.listed)
  BY <1>1 DEF BrowserInv
<1>3. PICK done : run' = [run EXCEPT !.at = "answer", !.done = done]
  BY Zenon DEF Browser!Execute
<1>4. /\ run'.at = "answer" /\ run'.listed = run.listed
      /\ DOMAIN run' = {"at", "click", "listed", "id", "done"}
  BY <1>2, <1>3 DEF PageTypes
<1>5. \/ UNCHANGED pageItems
      \/ pageItems' = [pageItems EXCEPT ![selected].ids = @ \ {run.id}]
      \/ /\ pageItems[selected].last < MaxItem
         /\ pageItems' = [pageItems EXCEPT
                            ![selected] = [ids |-> pageItems[selected].ids
                                                     \cup {pageItems[selected].last + 1},
                                           last |-> pageItems[selected].last + 1]]
  BY DEF Browser!Execute
<1>6. selected \in Browser!Views
  BY <1>2 DEF PageTypes
<1>7. /\ pageItems' \in [Browser!Views -> [ids : SUBSET Browser!Id, last : 0 .. MaxItem]]
      /\ \A w \in Browser!Views : pageItems'[w].ids \subseteq 1 .. pageItems'[w].last
  BY <1>2, <1>5, <1>6, ItemsPut
<1>8. PageTypes' /\ PageTargets'
  BY <1>1, <1>2, <1>4, <1>7 DEF PageTypes, PageTargets
<1>9. PageAsks(run.listed)'
  BY <1>1, <1>2, <1>4 DEF PageAsks, Browser!Mine, Browser!Here, Browser!Page
<1> QED  BY <1>4, <1>8, <1>9 DEF BrowserInv, Browser!CommandsAreOfListed

\* What a run keeps of the questions.
LEMMA KeptIs ==
  ASSUME PageTypes, PageTargets, NEW k \in Browser!AllKinds, NEW listed
  PROVE  LET t == Browser!Kept(k, listed)
         IN  /\ t \in {Nothing, Browser!Mine(k)}
             /\ \/ t = Nothing
                \/ Browser!Here = "portable" /\ k = "edit"
                \/ t.view = selected /\ t.id \in listed
<1>1. /\ Browser!Here \in {"portable", "schema"}
      /\ Browser!Here = "portable" => selected = "portable"
  BY HereIsPage
<1> DEFINE t == Browser!Mine(k)
<1>2. Browser!Here = "portable" =>
        /\ t # Nothing => t.view = "portable"
        /\ k = "disable" => t = Nothing
  BY DEF PageTargets, Browser!Mine
<1>3. Browser!Kept(k, listed) =
        IF t = Nothing THEN Nothing
        ELSE IF Browser!Here = "portable"
        THEN IF k = "delete" /\ t.id \notin listed THEN Nothing ELSE t
        ELSE IF t.view # selected \/ t.id \notin listed THEN Nothing ELSE t
  BY DEF Browser!Kept, Browser!Missing
<1>4. k \in {"edit", "delete", "disable"}
  BY DEF Browser!AllKinds
<1> HIDE DEF t
<1>5. Browser!Kept(k, listed) \in {Nothing, t}
  BY <1>3
<1>6. \/ Browser!Kept(k, listed) = Nothing
      \/ Browser!Here = "portable" /\ k = "edit"
      \/ Browser!Kept(k, listed).view = selected /\ Browser!Kept(k, listed).id \in listed
  <2>1. CASE t = Nothing
    BY <1>3, <2>1
  <2>2. CASE t # Nothing /\ Browser!Here = "portable"
    BY <1>1, <1>2, <1>3, <1>4, <2>2
  <2>3. CASE t # Nothing /\ Browser!Here # "portable"
    BY <1>3, <2>3
  <2> QED  BY <2>1, <2>2, <2>3
<1> QED  BY <1>5, <1>6 DEF t

LEMMA BrowserLoad ==
  ASSUME BrowserInv, Browser!Load PROVE BrowserInv'
<1> DEFINE here == Browser!Here
<1>1. PICK listed \in {pageItems[selected].ids, {}} :
        /\ run' = [run EXCEPT !.at = "render", !.listed = listed]
        /\ pageTarget' = [pageTarget EXCEPT ![here] =
                            [k \in Browser!AllKinds |-> Browser!Kept(k, listed)]]
  BY DEF Browser!Load
<1>2. UNCHANGED <<pageItems, selected, shown, open>> /\ PageTypes /\ PageTargets
  BY DEF Browser!Load, BrowserInv
<1>3. /\ here \in Browser!Pages /\ here \in {"portable", "schema"}
      /\ here = "portable" => selected = "portable"
  BY <1>2, HereIsPage
<1>4. here' = here
  BY <1>2 DEF Browser!Here, Browser!Page
<1>5. pageTarget \in [Browser!Pages -> [Browser!AllKinds -> Targets \cup {Nothing}]]
  BY <1>2 DEF PageTargets
<1>6. listed \subseteq Browser!Id
  BY <1>1, <1>2 DEF PageTypes
<1>7. /\ run'.at = "render" /\ run'.listed = listed
      /\ DOMAIN run' = {"at", "click", "listed", "id", "done"}
  BY <1>1, <1>2 DEF PageTypes
<1>8. \A k \in Browser!AllKinds :
        /\ Browser!Kept(k, listed) \in {Nothing, pageTarget[here][k]}
        /\ \/ Browser!Kept(k, listed) = Nothing
           \/ here = "portable" /\ k = "edit"
           \/ Browser!Kept(k, listed).view = selected /\ Browser!Kept(k, listed).id \in listed
  BY <1>2, KeptIs DEF Browser!Mine
<1> HIDE DEF here
<1>9. /\ pageTarget'[here] = [k \in Browser!AllKinds |-> Browser!Kept(k, listed)]
      /\ \A p \in Browser!Pages \ {here} : pageTarget'[p] = pageTarget[p]
  BY <1>1, <1>3, <1>5
<1>10. \A k \in Browser!AllKinds : pageTarget'[here][k] = Browser!Kept(k, listed)
  BY <1>9
<1>11. pageTarget'[here] \in [Browser!AllKinds -> Targets \cup {Nothing}]
  BY <1>3, <1>5, <1>8, <1>9
<1>12. pageTarget' \in [Browser!Pages -> [Browser!AllKinds -> Targets \cup {Nothing}]]
  <2> DEFINE row == [k \in Browser!AllKinds |-> Browser!Kept(k, listed)]
  <2>1. row \in [Browser!AllKinds -> Targets \cup {Nothing}]
    BY <1>9, <1>11
  <2>2. pageTarget' = [pageTarget EXCEPT ![here] = row]
    BY <1>1
  <2> HIDE DEF row
  <2> QED  BY <1>3, <1>5, <2>1, <2>2
<1>13. \A p \in Browser!Pages, k \in Browser!AllKinds :
         pageTarget'[p][k] \in {Nothing, pageTarget[p][k]}
  BY <1>8, <1>9, <1>10
<1>14. "portable" \in Browser!Pages /\ "disable" \in Browser!AllKinds
  BY DEF Browser!Pages, Browser!AllKinds
<1>15. PageTargets'
  BY <1>2, <1>12, <1>13, <1>14 DEF PageTargets
<1>16. PageTypes'
  BY <1>2, <1>6, <1>7 DEF PageTypes
<1>17. PageAsks(run.listed)'
  BY <1>2, <1>4, <1>7, <1>8, <1>10 DEF PageAsks, Browser!Mine, here
<1> QED  BY <1>7, <1>15, <1>16, <1>17 DEF BrowserInv, Browser!CommandsAreOfListed

LEMMA BrowserStep ==
  ASSUME BrowserInv, [Browser!Next]_browserState PROVE BrowserInv'
<1>1. CASE Browser!Next
  BY <1>1, BrowserLoad, BrowserAsk, BrowserConfirm, BrowserCancel, BrowserAct, BrowserEdit,
     BrowserForm, BrowserNothing, BrowserCreate, BrowserStarts, BrowserExecute,
     BrowserAnswers, BrowserOthers
  DEF Browser!Next
<1>2. CASE UNCHANGED browserState
  BY <1>2 DEF BrowserInv, browserState, PageTypes, PageTargets, PageAsks, Browser!Mine,
              Browser!Here, Browser!Page, Browser!CommandsAreOfListed
<1> QED  BY <1>1, <1>2

LEMMA BrowserScreens ==
  BrowserInv => Browser!CommandsAreOfListed /\ Browser!QuestionsAreOfShown /\ Browser!TypeOK
<1> SUFFICES ASSUME BrowserInv
             PROVE  Browser!CommandsAreOfListed /\ Browser!QuestionsAreOfShown /\ Browser!TypeOK
  OBVIOUS
<1>1. Browser!CommandsAreOfListed
  BY DEF BrowserInv
<1>2. Browser!QuestionsAreOfShown
  BY DEF BrowserInv, PageAsks, Browser!QuestionsAreOfShown, Browser!Kinds, Browser!AllKinds
<1>3. Browser!TypeOK
  BY DEF BrowserInv, PageTypes, PageTargets, Targets, Truth, Browser!TypeOK
<1> QED  BY <1>1, <1>2, <1>3

-----------------------------------------------------------------------------
(* ModuleWorkspace: what a validation has seen of a draft module *)


DraftLocal ==
  [pc : {"planned", "agreed", "target", "mkdir", "look", "put", "inspected", "require", "parse",
         "compile", "read", "import", "leave", "done", "passed"},
   todo : Seq(Draft!Files), force : Truth, previous : Handlers \cup {"python", Nothing},
   missing : Truth, errors : Truth, manifest : Truth, sound : Truth]

\* What a validation has yet to look for.
Unlooked == {<<"init", "manifest", "module">>, <<"manifest", "module">>, <<"module">>, <<>>}

\* A thread that found no file missing has been watched while each of those
\* it looked for was there.
DraftGood(local, watched, made) ==
  /\ local \in DraftLocal
  /\ local.pc = "agreed" => local.todo = <<"init", "manifest", "module">>
  /\ local.pc \in {"look", "put"} => made
  /\ local.pc = "put" => local.todo # <<>>
  /\ local.pc = "leave" => local.previous \in Handlers \cup {"python"}
  /\ local.pc = "require" =>
       /\ local.todo \in Unlooked
       /\ ~local.missing =>
            /\ local.todo # <<"init", "manifest", "module">> => "init" \in watched
            /\ local.todo \in {<<"module">>, <<>>} => "manifest" \in watched
            /\ local.todo = <<>> => "module" \in watched
  /\ local.pc = "read" => local.todo # <<>>
  /\ local.pc \in {"parse", "compile", "read", "import", "leave", "done"} /\ ~local.missing
       => Draft!Required \subseteq watched
  /\ local.pc = "passed" => Draft!Required \subseteq watched

DraftPlace ==
  /\ exists \in BOOLEAN
  /\ draftFiles \in [Draft!Files -> Draft!Contents \cup {Nothing}]
  /\ importer \in Handlers \cup {"python"}
  /\ (\E f \in Draft!Files : Draft!There(f)) => exists

DraftCall(h) ==
  draftRequest[h] = Draft!Idle \/ DraftGood(draftRequest[h], seen[h], exists)

DraftInv ==
  /\ DraftPlace
  /\ draftRequest = [h \in Handlers |-> draftRequest[h]]
  /\ seen = [h \in Handlers |-> seen[h]]
  /\ \A h \in Handlers : DraftCall(h)

LEMMA DraftIdle == Draft!Idle.pc = "idle" /\ \A l \in DraftLocal : l.pc # "idle"
BY DEF Draft!Idle, DraftLocal

LEMMA DraftHeld ==
  ASSUME DraftInv, NEW h \in Handlers, draftRequest[h].pc # "idle"
  PROVE  DraftGood(draftRequest[h], seen[h], exists) /\ draftRequest[h] \in DraftLocal
BY DraftIdle DEF DraftInv, DraftCall, DraftGood

LEMMA DraftInit == Draft!Init => DraftInv
<1> SUFFICES ASSUME Draft!Init PROVE DraftInv
  OBVIOUS
<1>1. /\ draftRequest = [h \in Handlers |-> Draft!Idle] /\ seen = [h \in Handlers |-> {}]
      /\ importer = "python"
  BY DEF Draft!Init
<1>2. /\ exists \in BOOLEAN /\ draftFiles \in [Draft!Files -> Draft!Contents \cup {Nothing}]
      /\ (\E f \in Draft!Files : Draft!There(f)) => exists
  <2>1. CASE exists = FALSE /\ draftFiles = [f \in Draft!Files |-> Nothing]
    BY <2>1 DEF Draft!There
  <2>2. ASSUME NEW bad \in Draft!Required, NEW content \in Draft!Contents \cup {Nothing},
               draftFiles = [f \in Draft!Files |->
                  CASE f = bad -> content
                    [] f \in Draft!Required \ {bad} -> "good"
                    [] OTHER -> Nothing]
        PROVE  draftFiles \in [Draft!Files -> Draft!Contents \cup {Nothing}]
    <3>1. ASSUME NEW f \in Draft!Files
          PROVE  (CASE f = bad -> content
                    [] f \in Draft!Required \ {bad} -> "good"
                    [] OTHER -> Nothing) \in Draft!Contents \cup {Nothing}
      <4>1. CASE f = bad
        BY <4>1
      <4>2. CASE f # bad /\ f \in Draft!Required \ {bad}
        BY <4>2 DEF Draft!Contents
      <4>3. CASE f # bad /\ f \notin Draft!Required \ {bad}
        BY <4>3
      <4> QED  BY <4>1, <4>2, <4>3
    <3> QED  BY <2>2, <3>1
  <2> QED  BY <2>1, <2>2 DEF Draft!Init
<1> QED  BY <1>1, <1>2 DEF DraftInv, DraftPlace, DraftCall

\* What a step may count on of those who watch.
LEMMA DraftWatch ==
  ASSUME DraftInv, Draft!Watch, NEW g \in Handlers,
         draftRequest'[g].pc \in {"require", "parse", "compile", "read", "import", "leave", "done", "passed"}
  PROVE  /\ draftRequest[g].pc # "idle" => seen[g] \subseteq seen'[g]
         /\ \A f \in Draft!Files : Draft!There(f) => f \in seen'[g]
BY DEF Draft!Watch, Draft!There

\* A thread's step, by what becomes of its locals.
LEMMA DraftThread ==
  ASSUME DraftInv, DraftPlace', NEW h \in Handlers, NEW local, Draft!Go(h, local), Draft!Watch,
         exists => exists',
         local = Draft!Idle \/ DraftGood(local, seen'[h], exists')
  PROVE  DraftInv'
<1>1. /\ draftRequest = [g \in Handlers |-> draftRequest[g]]
      /\ draftRequest' = [draftRequest EXCEPT ![h] = local]
      /\ \A g \in Handlers : DraftCall(g)
  BY DEF DraftInv, Draft!Go
<1>2. /\ draftRequest' = [g \in Handlers |-> draftRequest'[g]]
      /\ draftRequest'[h] = local /\ \A g \in Handlers \ {h} : draftRequest'[g] = draftRequest[g]
  BY <1>1
<1>3. seen' = [g \in Handlers |-> seen'[g]]
  BY DEF Draft!Watch
<1>4. DraftCall(h)'
  BY <1>2 DEF DraftCall
<1>5. ASSUME NEW g \in Handlers \ {h} PROVE DraftCall(g)'
  <2>1. CASE draftRequest[g] = Draft!Idle
    BY <1>2, <2>1 DEF DraftCall
  <2>2. CASE DraftGood(draftRequest[g], seen[g], exists)
    <3>1. draftRequest[g] \in DraftLocal /\ draftRequest'[g] = draftRequest[g]
      BY <1>2, <2>2 DEF DraftGood
    <3>2. draftRequest[g].pc \in {"require", "parse", "compile", "read", "import", "leave", "done", "passed"}
            => seen[g] \subseteq seen'[g]
      BY <3>1, DraftWatch, DraftIdle
    <3>3. DraftGood(draftRequest[g], seen'[g], exists')
      BY <2>2, <3>1, <3>2 DEF DraftGood
    <3> QED  BY <3>1, <3>3 DEF DraftCall
  <2> QED  BY <1>1, <2>1, <2>2 DEF DraftCall
<1> QED  BY <1>2, <1>3, <1>4, <1>5 DEF DraftInv

LEMMA DraftQuiet ==
  ASSUME DraftInv, UNCHANGED <<exists, draftFiles, importer>> PROVE DraftPlace' /\ (exists => exists')
BY DEF DraftInv, DraftPlace, Draft!There

\* A validation begins with nothing looked for.
LEMMA DraftFresh ==
  ASSUME NEW local \in DraftLocal, local.pc = "require",
         local.todo = <<"init", "manifest", "module">>, NEW watched, NEW made
  PROVE  DraftGood(local, watched, made)
<1>1. local.todo \in Unlooked /\ local.todo \notin {<<"module">>, <<>>} /\ local.todo # <<>>
  BY DEF Unlooked
<1> QED  BY <1>1 DEF DraftGood

LEMMA DraftStarts ==
  ASSUME DraftInv, NEW h \in Handlers,
         Draft!Plan(h) \/ (\E force \in BOOLEAN : Draft!Create(h, force))
           \/ Draft!Inspect(h) \/ Draft!Validate(h)
  PROVE  DraftInv'
<1> DEFINE full == <<"init", "manifest", "module">>
<1>1. /\ full \in Seq(Draft!Files) /\ <<>> \in Seq(Draft!Files) /\ Draft!Scaffold \in Seq(Draft!Files)
  BY DEF Draft!Scaffold, Draft!Files, Draft!Required
<1>2. ASSUME NEW pc \in {"planned", "agreed", "target", "inspected", "require"},
             NEW todo \in Seq(Draft!Files), NEW force \in BOOLEAN,
             pc \in {"agreed", "require"} => todo = full,
             Draft!Start(h, Draft!At(pc, todo, force))
      PROVE  DraftInv'
  <2> DEFINE local == Draft!At(pc, todo, force)
  <2>1. local \in DraftLocal /\ local.pc = pc /\ local.todo = todo
    BY TruthIs DEF Draft!At, DraftLocal
  <2>2. /\ Draft!Go(h, local) /\ Draft!Watch /\ UNCHANGED <<exists, draftFiles, importer>>
    BY <1>2 DEF Draft!Start
  <2>3. /\ full \in Unlooked /\ full # <<"module">> /\ full # <<>>
        /\ local.pc \in {"agreed", "require"} => local.todo = full
    BY <1>2, <2>1 DEF Unlooked
  <2>4. local.pc \in {"planned", "agreed", "target", "inspected", "require"}
    BY <2>1
  <2> HIDE DEF local
  <2>5. ~local.missing => local.pc # "parse" /\ local.pc # "compile" /\ local.pc # "read"
                          /\ local.pc # "import"
                          /\ local.pc # "leave" /\ local.pc # "done"
    BY <2>4
  <2>6. DraftGood(local, seen'[h], exists')
    BY <2>1, <2>3, <2>4, <2>5 DEF DraftGood
  <2> QED  BY <2>2, <2>6, DraftQuiet, DraftThread
<1>3. CASE Draft!Plan(h)
  <2>1. CASE exists
    <3>1. Draft!Start(h, Draft!At("agreed", full, FALSE))
      BY <1>3, <2>1 DEF Draft!Plan
    <3> QED  BY <1>1, <1>2, <3>1
  <2>2. CASE ~exists
    <3>1. Draft!Start(h, Draft!At("planned", Draft!Scaffold, FALSE))
      BY <1>3, <2>2 DEF Draft!Plan
    <3> QED  BY <1>1, <1>2, <3>1
  <2> QED  BY <2>1, <2>2
<1>4. ASSUME NEW force \in BOOLEAN, Draft!Create(h, force) PROVE DraftInv'
  <2>1. Draft!Start(h, Draft!At("target", Draft!Scaffold, force))
    BY <1>4 DEF Draft!Create
  <2> QED  BY <1>1, <1>2, <2>1
<1>5. CASE Draft!Inspect(h)
  <2>1. Draft!Start(h, Draft!At("inspected", <<>>, FALSE))
    BY <1>5 DEF Draft!Inspect
  <2> QED  BY <1>1, <1>2, <2>1
<1>6. CASE Draft!Validate(h)
  <2>1. Draft!Start(h, Draft!At("require", full, FALSE))
    BY <1>6 DEF Draft!Validate
  <2> QED  BY <1>1, <1>2, <2>1
<1> QED  BY <1>3, <1>4, <1>5, <1>6

\* Steps that leave the directory and everybody's Python alone, or make the
\* directory.
LEMMA DraftScaffolds ==
  ASSUME DraftInv, NEW h \in Handlers,
         Draft!FollowPlan(h) \/ Draft!CheckTarget(h) \/ Draft!MakeDirectory(h)
           \/ Draft!LookAtFile(h) \/ Draft!EndInspection(h) \/ Draft!Answer(h)
  PROVE  DraftInv'
<1> DEFINE here == draftRequest[h]
<1>1. here \in DraftLocal /\ DraftGood(here, seen[h], exists) /\ here.pc # "idle"
  BY DraftHeld DEF Draft!FollowPlan, Draft!CheckTarget, Draft!MakeDirectory,
                   Draft!LookAtFile, Draft!EndInspection, Draft!Answer
<1>2. ASSUME NEW pc \in {"target", "require", "mkdir", "look", "put"}, Draft!Step(h, pc)
      PROVE  \E local \in DraftLocal :
               /\ Draft!Go(h, local) /\ local.pc = pc /\ local.todo = here.todo
               /\ local.missing = here.missing
  <2> DEFINE local == [here EXCEPT !.pc = pc]
  <2>1. local \in DraftLocal /\ local.pc = pc /\ local.todo = here.todo
        /\ local.missing = here.missing
    BY <1>1 DEF DraftLocal
  <2>2. Draft!Go(h, local)
    BY <1>2 DEF Draft!Step
  <2> QED  BY <2>1, <2>2
<1>3. /\ Draft!Watch /\ UNCHANGED <<draftFiles, importer>>
      /\ exists' = exists \/ (exists' = TRUE /\ here.pc = "mkdir")
  BY DEF Draft!FollowPlan, Draft!CheckTarget, Draft!MakeDirectory, Draft!LookAtFile,
         Draft!EndInspection, Draft!Answer, Draft!Quiet
<1>4. DraftPlace' /\ (exists => exists')
  <2>1. CASE exists' = exists
    BY <1>3, <2>1, DraftQuiet
  <2>2. CASE exists' = TRUE
    <3>1. /\ draftFiles \in [Draft!Files -> Draft!Contents \cup {Nothing}]
          /\ importer \in Handlers \cup {"python"}
      BY DEF DraftInv, DraftPlace
    <3> QED  BY <1>3, <2>2, <3>1 DEF DraftPlace
  <2> QED  BY <1>3, <2>1, <2>2
<1>5. CASE Draft!Go(h, Draft!Idle)
  BY <1>3, <1>4, <1>5, DraftThread
<1>6. ASSUME NEW pc \in {"target", "require", "mkdir", "look", "put"}, Draft!Step(h, pc),
             pc \in {"look", "put"} => exists',
             pc = "put" => here.todo # <<>>,
             pc = "require" => here.todo = <<"init", "manifest", "module">>
      PROVE  DraftInv'
  <2>1. PICK local \in DraftLocal :
               /\ Draft!Go(h, local) /\ local.pc = pc /\ local.todo = here.todo
               /\ local.missing = here.missing
    BY <1>2, <1>6
  <2> HIDE DEF here
  <2>2. CASE pc = "require"
    <3>1. DraftGood(local, seen'[h], exists')
      BY <1>6, <2>1, <2>2, DraftFresh
    <3> QED  BY <1>3, <1>4, <2>1, <3>1, DraftThread
  <2>3. CASE pc # "require"
    <3>1. DraftGood(local, seen'[h], exists')
      BY <1>6, <2>1, <2>3 DEF DraftGood
    <3> QED  BY <1>3, <1>4, <2>1, <3>1, DraftThread
  <2> QED  BY <2>2, <2>3
<1>7. CASE Draft!FollowPlan(h)
  <2>1. /\ here.pc = "planned" => Draft!Step(h, "target")
        /\ here.pc = "agreed" => Draft!Step(h, "require")
        /\ here.pc \in {"planned", "agreed"}
    BY <1>7 DEF Draft!FollowPlan
  <2> QED  BY <1>1, <1>6, <2>1 DEF DraftGood
<1>8. CASE Draft!CheckTarget(h)
  BY <1>5, <1>6, <1>8 DEF Draft!CheckTarget
<1>9. CASE Draft!MakeDirectory(h)
  BY <1>6, <1>9 DEF Draft!MakeDirectory
<1>10. CASE Draft!LookAtFile(h)
  <2>1. /\ here.pc = "look" /\ exists'
        /\ Draft!Go(h, Draft!Idle) \/ (Draft!Step(h, "put") /\ here.todo # <<>>)
    BY <1>1, <1>4, <1>10 DEF Draft!LookAtFile, DraftGood
  <2> QED  BY <1>5, <1>6, <2>1
<1>11. CASE Draft!EndInspection(h) \/ Draft!Answer(h)
  BY <1>5, <1>11 DEF Draft!EndInspection, Draft!Answer
<1> QED  BY <1>7, <1>8, <1>9, <1>10, <1>11

LEMMA DraftPut == ASSUME DraftInv, NEW h \in Handlers, Draft!PutFile(h) PROVE DraftInv'
<1> DEFINE here  == draftRequest[h]
           local == [here EXCEPT !.pc = "look", !.todo = Tail(here.todo)]
<1>1. here \in DraftLocal /\ DraftGood(here, seen[h], exists) /\ here.pc = "put"
  BY DraftHeld DEF Draft!PutFile
<1>2. here.todo \in Seq(Draft!Files) /\ here.todo # <<>> /\ exists
  BY <1>1 DEF DraftLocal, DraftGood
<1>3. Tail(here.todo) \in Seq(Draft!Files)
  BY <1>2
<1>4. local \in DraftLocal /\ local.pc = "look"
  BY <1>1, <1>3 DEF DraftLocal
<1>5. /\ Draft!Go(h, local) /\ Draft!Watch /\ UNCHANGED <<exists, importer>>
      /\ draftFiles' = [draftFiles EXCEPT ![Head(here.todo)] = "good"]
  BY DEF Draft!PutFile
<1> HIDE DEF local, here
<1>6. DraftGood(local, seen'[h], exists')
  BY <1>2, <1>4, <1>5 DEF DraftGood
<1>7. DraftPlace'
  <2>1. DraftPlace
    BY DEF DraftInv
  <2> QED  BY <1>2, <1>5, <2>1 DEF DraftPlace, Draft!Contents
<1> QED  BY <1>5, <1>6, <1>7, DraftThread

LEMMA DraftEdit ==
  ASSUME DraftInv, NEW file \in Draft!Files, Draft!WriteFile(file) \/ Draft!DeleteFile(file)
  PROVE  DraftInv'
<1>1. PICK content \in Draft!Contents \cup {Nothing} : Draft!Edit(file, content)
  BY DEF Draft!WriteFile, Draft!DeleteFile
<1>2. /\ exists /\ UNCHANGED <<exists, importer, draftRequest>> /\ Draft!Watch
      /\ draftFiles' = [draftFiles EXCEPT ![file] = content]
  BY <1>1 DEF Draft!Edit
<1>3. DraftPlace'
  BY <1>2 DEF DraftInv, DraftPlace
<1>4. seen' = [g \in Handlers |-> seen'[g]]
  BY <1>2 DEF Draft!Watch
<1>5. ASSUME NEW g \in Handlers PROVE DraftCall(g)'
  <2>1. CASE draftRequest[g] = Draft!Idle
    BY <1>2, <2>1 DEF DraftCall
  <2>2. CASE DraftGood(draftRequest[g], seen[g], exists)
    <3>1. draftRequest[g] \in DraftLocal /\ draftRequest'[g] = draftRequest[g]
      BY <1>2, <2>2 DEF DraftGood
    <3>2. draftRequest[g].pc \in {"require", "parse", "compile", "read", "import", "leave", "done", "passed"}
            => seen[g] \subseteq seen'[g]
      BY <1>2, <3>1, DraftWatch, DraftIdle
    <3>3. DraftGood(draftRequest[g], seen'[g], exists')
      BY <1>2, <2>2, <3>1, <3>2 DEF DraftGood
    <3> QED  BY <3>1, <3>3 DEF DraftCall
  <2> QED  BY <2>1, <2>2 DEF DraftInv, DraftCall
<1> QED  BY <1>2, <1>3, <1>4, <1>5 DEF DraftInv

\* A look at what is required: there and seen, or missing.
LEMMA DraftRequire == ASSUME DraftInv, NEW h \in Handlers, Draft!RequireFile(h) PROVE DraftInv'
<1> DEFINE here == draftRequest[h]
           gone == here.missing \/ ~Draft!There(Head(here.todo))
           next == [here EXCEPT !.todo = Tail(here.todo), !.missing = gone]
           last == [here EXCEPT !.pc = "parse"]
<1>1. /\ here \in DraftLocal /\ DraftGood(here, seen[h], exists) /\ here.pc = "require"
      /\ here.todo \in Unlooked
  BY DraftHeld DEF Draft!RequireFile, DraftGood
<1>2. /\ Draft!Watch /\ UNCHANGED <<exists, draftFiles, importer>>
      /\ IF here.todo = <<>> THEN Draft!Go(h, last) ELSE Draft!Go(h, next)
  BY DEF Draft!RequireFile, Draft!Quiet, Draft!Step
<1>3. DraftPlace' /\ (exists => exists')
  BY <1>2, DraftQuiet
<1>4. draftRequest = [g \in Handlers |-> draftRequest[g]]
  BY DEF DraftInv
<1>5. CASE here.todo = <<>>
  <2>1. /\ last \in DraftLocal /\ last.pc = "parse" /\ last.missing = here.missing
    BY <1>1 DEF DraftLocal
  <2>2. draftRequest'[h] = last
    BY <1>2, <1>4, <1>5 DEF Draft!Go
  <2> HIDE DEF last
  <2>3. seen[h] \subseteq seen'[h]
    BY <1>1, <1>2, <2>1, <2>2, DraftWatch
  <2>4. ~here.missing => Draft!Required \subseteq seen[h]
    <3>1. here.todo # <<"init", "manifest", "module">>
      BY <1>5
    <3> HIDE DEF here
    <3> QED  BY <1>1, <1>5, <3>1 DEF DraftGood, Draft!Required
  <2>5. DraftGood(last, seen'[h], exists')
    <3> HIDE DEF here
    <3> QED  BY <2>1, <2>3, <2>4 DEF DraftGood
  <2> QED  BY <1>2, <1>3, <1>5, <2>5, DraftThread
<1>6. CASE here.todo # <<>>
  <2>1. gone \in Truth
    BY TruthIs
  <2>2. Tail(here.todo) \in Seq(Draft!Files)
    BY <1>1, <1>6 DEF DraftLocal
  <2> HIDE DEF gone
  <2>3. /\ next \in DraftLocal /\ next.pc = "require" /\ next.todo = Tail(here.todo)
        /\ next.missing = gone
    BY <1>1, <2>1, <2>2 DEF DraftLocal
  <2>4. draftRequest'[h] = next
    BY <1>2, <1>4, <1>6 DEF Draft!Go
  <2>5. Head(here.todo) \in Draft!Files
    BY <1>1, <1>6 DEF DraftLocal
  <2>6. /\ seen[h] \subseteq seen'[h]
        /\ ~gone => ~here.missing /\ Head(here.todo) \in seen'[h]
    BY <1>1, <1>2, <2>3, <2>4, <2>5, DraftWatch DEF gone
  <2> HIDE DEF next
  <2>7. DraftGood(next, seen'[h], exists')
    <3>1. CASE here.todo = <<"init", "manifest", "module">>
      <4>1. /\ Head(here.todo) = "init" /\ next.todo = <<"manifest", "module">>
            /\ next.todo \notin {<<"module">>, <<>>} /\ next.todo # <<>>
        BY <2>3, <3>1
      <4>2. next.todo \in Unlooked
        BY <4>1 DEF Unlooked
      <4> HIDE DEF here
      <4> QED  BY <2>3, <2>6, <4>1, <4>2 DEF DraftGood
    <3>2. CASE here.todo = <<"manifest", "module">>
      <4>1. /\ Head(here.todo) = "manifest" /\ next.todo = <<"module">> /\ next.todo # <<>>
            /\ here.todo # <<"init", "manifest", "module">>
        BY <2>3, <3>2
      <4>2. next.todo \in Unlooked
        BY <4>1 DEF Unlooked
      <4> HIDE DEF here
      <4>3. ~here.missing => "init" \in seen[h]
        BY <1>1, <4>1 DEF DraftGood
      <4> QED  BY <2>3, <2>6, <4>1, <4>2, <4>3 DEF DraftGood
    <3>3. CASE here.todo = <<"module">>
      <4>1. /\ Head(here.todo) = "module" /\ next.todo = <<>>
            /\ here.todo # <<"init", "manifest", "module">> /\ here.todo \in {<<"module">>, <<>>}
        BY <2>3, <3>3
      <4>2. next.todo \in Unlooked
        BY <4>1 DEF Unlooked
      <4> HIDE DEF here
      <4>3. ~here.missing => "init" \in seen[h] /\ "manifest" \in seen[h]
        BY <1>1, <4>1 DEF DraftGood
      <4> QED  BY <2>3, <2>6, <4>1, <4>2, <4>3 DEF DraftGood
    <3> QED  BY <1>1, <1>6, <3>1, <3>2, <3>3 DEF Unlooked
  <2> QED  BY <1>2, <1>3, <1>6, <2>7, DraftThread
<1> QED  BY <1>5, <1>6

\* The later checks keep what was seen, and import hands Python back.
LEMMA DraftChecks ==
  ASSUME DraftInv, NEW h \in Handlers,
         Draft!ParseManifest(h) \/ Draft!CompileFile(h) \/ Draft!ReadPython(h)
           \/ Draft!EnterImport(h) \/ Draft!LeaveImport(h)
  PROVE  DraftInv'
<1> DEFINE here == draftRequest[h]
<1>1. /\ here \in DraftLocal /\ DraftGood(here, seen[h], exists)
      /\ here.pc \in {"parse", "compile", "read", "import", "leave"}
  BY DraftHeld DEF Draft!ParseManifest, Draft!CompileFile, Draft!ReadPython, Draft!EnterImport,
                   Draft!LeaveImport
<1>2. /\ Draft!Watch /\ UNCHANGED <<exists, draftFiles>>
      /\ importer' \in {importer, h, here.previous}
      /\ importer' = here.previous => importer' = importer \/ here.pc = "leave" \/ importer' = h
  BY DEF Draft!ParseManifest, Draft!CompileFile, Draft!ReadPython, Draft!EnterImport,
         Draft!LeaveImport, Draft!Quiet
<1>3. DraftPlace' /\ (exists => exists')
  <2>1. DraftPlace
    BY DEF DraftInv
  <2>2. importer' \in Handlers \cup {"python"}
    BY <1>1, <1>2, <2>1 DEF DraftPlace, DraftGood
  <2> QED  BY <1>2, <2>1, <2>2 DEF DraftPlace, Draft!There
<1>4. /\ draftRequest = [g \in Handlers |-> draftRequest[g]]
      /\ importer \in Handlers \cup {"python"}
  BY DEF DraftInv, DraftPlace
<1>5. ASSUME NEW local \in DraftLocal, Draft!Go(h, local), local.missing = here.missing,
             local.pc \in {"compile", "read", "import", "leave", "done"},
             local.pc = "read" => local.todo # <<>>,
             local.pc = "leave" => local.previous \in Handlers \cup {"python"}
      PROVE  DraftInv'
  <2>1. draftRequest'[h] = local
    BY <1>4, <1>5 DEF Draft!Go
  <2> HIDE DEF here
  <2>2. seen[h] \subseteq seen'[h]
    <3>1. here.pc # "idle" /\ here = draftRequest[h]
      BY <1>1 DEF here
    <3> QED  BY <1>2, <1>5, <2>1, <3>1, DraftWatch
  <2>3. ~here.missing => Draft!Required \subseteq seen[h]
    BY <1>1 DEF DraftGood
  <2>4. DraftGood(local, seen'[h], exists')
    BY <1>5, <2>2, <2>3 DEF DraftGood
  <2> QED  BY <1>2, <1>3, <1>5, <2>4, DraftThread
<1>6. CASE Draft!ParseManifest(h)
  <2> DEFINE content == draftFiles["manifest"]
             manifest == content \in {"good", "wrong"}
             errors == content \in {"wrong", "bad"}
             local == [here EXCEPT !.pc = "compile", !.todo = <<"init", "module">>,
                         !.manifest = manifest, !.errors = errors]
  <2>1. manifest \in Truth /\ errors \in Truth
    <3>1. manifest \in BOOLEAN
      OBVIOUS
    <3>2. errors \in BOOLEAN
      OBVIOUS
    <3> HIDE DEF manifest, errors
    <3> QED  BY <3>1, <3>2, TruthIs
  <2>4. <<"init", "module">> \in Seq(Draft!Files)
    BY DEF Draft!Files, Draft!Required
  <2>2. Draft!Go(h, local)
    BY <1>6 DEF Draft!ParseManifest
  <2> HIDE DEF manifest, errors
  <2>3. local \in DraftLocal /\ local.missing = here.missing /\ local.pc = "compile"
    BY <1>1, <2>1, <2>4 DEF DraftLocal
  <2> HIDE DEF local, here
  <2> QED  BY <1>5, <2>2, <2>3
<1>7. CASE Draft!CompileFile(h)
  <2>1. ASSUME NEW pc \in {"read", "import", "done"}, Draft!Step(h, pc),
               pc = "read" => here.todo # <<>>
        PROVE  DraftInv'
    <3> DEFINE local == [here EXCEPT !.pc = pc]
    <3>1. local \in DraftLocal /\ local.missing = here.missing /\ local.pc = pc
          /\ local.todo = here.todo
      BY <1>1 DEF DraftLocal
    <3>2. Draft!Go(h, local)
      BY <2>1 DEF Draft!Step
    <3>3. pc = "read" => local.todo # <<>>
      BY <2>1, <3>1
    <3> HIDE DEF local, here
    <3> QED  BY <1>5, <3>1, <3>2, <3>3
  <2>2. CASE here.todo = <<>>
    <3>1. Draft!Step(h, "import") \/ Draft!Step(h, "done")
      BY <1>7, <2>2 DEF Draft!CompileFile
    <3> HIDE DEF here
    <3> QED  BY <2>1, <3>1
  <2>3. CASE here.todo # <<>> /\ Draft!There(Head(here.todo))
    BY <1>7, <2>1, <2>3 DEF Draft!CompileFile
  <2>4. CASE here.todo # <<>> /\ ~Draft!There(Head(here.todo))
    <3> DEFINE local == [here EXCEPT !.todo = Tail(here.todo), !.sound = FALSE]
    <3>1. FALSE \in Truth
      BY TruthIs
    <3>2. Tail(here.todo) \in Seq(Draft!Files)
      BY <1>1, <2>4 DEF DraftLocal
    <3>3. Draft!Go(h, local) /\ here.pc = "compile"
      BY <1>7, <2>4 DEF Draft!CompileFile
    <3>4. local \in DraftLocal /\ local.missing = here.missing /\ local.pc = "compile"
      BY <1>1, <3>1, <3>2, <3>3 DEF DraftLocal
    <3> HIDE DEF local, here
    <3> QED  BY <1>5, <3>3, <3>4
  <2> QED  BY <2>2, <2>3, <2>4
<1>10. CASE Draft!ReadPython(h)
  <2>1. here.pc = "read" /\ here.todo # <<>>
    BY <1>1, <1>10 DEF Draft!ReadPython, DraftGood
  <2>2. CASE draftFiles[Head(here.todo)] = Nothing
    <3>1. Draft!Go(h, Draft!Idle)
      BY <1>10, <2>2 DEF Draft!ReadPython
    <3> HIDE DEF here
    <3> QED  BY <1>2, <1>3, <3>1, DraftThread
  <2>3. CASE draftFiles[Head(here.todo)] # Nothing
    <3> DEFINE text == draftFiles[Head(here.todo)]
               errors == here.errors \/ text = "bad"
               sound == Head(here.todo) = "module" /\ text # "bad"
               local == [here EXCEPT !.pc = "compile", !.todo = Tail(here.todo),
                           !.errors = errors, !.sound = sound]
    <3>1. errors \in Truth /\ sound \in Truth
      BY TruthIs
    <3>2. Tail(here.todo) \in Seq(Draft!Files)
      BY <1>1, <2>1 DEF DraftLocal
    <3>3. Draft!Go(h, local)
      BY <1>10, <2>3 DEF Draft!ReadPython
    <3> HIDE DEF errors, sound
    <3>4. local \in DraftLocal /\ local.missing = here.missing /\ local.pc = "compile"
      BY <1>1, <3>1, <3>2 DEF DraftLocal
    <3> HIDE DEF local, here
    <3> QED  BY <1>5, <3>3, <3>4
  <2> QED  BY <2>2, <2>3
<1>8. CASE Draft!EnterImport(h)
  <2> DEFINE errors == here.errors \/ draftFiles["module"] # "good"
             local == [here EXCEPT !.pc = "leave", !.previous = importer, !.errors = errors]
  <2>1. errors \in Truth
    BY TruthIs
  <2>2. Draft!Go(h, local)
    BY <1>8 DEF Draft!EnterImport
  <2> HIDE DEF errors
  <2>3. /\ local \in DraftLocal /\ local.missing = here.missing /\ local.pc = "leave"
        /\ local.previous = importer
    BY <1>1, <1>4, <2>1 DEF DraftLocal
  <2> HIDE DEF local, here
  <2> QED  BY <1>4, <1>5, <2>2, <2>3
<1>9. CASE Draft!LeaveImport(h)
  <2> DEFINE local == [here EXCEPT !.pc = "done", !.previous = Nothing]
  <2>1. local \in DraftLocal /\ local.missing = here.missing /\ local.pc = "done"
    BY <1>1 DEF DraftLocal
  <2>2. Draft!Go(h, local)
    BY <1>9 DEF Draft!LeaveImport
  <2> HIDE DEF local, here
  <2> QED  BY <1>5, <2>1, <2>2
<1> QED  BY <1>6, <1>7, <1>8, <1>9, <1>10

LEMMA DraftConclude == ASSUME DraftInv, NEW h \in Handlers, Draft!Conclude(h) PROVE DraftInv'
<1> DEFINE here  == draftRequest[h]
           local == [here EXCEPT !.pc = "passed"]
<1>1. /\ here \in DraftLocal /\ DraftGood(here, seen[h], exists) /\ here.pc = "done"
      /\ draftRequest = [g \in Handlers |-> draftRequest[g]]
  BY DraftHeld DEF Draft!Conclude, DraftInv
<1>2. /\ UNCHANGED <<exists, draftFiles, importer, seen>>
      /\ IF Draft!Passed(here) THEN Draft!Go(h, local) ELSE Draft!Go(h, Draft!Idle)
  BY DEF Draft!Conclude, Draft!Step
<1>3. /\ local \in DraftLocal /\ local.pc = "passed"
  BY <1>1 DEF DraftLocal
<1>4. Draft!Passed(here) => DraftGood(local, seen[h], exists)
  <2>1. Draft!Passed(here) => Draft!Required \subseteq seen[h]
    <3>1. Draft!Passed(here) => ~here.missing
      BY DEF Draft!Passed
    <3> HIDE DEF local, here
    <3>2. here.pc = "done" /\ ~here.missing => Draft!Required \subseteq seen[h]
      BY <1>1 DEF DraftGood
    <3> QED  BY <1>1, <3>1, <3>2
  <2> HIDE DEF local, here
  <2> QED  BY <1>3, <2>1 DEF DraftGood
<1>5. DraftPlace'
  BY <1>2, DraftQuiet
<1>6. /\ draftRequest' = [g \in Handlers |-> draftRequest'[g]]
      /\ draftRequest'[h] = Draft!Idle \/ (Draft!Passed(here) /\ draftRequest'[h] = local)
      /\ \A g \in Handlers \ {h} : draftRequest'[g] = draftRequest[g]
  <2> HIDE DEF local
  <2> QED  BY <1>1, <1>2 DEF Draft!Go
<1>7. ASSUME NEW g \in Handlers PROVE DraftCall(g)'
  <2> HIDE DEF local, here
  <2> QED  BY <1>2, <1>4, <1>6 DEF DraftInv, DraftCall
<1> QED  BY <1>2, <1>5, <1>6, <1>7 DEF DraftInv

LEMMA DraftStep == ASSUME DraftInv, [Draft!Next]_draftState PROVE DraftInv'
<1>1. CASE UNCHANGED draftState
  BY <1>1 DEF draftState, DraftInv, DraftCall, DraftPlace, Draft!There
<1>2. ASSUME NEW h \in Handlers,
             \/ Draft!Plan(h) \/ Draft!FollowPlan(h)
             \/ (\E force \in BOOLEAN : Draft!Create(h, force))
             \/ Draft!CheckTarget(h) \/ Draft!MakeDirectory(h) \/ Draft!LookAtFile(h)
             \/ Draft!PutFile(h) \/ Draft!Inspect(h) \/ Draft!EndInspection(h)
             \/ Draft!Validate(h) \/ Draft!RequireFile(h) \/ Draft!ParseManifest(h)
             \/ Draft!CompileFile(h) \/ Draft!ReadPython(h) \/ Draft!EnterImport(h)
             \/ Draft!LeaveImport(h)
             \/ Draft!Conclude(h) \/ Draft!Answer(h)
      PROVE  DraftInv'
  BY <1>2, DraftStarts, DraftScaffolds, DraftPut, DraftRequire, DraftChecks, DraftConclude
<1> QED  BY <1>1, <1>2, DraftEdit DEF Draft!Next

\* What passed was whole.
LEMMA DraftWhole == DraftInv => Draft!PassedWasWhole /\ Draft!TypeOK
<1> SUFFICES ASSUME DraftInv PROVE Draft!PassedWasWhole /\ Draft!TypeOK
  OBVIOUS
<1>1. Draft!PassedWasWhole
  BY DraftHeld DEF Draft!PassedWasWhole, DraftGood
<1>2. ASSUME NEW h \in Handlers, draftRequest[h] # Draft!Idle
      PROVE  /\ draftRequest[h].previous \in Handlers \cup {"python", Nothing}
             /\ draftRequest[h].missing \in BOOLEAN /\ draftRequest[h].errors \in BOOLEAN
  <2>1. draftRequest[h] \in DraftLocal
    BY <1>2 DEF DraftInv, DraftCall, DraftGood
  <2> QED  BY <2>1, TruthIs DEF DraftLocal
<1> QED  BY <1>1, <1>2 DEF DraftInv, DraftPlace, Draft!TypeOK

-----------------------------------------------------------------------------
(* AgentFiles: where the tools work, and what makes a directory *)

FileLocal ==
  [pc : {"agent", "root", "file", "save"}, op : File!Operations \cup {"save"},
   place : File!Places \cup {"", Nothing},
   answer : {Nothing, "Not set", "Missing", "Not a directory", "Ready"}]

\* A thread that has read the agent works in one of the places, and one that
\* saves has a place that the form gives.
FileCall(h) ==
  \/ call[h] = File!Idle
  \/ /\ call[h] \in FileLocal
     /\ call[h].pc = "save" => call[h].place \in {"", "mount", "other"}
     /\ call[h].pc \in {"root", "file"} => call[h].place \in File!Places \cap wanted[h]

FileInv ==
  /\ File!TypeOK
  /\ fileCount \in [calls : Nat, changes : Nat]
  /\ call = [h \in Handlers |-> call[h]] /\ wanted = [h \in Handlers |-> wanted[h]]
  /\ \A h \in Handlers : FileCall(h)

\* A directory was made for a write or in the application's own workspace.
FileMakes == File!MakesOnlyToWrite

LEMMA FileIdle == File!Idle.pc = "idle" /\ \A l \in FileLocal : l.pc # "idle"
BY Zenon DEF File!Idle, FileLocal

\* What a thread holds that is not idle.
LEMMA FileHeld ==
  ASSUME FileInv, NEW h \in Handlers, call[h].pc # "idle"
  PROVE  /\ call[h] \in FileLocal /\ call[h] # File!Idle
         /\ call[h].pc = "save" => call[h].place \in {"", "mount", "other"}
         /\ call[h].pc \in {"root", "file"} => call[h].place \in File!Places \cap wanted[h]
BY FileIdle, Zenon DEF FileInv, FileCall

LEMMA CallCounted ==
  ASSUME NEW count \in [calls : Nat, changes : Nat]
  PROVE  [count EXCEPT !.calls = @ + 1] \in [calls : Nat, changes : Nat]
OBVIOUS

LEMMA FileInit == File!Init => FileInv
<1> SUFFICES ASSUME File!Init PROVE FileInv
  OBVIOUS
<1>1. File!TypeOK
  BY Zenon DEF File!Init, File!TypeOK, File!Places, File!Kinds
<1>2. /\ call = [h \in Handlers |-> File!Idle] /\ wanted = [h \in Handlers |-> {}]
      /\ fileCount = [calls |-> 0, changes |-> 0]
  BY Zenon DEF File!Init
<1> QED  BY <1>1, <1>2 DEF FileInv, FileCall

\* A thread's step, by what becomes of its locals.
LEMMA FileThread ==
  ASSUME FileInv, NEW h \in Handlers, NEW local, File!Go(h, local), File!Watch,
         \/ local = File!Idle
         \/ /\ local \in FileLocal
            /\ local.pc = "save" => local.place \in {"", "mount", "other"}
            /\ local.pc \in {"root", "file"} =>
                 /\ local.place \in File!Places
                 /\ \/ local.place = File!WorkspaceOf(root)
                    \/ call[h].pc \in {"root", "file"} /\ local.place = call[h].place
  PROVE  /\ call' = [g \in Handlers |-> call'[g]] /\ wanted' = [g \in Handlers |-> wanted'[g]]
         /\ \A g \in Handlers : FileCall(g)'
         /\ call'[h] = local /\ \A g \in Handlers \ {h} : call'[g] = call[g]
<1>1. /\ call = [g \in Handlers |-> call[g]] /\ \A g \in Handlers : FileCall(g)
      /\ call' = [call EXCEPT ![h] = local]
  BY Zenon DEF FileInv, File!Go
<1>2. /\ call' = [g \in Handlers |-> call'[g]]
      /\ call'[h] = local /\ \A g \in Handlers \ {h} : call'[g] = call[g]
  BY <1>1, Zenon
<1>3. /\ wanted' = [g \in Handlers |-> wanted'[g]]
      /\ \A g \in Handlers :
           wanted'[g] = IF call'[g].pc = "idle" THEN {}
                        ELSE (IF call[g].pc = "idle" THEN {} ELSE wanted[g])
                             \cup {File!WorkspaceOf(root), File!WorkspaceOf(root')}
  BY Zenon DEF File!Watch
<1>4. File!Idle.pc = "idle" /\ \A l \in FileLocal : l.pc # "idle"
  BY FileIdle, Zenon
<1>5. FileCall(h)'
  <2>1. CASE local = File!Idle
    BY <1>2, <2>1 DEF FileCall
  <2>2. CASE local \in FileLocal
    <3>1. ASSUME local.pc \in {"root", "file"} PROVE local.place \in wanted'[h]
      BY <1>1, <1>2, <1>3, <1>4, <2>2, <3>1, Zenon DEF FileCall
    <3> QED  BY <1>2, <1>4, <2>2, <3>1, Zenon DEF FileCall
  <2> QED  BY <2>1, <2>2, Zenon
<1>6. ASSUME NEW g \in Handlers \ {h} PROVE FileCall(g)'
  BY <1>1, <1>2, <1>3, <1>4, <1>6, Zenon DEF FileCall
<1> QED  BY <1>2, <1>3, <1>5, <1>6, Zenon

LEMMA FileStart ==
  ASSUME FileInv, NEW h \in Handlers, NEW op \in File!Operations,
         NEW place \in {"", "mount", "other"}, File!CallTool(h, op) \/ File!Save(h, place)
  PROVE  FileInv' /\ FileMakes
<1>0. fileCount \in [calls : Nat, changes : Nat] /\ File!TypeOK
  BY Zenon DEF FileInv
<1>1. PICK local : /\ File!Start(h, local) /\ local \in FileLocal
                   /\ local.pc \in {"agent", "save"}
                   /\ local.pc = "save" => local.place \in {"", "mount", "other"}
  <2>1. CASE File!CallTool(h, op)
    <3> DEFINE local == File!At("agent", op, Nothing)
    <3>1. local \in FileLocal /\ local.pc = "agent"
      BY Zenon DEF File!At, FileLocal
    <3>2. File!Start(h, local)
      BY <2>1, Zenon DEF File!CallTool
    <3> HIDE DEF local
    <3> QED  BY <3>1, <3>2, Zenon
  <2>2. CASE File!Save(h, place)
    <3> DEFINE says == IF place = "" THEN "Not set" ELSE File!Status(place)
               local  == [File!At("save", "save", place) EXCEPT !.answer = says]
    <3>1. says \in {"Not set", "Missing", "Not a directory", "Ready"}
      <4>1. place # "" => kind[place] \in {"missing", "file", "directory"}
        BY <1>0, Zenon DEF File!TypeOK, File!Places, File!Kinds
      <4> QED  BY <4>1, Zenon DEF File!Status
    <3> HIDE DEF says
    <3>2. local \in FileLocal /\ local.pc = "save" /\ local.place = place
      BY <3>1, Zenon DEF File!At, FileLocal, File!Places
    <3>3. File!Start(h, local)
      BY <2>2, Zenon DEF File!Save, says
    <3> QED  BY <3>2, <3>3, Zenon
  <2> QED  BY <2>1, <2>2, Zenon
<1>2. /\ File!Go(h, local) /\ File!Watch /\ UNCHANGED <<root, kind, agentFiles>>
      /\ fileCount' \in [calls : Nat, changes : Nat]
  <2>1. /\ File!Go(h, local) /\ File!Watch /\ UNCHANGED <<root, kind, agentFiles>>
        /\ fileCount' = [fileCount EXCEPT !.calls = @ + 1]
    BY <1>1, Zenon DEF File!Start
  <2>2. fileCount' \in [calls : Nat, changes : Nat]
    BY <2>1, CallCounted, Zenon DEF FileInv
  <2> QED  BY <2>1, <2>2, Zenon
<1>3. File!TypeOK' /\ FileMakes
  BY <1>0, <1>2, Zenon DEF File!TypeOK, FileMakes, File!MakesOnlyToWrite
<1> QED  BY <1>1, <1>2, <1>3, FileThread, Zenon DEF FileInv

LEMMA FileReadAgent ==
  ASSUME FileInv, NEW h \in Handlers, File!ReadAgent(h)
  PROVE  FileInv' /\ FileMakes
<1> DEFINE local == [call[h] EXCEPT !.pc = "root", !.place = File!WorkspaceOf(root)]
<1>1. call[h] \in FileLocal /\ root \in File!Places \cup {"", Nothing}
  BY FileHeld, Zenon DEF FileInv, File!ReadAgent, File!TypeOK
<1>6. CASE root = Nothing
  <2>1. /\ File!Go(h, File!Idle) /\ File!Watch /\ UNCHANGED <<root, kind, agentFiles, fileCount>>
    BY <1>6 DEF File!ReadAgent, File!Quiet
  <2>2. FileMakes
    BY <2>1, Zenon DEF FileInv, File!TypeOK, FileMakes, File!MakesOnlyToWrite
  <2> QED  BY <2>1, <2>2, FileThread, Zenon DEF FileInv, File!TypeOK
<1> SUFFICES ASSUME root # Nothing PROVE FileInv' /\ FileMakes
  BY <1>6
<1>2. File!WorkspaceOf(root) \in File!Places
  BY <1>1, Zenon DEF File!WorkspaceOf, File!Places
<1>3. /\ local \in FileLocal /\ local.pc = "root" /\ local.place = File!WorkspaceOf(root)
  BY <1>1, <1>2, Zenon DEF FileLocal
<1>4. /\ File!Go(h, local) /\ File!Watch /\ UNCHANGED <<root, kind, agentFiles, fileCount>>
  BY DEF File!ReadAgent, File!Quiet
<1> HIDE DEF local
<1>5. FileMakes
  BY <1>4, Zenon DEF FileInv, File!TypeOK, FileMakes, File!MakesOnlyToWrite
<1> QED  BY <1>2, <1>3, <1>4, <1>5, FileThread, Zenon DEF FileInv, File!TypeOK

LEMMA FilePrepare ==
  ASSUME FileInv, NEW h \in Handlers, File!PrepareRoot(h)
  PROVE  FileInv' /\ FileMakes
<1> DEFINE place == call[h].place
           made  == kind[place] = "missing" /\ File!MakesRoot(call[h].op, place)
           local == [call[h] EXCEPT !.pc = "file"]
<1>1. /\ call[h] \in FileLocal /\ call[h].pc = "root" /\ place \in File!Places
      /\ File!TypeOK /\ call[h] # File!Idle
  BY FileHeld, Zenon DEF FileInv, File!PrepareRoot
<1>2. /\ local \in FileLocal /\ local.pc = "file" /\ local.place = place
      /\ local # call[h] /\ File!Idle # call[h]
  BY <1>1, Zenon DEF FileLocal
<1>3. /\ kind' = IF made THEN [kind EXCEPT ![place] = "directory"] ELSE kind
      /\ File!Go(h, local) \/ File!Go(h, File!Idle)
      /\ File!Watch /\ UNCHANGED <<root, agentFiles, fileCount>>
  BY DEF File!PrepareRoot
<1>4. File!TypeOK'
  BY <1>1, <1>3, Zenon DEF File!TypeOK, File!Kinds
<1>5. /\ call' = [g \in Handlers |-> call'[g]] /\ wanted' = [g \in Handlers |-> wanted'[g]]
      /\ \A g \in Handlers : FileCall(g)'
      /\ call'[h] # call[h]
  <2> HIDE DEF local, place
  <2>1. CASE File!Go(h, local)
    BY <1>1, <1>2, <1>3, <2>1, FileThread, Zenon DEF place
  <2>2. CASE File!Go(h, File!Idle)
    BY <1>1, <1>2, <1>3, <2>2, FileThread, Zenon
  <2> QED  BY <1>3, <2>1, <2>2
<1>6. FileMakes
  <2> SUFFICES ASSUME NEW p \in File!Places, kind[p] = "missing", kind'[p] = "directory"
               PROVE  call[h].place = p /\ (call[h].op = "write" \/ p = "default")
    BY <1>1, <1>5 DEF FileMakes, File!MakesOnlyToWrite
  <2>1. made /\ p = place
    BY <1>1, <1>3, Zenon DEF File!TypeOK
  <2> QED  BY <2>1 DEF File!MakesRoot, File!WithinApp
<1> QED  BY <1>3, <1>4, <1>5, <1>6 DEF FileInv

LEMMA FileRefused ==
  ASSUME FileInv, NEW h \in Handlers, File!RootRefused(h)
  PROVE  FileInv' /\ FileMakes
<1>1. /\ File!Go(h, File!Idle) /\ File!Watch /\ UNCHANGED <<root, kind, agentFiles, fileCount>>
  BY DEF File!RootRefused, File!Quiet
<1>2. FileMakes
  BY <1>1, Zenon DEF FileInv, File!TypeOK, FileMakes, File!MakesOnlyToWrite
<1> QED  BY <1>1, <1>2, FileThread, Zenon DEF FileInv, File!TypeOK

LEMMA FileWork ==
  ASSUME FileInv, NEW h \in Handlers, File!WorkOnFile(h)
  PROVE  FileInv' /\ FileMakes
<1> DEFINE place == call[h].place
<1>1. /\ call[h] \in FileLocal /\ call[h].pc = "file" /\ place \in File!Places
      /\ File!TypeOK /\ call[h] # File!Idle
  BY FileHeld, Zenon DEF FileInv, File!WorkOnFile
<1>2. File!Go(h, File!Idle) /\ File!Watch /\ UNCHANGED <<root, fileCount>>
  BY DEF File!WorkOnFile
<1>3. /\ call' = [g \in Handlers |-> call'[g]] /\ wanted' = [g \in Handlers |-> wanted'[g]]
      /\ \A g \in Handlers : FileCall(g)'
      /\ call'[h] # call[h]
  BY <1>1, <1>2, FileThread, Zenon
<1>4. \/ UNCHANGED <<kind, agentFiles>>
      \/ /\ call[h].op = "write" /\ kind' = [kind EXCEPT ![place] = "directory"]
         /\ \E f \in File!FileNames : agentFiles' = [agentFiles EXCEPT ![place] = @ \cup {f}]
      \/ /\ UNCHANGED kind
         /\ \E f \in File!FileNames : agentFiles' = [agentFiles EXCEPT ![place] = @ \ {f}]
  BY DEF File!WorkOnFile
<1>5. File!TypeOK'
  <2> HIDE DEF place
  <2>1. /\ root' \in File!Places \cup {"", Nothing} /\ kind' \in [File!Places -> File!Kinds]
    BY <1>1, <1>2, <1>4, Zenon DEF File!TypeOK, File!Kinds
  <2>3. agentFiles' \in [File!Places -> SUBSET File!FileNames]
    <3>1. agentFiles[place] \in SUBSET File!FileNames
      BY <1>1, Zenon DEF File!TypeOK
    <3>2. PICK new \in SUBSET File!FileNames :
            agentFiles' = agentFiles \/ agentFiles' = [agentFiles EXCEPT ![place] = new]
      <4>1. ASSUME NEW f \in File!FileNames
            PROVE  agentFiles[place] \cup {f} \in SUBSET File!FileNames
                   /\ agentFiles[place] \ {f} \in SUBSET File!FileNames
        BY <3>1
      <4> QED  BY <1>4, <3>1, <4>1
    <3> QED  BY <1>1, <3>2, Zenon DEF File!TypeOK
  <2>2. ASSUME NEW p \in File!Places, agentFiles'[p] # {} PROVE kind'[p] = "directory"
    BY <1>1, <1>4, <2>2, Zenon DEF File!TypeOK
  <2> QED  BY <2>1, <2>2, <2>3, Zenon DEF File!TypeOK
<1>6. FileMakes
  <2> SUFFICES ASSUME NEW p \in File!Places, kind[p] = "missing", kind'[p] = "directory"
               PROVE  call[h].place = p /\ call[h].op = "write"
    BY <1>1, <1>3 DEF FileMakes, File!MakesOnlyToWrite
  <2> QED  BY <1>1, <1>4, Zenon DEF File!TypeOK
<1> QED  BY <1>2, <1>3, <1>5, <1>6 DEF FileInv

LEMMA FileWrite ==
  ASSUME FileInv, NEW h \in Handlers, File!WriteConfiguration(h)
  PROVE  FileInv' /\ FileMakes
<1>1. /\ call[h] \in FileLocal /\ call[h].place \in {"", "mount", "other"} /\ File!TypeOK
  BY FileHeld, Zenon DEF FileInv, File!WriteConfiguration
<1>2. /\ File!Go(h, File!Idle) /\ File!Watch /\ UNCHANGED <<kind, agentFiles, fileCount>>
      /\ root' = Nothing \/ root' = File!WorkspaceOf(call[h].place)
  BY DEF File!WriteConfiguration
<1>3. File!TypeOK' /\ FileMakes
  <2>1. File!WorkspaceOf(call[h].place) \in File!Places
    BY <1>1, Zenon DEF File!WorkspaceOf, File!Places
  <2> QED  BY <1>1, <1>2, <2>1, Zenon DEF File!TypeOK, FileMakes, File!MakesOnlyToWrite
<1> QED  BY <1>2, <1>3, FileThread, Zenon DEF FileInv

LEMMA FileChange ==
  ASSUME FileInv,
         \/ UNCHANGED fileState
         \/ \E place \in File!Places, to \in File!Kinds : File!ChangePlace(place, to)
  PROVE  FileInv' /\ FileMakes
<1>0. File!TypeOK /\ fileCount \in [calls : Nat, changes : Nat]
  BY DEF FileInv
<1>1. CASE UNCHANGED fileState
  BY <1>0, <1>1, Zenon DEF fileState, FileInv, FileCall, File!TypeOK, FileMakes, File!MakesOnlyToWrite
<1>2. ASSUME NEW place \in File!Places, NEW to \in File!Kinds, File!ChangePlace(place, to)
      PROVE  FileInv' /\ FileMakes
  <2>1. /\ fileCount' \in [calls : Nat, changes : Nat]
        /\ fileCount'.changes # fileCount.changes
        /\ kind' = [kind EXCEPT ![place] = to]
        /\ agentFiles' = [agentFiles EXCEPT ![place] = {}]
        /\ UNCHANGED <<root, call>> /\ File!Watch
    BY <1>0, <1>2 DEF File!ChangePlace
  <2>2. File!TypeOK'
    BY <1>0, <2>1, Zenon DEF File!TypeOK
  <2>3. /\ wanted' = [g \in Handlers |-> wanted'[g]]
        /\ \A g \in Handlers : call[g].pc # "idle" => wanted[g] \subseteq wanted'[g]
    BY <2>1 DEF File!Watch
  <2>4. ASSUME NEW g \in Handlers PROVE FileCall(g)'
    BY <2>1, <2>3, Zenon DEF FileInv, FileCall
  <2> QED  BY <2>1, <2>2, <2>3, <2>4 DEF FileInv, FileMakes, File!MakesOnlyToWrite
<1> QED  BY <1>1, <1>2

LEMMA FileDelete == ASSUME FileInv, File!DeleteAgent PROVE FileInv' /\ FileMakes
<1>0. File!TypeOK /\ fileCount \in [calls : Nat, changes : Nat]
  BY DEF FileInv
<1>1. /\ fileCount' \in [calls : Nat, changes : Nat]
      /\ root' = Nothing /\ UNCHANGED <<kind, agentFiles, call>> /\ File!Watch
  BY <1>0 DEF File!DeleteAgent
<1>2. File!TypeOK' /\ FileMakes
  BY <1>0, <1>1, Zenon DEF File!TypeOK, FileMakes, File!MakesOnlyToWrite
<1>3. /\ wanted' = [g \in Handlers |-> wanted'[g]]
      /\ \A g \in Handlers : call[g].pc # "idle" => wanted[g] \subseteq wanted'[g]
  BY <1>1 DEF File!Watch
<1>4. ASSUME NEW g \in Handlers PROVE FileCall(g)'
  BY <1>1, <1>3, Zenon DEF FileInv, FileCall
<1> QED  BY <1>1, <1>2, <1>3, <1>4 DEF FileInv

LEMMA FileStep == ASSUME FileInv, [File!Next]_fileState PROVE FileInv' /\ FileMakes
<1>1. ASSUME NEW h \in Handlers, NEW op \in File!Operations, File!CallTool(h, op)
      PROVE  FileInv' /\ FileMakes
  BY <1>1, FileStart, Zenon
<1>2. ASSUME NEW h \in Handlers, NEW place \in {"", "mount", "other"}, File!Save(h, place)
      PROVE  FileInv' /\ FileMakes
  <2>1. "list" \in File!Operations
    BY Zenon DEF File!Operations
  <2> QED  BY <1>2, <2>1, FileStart, Zenon
<1>3. ASSUME NEW h \in Handlers,
             File!ReadAgent(h) \/ File!PrepareRoot(h) \/ File!RootRefused(h)
               \/ File!WorkOnFile(h) \/ File!WriteConfiguration(h)
      PROVE  FileInv' /\ FileMakes
  BY <1>3, FileReadAgent, FilePrepare, FileRefused, FileWork, FileWrite
<1> QED  BY <1>1, <1>2, <1>3, FileChange, FileDelete, Zenon DEF File!Next

\* Tools work where the agent's workspace was during the call.
LEMMA FilesWhere == FileInv => File!WorksWhereConfigured
BY FileHeld, Zenon DEF File!WorksWhereConfigured

-----------------------------------------------------------------------------
(* Definitions by recursion: an equation for the value at i in terms of the *)
(* one before has a solution, and what each step keeps holds all along.     *)

Solves(g, n, base, step) == g[0] = base /\ \A i \in 1 .. n : g[i] = step[i][g[i - 1]]

LEMMA Iterated ==
  ASSUME NEW n \in Nat, NEW S, NEW base \in S, NEW step \in [1 .. n -> [S -> S]]
  PROVE  \E g \in [0 .. n -> S] : Solves(g, n, base, step)
<1> DEFINE without == {k \in 0 .. n : ~\E g \in [0 .. k -> S] : Solves(g, k, base, step)}
<1>0. without \in SUBSET Nat /\ n \in 0 .. n
  OBVIOUS
<1>1. SUFFICES ASSUME without # {} PROVE FALSE
  <2>1. without = {} => \E g \in [0 .. n -> S] : Solves(g, n, base, step)
    BY <1>0
  <2> QED  BY <2>1
<1>2. PICK m \in without : \A k \in without : m <= k
  <2> HIDE DEF without
  <2> QED  BY <1>0, <1>1, Least
<1>3. m # 0
  <2> DEFINE g == [i \in 0 .. 0 |-> base]
  <2>1. g \in [0 .. 0 -> S] /\ Solves(g, 0, base, step)
    BY DEF Solves
  <2> HIDE DEF g
  <2> QED  BY <2>1
<1>4. m \in 1 .. n /\ m - 1 \in 0 .. n /\ m - 1 \notin without
  BY <1>2, <1>3
<1>5. PICK g \in [0 .. m - 1 -> S] : Solves(g, m - 1, base, step)
  BY <1>4
<1> DEFINE h == [i \in 0 .. m |-> IF i = m THEN step[m][g[m - 1]] ELSE g[i]]
<1>6. step[m][g[m - 1]] \in S
  BY <1>4
<1>7. h \in [0 .. m -> S]
  BY <1>4, <1>6
<1>8. /\ h[m] = step[m][g[m - 1]] /\ \A i \in 0 .. m - 1 : h[i] = g[i]
  BY <1>4
<1> HIDE DEF h
<1>9. Solves(h, m, base, step)
  <2>1. h[0] = base
    BY <1>4, <1>5, <1>8 DEF Solves
  <2>2. ASSUME NEW i \in 1 .. m PROVE h[i] = step[i][h[i - 1]]
    <3>1. i - 1 \in 0 .. m - 1 /\ h[i - 1] = g[i - 1]
      BY <1>4, <1>8
    <3>2. CASE i = m
      BY <1>8, <3>1, <3>2
    <3>3. CASE i # m
      <4>1. i \in 1 .. m - 1 /\ i \in 0 .. m - 1
        BY <1>4, <3>3
      <4> QED  BY <1>5, <1>8, <3>1, <4>1 DEF Solves
    <3> QED  BY <3>2, <3>3
  <2> QED  BY <2>1, <2>2 DEF Solves
<1> QED  BY <1>2, <1>7, <1>9

LEMMA AllAlong ==
  ASSUME NEW n \in Nat, NEW f, NEW S, f[0] \in S,
         \A i \in 1 .. n : f[i - 1] \in S => f[i] \in S
  PROVE  \A i \in 0 .. n : f[i] \in S
<1> DEFINE out == {i \in 0 .. n : f[i] \notin S}
<1>0. out \in SUBSET Nat
  OBVIOUS
<1>1. SUFFICES ASSUME out # {} PROVE FALSE
  OBVIOUS
<1>2. PICK m \in out : \A k \in out : m <= k
  <2> HIDE DEF out
  <2> QED  BY <1>0, <1>1, Least
<1>3. m \in 1 .. n /\ m - 1 \in 0 .. n /\ m - 1 \notin out
  BY <1>2
<1> QED  BY <1>2, <1>3

-----------------------------------------------------------------------------
(* Knowledge: which paths and how much of what is there                     *)

\* Paths by names only.
Inside(parts) == Seq(parts \ {".."}) \cup {Nothing}

LEMMA Descends ==
  ASSUME NEW P, NEW sofar \in Inside(P), NEW entry \in P
  PROVE  Lookup!Descend(sofar, entry) \in Inside(P)
<1> DEFINE up == ".."  Q == P \ {up}
<1>1. CASE sofar = Nothing
  BY <1>1 DEF Lookup!Descend, Inside
<1>2. CASE sofar # Nothing /\ entry = up
  <2>1. sofar \in Seq(Q)
    BY <1>2 DEF Inside
  <2>2. sofar # <<>> => Lookup!Front(sofar) \in Seq(Q)
    BY <2>1 DEF Lookup!Front
  <2> QED  BY <1>2, <2>2 DEF Lookup!Descend, Inside
<1>3. CASE sofar # Nothing /\ entry # up
  <2>1. sofar \in Seq(Q) /\ entry \in Q
    BY <1>3 DEF Inside
  <2>2. Append(sofar, entry) \in Seq(Q)
    BY <2>1
  <2> QED  BY <1>3, <2>2 DEF Lookup!Descend, Inside
<1> QED  BY <1>1, <1>2, <1>3

\* What any path, however long, is normalized to.
LEMMA NormalizedInside ==
  ASSUME NEW path, NEW P, Lookup!WithoutAlias(path) \in Seq(P)
  PROVE  Lookup!Normalized(path) \in Inside(P)
<1> DEFINE parts == Lookup!WithoutAlias(path)
           n     == Len(parts)
           none  == <<>>
           all   == Inside(P)
           Walks(b) == b = [i \in 0 .. n |->
                              IF i = 0 THEN none ELSE Lookup!Descend(b[i - 1], parts[i])]
           below == CHOOSE b : Walks(b)
<1>1. Lookup!Normalized(path) = below[n]
  BY DEF Lookup!Normalized
<1>2. n \in Nat /\ \A i \in 1 .. n : parts[i] \in P
  OBVIOUS
<1>3. none \in all
  BY DEF Inside
<1>4. \A s \in all : \A p \in P : Lookup!Descend(s, p) \in all
  BY Descends
<1> HIDE DEF parts, n, none, all
<1>5. \E b : Walks(b)
  <2> DEFINE step == [i \in 1 .. n |-> [s \in all |-> Lookup!Descend(s, parts[i])]]
  <2>1. step \in [1 .. n -> [all -> all]]
    BY <1>2, <1>4
  <2>2. \A i \in 1 .. n : \A s \in all : step[i][s] = Lookup!Descend(s, parts[i])
    OBVIOUS
  <2> HIDE DEF step
  <2>3. PICK g \in [0 .. n -> all] : Solves(g, n, none, step)
    BY <1>2, <1>3, <2>1, Iterated
  <2>4. ASSUME NEW i \in 1 .. n PROVE g[i] = Lookup!Descend(g[i - 1], parts[i])
    BY <1>2, <2>2, <2>3 DEF Solves
  <2>5. Walks(g)
    BY <1>2, <2>3, <2>4 DEF Solves
  <2> QED  BY <2>5
<1>6. Walks(below)
  BY <1>5
<1>7. below[0] = none /\ \A i \in 1 .. n : below[i] = Lookup!Descend(below[i - 1], parts[i])
  <2> HIDE DEF below
  <2>1. \A i \in 0 .. n : below[i] = IF i = 0 THEN none ELSE Lookup!Descend(below[i - 1], parts[i])
    BY <1>6
  <2> HIDE DEF Walks
  <2> QED  BY <1>2, <2>1
<1> HIDE DEF Walks, below
<1>8. \A i \in 0 .. n : below[i] \in all
  <2>1. n \in Nat /\ below[0] \in all
    BY <1>2, <1>3, <1>7
  <2>2. \A i \in 1 .. n : below[i - 1] \in all => below[i] \in all
    BY <1>2, <1>7, <1>4
  <2> QED  BY <2>1, <2>2, AllAlong
<1> QED  BY <1>1, <1>2, <1>8 DEF all

-----------------------------------------------------------------------------
(* ViewContract: what the validation and the headless renderer say of any   *)
(* document, and which ids the shorthand gives                              *)

ViewId == [base : {<<"a">>, <<"b">>, <<"p">>, <<"">>}, marks : Seq(Nat)]

\* A condition's operands, and those of the conditions among them, are sequences.
ConditionShaped(c) ==
  \A inner \in View!Inside(c) : \E S : inner.args \in Seq(S)

\* Each component of a tree has an id, and a condition to be shown under.
TreeShaped(tree) ==
  /\ \E S : tree \in Seq(S)
  /\ \A i \in 1 .. Len(tree) :
       /\ "id" \in DOMAIN tree[i] /\ "shown" \in DOMAIN tree[i]
       /\ tree[i].id \in ViewId /\ ConditionShaped(tree[i].shown)

ActsShaped(actions) ==
  /\ \E S : actions \in Seq(S)
  /\ \A i \in 1 .. Len(actions) : ConditionShaped(actions[i].enabled)

DocumentShaped(d) ==
  /\ DOMAIN d = {"named", "version", "needs", "sources", "state", "actions", "effects", "poll", "tree"}
  /\ TreeShaped(d.tree) /\ ActsShaped(d.actions) /\ ConditionShaped(d.poll.stop)

\* A legacy view is translated when the declared one is done with, and refused
\* for what is wrong with its translation.
Translated ==
  /\ verdict = "written" => legacy = <<>>
  /\ legacy # <<>> =>
       /\ legacy[1] \in View!LegacyViews
       /\ verdict = "refused" => View!Issues(View!LegacyDocument(legacy[1])) # {}

ViewInv == View!TypeOK /\ DocumentShaped(view) /\ Translated

\* What is among the findings of the validation.
SourceFinding(d, s, x) ==
  \/ x = "source kind" /\ s.kind \notin View!SourceKinds
  \/ x = "operation" /\ ~s.told
  \/ x = "dependency" /\ ~(s.depends \subseteq View!Known(d))
  \/ x = "nested binding" /\ ~(s.nested \subseteq View!Bindable(d))
  \/ x = "source refresh" /\ View!PolicyFails(s.refresh)
  \/ x = "condition" /\ View!ConditionFails(d, s.refresh.stop)

StateFinding(s, x) == x = "state" /\ (s.scope \notin View!StateScopes \/ s.type \notin View!ValueTypes)

ActionFinding(d, a, x) ==
  \/ x = "intent" /\ ~a.told
  \/ x = "scope" /\ a.scope \notin View!ActionScopes
  \/ x = "command" /\ ~a.target
  \/ x = "nested binding" /\ ~(a.nested \subseteq View!Bindable(d))
  \/ x = "condition" /\ View!ConditionFails(d, a.enabled)
  \/ x = "action effect" /\ \E e \in a.effects : View!EffectFails(d, e)

ComponentFinding(d, c, x) ==
  \/ x = "no id" /\ c.id = View!Id("")
  \/ x = "component type" /\ c.type \notin View!ComponentTypes
  \/ x = "binding source" /\ c.binding # "" /\ c.binding \notin View!Known(d)
  \/ x = "binding" /\ c.binding = "" /\ c.type \in View!NeedsBinding
  \/ x = "action key" /\ c.action # "" /\ c.action \notin View!Collected(d.actions)
  \/ x = "field key" /\ c.type = "field" /\ c.key = ""
  \/ x = "field type" /\ c.type = "field" /\ c.input \notin View!FieldTypes
  \/ x = "nested binding" /\ ~(c.nested \subseteq View!Bindable(d))
  \/ x = "condition" /\ View!ConditionFails(d, c.shown)

FrameFinding(d, x) ==
  \/ x = "name" /\ ~d.named
  \/ x = "version" /\ d.version # View!Version
  \/ x = "key" /\ ~(View!Keyed(d.sources) /\ View!Keyed(d.state) /\ View!Keyed(d.actions))
  \/ x = "effect" /\ \E e \in View!Range1(d.effects) : View!EffectFails(d, e)
  \/ x = "refresh" /\ View!PolicyFails(d.poll)
  \/ x = "condition" /\ View!ConditionFails(d, d.poll.stop)
  \/ x = "presentation" /\ d.tree = <<>>
  \/ x = "root" /\ d.tree # <<>> /\ d.tree[1].type # "page"
  \/ x = "component id" /\ ~View!Unique([i \in 1 .. Len(d.tree) |-> d.tree[i].id])

Finding(d, x) ==
  \/ \E i \in 1 .. Len(d.sources) : SourceFinding(d, d.sources[i], x)
  \/ \E i \in 1 .. Len(d.state) : StateFinding(d.state[i], x)
  \/ \E i \in 1 .. Len(d.actions) : ActionFinding(d, d.actions[i], x)
  \/ \E i \in 1 .. Len(d.tree) : ComponentFinding(d, d.tree[i], x)
  \/ FrameFinding(d, x)

LEMMA IssuesOfState ==
  ASSUME NEW s, NEW x PROVE x \in View!StateIssues(s) <=> StateFinding(s, x)
BY Zenon DEF View!StateIssues, View!Kinds, StateFinding

LEMMA IssuesAre ==
  ASSUME NEW d, NEW x
  PROVE  x \in View!Issues(d) <=> Finding(d, x)
<1>1. \A s : x \in View!SourceIssues(d, s) <=> SourceFinding(d, s, x)
  BY Zenon DEF View!SourceIssues, View!Kinds, SourceFinding
<1>2. \A a : x \in View!ActionIssues(d, a) <=> ActionFinding(d, a, x)
  BY Zenon DEF View!ActionIssues, View!Kinds, ActionFinding
<1>3. ASSUME NEW c PROVE x \in View!ComponentIssues(d, c) <=> ComponentFinding(d, c, x)
  <2> DEFINE s1 == View!Kinds("no id", c.id = View!Id(""))
             s2 == View!Kinds("component type", c.type \notin View!ComponentTypes)
             s3 == View!Kinds("binding source", c.binding # "" /\ c.binding \notin View!Known(d))
             s4 == View!Kinds("binding", c.binding = "" /\ c.type \in View!NeedsBinding)
             s5 == View!Kinds("action key", c.action # "" /\ c.action \notin View!Collected(d.actions))
             s6 == View!Kinds("field key", c.type = "field" /\ c.key = "")
             s7 == View!Kinds("field type", c.type = "field" /\ c.input \notin View!FieldTypes)
             s8 == View!Kinds("nested binding", ~(c.nested \subseteq View!Bindable(d)))
             s9 == View!Kinds("condition", View!ConditionFails(d, c.shown))
  <2>1. View!ComponentIssues(d, c) = s1 \cup s2 \cup s3 \cup s4 \cup s5 \cup s6 \cup s7 \cup s8 \cup s9
    BY DEF View!ComponentIssues
  <2>2. /\ x \in s1 <=> x = "no id" /\ c.id = View!Id("")
        /\ x \in s2 <=> x = "component type" /\ c.type \notin View!ComponentTypes
        /\ x \in s3 <=> x = "binding source" /\ c.binding # "" /\ c.binding \notin View!Known(d)
        /\ x \in s4 <=> x = "binding" /\ c.binding = "" /\ c.type \in View!NeedsBinding
        /\ x \in s5 <=> x = "action key" /\ c.action # "" /\ c.action \notin View!Collected(d.actions)
        /\ x \in s6 <=> x = "field key" /\ c.type = "field" /\ c.key = ""
        /\ x \in s7 <=> x = "field type" /\ c.type = "field" /\ c.input \notin View!FieldTypes
        /\ x \in s8 <=> x = "nested binding" /\ ~(c.nested \subseteq View!Bindable(d))
        /\ x \in s9 <=> x = "condition" /\ View!ConditionFails(d, c.shown)
    <3>1. x \in s1 <=> x = "no id" /\ c.id = View!Id("")
      BY Zenon DEF View!Kinds, s1
    <3>2. x \in s2 <=> x = "component type" /\ c.type \notin View!ComponentTypes
      BY Zenon DEF View!Kinds, s2
    <3>3. x \in s3 <=> x = "binding source" /\ c.binding # "" /\ c.binding \notin View!Known(d)
      BY Zenon DEF View!Kinds, s3
    <3>4. x \in s4 <=> x = "binding" /\ c.binding = "" /\ c.type \in View!NeedsBinding
      BY Zenon DEF View!Kinds, s4
    <3>5. x \in s5 <=> x = "action key" /\ c.action # "" /\ c.action \notin View!Collected(d.actions)
      BY Zenon DEF View!Kinds, s5
    <3>6. x \in s6 <=> x = "field key" /\ c.type = "field" /\ c.key = ""
      BY Zenon DEF View!Kinds, s6
    <3>7. x \in s7 <=> x = "field type" /\ c.type = "field" /\ c.input \notin View!FieldTypes
      BY Zenon DEF View!Kinds, s7
    <3>8. x \in s8 <=> x = "nested binding" /\ ~(c.nested \subseteq View!Bindable(d))
      BY Zenon DEF View!Kinds, s8
    <3>9. x \in s9 <=> x = "condition" /\ View!ConditionFails(d, c.shown)
      BY Zenon DEF View!Kinds, s9
    <3> HIDE DEF s1, s2, s3, s4, s5, s6, s7, s8, s9
    <3> QED  BY <3>1, <3>2, <3>3, <3>4, <3>5, <3>6, <3>7, <3>8, <3>9, Zenon
  <2> HIDE DEF s1, s2, s3, s4, s5, s6, s7, s8, s9
  <2>3. x \in View!ComponentIssues(d, c) <=> x \in s1 \/ x \in s2 \/ x \in s3 \/ x \in s4 \/ x \in s5 \/ x \in s6 \/ x \in s7 \/ x \in s8 \/ x \in s9
    BY <2>1
  <2> QED  BY <2>2, <2>3, Zenon DEF ComponentFinding
<1> DEFINE sources == UNION {View!SourceIssues(d, d.sources[i]) : i \in 1 .. Len(d.sources)}
           states  == UNION {View!StateIssues(d.state[i]) : i \in 1 .. Len(d.state)}
           acts    == UNION {View!ActionIssues(d, d.actions[i]) : i \in 1 .. Len(d.actions)}
           trees   == UNION {View!ComponentIssues(d, d.tree[i]) : i \in 1 .. Len(d.tree)}
           frame   == View!Kinds("name", ~d.named)
                      \cup View!Kinds("version", d.version # View!Version)
                      \cup View!Kinds("key", ~(View!Keyed(d.sources) /\ View!Keyed(d.state) /\ View!Keyed(d.actions)))
                      \cup View!Kinds("effect", \E e \in View!Range1(d.effects) : View!EffectFails(d, e))
                      \cup View!Kinds("refresh", View!PolicyFails(d.poll))
                      \cup View!Kinds("condition", View!ConditionFails(d, d.poll.stop))
                      \cup View!Kinds("presentation", d.tree = <<>>)
                      \cup View!Kinds("root", d.tree # <<>> /\ d.tree[1].type # "page")
                      \cup View!Kinds("component id", ~View!Unique([i \in 1 .. Len(d.tree) |-> d.tree[i].id]))
<1>4. x \in sources <=> \E i \in 1 .. Len(d.sources) : x \in View!SourceIssues(d, d.sources[i])
  OBVIOUS
<1>5. x \in states <=> \E i \in 1 .. Len(d.state) : x \in View!StateIssues(d.state[i])
  OBVIOUS
<1>6. x \in acts <=> \E i \in 1 .. Len(d.actions) : x \in View!ActionIssues(d, d.actions[i])
  OBVIOUS
<1>7. x \in trees <=> \E i \in 1 .. Len(d.tree) : x \in View!ComponentIssues(d, d.tree[i])
  OBVIOUS
<1>8. View!Issues(d) = sources \cup states \cup acts \cup trees \cup frame
  BY DEF View!Issues
<1>9. x \in frame <=> FrameFinding(d, x)
  <2> DEFINE s1 == View!Kinds("name", ~d.named)
             s2 == View!Kinds("version", d.version # View!Version)
             s3 == View!Kinds("key", ~(View!Keyed(d.sources) /\ View!Keyed(d.state) /\ View!Keyed(d.actions)))
             s4 == View!Kinds("effect", \E e \in View!Range1(d.effects) : View!EffectFails(d, e))
             s5 == View!Kinds("refresh", View!PolicyFails(d.poll))
             s6 == View!Kinds("condition", View!ConditionFails(d, d.poll.stop))
             s7 == View!Kinds("presentation", d.tree = <<>>)
             s8 == View!Kinds("root", d.tree # <<>> /\ d.tree[1].type # "page")
             s9 == View!Kinds("component id", ~View!Unique([i \in 1 .. Len(d.tree) |-> d.tree[i].id]))
  <2>2. /\ x \in s1 <=> x = "name" /\ ~d.named
        /\ x \in s2 <=> x = "version" /\ d.version # View!Version
        /\ x \in s3 <=> x = "key" /\ ~(View!Keyed(d.sources) /\ View!Keyed(d.state) /\ View!Keyed(d.actions))
        /\ x \in s4 <=> x = "effect" /\ \E e \in View!Range1(d.effects) : View!EffectFails(d, e)
        /\ x \in s5 <=> x = "refresh" /\ View!PolicyFails(d.poll)
        /\ x \in s6 <=> x = "condition" /\ View!ConditionFails(d, d.poll.stop)
        /\ x \in s7 <=> x = "presentation" /\ d.tree = <<>>
        /\ x \in s8 <=> x = "root" /\ d.tree # <<>> /\ d.tree[1].type # "page"
        /\ x \in s9 <=> x = "component id" /\ ~View!Unique([i \in 1 .. Len(d.tree) |-> d.tree[i].id])
    <3>1. x \in s1 <=> x = "name" /\ ~d.named
      BY Zenon DEF View!Kinds, s1
    <3>2. x \in s2 <=> x = "version" /\ d.version # View!Version
      BY Zenon DEF View!Kinds, s2
    <3>3. x \in s3 <=> x = "key" /\ ~(View!Keyed(d.sources) /\ View!Keyed(d.state) /\ View!Keyed(d.actions))
      BY Zenon DEF View!Kinds, s3
    <3>4. x \in s4 <=> x = "effect" /\ \E e \in View!Range1(d.effects) : View!EffectFails(d, e)
      BY Zenon DEF View!Kinds, s4
    <3>5. x \in s5 <=> x = "refresh" /\ View!PolicyFails(d.poll)
      BY Zenon DEF View!Kinds, s5
    <3>6. x \in s6 <=> x = "condition" /\ View!ConditionFails(d, d.poll.stop)
      BY Zenon DEF View!Kinds, s6
    <3>7. x \in s7 <=> x = "presentation" /\ d.tree = <<>>
      BY Zenon DEF View!Kinds, s7
    <3>8. x \in s8 <=> x = "root" /\ d.tree # <<>> /\ d.tree[1].type # "page"
      BY Zenon DEF View!Kinds, s8
    <3>9. x \in s9 <=> x = "component id" /\ ~View!Unique([i \in 1 .. Len(d.tree) |-> d.tree[i].id])
      BY Zenon DEF View!Kinds, s9
    <3> HIDE DEF s1, s2, s3, s4, s5, s6, s7, s8, s9
    <3> QED  BY <3>1, <3>2, <3>3, <3>4, <3>5, <3>6, <3>7, <3>8, <3>9, Zenon
  <2>1. frame = s1 \cup s2 \cup s3 \cup s4 \cup s5 \cup s6 \cup s7 \cup s8 \cup s9
    OBVIOUS
  <2> HIDE DEF frame, s1, s2, s3, s4, s5, s6, s7, s8, s9
  <2>3. x \in frame <=> x \in s1 \/ x \in s2 \/ x \in s3 \/ x \in s4 \/ x \in s5 \/ x \in s6 \/ x \in s7 \/ x \in s8 \/ x \in s9
    BY <2>1
  <2> QED  BY <2>2, <2>3, Zenon DEF FrameFinding
<1> HIDE DEF sources, states, acts, trees, frame
<1>10. x \in View!Issues(d) <=>
         x \in sources \/ x \in states \/ x \in acts \/ x \in trees \/ x \in frame
  BY <1>8
<1> QED  BY <1>1, <1>2, <1>3, <1>4, <1>5, <1>6, <1>7, <1>9, <1>10, IssuesOfState, Zenon DEF Finding

\* What is among the reports of the headless renderer.
SourceReported(env, s, x) ==
  \/ x = "source kind" /\ s.kind \notin View!SourceKinds
  \/ x = "operation" /\ ~s.told
  \/ x = "dependency" /\ ~(s.depends \subseteq env.given)
  \/ x = "unresolved" /\ s.key \notin env.given

ActionReported(d, env, a, x) ==
  \/ x = "scope" /\ a.scope \notin View!ActionScopes
  \/ x = "command" /\ ~a.target
  \/ x = "action effect" /\ View!Outcome(d, env, a.enabled) = "true"
                         /\ \E e \in a.effects : View!Dangling(d, e)

ComponentReported(d, c, x) ==
  \/ x = "component type" /\ c.type \notin View!ComponentTypes
  \/ x = "binding source" /\ c.binding # ""
                          /\ c.binding \notin View!KeysOf(d.sources) \cup View!KeysOf(d.state)
  \/ x = "action key" /\ c.action # "" /\ c.action \notin View!KeysOf(d.actions)
  \/ x = "field type" /\ c.type = "field" /\ c.input \notin View!FieldTypes

FrameReported(d, x) ==
  \/ x = "version" /\ d.version # View!Version
  \/ x = "effect" /\ \E e \in View!Range1(d.effects) :
                       e[1] \notin View!EffectTypes \/ View!Dangling(d, e)
  \/ x = "refresh" /\ View!PolicyFails(d.poll)
  \/ x = "presentation" /\ d.tree = <<>>

Reported(d, env, x) ==
  \/ \E i \in 1 .. Len(d.sources) : SourceReported(env, d.sources[i], x)
  \/ \E i \in 1 .. Len(d.state) : StateFinding(d.state[i], x)
  \/ \E i \in 1 .. Len(d.actions) : ActionReported(d, env, d.actions[i], x)
  \/ \E i \in 1 .. Len(d.tree) : ComponentReported(d, d.tree[i], x)
  \/ FrameReported(d, x)

LEMMA HeadlessAre ==
  ASSUME NEW d, NEW x, NEW env
  PROVE  x \in View!Headless(d, env) <=> Reported(d, env, x)
<1>1. \A s : x \in View!HeadlessSource(env, s) <=> SourceReported(env, s, x)
  BY Zenon DEF View!HeadlessSource, View!Kinds, SourceReported
<1>2. \A a : x \in View!HeadlessAction(d, env, a) <=> ActionReported(d, env, a, x)
  BY Zenon DEF View!HeadlessAction, View!Kinds, ActionReported
<1>3. \A c : x \in View!HeadlessComponent(d, c) <=> ComponentReported(d, c, x)
  BY Zenon DEF View!HeadlessComponent, View!Kinds, ComponentReported
<1> DEFINE sources == UNION {View!HeadlessSource(env, d.sources[i]) : i \in 1 .. Len(d.sources)}
           states  == UNION {View!StateIssues(d.state[i]) : i \in 1 .. Len(d.state)}
           acts    == UNION {View!HeadlessAction(d, env, d.actions[i]) : i \in 1 .. Len(d.actions)}
           trees   == UNION {View!HeadlessComponent(d, d.tree[i]) : i \in 1 .. Len(d.tree)}
           frame   == View!Kinds("version", d.version # View!Version)
                      \cup View!Kinds("effect", \E e \in View!Range1(d.effects) : e[1] \notin View!EffectTypes \/ View!Dangling(d, e))
                      \cup View!Kinds("refresh", View!PolicyFails(d.poll))
                      \cup View!Kinds("presentation", d.tree = <<>>)
<1>4. x \in sources <=> \E i \in 1 .. Len(d.sources) : x \in View!HeadlessSource(env, d.sources[i])
  OBVIOUS
<1>5. x \in states <=> \E i \in 1 .. Len(d.state) : x \in View!StateIssues(d.state[i])
  OBVIOUS
<1>6. x \in acts <=> \E i \in 1 .. Len(d.actions) : x \in View!HeadlessAction(d, env, d.actions[i])
  OBVIOUS
<1>7. x \in trees <=> \E i \in 1 .. Len(d.tree) : x \in View!HeadlessComponent(d, d.tree[i])
  OBVIOUS
<1>8. View!Headless(d, env) = sources \cup states \cup acts \cup trees \cup frame
  BY DEF View!Headless
<1>9. x \in frame <=> FrameReported(d, x)
  <2> DEFINE s1 == View!Kinds("version", d.version # View!Version)
             s2 == View!Kinds("effect", \E e \in View!Range1(d.effects) : e[1] \notin View!EffectTypes \/ View!Dangling(d, e))
             s3 == View!Kinds("refresh", View!PolicyFails(d.poll))
             s4 == View!Kinds("presentation", d.tree = <<>>)
  <2>2. /\ x \in s1 <=> x = "version" /\ d.version # View!Version
        /\ x \in s2 <=> x = "effect" /\ \E e \in View!Range1(d.effects) : e[1] \notin View!EffectTypes \/ View!Dangling(d, e)
        /\ x \in s3 <=> x = "refresh" /\ View!PolicyFails(d.poll)
        /\ x \in s4 <=> x = "presentation" /\ d.tree = <<>>
    <3>1. x \in s1 <=> x = "version" /\ d.version # View!Version
      BY Zenon DEF View!Kinds, s1
    <3>2. x \in s2 <=> x = "effect" /\ \E e \in View!Range1(d.effects) : e[1] \notin View!EffectTypes \/ View!Dangling(d, e)
      BY Zenon DEF View!Kinds, s2
    <3>3. x \in s3 <=> x = "refresh" /\ View!PolicyFails(d.poll)
      BY Zenon DEF View!Kinds, s3
    <3>4. x \in s4 <=> x = "presentation" /\ d.tree = <<>>
      BY Zenon DEF View!Kinds, s4
    <3> HIDE DEF s1, s2, s3, s4
    <3> QED  BY <3>1, <3>2, <3>3, <3>4, Zenon
  <2>1. frame = s1 \cup s2 \cup s3 \cup s4
    OBVIOUS
  <2> HIDE DEF frame, s1, s2, s3, s4
  <2>3. x \in frame <=> x \in s1 \/ x \in s2 \/ x \in s3 \/ x \in s4
    BY <2>1
  <2> QED  BY <2>2, <2>3, Zenon DEF FrameReported
<1> HIDE DEF sources, states, acts, trees, frame
<1>10. x \in View!Headless(d, env) <=>
         x \in sources \/ x \in states \/ x \in acts \/ x \in trees \/ x \in frame
  BY <1>8
<1> QED  BY <1>1, <1>2, <1>3, <1>4, <1>5, <1>6, <1>7, <1>9, <1>10, IssuesOfState, Zenon DEF Reported

\* A condition that the validation lets pass raises only if it is loose.
LEMMA FirstIs ==
  ASSUME NEW passed, NEW outcomes, View!FirstBut(passed, outcomes) = "raises", passed # "raises",
         Len(outcomes) \in Nat
  PROVE  \E i \in 1 .. Len(outcomes) : outcomes[i] = "raises"
<1> DEFINE Leads(i) == outcomes[i] # passed /\ \A j \in 1 .. i - 1 : outcomes[j] = passed
<1>1. PICK k \in 1 .. Len(outcomes) : outcomes[k] # passed
  BY DEF View!FirstBut
<1>2. \E i \in 1 .. Len(outcomes) : Leads(i)
  <2> DEFINE others == {i \in 1 .. Len(outcomes) : outcomes[i] # passed}
  <2>1. others \in SUBSET Nat /\ others # {}
    BY <1>1
  <2>2. PICK m \in others : \A i \in others : m <= i
    <3> HIDE DEF others
    <3> QED  BY <2>1, Least
  <2>3. \A j \in 1 .. m - 1 : j \in 1 .. Len(outcomes) /\ j \notin others
    BY <2>2
  <2> QED  BY <2>2, <2>3
<1>3. outcomes[CHOOSE i \in 1 .. Len(outcomes) : Leads(i)] = "raises"
  BY <1>1 DEF View!FirstBut
<1> QED  BY <1>2, <1>3

LEMMA InsideAre ==
  ASSUME NEW c
  PROVE  /\ c \in View!Inside(c)
         /\ \A i \in 1 .. Len(c.args) : c.args[i].of = "condition" => c.args[i] \in View!Inside(c)
BY DEF View!Inside, View!Range1

\* An operator that is not misused has an operand, or two to compare.
LEMMA UsedIs ==
  ASSUME NEW op, NEW args, ~View!Misused(op, Len(args)), Len(args) \in Nat,
         args = <<>> => Len(args) = 0
  PROVE  /\ ~(op \in View!Unary /\ args = <<>>)
         /\ ~(op \in View!Comparisons /\ Len(args) < 2)
         /\ op \in View!Compound \cup {"not"} => args # <<>>
<1>1. op \in View!Unary => Len(args) = 1
  BY Zenon DEF View!Misused
<1>2. op \in View!Comparisons => Len(args) = 2
  BY Zenon DEF View!Misused
<1>3. op \in View!Compound => ~(Len(args) < 1)
  BY Zenon DEF View!Misused
<1>4. "not" \in View!Unary
  BY DEF View!Unary
<1> QED  BY <1>1, <1>2, <1>3, <1>4

\* What is no condition, and a condition that combines such, cannot be evaluated.
LEMMA OperandRaises ==
  ASSUME NEW d, NEW env, NEW c, ConditionShaped(c), c # View!Always, ~View!ConditionFails(d, c),
         View!Combines(c), NEW i \in 1 .. Len(c.args),
         (IF c.args[i].of = "condition" THEN View!Innermost(d, env, c.args[i]) ELSE "raises") = "raises"
  PROVE  View!Loose(c)
<1>1. CASE c.args[i].of # "condition"
  BY <1>1 DEF View!Loose, View!Range1
<1>2. CASE c.args[i].of = "condition"
  <2> DEFINE a == c.args[i]
  <2>1. a \in View!Inside(c) /\ a \in View!Range1(c.args)
    BY <1>2, InsideAre DEF View!Range1
  <2>2. ~View!Misused(a.op, Len(a.args))
    BY <2>1 DEF View!ConditionFails
  <2>3. Len(a.args) \in Nat /\ (a.args = <<>> <=> Len(a.args) = 0)
    <3>1. PICK S : a.args \in Seq(S)
      BY <2>1 DEF ConditionShaped
    <3> QED  BY <3>1
  <2>4. View!Innermost(d, env, a) = "raises"
    BY <1>2
  <2> HIDE DEF a
  <2>5. View!Combines(a)
    <3>1. CASE a.op \in View!Compound \cup {"not"}
      <4>1. a.args # <<>>
        BY <2>2, <2>3, <3>1, UsedIs
      <4> QED  BY <3>1, <4>1 DEF View!Combines
    <3>2. CASE a.op \notin View!Compound \cup {"not"}
      <4>1. ~(a.op \in View!Unary /\ a.args = <<>>) /\ ~(a.op \in View!Comparisons /\ Len(a.args) < 2)
        BY <2>2, <2>3, UsedIs
      <4>2. View!Innermost(d, env, a) # "raises"
        BY <3>2, <4>1 DEF View!Innermost, View!Evaluated, View!Verdict, View!Compound
      <4> QED  BY <2>4, <4>2
    <3> QED  BY <3>1, <3>2
  <2> QED  BY <1>2, <2>1, <2>5 DEF View!Loose, a
<1> QED  BY <1>1, <1>2

LEMMA OnlyLooseRaises ==
  ASSUME NEW d, NEW env, NEW c, ConditionShaped(c),
         View!Outcome(d, env, c) = "raises", ~View!ConditionFails(d, c)
  PROVE  View!Loose(c)
<1> DEFINE outcomes == [i \in 1 .. Len(c.args) |->
                          IF c.args[i].of = "condition" THEN View!Innermost(d, env, c.args[i])
                          ELSE "raises"]
<1>1. View!Evaluated(d, env, c, outcomes) = "raises"
  BY DEF View!Outcome
<1>2. Len(c.args) \in Nat /\ (c.args = <<>> <=> Len(c.args) = 0)
  <2>1. PICK S : c.args \in Seq(S)
    BY InsideAre DEF ConditionShaped
  <2> QED  BY <2>1
<1>3. Len(outcomes) = Len(c.args)
  BY <1>2
<1>4. c # View!Always
  <2>1. ASSUME c = View!Always PROVE FALSE
    <3>1. c.op = "" /\ c.args = <<>>
      BY <2>1 DEF View!Always, View!Condition
    <3> HIDE DEF outcomes
    <3>2. View!Evaluated(d, env, c, outcomes) = "true"
      BY <3>1 DEF View!Evaluated, View!Unary, View!Comparisons
    <3> QED  BY <1>1, <3>2
  <2> QED  BY <2>1
<1>5. ~View!Misused(c.op, Len(c.args))
  BY <1>4, InsideAre DEF View!ConditionFails
<1>6. View!Combines(c)
  <2>1. CASE c.op \in View!Compound \cup {"not"}
    <3>1. c.args # <<>>
      BY <1>2, <1>5, <2>1, UsedIs
    <3> QED  BY <2>1, <3>1 DEF View!Combines
  <2>2. CASE c.op \notin View!Compound \cup {"not"}
    <3>1. ~(c.op \in View!Unary /\ c.args = <<>>) /\ ~(c.op \in View!Comparisons /\ Len(c.args) < 2)
      BY <1>2, <1>5, UsedIs
    <3> HIDE DEF outcomes
    <3>2. View!Evaluated(d, env, c, outcomes) # "raises"
      BY <2>2, <3>1 DEF View!Evaluated, View!Verdict, View!Compound
    <3> QED  BY <1>1, <3>2
  <2> QED  BY <2>1, <2>2
<1>7. \E i \in 1 .. Len(c.args) : outcomes[i] = "raises"
  <2> HIDE DEF outcomes
  <2>1. CASE c.op = "not"
    <3>1. c.args # <<>> /\ 1 \in 1 .. Len(c.args)
      BY <1>2, <1>6 DEF View!Combines
    <3>2. View!Negated(outcomes[1]) = "raises"
      BY <1>1, <2>1, <3>1 DEF View!Evaluated, View!Unary, View!Comparisons
    <3>3. outcomes[1] = "raises"
      BY <3>2 DEF View!Negated
    <3> QED  BY <3>1, <3>3
  <2>2. CASE c.op = "all"
    <3>1. View!FirstBut("true", outcomes) = "raises"
      BY <1>1, <2>2 DEF View!Evaluated, View!Unary, View!Comparisons
    <3> QED  BY <1>2, <1>3, <3>1, FirstIs
  <2>3. CASE c.op = "any"
    <3>1. View!FirstBut("false", outcomes) = "raises"
      BY <1>1, <2>3 DEF View!Evaluated, View!Unary, View!Comparisons
    <3> QED  BY <1>2, <1>3, <3>1, FirstIs
  <2> QED  BY <1>6, <2>1, <2>2, <2>3 DEF View!Combines, View!Compound
<1>8. PICK i \in 1 .. Len(c.args) :
        (IF c.args[i].of = "condition" THEN View!Innermost(d, env, c.args[i]) ELSE "raises") = "raises"
  BY <1>7
<1> QED  BY <1>4, <1>6, <1>8, OperandRaises

-----------------------------------------------------------------------------
\* Keys without blanks around them are collected as they are.
LEMMA PlainCollected ==
  ASSUME NEW s, \A key \in View!KeysOf(s) : key # "" /\ View!Stripped(key) = key
  PROVE  View!Collected(s) = View!KeysOf(s)
<1>1. \A key \in View!KeysOf(s) : key \in View!Collected(s)
  BY DEF View!Collected
<1>2. \A key \in View!Collected(s) : key \in View!KeysOf(s)
  BY DEF View!Collected
<1> QED  BY <1>1, <1>2

LEMMA PlainLooked ==
  ASSUME NEW d, View!PlainKeys(d)
  PROVE  /\ View!Collected(d.sources) = View!KeysOf(d.sources)
         /\ View!Collected(d.state) = View!KeysOf(d.state)
         /\ View!Collected(d.actions) = View!KeysOf(d.actions)
         /\ View!Known(d) = View!KeysOf(d.sources) \cup View!KeysOf(d.state)
         /\ \A e : View!EffectFails(d, e) <=> e[1] \notin View!EffectTypes \/ View!Dangling(d, e)
<1>1. /\ View!Collected(d.sources) = View!KeysOf(d.sources)
      /\ View!Collected(d.state) = View!KeysOf(d.state)
      /\ View!Collected(d.actions) = View!KeysOf(d.actions)
  BY PlainCollected DEF View!PlainKeys
<1>2. View!Known(d) = View!KeysOf(d.sources) \cup View!KeysOf(d.state)
  BY <1>1 DEF View!Known
<1>3. \A e : View!EffectFails(d, e) <=> e[1] \notin View!EffectTypes \/ View!Dangling(d, e)
  BY <1>1, Zenon DEF View!EffectFails, View!Dangling
<1> QED  BY <1>1, <1>2, <1>3

\* What the headless renderer reports, the validation finds, given a value for
\* every source, but for dependencies.
LEMMA ReportedIsFound ==
  ASSUME NEW d, View!PlainKeys(d), NEW env, env.given = View!KeysOf(d.sources),
         NEW x, Reported(d, env, x), x # "dependency"
  PROVE  Finding(d, x)
<1>1. ASSUME NEW i \in 1 .. Len(d.sources), SourceReported(env, d.sources[i], x)
      PROVE  SourceFinding(d, d.sources[i], x)
  <2>1. d.sources[i].key \in env.given
    BY DEF View!KeysOf
  <2> QED  BY <1>1, <2>1, Zenon DEF SourceReported, SourceFinding
<1>2. ASSUME NEW i \in 1 .. Len(d.actions), ActionReported(d, env, d.actions[i], x)
      PROVE  ActionFinding(d, d.actions[i], x)
  BY <1>2, PlainLooked, Zenon DEF ActionReported, ActionFinding
<1>3. ASSUME NEW i \in 1 .. Len(d.tree), ComponentReported(d, d.tree[i], x)
      PROVE  ComponentFinding(d, d.tree[i], x)
  <2>1. View!Known(d) = View!KeysOf(d.sources) \cup View!KeysOf(d.state)
        /\ View!Collected(d.actions) = View!KeysOf(d.actions)
    BY PlainLooked
  <2> QED  BY <1>3, <2>1, Zenon DEF ComponentReported, ComponentFinding
<1>4. ASSUME FrameReported(d, x) PROVE FrameFinding(d, x)
  BY <1>4, PlainLooked, Zenon DEF FrameReported, FrameFinding
<1> QED  BY <1>1, <1>2, <1>3, <1>4, Zenon DEF Reported, Finding

\* What the validation finds, the headless renderer reports or does not look at.
LEMMA FoundIsReported ==
  ASSUME NEW d, View!PlainKeys(d), NEW env, env.given = View!KeysOf(d.sources),
         NEW x, Finding(d, x), x \notin View!Unseen
  PROVE  Reported(d, env, x)
<1>0. /\ x \notin {"name", "key", "root", "no id", "component id", "binding"}
      /\ x \notin {"field key", "nested binding", "condition", "source refresh", "intent", "action effect"}
  BY DEF View!Unseen
<1>n. /\ x # "name" /\ x # "key" /\ x # "root" /\ x # "no id" /\ x # "component id"
      /\ x # "binding" /\ x # "field key" /\ x # "nested binding" /\ x # "condition"
      /\ x # "source refresh" /\ x # "intent" /\ x # "action effect"
  BY <1>0
<1>1. ASSUME NEW i \in 1 .. Len(d.sources), SourceFinding(d, d.sources[i], x)
      PROVE  SourceReported(env, d.sources[i], x)
  <2>1. x = "dependency" => ~(d.sources[i].depends \subseteq env.given)
    <3>1. env.given \subseteq View!Known(d)
      BY PlainLooked
    <3>2. x = "dependency" => ~(d.sources[i].depends \subseteq View!Known(d))
      BY <1>1, Zenon DEF SourceFinding
    <3> QED  BY <3>1, <3>2
  <2> QED  BY <1>1, <1>n, <2>1, Zenon DEF SourceFinding, SourceReported
<1>2. ASSUME NEW i \in 1 .. Len(d.actions), ActionFinding(d, d.actions[i], x)
      PROVE  ActionReported(d, env, d.actions[i], x)
  BY <1>2, <1>n, Zenon DEF ActionReported, ActionFinding
<1>3. ASSUME NEW i \in 1 .. Len(d.tree), ComponentFinding(d, d.tree[i], x)
      PROVE  ComponentReported(d, d.tree[i], x)
  <2>1. View!Known(d) = View!KeysOf(d.sources) \cup View!KeysOf(d.state)
        /\ View!Collected(d.actions) = View!KeysOf(d.actions)
    BY PlainLooked
  <2> QED  BY <1>3, <1>n, <2>1, Zenon DEF ComponentReported, ComponentFinding
<1>4. ASSUME FrameFinding(d, x) PROVE FrameReported(d, x)
  BY <1>4, <1>n, PlainLooked, Zenon DEF FrameReported, FrameFinding
<1> QED  BY <1>1, <1>2, <1>3, <1>4, Zenon DEF Reported, Finding

\* The conditions a document evaluates.
ConditionsShaped(d) ==
  /\ \A i \in 1 .. Len(d.actions) : ConditionShaped(d.actions[i].enabled)
  /\ \A i \in 1 .. Len(d.tree) : ConditionShaped(d.tree[i].shown)
  /\ ConditionShaped(d.poll.stop)

\* validation.py and headless_renderer.py, on any document whose keys have no
\* blanks around them, with any sources, states, actions, effects and tree, and
\* in any environment that has a value for each source: they differ only as
\* ContractsAgree says.
THEOREM ContractsAgreeOn ==
  ASSUME NEW d, View!PlainKeys(d), ConditionsShaped(d),
         NEW env, env.given = View!KeysOf(d.sources)
  PROVE  View!Agree(d, env)
<1>1. ASSUME View!Issues(d) = {}
      PROVE  /\ View!Headless(d, env) \subseteq {"dependency"}
             /\ "dependency" \in View!Headless(d, env) =>
                  \E s \in View!Range1(d.sources) : s.depends \cap View!KeysOf(d.state) # {}
             /\ View!Raises(d, env) => \E c \in View!Evaluates(d) : View!Loose(c)
  <2>1. \A x : ~Finding(d, x)
    BY <1>1, IssuesAre
  <2>2. ASSUME NEW x \in View!Headless(d, env) PROVE x = "dependency"
    BY <2>1, HeadlessAre, ReportedIsFound
  <2>3. ASSUME "dependency" \in View!Headless(d, env)
        PROVE  \E s \in View!Range1(d.sources) : s.depends \cap View!KeysOf(d.state) # {}
    <3>1. Reported(d, env, "dependency")
      BY <2>3, HeadlessAre
    <3>2. PICK i \in 1 .. Len(d.sources) : ~(d.sources[i].depends \subseteq env.given)
      BY <3>1, Zenon DEF Reported, SourceReported, StateFinding, ActionReported, ComponentReported, FrameReported
    <3>3. d.sources[i].depends \subseteq View!Known(d)
      <4>1. ~SourceFinding(d, d.sources[i], "dependency")
        BY <2>1 DEF Finding
      <4> QED  BY <4>1 DEF SourceFinding
    <3>4. d.sources[i].depends \cap View!KeysOf(d.state) # {}
      BY <3>2, <3>3, PlainLooked
    <3> QED  BY <3>4 DEF View!Range1
  <2>4. ASSUME View!Raises(d, env) PROVE \E c \in View!Evaluates(d) : View!Loose(c)
    <3>1. CASE \E a \in View!Range1(d.actions) : View!Outcome(d, env, a.enabled) = "raises"
      <4>1. PICK i \in 1 .. Len(d.actions) : View!Outcome(d, env, d.actions[i].enabled) = "raises"
        BY <3>1 DEF View!Range1
      <4>2. ~ActionFinding(d, d.actions[i], "condition")
        BY <2>1 DEF Finding
      <4>3. ~View!ConditionFails(d, d.actions[i].enabled)
        BY <4>2, Zenon DEF ActionFinding
      <4>4. ConditionShaped(d.actions[i].enabled)
        BY DEF ConditionsShaped
      <4>5. View!Loose(d.actions[i].enabled)
        BY <4>1, <4>3, <4>4, OnlyLooseRaises
      <4> QED  BY <4>5 DEF View!Evaluates, View!Range1
    <3>2. CASE \E c \in View!Range1(d.tree) : View!Outcome(d, env, c.shown) = "raises"
      <4>1. PICK i \in 1 .. Len(d.tree) : View!Outcome(d, env, d.tree[i].shown) = "raises"
        BY <3>2 DEF View!Range1
      <4>2. ~ComponentFinding(d, d.tree[i], "condition")
        BY <2>1 DEF Finding
      <4>3. ~View!ConditionFails(d, d.tree[i].shown)
        BY <4>2, Zenon DEF ComponentFinding
      <4>4. ConditionShaped(d.tree[i].shown)
        BY DEF ConditionsShaped
      <4>5. View!Loose(d.tree[i].shown)
        BY <4>1, <4>3, <4>4, OnlyLooseRaises
      <4> QED  BY <4>5 DEF View!Evaluates, View!Range1
    <3>3. CASE View!Outcome(d, [env EXCEPT !.capable = FALSE], d.poll.stop) = "raises"
      <4>1. ~FrameFinding(d, "condition")
        BY <2>1 DEF Finding
      <4>2. ~View!ConditionFails(d, d.poll.stop)
        BY <4>1, Zenon DEF FrameFinding
      <4>3. ConditionShaped(d.poll.stop)
        BY DEF ConditionsShaped
      <4>4. View!Loose(d.poll.stop)
        BY <3>3, <4>2, <4>3, OnlyLooseRaises
      <4> QED  BY <4>4 DEF View!Evaluates
    <3> QED  BY <2>4, <3>1, <3>2, <3>3 DEF View!Raises
  <2> QED  BY <2>2, <2>3, <2>4
<1>2. ASSUME View!Headless(d, env) = {}
      PROVE  /\ View!Issues(d) \subseteq View!Unseen
             /\ "action effect" \in View!Issues(d) =>
                  \E a \in View!Range1(d.actions) :
                    View!Outcome(d, env, a.enabled) # "true" \/ \E e \in a.effects : e[1] \notin View!EffectTypes
  <2>1. \A x : ~Reported(d, env, x)
    BY <1>2, HeadlessAre
  <2>2. ASSUME NEW x \in View!Issues(d), x \notin View!Unseen PROVE FALSE
    BY <2>1, <2>2, IssuesAre, FoundIsReported
  <2>3. ASSUME "action effect" \in View!Issues(d)
        PROVE  \E a \in View!Range1(d.actions) :
                 View!Outcome(d, env, a.enabled) # "true" \/ \E e \in a.effects : e[1] \notin View!EffectTypes
    <3>1. Finding(d, "action effect")
      BY <2>3, IssuesAre
    <3>2. PICK i \in 1 .. Len(d.actions) : \E e \in d.actions[i].effects : View!EffectFails(d, e)
      BY <3>1, Zenon DEF Finding, SourceFinding, StateFinding, ActionFinding, ComponentFinding, FrameFinding
    <3>3. ~ActionReported(d, env, d.actions[i], "action effect")
      BY <2>1 DEF Reported
    <3>4. \/ View!Outcome(d, env, d.actions[i].enabled) # "true"
          \/ \E e \in d.actions[i].effects : e[1] \notin View!EffectTypes
      BY <3>2, <3>3, PlainLooked, Zenon DEF ActionReported
    <3> QED  BY <3>4 DEF View!Range1
  <2> QED  BY <2>2, <2>3
<1> QED  BY <1>1, <1>2, Zenon DEF View!Agree

LEMMA CountIs == ASSUME NEW S PROVE View!Cardinality(S) = Cardinality(S)
BY DEF View!Cardinality, Cardinality

LEMMA NextMark == ASSUME NEW m \in Nat, NEW n \in Nat PROVE Append(<<>>, m) # <<>> /\ (Append(<<>>, m) = Append(<<>>, n) => m = n)
<1>1. <<>> \in Seq(Nat)
  OBVIOUS
<1>2. \A k \in Nat : Len(Append(<<>>, k)) = 1 /\ Append(<<>>, k)[1] = k
  BY <1>1
<1> QED  BY <1>2

LEMMA UpToFinite == ASSUME NEW n \in Nat, NEW k \in 1 .. n PROVE IsFiniteSet(1 .. k - 1)
<1>1. k - 1 \in Int
  OBVIOUS
<1> QED  BY <1>1, FS_Interval

\* A component's id gets the number of those before it that have the id, plus one.
LEMMA RenamedIs ==
  ASSUME NEW tree, TreeShaped(tree), NEW i \in 1 .. Len(tree), tree[i].id.marks = <<>>
  PROVE  LET before == Cardinality({j \in 1 .. i - 1 : tree[j].id = tree[i].id})
         IN  /\ before \in Nat
             /\ View!Renamed(tree, i).base = tree[i].id.base
             /\ View!Renamed(tree, i).marks = IF before = 0 THEN <<>> ELSE Append(<<>>, before + 1)
<1> DEFINE same == {j \in 1 .. i - 1 : tree[j].id = tree[i].id}
           before == Cardinality(same)
<1>1. before \in Nat
  <2>1. Len(tree) \in Nat
    BY DEF TreeShaped
  <2>2. IsFiniteSet(1 .. i - 1)
    BY <2>1, UpToFinite
  <2>3. same \subseteq 1 .. i - 1
    OBVIOUS
  <2> HIDE DEF same
  <2> QED  BY <2>2, <2>3, FS_Subset, FS_CardinalityType
<1>2. View!Renamed(tree, i) = IF before = 0 THEN tree[i].id
                              ELSE [tree[i].id EXCEPT !.marks = Append(@, before + 1)]
  BY CountIs DEF View!Renamed
<1>3. tree[i].id \in ViewId
  BY DEF TreeShaped
<1> HIDE DEF before
<1> QED  BY <1>1, <1>2, <1>3 DEF ViewId, before

LEMMA IdsAre ==
  ASSUME NEW B, NEW M, NEW x \in [base : B, marks : M], NEW y \in [base : B, marks : M],
         x.base = y.base, x.marks = y.marks
  PROVE  x = y
OBVIOUS

LEMMA RenamedApart ==
  ASSUME NEW tree, TreeShaped(tree), \A i \in 1 .. Len(tree) : tree[i].id.marks = <<>>,
         NEW i \in 1 .. Len(tree), NEW j \in 1 .. Len(tree), i < j
  PROVE  View!Renamed(tree, i) # View!Renamed(tree, j)
<1> DEFINE alike(k) == {o \in 1 .. k - 1 : tree[o].id = tree[k].id}
           before(k) == Cardinality(alike(k))
<1>1. SUFFICES ASSUME View!Renamed(tree, i) = View!Renamed(tree, j) PROVE FALSE
  OBVIOUS
<1>2. /\ before(i) \in Nat /\ before(j) \in Nat
      /\ tree[i].id.base = tree[j].id.base
      /\ (IF before(i) = 0 THEN <<>> ELSE Append(<<>>, before(i) + 1))
           = IF before(j) = 0 THEN <<>> ELSE Append(<<>>, before(j) + 1)
  <2>1. ASSUME NEW k \in 1 .. Len(tree)
        PROVE  /\ before(k) \in Nat /\ View!Renamed(tree, k).base = tree[k].id.base
               /\ View!Renamed(tree, k).marks
                    = IF before(k) = 0 THEN <<>> ELSE Append(<<>>, before(k) + 1)
    BY RenamedIs
  <2> HIDE DEF before
  <2> QED  BY <1>1, <2>1
<1>3. before(i) = before(j)
  <2> HIDE DEF before
  <2> QED  BY <1>2, NextMark
<1>4. tree[i].id = tree[j].id
  <2>1. tree[i].id \in ViewId /\ tree[j].id \in ViewId
    BY DEF TreeShaped
  <2>2. tree[i].id.base = tree[j].id.base
    BY <1>2
  <2>3. tree[i].id.marks = tree[j].id.marks
    OBVIOUS
  <2> QED  BY <2>1, <2>2, <2>3, IdsAre DEF ViewId
<1>5. alike(i) \cup {i} \subseteq alike(j) /\ i \notin alike(i)
  BY <1>4 DEF TreeShaped
<1>6. IsFiniteSet(alike(i)) /\ IsFiniteSet(alike(j))
  <2>1. ASSUME NEW k \in 1 .. Len(tree) PROVE IsFiniteSet(alike(k))
    <3>1. Len(tree) \in Nat
      BY DEF TreeShaped
    <3>2. IsFiniteSet(1 .. k - 1)
      BY <3>1, UpToFinite
    <3>3. alike(k) \subseteq 1 .. k - 1
      OBVIOUS
    <3> HIDE DEF alike
    <3> QED  BY <3>2, <3>3, FS_Subset
  <2> QED  BY <2>1
<1> HIDE DEF alike
<1>7. before(i) + 1 <= before(j)
  BY <1>2, <1>5, <1>6, FS_AddElement, FS_Subset
<1> QED  BY <1>2, <1>3, <1>7

LEMMA PreparedIds ==
  ASSUME NEW tree, TreeShaped(tree)
  PROVE  LET made == View!Prepared(tree)
         IN  /\ Len(made) = Len(tree)
             /\ \A i \in 1 .. Len(tree) : made[i].id = View!Renamed(tree, i)
<1> DEFINE key(i) == IF tree[i].type = "field" /\ tree[i].key = "" THEN tree[i].id.base[1] ELSE tree[i].key
           one(i) == [tree[i] EXCEPT !.id = View!Renamed(tree, i),
                        !.binding = View!Bound(tree, i),
                        !.key = IF tree[i].type = "field" /\ @ = "" THEN tree[i].id.base[1] ELSE @]
<1>1. View!Prepared(tree) = [i \in 1 .. Len(tree) |-> one(i)]
  BY DEF View!Prepared
<1>2. ASSUME NEW i \in 1 .. Len(tree) PROVE one(i).id = View!Renamed(tree, i)
  BY DEF TreeShaped
<1> HIDE DEF one
<1>3. Len([i \in 1 .. Len(tree) |-> one(i)]) = Len(tree)
  BY DEF TreeShaped
<1> QED  BY <1>1, <1>2, <1>3

\* Ids that their author wrote without numbers get such as make them unique.
LEMMA ShorthandUnique ==
  ASSUME NEW d, TreeShaped(d.tree), NEW made, made.tree = View!Prepared(d.tree),
         \A i \in 1 .. Len(d.tree) : d.tree[i].id.marks = <<>>
  PROVE  "component id" \notin View!Issues(made)
<1> DEFINE ids == [i \in 1 .. Len(made.tree) |-> made.tree[i].id]
<1>1. Len(d.tree) \in Nat
  BY DEF TreeShaped
<1>2. /\ Len(made.tree) = Len(d.tree)
      /\ \A i \in 1 .. Len(d.tree) : made.tree[i].id = View!Renamed(d.tree, i)
  BY PreparedIds
<1>3. ASSUME NEW i \in 1 .. Len(d.tree), NEW j \in 1 .. Len(d.tree), ids[i] = ids[j] PROVE i = j
  <2>1. ids[i] = View!Renamed(d.tree, i) /\ ids[j] = View!Renamed(d.tree, j)
    BY <1>2
  <2>2. i < j \/ j < i \/ i = j
    BY <1>1
  <2> HIDE DEF ids
  <2> QED  BY <1>3, <2>1, <2>2, RenamedApart
<1>4. View!Unique(ids)
  <2>1. Len(ids) = Len(d.tree)
    BY <1>1, <1>2
  <2> HIDE DEF ids
  <2> QED  BY <1>3, <2>1 DEF View!Unique
<1>5. ~Finding(made, "component id")
  BY <1>4, Zenon DEF Finding, SourceFinding, StateFinding, ActionFinding, ComponentFinding, FrameFinding
<1> QED  BY <1>5, IssuesAre, Zenon

-----------------------------------------------------------------------------
(* ViewContract: the translation of legacy views, with forms and lists of   *)
(* any length                                                               *)

\* A list whose entries have keys among these.
ListOf(s, W) == (\E S : s \in Seq(S)) /\ \A i \in 1 .. Len(s) : s[i].key \in W

FormShaped(form, W) == ListOf(form.fields, W) /\ ListOf(form.actions, W)
SectionShaped(section, W) == ListOf(section.extra, W) /\ ListOf(section.actions, W)

\* Keys that are not blank and have no blanks around them.
Words(W) == \A w \in W : w # "" /\ View!Stripped(w) = w

\* W are the keys it uses, those of the commands among them; its sources have
\* an operation and are refreshed by hand, as the parser of legacy views makes
\* them.
LegacyShaped(v, W) ==
  /\ Words(W) /\ {"create", "edit", "delete"} \subseteq W
  /\ ListOf(v.viewActions, W) /\ ListOf(v.itemActions, W)
  /\ FormShaped(v.create, W) /\ FormShaped(v.edit, W)
  /\ ListOf(v.schema.fields, W)
  /\ SectionShaped(v.schema.create, W) /\ SectionShaped(v.schema.edit, W)
  /\ ListOf(v.sources, W)
  /\ \A i \in 1 .. Len(v.sources) : v.sources[i].told /\ v.sources[i].refresh = View!Manual

LEMMA ListNone == ASSUME NEW W PROVE ListOf(<<>>, W)
<1>1. <<>> \in Seq({}) /\ Len(<<>>) = 0
  OBVIOUS
<1>2. \A i \in 1 .. 0 : FALSE
  OBVIOUS
<1> QED  BY <1>1, <1>2, Zenon DEF ListOf

LEMMA ListOne == ASSUME NEW x, NEW W, x.key \in W PROVE ListOf(<<x>>, W)
<1> DEFINE s == <<x>>
<1>1. s \in Seq({x}) /\ Len(s) = 1 /\ s[1] = x
  OBVIOUS
<1> HIDE DEF s
<1>2. ListOf(s, W)
  BY <1>1 DEF ListOf
<1> QED  BY <1>2 DEF s

LEMMA ListJoined ==
  ASSUME NEW W, NEW s, NEW t, ListOf(s, W), ListOf(t, W)
  PROVE  /\ ListOf(s \o t, W)
         /\ Len(s) \in Nat /\ Len(t) \in Nat /\ Len(s \o t) = Len(s) + Len(t)
         /\ \A i \in 1 .. Len(s) + Len(t) :
              (s \o t)[i] = IF i <= Len(s) THEN s[i] ELSE t[i - Len(s)]
<1>1. PICK S : s \in Seq(S)
  BY DEF ListOf
<1>2. PICK T : t \in Seq(T)
  BY DEF ListOf
<1> DEFINE all == s \o t
<1>3. s \in Seq(S \cup T) /\ t \in Seq(S \cup T)
  BY <1>1, <1>2
<1>4. /\ all \in Seq(S \cup T)
      /\ Len(s) \in Nat /\ Len(t) \in Nat /\ Len(all) = Len(s) + Len(t)
      /\ \A i \in 1 .. Len(s) + Len(t) : all[i] = IF i <= Len(s) THEN s[i] ELSE t[i - Len(s)]
  BY <1>3
<1> HIDE DEF all
<1>5. ASSUME NEW i \in 1 .. Len(all) PROVE all[i].key \in W
  <2>1. IF i <= Len(s) THEN i \in 1 .. Len(s) /\ all[i] = s[i]
        ELSE i - Len(s) \in 1 .. Len(t) /\ all[i] = t[i - Len(s)]
    BY <1>4
  <2> QED  BY <2>1 DEF ListOf
<1>6. ListOf(all, W)
  BY <1>4, <1>5 DEF ListOf
<1> QED  BY <1>4, <1>6 DEF all

\* The fields of the schema with a flag are some of its fields.
LEMMA FlaggedShaped ==
  ASSUME NEW fields, NEW W, ListOf(fields, W), NEW flag
  PROVE  ListOf(View!Flagged(fields, flag), W)
<1> DEFINE n     == Len(fields)
           none  == <<>>
           P     == {fields[i] : i \in 1 .. n}
           all   == Seq(P)
           With(s, i) == IF flag \in fields[i].flags THEN Append(s, fields[i]) ELSE s
           Walks(b) == b = [i \in 0 .. n |-> IF i = 0 THEN none ELSE With(b[i - 1], i)]
           some == CHOOSE b : Walks(b)
<1>1. View!Flagged(fields, flag) = some[n]
  <2>1. \A s, i : (IF flag \in fields[i].flags THEN Append(s, fields[i]) ELSE s) = With(s, i)
    OBVIOUS
  <2> QED  BY DEF View!Flagged
<1>2. n \in Nat /\ none \in all
  BY DEF ListOf
<1>3. \A s \in all : \A i \in 1 .. n : With(s, i) \in all
  OBVIOUS
<1>p. \A p \in P : p.key \in W
  BY DEF ListOf
<1> HIDE DEF n, none, all, With, P
<1>4. \E b : Walks(b)
  <2> DEFINE step == [i \in 1 .. n |-> [s \in all |-> With(s, i)]]
  <2>1. step \in [1 .. n -> [all -> all]]
    BY <1>3
  <2>2. \A i \in 1 .. n : \A s \in all : step[i][s] = With(s, i)
    OBVIOUS
  <2> HIDE DEF step
  <2>3. PICK g \in [0 .. n -> all] : Solves(g, n, none, step)
    BY <1>2, <2>1, Iterated
  <2>4. ASSUME NEW i \in 1 .. n PROVE g[i] = With(g[i - 1], i)
    BY <1>2, <2>2, <2>3 DEF Solves
  <2>5. Walks(g)
    BY <1>2, <2>3, <2>4 DEF Solves
  <2> QED  BY <2>5
<1>5. Walks(some)
  BY <1>4
<1>6. some[0] = none /\ \A i \in 1 .. n : some[i] = With(some[i - 1], i)
  <2> HIDE DEF some
  <2>1. \A i \in 0 .. n : some[i] = IF i = 0 THEN none ELSE With(some[i - 1], i)
    BY <1>5
  <2> HIDE DEF Walks
  <2> QED  BY <1>2, <2>1
<1> HIDE DEF Walks, some
<1>7. \A i \in 0 .. n : some[i] \in all
  <2>1. n \in Nat /\ some[0] \in all
    BY <1>2, <1>6
  <2>2. \A i \in 1 .. n : some[i - 1] \in all => some[i] \in all
    BY <1>3, <1>6
  <2> QED  BY <2>1, <2>2, AllAlong
<1>8. some[n] \in Seq(P)
  BY <1>2, <1>7 DEF all
<1>9. ListOf(some[n], W)
  BY <1>8, <1>p DEF ListOf
<1> QED  BY <1>1, <1>9

LEMMA NoFormShaped == ASSUME NEW W PROVE FormShaped(View!NoForm, W)
<1>1. View!NoForm.fields = <<>> /\ View!NoForm.actions = <<>>
  BY DEF View!NoForm
<1> QED  BY <1>1, ListNone, Zenon DEF FormShaped

LEMMA FormIs ==
  ASSUME NEW fields, NEW actions
  PROVE  View!Form(fields, actions).fields = fields /\ View!Form(fields, actions).actions = actions
BY DEF View!Form

LEMMA FromSchemaShaped ==
  ASSUME NEW v, NEW W, LegacyShaped(v, W), NEW flag
  PROVE  FormShaped(View!FromSchema(v.schema, flag), W)
<1> DEFINE section == IF flag = "create" THEN v.schema.create ELSE v.schema.edit
           extra == IF section.extra = <<>> THEN v.schema.create.extra ELSE section.extra
           fields == View!Flagged(v.schema.fields, flag) \o extra
<1>1. SectionShaped(section, W) /\ SectionShaped(v.schema.create, W)
  BY Zenon DEF LegacyShaped
<1> HIDE DEF section
<1>2. ListOf(extra, W) /\ ListOf(section.actions, W)
  BY <1>1, Zenon DEF SectionShaped
<1> HIDE DEF extra
<1>3. ListOf(fields, W)
  <2>1. ListOf(View!Flagged(v.schema.fields, flag), W)
    BY FlaggedShaped, Zenon DEF LegacyShaped
  <2> QED  BY <1>2, <2>1, ListJoined, Zenon
<1> HIDE DEF fields
<1>4. FormShaped(View!Form(fields, section.actions), W)
  BY <1>2, <1>3, FormIs, Zenon DEF FormShaped
<1>5. View!FromSchema(v.schema, flag)
        = IF fields = <<>> THEN View!NoForm ELSE View!Form(fields, section.actions)
  BY Zenon DEF View!FromSchema, fields, extra, section
<1> QED  BY <1>4, <1>5, NoFormShaped

LEMMA FormsShaped ==
  ASSUME NEW v, NEW W, LegacyShaped(v, W)
  PROVE  FormShaped(View!CreateForm(v), W) /\ FormShaped(View!EditForm(v), W)
BY FromSchemaShaped, NoFormShaped, Zenon DEF View!CreateForm, View!EditForm, LegacyShaped

LEMMA CommandShaped ==
  ASSUME NEW v, NEW W, NEW key \in W, NEW scope PROVE ListOf(View!Command(v, key, scope), W)
<1> DEFINE a == View!Action(key, scope, {}, View!Always)
<1>1. a.key = key
  BY DEF View!Action
<1> HIDE DEF a
<1>2. ListOf(<<a>>, W)
  BY <1>1, ListOne
<1> QED  BY <1>2, ListNone, Zenon DEF View!Command, a

LEMMA ActionsShaped ==
  ASSUME NEW v, NEW W, LegacyShaped(v, W)
  PROVE  ListOf(View!Declared(v), W) /\ ListOf(View!Listed(v), W)
<1>1. {"create", "edit", "delete"} \subseteq W
  BY Zenon DEF LegacyShaped
<1>2. \A scope : /\ ListOf(View!Command(v, "create", scope), W)
                 /\ ListOf(View!Command(v, "edit", scope), W)
                 /\ ListOf(View!Command(v, "delete", scope), W)
  BY <1>1, CommandShaped
<1>3. \A s, t : ListOf(s, W) /\ ListOf(t, W) => ListOf(s \o t, W)
  BY ListJoined
<1>4. ListOf(View!ViewActions(v), W)
  BY <1>2, ListNone, Zenon DEF View!ViewActions, LegacyShaped
<1>5. ListOf(View!ItemActions(v), W)
  BY <1>2, <1>3, ListNone, Zenon DEF View!ItemActions, LegacyShaped
<1>6. ListOf(View!Declared(v), W)
  BY <1>3, <1>4, <1>5, Zenon DEF View!Declared
<1>7. ListOf(View!Listed(v), W)
  BY <1>3, FormsShaped, Zenon DEF View!Listed, FormShaped
<1> QED  BY <1>6, <1>7

\* A component in which the validation finds nothing, in a document that has
\* these keys.
Fine(c, known) ==
  /\ c.type \in View!ComponentTypes
  /\ c.binding # "" => c.binding \in known
  /\ c.type \in View!NeedsBinding => c.binding # ""
  /\ c.action = ""
  /\ c.type = "field" => c.key # "" /\ c.input \in View!FieldTypes
  /\ c.nested \subseteq known \cup {"capabilities"}
  /\ c.shown = View!Always

\* A part of a tree: such components only, with ids of their own that start
\* with one of these names.
Piece(s, heads, known) ==
  /\ \E S : s \in Seq(S)
  /\ \A i \in 1 .. Len(s) : Fine(s[i], known) /\ s[i].id.base[1] \in heads
  /\ \A i, j \in 1 .. Len(s) : s[i].id = s[j].id => i = j

LEMMA PieceNone == ASSUME NEW heads, NEW known PROVE Piece(<<>>, heads, known)
<1>1. <<>> \in Seq({}) /\ Len(<<>>) = 0
  OBVIOUS
<1>2. \A i \in 1 .. 0 : FALSE
  OBVIOUS
<1> QED  BY <1>1, <1>2, Zenon DEF Piece

LEMMA PieceOne ==
  ASSUME NEW c, NEW heads, NEW known, Fine(c, known), c.id.base[1] \in heads
  PROVE  Piece(<<c>>, heads, known)
<1>1. <<c>> \in Seq({c}) /\ Len(<<c>>) = 1 /\ <<c>>[1] = c
  OBVIOUS
<1> DEFINE s == <<c>>
<1> HIDE DEF s
<1>2. s \in Seq({c}) /\ Len(s) = 1 /\ s[1] = c
  BY <1>1 DEF s
<1>3. Piece(s, heads, known)
  BY <1>2 DEF Piece
<1> QED  BY <1>3 DEF s

LEMMA PieceJoined ==
  ASSUME NEW A, NEW B, NEW known, NEW s, NEW t, Piece(s, A, known), Piece(t, B, known),
         A \cap B = {}
  PROVE  Piece(s \o t, A \cup B, known)
<1> DEFINE all == s \o t  m == Len(s)
<1>1. PICK S : s \in Seq(S)
  BY DEF Piece
<1>2. PICK T : t \in Seq(T)
  BY DEF Piece
<1>3. s \in Seq(S \cup T) /\ t \in Seq(S \cup T) /\ m \in Nat /\ Len(t) \in Nat
  BY <1>1, <1>2
<1>4. /\ all \in Seq(S \cup T) /\ Len(all) = m + Len(t)
      /\ \A i \in 1 .. Len(all) : all[i] = IF i <= m THEN s[i] ELSE t[i - m]
  BY <1>3
<1> HIDE DEF all
<1>5. ASSUME NEW i \in 1 .. Len(all)
      PROVE  IF i <= m THEN i \in 1 .. m /\ all[i] = s[i]
                       ELSE i - m \in 1 .. Len(t) /\ all[i] = t[i - m]
  BY <1>3, <1>4
<1>6. ASSUME NEW i \in 1 .. Len(all)
      PROVE  /\ Fine(all[i], known)
             /\ IF i <= m THEN all[i].id.base[1] \in A ELSE all[i].id.base[1] \in B
  BY <1>5 DEF Piece
<1>7. ASSUME NEW i \in 1 .. Len(all), NEW j \in 1 .. Len(all), all[i].id = all[j].id
      PROVE  i = j
  <2>1. i <= m <=> j <= m
    BY <1>6, <1>7
  <2>2. CASE i <= m
    <3>1. i \in 1 .. Len(s) /\ j \in 1 .. Len(s) /\ all[i] = s[i] /\ all[j] = s[j]
      BY <1>5, <2>1, <2>2
    <3> QED  BY <1>7, <3>1 DEF Piece
  <2>3. CASE ~(i <= m)
    <3>1. /\ i - m \in 1 .. Len(t) /\ j - m \in 1 .. Len(t)
          /\ all[i] = t[i - m] /\ all[j] = t[j - m]
      BY <1>5, <2>1, <2>3
    <3>2. i - m = j - m
      BY <1>7, <3>1 DEF Piece
    <3> QED  BY <1>3, <3>2
  <2> QED  BY <2>2, <2>3
<1>8. Piece(all, A \cup B, known)
  BY <1>4, <1>6, <1>7 DEF Piece
<1> QED  BY <1>8 DEF all

\* The components of a translated view.
Made(c, id, type, binding, nested, always) ==
  /\ c.id = id /\ c.type = type /\ c.binding = binding /\ c.key = ""
  /\ c.nested = nested /\ c.action = "" /\ c.shown = always

LEMMA ComponentMade ==
  ASSUME NEW id, NEW type, NEW parent, NEW binding, NEW always
  PROVE  Made(View!Component(id, type, parent, binding, "", "", always), id, type, binding, {}, always)
<1> DEFINE empty == ""  input == "text"  no == {}
           c == View!Component(id, type, parent, binding, empty, empty, always)
<1>1. c = [id |-> id, type |-> type, parent |-> parent, binding |-> binding, inner |-> empty,
           key |-> empty, input |-> input, nested |-> no, action |-> empty, shown |-> always]
  BY DEF View!Component
<1> HIDE DEF c, empty, input, no
<1>2. /\ c.id = id /\ c.type = type /\ c.binding = binding /\ c.key = empty
      /\ c.nested = no /\ c.action = empty /\ c.shown = always
  BY <1>1
<1>3. Made(c, id, type, binding, no, always)
  BY <1>2, Zenon DEF Made, empty
<1> QED  BY <1>3, Zenon DEF c, empty, no

LEMMA HeadOf == ASSUME NEW name PROVE View!Id(name).base[1] = name
<1>1. View!Id(name).base = <<name>>
  BY DEF View!Id, View!IdOf
<1> QED  BY <1>1

LEMMA PlainPiece ==
  ASSUME NEW name, NEW type, NEW parent, NEW binding, NEW known,
         type \in View!ComponentTypes, type # "field", binding # "" => binding \in known,
         type \in View!NeedsBinding => binding # ""
  PROVE  Piece(<<View!Component(View!Id(name), type, parent, binding, "", "", View!Always)>>,
               {name}, known)
<1> DEFINE c == View!Component(View!Id(name), type, parent, binding, "", "", View!Always)
<1>1. Made(c, View!Id(name), type, binding, {}, View!Always)
  BY ComponentMade, Zenon
<1> HIDE DEF c
<1>2. Fine(c, known)
  BY <1>1, Zenon DEF Made, Fine
<1>3. c.id.base[1] \in {name}
  BY <1>1, HeadOf, Zenon DEF Made
<1>4. Piece(<<c>>, {name}, known)
  BY <1>2, <1>3, PieceOne, Zenon
<1> QED  BY <1>4, Zenon DEF c

\* The component of a field of a form.
FieldOf(v, suffix, f, at) ==
  [View!Component(View!IdOf(<<suffix, "field", f.key>>), "field", at, "", "", "", View!Always)
     EXCEPT !.key = f.key, !.input = f.type, !.nested = View!Offers(v, f)]

\* A field in which the validation finds nothing.
FieldFit(v, f, known) ==
  f.type \in View!FieldTypes /\ View!Offers(v, f) \subseteq known \cup {"capabilities"}

LEMMA FieldFine ==
  ASSUME NEW v, NEW suffix, NEW f, NEW at, NEW known, f.key # "", FieldFit(v, f, known)
  PROVE  /\ Fine(FieldOf(v, suffix, f, at), known)
         /\ FieldOf(v, suffix, f, at).id.base = <<suffix, "field", f.key>>
<1> DEFINE id == View!IdOf(<<suffix, "field", f.key>>)
           c == View!Component(id, "field", at, "", "", "", View!Always)
           key == f.key  input == f.type  nested == View!Offers(v, f)
           o == [c EXCEPT !.key = key, !.input = input, !.nested = nested]
<1>1. Made(c, id, "field", "", {}, View!Always)
  BY ComponentMade, Zenon
<1>2. {"id", "type", "binding", "action", "shown", "key", "input", "nested"} \subseteq DOMAIN c
  BY Zenon DEF View!Component
<1>3. key # "" /\ input \in View!FieldTypes /\ nested \subseteq known \cup {"capabilities"}
  BY Zenon DEF FieldFit
<1>4. id.base = <<suffix, "field", f.key>>
  BY Zenon DEF View!IdOf
<1>5. o = FieldOf(v, suffix, f, at)
  BY Zenon DEF FieldOf
<1> HIDE DEF c, id, key, input, nested
<1>6. /\ o.id = id /\ o.type = "field" /\ o.binding = "" /\ o.action = ""
      /\ o.shown = View!Always /\ o.key = key /\ o.input = input /\ o.nested = nested
  BY <1>1, <1>2, Zenon DEF Made
<1> HIDE DEF o
<1>7. Fine(o, known)
  BY <1>3, <1>6, Zenon DEF Fine, View!ComponentTypes, View!NeedsBinding
<1> QED  BY <1>4, <1>5, <1>6, <1>7, Zenon

LEMMA FormPiece ==
  ASSUME NEW v, NEW W, Words(W), NEW form, FormShaped(form, W),
         View!Unique(View!KeyList(form.fields)), NEW known,
         \A i \in 1 .. Len(form.fields) : FieldFit(v, form.fields[i], known),
         NEW suffix, NEW at
  PROVE  Piece(View!FormTree(v, form, suffix, at), {suffix}, known)
<1> DEFINE top == View!Component(View!Id(suffix), "form", 1, "", "", "", View!Always)
           n == Len(form.fields)
           name(i) == form.fields[i].key
           field(i) == FieldOf(v, suffix, form.fields[i], at)
           one == <<suffix>>
           long(x) == <<suffix, "field", x>>
           rest == [i \in 1 .. n |-> field(i)]
           all == <<top>> \o rest
<1>1. View!FormTree(v, form, suffix, at) = all
  BY DEF View!FormTree, FieldOf
<1>2. n \in Nat
  BY DEF FormShaped, ListOf
<1>3. ASSUME NEW i \in 1 .. n PROVE name(i) # ""
  <2>1. form.fields[i].key \in W
    BY DEF FormShaped, ListOf
  <2> QED  BY <2>1, Zenon DEF Words
<1>4. \A i, j \in 1 .. n : name(i) = name(j) => i = j
  <2> DEFINE keys == View!KeyList(form.fields)
  <2>1. Len(keys) = n /\ \A i \in 1 .. n : keys[i] = name(i)
    BY <1>2 DEF View!KeyList
  <2> HIDE DEF keys, name, n
  <2>2. View!Unique(keys)
    BY DEF keys
  <2> QED  BY <2>1, <2>2 DEF View!Unique
<1>5. ASSUME NEW i \in 1 .. n
      PROVE  Fine(field(i), known) /\ field(i).id.base = long(name(i))
  <2>1. name(i) # ""
    BY <1>3, Zenon
  <2> DEFINE f == form.fields[i]
  <2>2. f.key = name(i) /\ field(i) = FieldOf(v, suffix, f, at)
    BY Zenon
  <2>3. FieldFit(v, f, known)
    BY Zenon
  <2> HIDE DEF name, f, field
  <2>4. f.key # ""
    BY <2>1, <2>2
  <2>5. /\ Fine(FieldOf(v, suffix, f, at), known)
        /\ FieldOf(v, suffix, f, at).id.base = <<suffix, "field", f.key>>
    BY <2>3, <2>4, FieldFine, Zenon
  <2> QED  BY <2>2, <2>5
<1>6. Made(top, View!Id(suffix), "form", "", {}, View!Always)
  BY ComponentMade, Zenon
<1>7. Fine(top, known) /\ top.id.base = one
  <2>1. View!Id(suffix).base = one
    BY DEF View!Id, View!IdOf
  <2> HIDE DEF top, one
  <2> QED  BY <1>6, <2>1, Zenon DEF Made, Fine, View!ComponentTypes, View!NeedsBinding
<1>8. one[1] = suffix /\ \A x : long(x)[1] = suffix /\ one # long(x)
  OBVIOUS
<1>9. \A x, y : long(x) = long(y) => x = y
  OBVIOUS
<1> HIDE DEF n, name, top, field, one, long
<1>10. /\ \E S : all \in Seq(S)
       /\ Len(all) = n + 1
       /\ \A i \in 1 .. n + 1 : all[i] = IF i = 1 THEN top ELSE field(i - 1)
  <2> DEFINE S == {top} \cup {field(i) : i \in 1 .. n}
  <2>1. top \in S /\ \A i \in 1 .. n : field(i) \in S
    OBVIOUS
  <2> HIDE DEF S
  <2>2. rest \in Seq(S) /\ Len(rest) = n /\ \A i \in 1 .. n : rest[i] = field(i)
    BY <1>2, <2>1
  <2> HIDE DEF rest
  <2>3. <<top>> \in Seq(S) /\ Len(<<top>>) = 1 /\ <<top>>[1] = top
    BY <2>1
  <2>4. all \in Seq(S) /\ Len(all) = n + 1
    BY <1>2, <2>2, <2>3
  <2>5. ASSUME NEW i \in 1 .. n + 1 PROVE all[i] = IF i = 1 THEN top ELSE field(i - 1)
    <3>1. all[i] = IF i = 1 THEN top ELSE rest[i - 1]
      BY <1>2, <2>2, <2>3
    <3>2. i # 1 => i - 1 \in 1 .. n
      BY <1>2
    <3> QED  BY <2>2, <3>1, <3>2
  <2> QED  BY <2>4, <2>5
<1> HIDE DEF all
<1>11. ASSUME NEW i \in 1 .. n + 1
       PROVE  /\ i # 1 => i - 1 \in 1 .. n
              /\ Fine(all[i], known)
              /\ all[i].id.base = IF i = 1 THEN one ELSE long(name(i - 1))
              /\ all[i].id.base[1] = suffix
  <2>1. i # 1 => i - 1 \in 1 .. n
    BY <1>2
  <2> QED  BY <1>5, <1>7, <1>8, <1>10, <2>1
<1>12. ASSUME NEW i \in 1 .. n + 1, NEW j \in 1 .. n + 1, all[i].id = all[j].id PROVE i = j
  <2>1. i = 1 <=> j = 1
    BY <1>8, <1>11, <1>12
  <2>2. CASE i # 1
    <3>1. i - 1 \in 1 .. n /\ j - 1 \in 1 .. n /\ name(i - 1) = name(j - 1)
      BY <1>9, <1>11, <1>12, <2>1, <2>2
    <3>2. i - 1 = j - 1
      BY <1>4, <3>1
    <3> QED  BY <1>2, <3>2
  <2> QED  BY <2>1, <2>2
<1>13. Piece(all, {suffix}, known)
  BY <1>10, <1>11, <1>12 DEF Piece
<1> QED  BY <1>1, <1>13

HeadOfTree(v) ==
  <<View!Page>>
  \o (IF v.navigation
      THEN <<View!Component(View!Id("navigation"), "navigation", 1, "items", "", "", View!Always)>>
      ELSE <<>>)

ListOfTree(v) ==
  <<View!Component(View!Id("collection"),
                   IF View!HasColumns(v) THEN "table" ELSE "collection",
                   1, "items", "", "", View!Always)>>

LEMMA HeadPiece ==
  ASSUME NEW v, NEW known, "items" \in known
  PROVE  Piece(HeadOfTree(v), {"p"} \cup {"navigation"}, known)
<1> DEFINE bar == <<View!Component(View!Id("navigation"), "navigation", 1, "items", "", "",
                                   View!Always)>>
           below == IF v.navigation THEN bar ELSE <<>>
           page == <<View!Component(View!Id("p"), "page", 0, "", "", "", View!Always)>>
<1>1. /\ {"page", "navigation"} \subseteq View!ComponentTypes
      /\ View!NeedsBinding \cap {"page", "navigation"} = {}
  BY DEF View!ComponentTypes, View!NeedsBinding
<1>2. Piece(page, {"p"}, known)
  BY <1>1, PlainPiece, Zenon
<1>3. Piece(bar, {"navigation"}, known)
  BY <1>1, PlainPiece, Zenon
<1>4. Piece(below, {"navigation"}, known)
  <2> HIDE DEF bar
  <2> QED  BY <1>3, PieceNone
<1>5. {"p"} \cap {"navigation"} = {}
  OBVIOUS
<1>6. HeadOfTree(v) = page \o below
  BY DEF HeadOfTree, View!Page
<1> HIDE DEF below, page
<1>7. Piece(page \o below, {"p"} \cup {"navigation"}, known)
  BY <1>2, <1>4, <1>5, PieceJoined
<1> QED  BY <1>6, <1>7

LEMMA ListPiece ==
  ASSUME NEW v, NEW known, "items" \in known
  PROVE  Piece(ListOfTree(v), {"collection"}, known)
<1> DEFINE type == IF View!HasColumns(v) THEN "table" ELSE "collection"
<1>1. type \in View!ComponentTypes /\ type # "field"
  BY DEF View!ComponentTypes
<1>2. ListOfTree(v) = <<View!Component(View!Id("collection"), type, 1, "items", "", "",
                                       View!Always)>>
  BY DEF ListOfTree
<1> HIDE DEF type
<1> QED  BY <1>1, <1>2, PlainPiece, Zenon

LEMMA PageIs ==
  "id" \in DOMAIN View!Page /\ View!Page.id = View!Id("p") /\ View!Page.type = "page"
<1> DEFINE id == View!Id("p")  always == View!Always  none == ""  input == "text"  no == {}
           type == "page"
<1>1. View!Page = View!Component(id, type, 0, none, none, none, always)
  BY DEF View!Page
<1> HIDE DEF id, always, none, type
<1>2. View!Page = [id |-> id, type |-> type, parent |-> 0, binding |-> none, inner |-> none,
                   key |-> "", input |-> input, nested |-> no, action |-> none, shown |-> always]
  BY <1>1, Zenon DEF View!Component, input, no
<1> HIDE DEF input, no
<1>3. "id" \in DOMAIN View!Page /\ View!Page.id = id /\ View!Page.type = type
  BY <1>2, Zenon
<1> QED  BY <1>3 DEF id, type

\* The first of one list is the first of it and another.
LEMMA FirstStays ==
  ASSUME NEW A, NEW B, NEW known, NEW s, NEW t, Piece(s, A, known), Piece(t, B, known), s # <<>>
  PROVE  s \o t # <<>> /\ (s \o t)[1] = s[1]
<1>1. PICK S : s \in Seq(S)
  BY DEF Piece
<1>2. PICK T : t \in Seq(T)
  BY DEF Piece
<1>3. s \in Seq(S \cup T) /\ t \in Seq(S \cup T)
  BY <1>1, <1>2
<1>4. Len(s) \in Nat \ {0} /\ Len(t) \in Nat
  BY <1>1, <1>2
<1> DEFINE all == s \o t
<1>5. all \in Seq(S \cup T) /\ Len(all) = Len(s) + Len(t) /\ all[1] = s[1]
  BY <1>3, <1>4
<1> HIDE DEF all
<1>6. all # <<>>
  BY <1>4, <1>5
<1> QED  BY <1>5, <1>6 DEF all

LEMMA AfterOne ==
  ASSUME NEW S, NEW s \in Seq(S), NEW t \in Seq(S), Len(s) \in Nat \ {0}
  PROVE  s \o t # <<>> /\ (s \o t)[1] = s[1]
<1> DEFINE all == s \o t
<1>1. Len(s) \in Nat \ {0} /\ Len(t) \in Nat
  OBVIOUS
<1>2. all \in Seq(S) /\ Len(all) = Len(s) + Len(t) /\ all[1] = s[1]
  BY <1>1
<1> HIDE DEF all
<1>3. all # <<>>
  BY <1>1, <1>2
<1> QED  BY <1>2, <1>3 DEF all

LEMMA PieceGrows ==
  ASSUME NEW A, NEW B, NEW known, NEW s, NEW t, Piece(s, A, known), Piece(t, B, known), s # <<>>,
         A \cap B = {}
  PROVE  Piece(s \o t, A \cup B, known) /\ s \o t # <<>> /\ (s \o t)[1] = s[1]
<1>1. Piece(s \o t, A \cup B, known)
  BY PieceJoined
<1>2. s \o t # <<>> /\ (s \o t)[1] = s[1]
  BY FirstStays
<1> QED  BY <1>1, <1>2

LEMMA TreePiece ==
  ASSUME NEW v, NEW W, LegacyShaped(v, W),
         View!Unique(View!KeyList(View!CreateForm(v).fields)),
         View!Unique(View!KeyList(View!EditForm(v).fields)),
         NEW known, "items" \in known,
         \A i \in 1 .. Len(View!CreateForm(v).fields) : FieldFit(v, View!CreateForm(v).fields[i], known),
         \A i \in 1 .. Len(View!EditForm(v).fields) : FieldFit(v, View!EditForm(v).fields[i], known)
  PROVE  LET tree == View!LegacyTree(v)
         IN  /\ \E heads : "" \notin heads /\ Piece(tree, heads, known)
             /\ tree # <<>> /\ tree[1].type = "page"
<1> DEFINE head == HeadOfTree(v)  list == ListOfTree(v)
           making == View!CreateForm(v)  editing == View!EditForm(v)
           create == IF making.given
                     THEN View!FormTree(v, making, "create", Len(head) + 2) ELSE <<>>
           edit == IF editing.given
                   THEN View!FormTree(v, editing, "edit", Len(head) + 2 + Len(create)) ELSE <<>>
           alone == View!FormTree(v, editing, "form", Len(head) + 1)
<1>1. View!LegacyTree(v) = IF v.mode = "form" /\ editing.given THEN head \o alone
                           ELSE head \o list \o create \o edit
  BY DEF View!LegacyTree, HeadOfTree, ListOfTree
<1>h. head # <<>> /\ head[1].type = "page"
  <2> DEFINE bar == View!Component(View!Id("navigation"), "navigation", 1, "items", "", "",
                                   View!Always)
             below == IF v.navigation THEN <<bar>> ELSE <<>>
             page == View!Page  one == <<page>>  type == "page"
  <2>1. page.type = type
    BY PageIs
  <2>2. head = one \o below
    BY DEF HeadOfTree
  <2> HIDE DEF page, bar, type
  <2>3. below \in Seq({bar})
    <3>1. <<bar>> \in Seq({bar}) /\ <<>> \in Seq({bar})
      OBVIOUS
    <3> QED  BY <3>1, Zenon DEF below
  <2> HIDE DEF below
  <2>4. one \in Seq({page}) /\ Len(one) = 1 /\ one[1] = page
    OBVIOUS
  <2> HIDE DEF one, head
  <2>5. PICK T : below \in Seq(T)
    BY <2>3
  <2>6. one \in Seq({page} \cup T) /\ below \in Seq({page} \cup T) /\ Len(below) \in Nat
    BY <2>4, <2>5
  <2>7. one \o below # <<>> /\ (one \o below)[1] = one[1]
    BY <2>4, <2>6, AfterOne
  <2>8. head # <<>> /\ head[1] = page
    BY <2>2, <2>4, <2>7, Zenon
  <2>9. head[1].type = type
    BY <2>1, <2>8
  <2> HIDE DEF head
  <2> QED  BY <2>8, <2>9 DEF type
<1>2. FormShaped(making, W) /\ FormShaped(editing, W) /\ Words(W)
  BY FormsShaped DEF LegacyShaped
<1>3. Piece(head, {"p"} \cup {"navigation"}, known) /\ Piece(list, {"collection"}, known)
  BY HeadPiece, ListPiece
<1>4. Piece(alone, {"form"}, known)
  BY <1>2, FormPiece
<1>5. Piece(create, {"create"}, known)
  <2>1. Piece(View!FormTree(v, making, "create", Len(head) + 2), {"create"}, known)
    BY <1>2, FormPiece
  <2> QED  BY <2>1, PieceNone
<1>6. Piece(edit, {"edit"}, known)
  <2>1. Piece(View!FormTree(v, editing, "edit", Len(head) + 2 + Len(create)), {"edit"}, known)
    BY <1>2, FormPiece
  <2> QED  BY <2>1, PieceNone
<1> HIDE DEF head, list, making, editing, create, edit, alone
<1> DEFINE top == {"p"} \cup {"navigation"}
<1>7. /\ Piece(head \o alone, top \cup {"form"}, known)
      /\ head \o alone # <<>> /\ (head \o alone)[1] = head[1]
  <2>1. top \cap {"form"} = {}
    OBVIOUS
  <2> QED  BY <1>3, <1>4, <1>h, <2>1, PieceGrows
<1>8. LET all == head \o list \o create \o edit IN
      /\ Piece(all, ((top \cup {"collection"}) \cup {"create"}) \cup {"edit"}, known)
      /\ all # <<>> /\ all[1] = head[1]
  <2>1. /\ top \cap {"collection"} = {} /\ (top \cup {"collection"}) \cap {"create"} = {}
        /\ ((top \cup {"collection"}) \cup {"create"}) \cap {"edit"} = {}
    OBVIOUS
  <2> HIDE DEF top
  <2> DEFINE two == head \o list  three == two \o create
  <2>2. Piece(two, top \cup {"collection"}, known) /\ two # <<>> /\ two[1] = head[1]
    <3>1. Piece(head, top, known)
      BY <1>3 DEF top
    <3> QED  BY <1>3, <1>h, <2>1, <3>1, PieceGrows
  <2> HIDE DEF two
  <2>3. /\ Piece(three, (top \cup {"collection"}) \cup {"create"}, known)
        /\ three # <<>> /\ three[1] = head[1]
    BY <1>5, <2>1, <2>2, PieceGrows
  <2> HIDE DEF three
  <2>4. /\ Piece(three \o edit, ((top \cup {"collection"}) \cup {"create"}) \cup {"edit"}, known)
        /\ three \o edit # <<>> /\ (three \o edit)[1] = head[1]
    BY <1>6, <2>1, <2>3, PieceGrows
  <2> QED  BY <2>4 DEF two, three
<1>9. "" \notin top \cup {"form"} /\ "" \notin ((top \cup {"collection"}) \cup {"create"}) \cup {"edit"}
  OBVIOUS
<1> QED  BY <1>1, <1>7, <1>8, <1>9, <1>h, Zenon

-----------------------------------------------------------------------------
(* The actions of a legacy view have keys of their own.                     *)

\* Any finite set is listed, each element once.
LEMMA ListedOnce ==
  ASSUME NEW S, IsFiniteSet(S)
  PROVE  LET s == View!SetToSeq(S)
         IN  s \in Seq(S) /\ \A i, j \in 1 .. Len(s) : s[i] = s[j] => i = j
<1> DEFINE n == Cardinality(S)
           Injects(f) == \A i, j \in 1 .. n : f[i] = f[j] => i = j
<1>1. n \in Nat
  BY FS_CardinalityType
<1>2. PICK b : ExistsBijection(1 .. n, S) /\ b \in Bijection(1 .. n, S)
  BY FS_CardinalityType DEF ExistsBijection
<1>3. b \in [1 .. n -> S] /\ View!IsInjective(b)
  <2>1. b \in [1 .. n -> S] /\ \A i, j \in 1 .. n : b[i] = b[j] => i = j
    BY <1>2 DEF Bijection, Injection, Surjection, IsInjective
  <2> QED  BY <2>1 DEF View!IsInjective
<1>4. View!SetToSeq(S) = CHOOSE f \in [1 .. n -> S] : View!IsInjective(f)
  BY CountIs DEF View!SetToSeq
<1> DEFINE s == View!SetToSeq(S)
<1>5. s \in [1 .. n -> S] /\ View!IsInjective(s)
  BY <1>3, <1>4
<1> HIDE DEF s, n
<1>6. s \in Seq(S) /\ Len(s) = n
  BY <1>1, <1>5
<1>7. \A i, j \in 1 .. n : s[i] = s[j] => i = j
  BY <1>5 DEF View!IsInjective
<1> QED  BY <1>6, <1>7 DEF s

\* The actions of the forms that are added: their keys are none of the declared
\* ones, and each is there once.
LEMMA FormActionsApart ==
  ASSUME NEW v, NEW W, LegacyShaped(v, W)
  PROVE  LET more == View!FormActions(v)
         IN  /\ ListOf(more, W)
             /\ \A i \in 1 .. Len(more) :
                  /\ more[i].key \notin View!KeysOf(View!Declared(v))
                  /\ \E k \in 1 .. Len(View!Listed(v)) : more[i] = View!Listed(v)[k]
             /\ \A i, j \in 1 .. Len(more) : more[i].key = more[j].key => i = j
<1> DEFINE taken == View!KeysOf(View!Declared(v))
           listed == View!Listed(v)
           first == {i \in 1 .. Len(listed) :
                       /\ listed[i].key \notin taken
                       /\ \A j \in 1 .. i - 1 : listed[j].key # listed[i].key}
           S == {listed[i] : i \in first}
           more == View!FormActions(v)
<1>1. ListOf(listed, W)
  BY ActionsShaped
<1>2. more = View!SetToSeq(S)
  BY DEF View!FormActions
<1> HIDE DEF listed, taken, more
<1>n. Len(listed) \in Nat
  BY <1>1 DEF ListOf
<1>3. IsFiniteSet(S)
  <2> DEFINE f == [i \in first |-> listed[i]]
  <2>1. IsFiniteSet(1 .. Len(listed))
    BY <1>n, FS_Interval
  <2>2. IsFiniteSet(first)
    BY <2>1, FS_Subset
  <2> HIDE DEF first
  <2>3. f \in Surjection(first, S)
    BY DEF Surjection
  <2> QED  BY <2>2, <2>3, FS_Surjection
<1>4. ASSUME NEW x \in S, NEW y \in S, x.key = y.key PROVE x = y
  <2>1. PICK i \in first : x = listed[i]
    OBVIOUS
  <2>2. PICK j \in first : y = listed[j]
    OBVIOUS
  <2>3. ~(i < j) /\ ~(j < i)
    BY <1>4, <1>n, <2>1, <2>2
  <2>4. i = j
    BY <1>n, <2>3
  <2> QED  BY <2>1, <2>2, <2>4
<1>5. ASSUME NEW x \in S
      PROVE  x.key \in W /\ x.key \notin taken /\ \E k \in 1 .. Len(listed) : x = listed[k]
  BY <1>1 DEF ListOf
<1> HIDE DEF S
<1>6. more \in Seq(S) /\ \A i, j \in 1 .. Len(more) : more[i] = more[j] => i = j
  BY <1>2, <1>3, ListedOnce
<1>7. \A i \in 1 .. Len(more) : more[i] \in S
  BY <1>6
<1>8. \A i, j \in 1 .. Len(more) : more[i].key = more[j].key => i = j
  BY <1>4, <1>6, <1>7
<1>9. ListOf(more, W)
  BY <1>5, <1>6, <1>7 DEF ListOf
<1> QED  BY <1>5, <1>7, <1>8, <1>9 DEF more, taken, listed

\* An action in which the validation finds nothing, in a document that has
\* these keys and whose effects are these.
ActionFine(a, known, effects) ==
  /\ a.told /\ a.scope \in View!ActionScopes /\ a.target
  /\ a.nested \subseteq known \cup {"capabilities"}
  /\ a.enabled = View!Always
  /\ a.effects \subseteq effects

\* It can be translated: what is declared of it is in order.
ActionFit(a, known) == a.told /\ a.nested \subseteq known \cup {"capabilities"}

LEMMA PortableFine ==
  ASSUME NEW a, NEW known, ActionFit(a, known),
         NEW scope \in View!ActionScopes, NEW all, NEW effects, effects \subseteq all
  PROVE  /\ ActionFine(View!Portable(a, scope, effects), known, all)
         /\ View!Portable(a, scope, effects).key = a.key
<1> DEFINE key == a.key  told == a.told  nested == a.nested  always == View!Always
           b == View!Action(key, scope, effects, always)
           c == [b EXCEPT !.told = told, !.nested = nested]
<1>1. View!Portable(a, scope, effects) = c
  BY DEF View!Portable
<1>2. b = [key |-> key, scope |-> scope, effects |-> effects, enabled |-> always,
           told |-> TRUE, target |-> TRUE, nested |-> {}]
  BY DEF View!Action
<1>3. told /\ nested \subseteq known \cup {"capabilities"}
  BY Zenon DEF ActionFit, told, nested
<1> HIDE DEF b, key, told, nested, always
<1>4. /\ c.key = key /\ c.scope = scope /\ c.effects = effects /\ c.enabled = always
      /\ c.target = TRUE /\ c.nested = nested
  BY <1>2
<1>5. c.told = told
  BY <1>2, Zenon
<1> HIDE DEF c
<1>6. ActionFine(c, known, all)
  BY <1>3, <1>4, <1>5, Zenon DEF ActionFine, always
<1> QED  BY <1>1, <1>4, <1>6, Zenon DEF key

\* The actions of two lists, one after the other, that have no key in common.
ActionsOf(s, t, all) ==
  [i \in 1 .. Len(s) |-> View!Portable(s[i], s[i].scope, all)]
  \o [i \in 1 .. Len(t) |-> View!Portable(t[i], "form", {})]

ActionsFine(all, W, known, effects) ==
  /\ Len(all) \in Nat
  /\ \A i \in 1 .. Len(all) : ActionFine(all[i], known, effects) /\ all[i].key \in W
  /\ \A i, j \in 1 .. Len(all) : all[i].key = all[j].key => i = j

LEMMA ActionsJoined ==
  ASSUME NEW W, NEW s, ListOf(s, W), NEW t, ListOf(t, W), NEW known, NEW effects,
         View!Unique(View!KeyList(s)),
         \A i, j \in 1 .. Len(t) : t[i].key = t[j].key => i = j,
         \A i \in 1 .. Len(t) : t[i].key \notin View!KeysOf(s),
         \A i \in 1 .. Len(s) : ActionFit(s[i], known) /\ s[i].scope \in View!ActionScopes,
         \A i \in 1 .. Len(t) : ActionFit(t[i], known)
  PROVE  ActionsFine(ActionsOf(s, t, effects), W, known, effects)
<1> DEFINE n == Len(s)  m == Len(t)
           former(i) == View!Portable(s[i], s[i].scope, effects)
           latter(i) == View!Portable(t[i], "form", {})
           all == [i \in 1 .. n |-> former(i)] \o [i \in 1 .. m |-> latter(i)]
<1>1. n \in Nat /\ m \in Nat
  BY DEF ListOf
<1>2. /\ \A i \in 1 .. n : ActionFine(former(i), known, effects) /\ former(i).key = s[i].key
      /\ \A i \in 1 .. m : ActionFine(latter(i), known, effects) /\ latter(i).key = t[i].key
  <2>1. ASSUME NEW i \in 1 .. n
        PROVE  ActionFine(former(i), known, effects) /\ former(i).key = s[i].key
    <3> DEFINE a == s[i]  scope == a.scope
    <3>1. ActionFit(a, known) /\ scope \in View!ActionScopes /\ effects \subseteq effects
      OBVIOUS
    <3>2. former(i) = View!Portable(a, scope, effects) /\ s[i].key = a.key
      BY DEF former
    <3> HIDE DEF a, scope, former
    <3>3. /\ ActionFine(View!Portable(a, scope, effects), known, effects)
          /\ View!Portable(a, scope, effects).key = a.key
      BY <3>1, PortableFine
    <3> QED  BY <3>2, <3>3, Zenon
  <2>2. ASSUME NEW i \in 1 .. m
        PROVE  ActionFine(latter(i), known, effects) /\ latter(i).key = t[i].key
    <3>1. ActionFit(t[i], known) /\ "form" \in View!ActionScopes /\ {} \subseteq effects
      BY DEF View!ActionScopes
    <3> QED  BY <3>1, PortableFine, Zenon DEF latter
  <2> QED  BY <2>1, <2>2
<1>3. /\ \A i, j \in 1 .. n : s[i].key = s[j].key => i = j
      /\ \A i, j \in 1 .. m : t[i].key = t[j].key => i = j
      /\ \A i \in 1 .. m, j \in 1 .. n : t[i].key # s[j].key
      /\ (\A i \in 1 .. n : s[i].key \in W) /\ \A i \in 1 .. m : t[i].key \in W
  <2> DEFINE keys == View!KeyList(s)
  <2>1. Len(keys) = n /\ \A i \in 1 .. n : keys[i] = s[i].key
    BY <1>1 DEF View!KeyList
  <2> HIDE DEF keys
  <2>2. View!Unique(keys)
    BY DEF keys
  <2>3. \A i, j \in 1 .. n : s[i].key = s[j].key => i = j
    BY <2>1, <2>2 DEF View!Unique
  <2> QED  BY <2>3 DEF View!KeysOf, ListOf
<1> HIDE DEF n, m, former, latter
<1>4. /\ Len(all) = n + m
      /\ \A i \in 1 .. n + m : all[i] = IF i <= n THEN former(i) ELSE latter(i - n)
  <2> DEFINE f == [i \in 1 .. n |-> former(i)]  g == [i \in 1 .. m |-> latter(i)]
             A == {former(i) : i \in 1 .. n} \cup {latter(i) : i \in 1 .. m}
  <2>1. f \in [1 .. n -> A] /\ g \in [1 .. m -> A]
    OBVIOUS
  <2> HIDE DEF A
  <2>2. f \in Seq(A) /\ g \in Seq(A) /\ Len(f) = n /\ Len(g) = m
    BY <1>1, <2>1
  <2>3. (\A i \in 1 .. n : f[i] = former(i)) /\ \A i \in 1 .. m : g[i] = latter(i)
    OBVIOUS
  <2> HIDE DEF f, g
  <2>4. Len(f \o g) = Len(f) + Len(g)
    BY <2>2
  <2>5. ASSUME NEW i \in 1 .. n + m
        PROVE  (f \o g)[i] = IF i <= n THEN former(i) ELSE latter(i - n)
    <3>1. (f \o g)[i] = IF i <= n THEN f[i] ELSE g[i - n]
      BY <1>1, <2>2
    <3>2. IF i <= n THEN i \in 1 .. n ELSE i - n \in 1 .. m
      BY <1>1
    <3> QED  BY <2>3, <3>1, <3>2
  <2> QED  BY <2>2, <2>4, <2>5 DEF f, g
<1> HIDE DEF all
<1>5. ASSUME NEW i \in 1 .. n + m
      PROVE  /\ ActionFine(all[i], known, effects) /\ all[i].key \in W
             /\ IF i <= n THEN i \in 1 .. n /\ all[i].key = s[i].key
                ELSE i - n \in 1 .. m /\ all[i].key = t[i - n].key
  <2>1. IF i <= n THEN i \in 1 .. n ELSE i - n \in 1 .. m
    BY <1>1
  <2> QED  BY <1>2, <1>3, <1>4, <2>1
<1>6. ASSUME NEW i \in 1 .. n + m, NEW j \in 1 .. n + m, all[i].key = all[j].key PROVE i = j
  <2>1. i <= n <=> j <= n
    BY <1>3, <1>5, <1>6
  <2>2. CASE i <= n
    BY <1>3, <1>5, <1>6, <2>1, <2>2
  <2>3. CASE ~(i <= n)
    <3>1. i - n \in 1 .. m /\ j - n \in 1 .. m /\ t[i - n].key = t[j - n].key
      BY <1>5, <1>6, <2>1, <2>3
    <3>2. i - n = j - n
      BY <1>3, <3>1
    <3> QED  BY <1>1, <3>2
  <2> QED  BY <2>2, <2>3
<1>7. Len(all) \in Nat
  BY <1>1, <1>4
<1> QED  BY <1>4, <1>5, <1>6, <1>7 DEF ActionsFine, ActionsOf, all, former, latter, n, m

\* The sources of a translated view: its items, and those it declares.
Items == View!Source("items", "collection", {}, {})
KeysFor(v) == {"items"} \cup View!KeysOf(v.sources)

LEMMA ItemsAre ==
  /\ Items.key = "items" /\ Items.kind = "collection" /\ Items.told = TRUE
  /\ Items.depends = {} /\ Items.nested = {} /\ Items.refresh = View!Manual
<1> DEFINE key == "items"  sort == "collection"  manual == View!Manual
<1>1. Items = [key |-> key, kind |-> sort, told |-> TRUE, depends |-> {}, nested |-> {},
               refresh |-> manual]
  BY DEF Items, View!Source
<1> HIDE DEF key, sort, manual
<1>2. /\ Items.key = key /\ Items.kind = sort /\ Items.told = TRUE
      /\ Items.depends = {} /\ Items.nested = {} /\ Items.refresh = manual
  BY <1>1
<1> QED  BY <1>2, Zenon DEF key, sort, manual

\* A source in which the validation finds nothing, in a document that has
\* these keys.
SourceFine(s, known) ==
  /\ s.kind \in View!SourceKinds /\ s.told
  /\ s.depends \subseteq known /\ s.nested \subseteq known \cup {"capabilities"}
  /\ s.refresh = View!Manual

LEMMA SourcesApart ==
  ASSUME NEW v, NEW W, LegacyShaped(v, W), "items" \notin View!KeysOf(v.sources),
         View!Unique(View!KeyList(v.sources)),
         \A i \in 1 .. Len(v.sources) : SourceFine(v.sources[i], KeysFor(v))
  PROVE  LET s == <<Items>> \o v.sources
         IN  /\ View!KeysOf(s) = KeysFor(v)
             /\ Len(s) \in Nat
             /\ \A i, j \in 1 .. Len(s) : s[i].key = s[j].key => i = j
             /\ \A i \in 1 .. Len(s) : SourceFine(s[i], KeysFor(v)) /\ s[i].key \in W \cup {"items"}
<1> DEFINE one == <<Items>>  t == v.sources  s == one \o t  known == KeysFor(v)  n == Len(t)
<1>1. SourceFine(Items, known)
  BY ItemsAre, Zenon DEF SourceFine, View!SourceKinds
<1>2. ListOf(one, W \cup {"items"}) /\ ListOf(t, W \cup {"items"})
  <2>1. ListOf(t, W)
    BY Zenon DEF LegacyShaped
  <2>2. ListOf(t, W \cup {"items"})
    BY <2>1 DEF ListOf
  <2>3. Items.key \in W \cup {"items"}
    BY ItemsAre
  <2> QED  BY <2>2, <2>3, ListOne
<1>3. Len(one) = 1 /\ one[1] = Items
  OBVIOUS
<1> HIDE DEF one
<1>4. /\ ListOf(s, W \cup {"items"}) /\ n \in Nat /\ Len(s) = 1 + n
      /\ \A i \in 1 .. 1 + n : s[i] = IF i <= 1 THEN one[i] ELSE t[i - 1]
  <2>1. /\ ListOf(s, W \cup {"items"}) /\ Len(t) \in Nat /\ Len(s) = Len(one) + Len(t)
        /\ \A i \in 1 .. Len(one) + Len(t) : s[i] = IF i <= Len(one) THEN one[i] ELSE t[i - Len(one)]
    BY <1>2, ListJoined
  <2> HIDE DEF s
  <2> QED  BY <1>3, <2>1 DEF n
<1> HIDE DEF s, n
<1>5. ASSUME NEW i \in 1 .. Len(s)
      PROVE  /\ i = 1 => s[i] = Items
             /\ i # 1 => i - 1 \in 1 .. n /\ s[i] = t[i - 1]
  BY <1>3, <1>4
<1>6. \A i, j \in 1 .. n : t[i].key = t[j].key => i = j
  <2> DEFINE keys == View!KeyList(t)
  <2>1. Len(keys) = n /\ \A i \in 1 .. n : keys[i] = t[i].key
    BY <1>4 DEF View!KeyList, n
  <2>2. View!Unique(keys)
    OBVIOUS
  <2> HIDE DEF keys
  <2> QED  BY <2>1, <2>2 DEF View!Unique
<1>7. \A i \in 1 .. n : t[i].key # Items.key
  BY ItemsAre DEF View!KeysOf, n
<1>8. ASSUME NEW i \in 1 .. Len(s), NEW j \in 1 .. Len(s), s[i].key = s[j].key PROVE i = j
  <2>1. i = 1 <=> j = 1
    BY <1>5, <1>7, <1>8
  <2>2. CASE i # 1
    <3>1. i - 1 \in 1 .. n /\ j - 1 \in 1 .. n /\ t[i - 1].key = t[j - 1].key
      BY <1>5, <1>8, <2>1, <2>2
    <3>2. i - 1 = j - 1
      BY <1>6, <3>1
    <3> QED  BY <1>4, <3>2
  <2> QED  BY <2>1, <2>2
<1>9. ASSUME NEW i \in 1 .. Len(s)
      PROVE  SourceFine(s[i], known) /\ s[i].key \in W \cup {"items"}
  <2>1. \A k \in 1 .. n : SourceFine(t[k], known)
    BY DEF n
  <2> HIDE DEF known
  <2> QED  BY <1>1, <1>4, <1>5, <2>1 DEF ListOf
<1>10. ASSUME NEW key PROVE key \in View!KeysOf(s) <=> key \in known
  <2>1. key \in View!KeysOf(s) => key \in known
    <3>1. ASSUME NEW i \in 1 .. Len(s), key = s[i].key PROVE key \in known
      BY <1>5, <3>1, ItemsAre DEF View!KeysOf, KeysFor, n
    <3> QED  BY <3>1 DEF View!KeysOf
  <2>2. key = "items" => key \in View!KeysOf(s)
    <3>1. 1 \in 1 .. Len(s) /\ s[1] = Items
      BY <1>4, <1>5
    <3> QED  BY <3>1, ItemsAre DEF View!KeysOf
  <2>3. ASSUME NEW k \in 1 .. n, key = t[k].key PROVE key \in View!KeysOf(s)
    <3>1. k + 1 \in 1 .. Len(s) /\ s[k + 1] = t[k]
      BY <1>4
    <3> QED  BY <2>3, <3>1 DEF View!KeysOf
  <2> QED  BY <2>1, <2>2, <2>3 DEF KeysFor, View!KeysOf, n
<1>11. View!KeysOf(s) = known
  BY <1>10
<1>12. Len(s) \in Nat
  BY <1>4
<1> QED  BY <1>8, <1>9, <1>11, <1>12 DEF s, one

\* Keys apart that are words are in order.
LEMMA KeyedIs ==
  ASSUME NEW s, NEW W, Words(W), Len(s) \in Nat,
         \A i \in 1 .. Len(s) : s[i].key \in W,
         \A i, j \in 1 .. Len(s) : s[i].key = s[j].key => i = j
  PROVE  View!Keyed(s) /\ View!Collected(s) = View!KeysOf(s)
<1>1. \A i \in 1 .. Len(s) : s[i].key # "" /\ View!Stripped(s[i].key) = s[i].key
  BY Zenon DEF Words
<1>2. View!Keyed(s)
  BY <1>1 DEF View!Keyed
<1>3. \A key \in View!KeysOf(s) : key # "" /\ View!Stripped(key) = key
  BY <1>1 DEF View!KeysOf
<1> QED  BY <1>2, <1>3, PlainCollected

\* What it means that a legacy view has none of the faults.
LEMMA Faultless ==
  ASSUME NEW v, NEW W, LegacyShaped(v, W), ~View!AtFault(v)
  PROVE  LET known == KeysFor(v) IN
         /\ v.named
         /\ \A i \in 1 .. Len(View!Declared(v)) :
              /\ ActionFit(View!Declared(v)[i], known)
              /\ View!Declared(v)[i].scope \in View!ActionScopes
         /\ \A i \in 1 .. Len(View!Listed(v)) : ActionFit(View!Listed(v)[i], known)
         /\ View!Unique(View!KeyList(View!Declared(v)))
         /\ View!Unique(View!KeyList(View!CreateForm(v).fields))
         /\ View!Unique(View!KeyList(View!EditForm(v).fields))
         /\ \A i \in 1 .. Len(View!CreateForm(v).fields) : FieldFit(v, View!CreateForm(v).fields[i], known)
         /\ \A i \in 1 .. Len(View!EditForm(v).fields) : FieldFit(v, View!EditForm(v).fields[i], known)
         /\ \A i \in 1 .. Len(v.sources) : SourceFine(v.sources[i], known)
         /\ "items" \notin View!KeysOf(v.sources) /\ View!Unique(View!KeyList(v.sources))
<1> DEFINE known == KeysFor(v)
           declared == View!Declared(v)  listed == View!Listed(v)
           made == View!CreateForm(v).fields  edited == View!EditForm(v).fields
<1>1. /\ v.named
      /\ \A a \in View!Range1(declared) : a.scope \in View!ActionScopes
      /\ \A a \in View!Range1(declared \o listed) : ActionFit(a, known)
      /\ \A f \in View!Range1(made \o edited) : FieldFit(v, f, known)
      /\ \A s \in View!Range1(v.sources) :
           /\ s.kind \in View!SourceKinds /\ s.depends \subseteq known
           /\ s.nested \subseteq known \cup {"capabilities"}
  BY Zenon DEF View!AtFault, ActionFit, FieldFit, KeysFor
<1>2. /\ View!Unique(View!KeyList(declared)) /\ View!Unique(View!KeyList(made))
      /\ View!Unique(View!KeyList(edited))
      /\ "items" \notin View!KeysOf(v.sources) /\ View!Unique(View!KeyList(v.sources))
  BY Zenon DEF View!AtFault
<1>3. ASSUME NEW s, NEW t, ListOf(s, W), ListOf(t, W)
      PROVE  /\ \A i \in 1 .. Len(s) : s[i] \in View!Range1(s \o t)
             /\ \A i \in 1 .. Len(t) : t[i] \in View!Range1(s \o t)
  <2> DEFINE all == s \o t
  <2>1. /\ Len(s) \in Nat /\ Len(t) \in Nat /\ Len(all) = Len(s) + Len(t)
        /\ \A i \in 1 .. Len(s) + Len(t) : all[i] = IF i <= Len(s) THEN s[i] ELSE t[i - Len(s)]
    BY <1>3, ListJoined
  <2> HIDE DEF all
  <2>2. ASSUME NEW i \in 1 .. Len(s) PROVE s[i] \in View!Range1(all)
    <3>1. i \in 1 .. Len(all) /\ all[i] = s[i]
      BY <2>1
    <3> QED  BY <3>1 DEF View!Range1
  <2>3. ASSUME NEW i \in 1 .. Len(t) PROVE t[i] \in View!Range1(all)
    <3>1. i + Len(s) \in 1 .. Len(all) /\ all[i + Len(s)] = t[i]
      BY <2>1
    <3> QED  BY <3>1 DEF View!Range1
  <2> QED  BY <2>2, <2>3 DEF all
<1>4. ListOf(declared, W) /\ ListOf(listed, W)
  BY ActionsShaped
<1>5. ListOf(made, W) /\ ListOf(edited, W)
  BY FormsShaped, Zenon DEF FormShaped
<1>6. \A i \in 1 .. Len(v.sources) : SourceFine(v.sources[i], known)
  <2>1. \A i \in 1 .. Len(v.sources) : v.sources[i] \in View!Range1(v.sources)
    BY DEF View!Range1
  <2>2. \A i \in 1 .. Len(v.sources) : v.sources[i].told /\ v.sources[i].refresh = View!Manual
    BY Zenon DEF LegacyShaped
  <2> HIDE DEF known
  <2> QED  BY <1>1, <2>1, <2>2, Zenon DEF SourceFine
<1>7. \A i \in 1 .. Len(declared) : declared[i] \in View!Range1(declared)
  BY DEF View!Range1
<1> HIDE DEF known, declared, listed, made, edited
<1>8. /\ \A i \in 1 .. Len(declared) : ActionFit(declared[i], known) /\ declared[i].scope \in View!ActionScopes
      /\ \A i \in 1 .. Len(listed) : ActionFit(listed[i], known)
      /\ \A i \in 1 .. Len(made) : FieldFit(v, made[i], known)
      /\ \A i \in 1 .. Len(edited) : FieldFit(v, edited[i], known)
  BY <1>1, <1>3, <1>4, <1>5, <1>7, Zenon
<1> QED  BY <1>1, <1>2, <1>6, <1>8, Zenon DEF known, declared, listed, made, edited

\* normalization.py: however long its forms, fields, actions and sources are, a
\* legacy view whose keys are words is served unless it has a fault of its own.
THEOREM LegacyServed ==
  ASSUME NEW v, NEW W, LegacyShaped(v, W), ~View!AtFault(v)
  PROVE  View!Issues(View!LegacyDocument(v)) = {}
<1> DEFINE d == View!LegacyDocument(v)
           known == KeysFor(v)
           declared == View!Declared(v)
           more == View!FormActions(v)
           refresh == {<<"refresh_source", "items">>}
           actions == ActionsOf(declared, more, refresh)
           manual == View!Manual
           U == W \cup {"items"}
<1>1. /\ d.sources = <<Items>> \o v.sources /\ d.actions = actions /\ d.effects = <<>>
      /\ d.state = <<>> /\ d.poll = manual /\ d.tree = View!LegacyTree(v)
      /\ d.named = v.named /\ d.version = View!Version
  BY Zenon DEF View!LegacyDocument, View!Blank, Items, ActionsOf
<1>2. Words(U)
  <2>1. View!Stripped("items") = "items" /\ "items" # ""
    BY DEF View!Stripped
  <2>2. Words(W)
    BY Zenon DEF LegacyShaped
  <2> QED  BY <2>1, <2>2 DEF Words
<1>3. ActionsFine(actions, W, known, refresh)
  <2>1. /\ ListOf(declared, W) /\ View!Unique(View!KeyList(declared))
        /\ \A i \in 1 .. Len(declared) :
             ActionFit(declared[i], known) /\ declared[i].scope \in View!ActionScopes
    BY ActionsShaped, Faultless, Zenon
  <2>2. /\ ListOf(more, W)
        /\ \A i \in 1 .. Len(more) :
             /\ more[i].key \notin View!KeysOf(declared)
             /\ \E k \in 1 .. Len(View!Listed(v)) : more[i] = View!Listed(v)[k]
        /\ \A i, j \in 1 .. Len(more) : more[i].key = more[j].key => i = j
    BY FormActionsApart, Zenon
  <2>3. \A k \in 1 .. Len(View!Listed(v)) : ActionFit(View!Listed(v)[k], known)
    BY Faultless, Zenon
  <2>4. \A i \in 1 .. Len(more) : ActionFit(more[i], known)
    BY <2>2, <2>3, Zenon
  <2> HIDE DEF declared, more, known, refresh, actions
  <2> QED  BY <2>1, <2>2, <2>4, ActionsJoined DEF actions
<1> HIDE DEF actions, d
<1>4. /\ View!KeysOf(d.sources) = known
      /\ Len(d.sources) \in Nat
      /\ \A i, j \in 1 .. Len(d.sources) : d.sources[i].key = d.sources[j].key => i = j
      /\ \A i \in 1 .. Len(d.sources) : SourceFine(d.sources[i], known) /\ d.sources[i].key \in U
  <2> DEFINE s == <<Items>> \o v.sources
  <2>1. /\ "items" \notin View!KeysOf(v.sources) /\ View!Unique(View!KeyList(v.sources))
        /\ \A i \in 1 .. Len(v.sources) : SourceFine(v.sources[i], known)
    BY Faultless, Zenon
  <2>2. /\ View!KeysOf(s) = known
        /\ Len(s) \in Nat
        /\ \A i, j \in 1 .. Len(s) : s[i].key = s[j].key => i = j
        /\ \A i \in 1 .. Len(s) : SourceFine(s[i], known) /\ s[i].key \in U
    BY <2>1, SourcesApart, Zenon
  <2>3. d.sources = s
    BY <1>1
  <2> HIDE DEF s, known, U
  <2> QED  BY <2>2, <2>3
<1>5. "items" \in known
  BY DEF KeysFor
<1>6. /\ \E heads : "" \notin heads /\ Piece(d.tree, heads, known)
      /\ d.tree # <<>> /\ d.tree[1].type = "page"
  BY <1>1, <1>5, Faultless, TreePiece, Zenon
<1> HIDE DEF known
<1>7. /\ Len(d.tree) \in Nat
      /\ \A i \in 1 .. Len(d.tree) : Fine(d.tree[i], known) /\ d.tree[i].id # View!Id("")
      /\ \A i, j \in 1 .. Len(d.tree) : d.tree[i].id = d.tree[j].id => i = j
  <2>1. PICK heads : "" \notin heads /\ Piece(d.tree, heads, known)
    BY <1>6
  <2>2. View!Id("").base[1] = ""
    BY HeadOf
  <2>3. \A i \in 1 .. Len(d.tree) : d.tree[i].id.base[1] # ""
    BY <2>1 DEF Piece
  <2>4. \A i \in 1 .. Len(d.tree) : d.tree[i].id # View!Id("")
    BY <2>2, <2>3
  <2>5. Len(d.tree) \in Nat
    <3>1. PICK S : d.tree \in Seq(S)
      BY <2>1 DEF Piece
    <3> QED  BY <3>1
  <2>6. /\ \A i \in 1 .. Len(d.tree) : Fine(d.tree[i], known)
        /\ \A i, j \in 1 .. Len(d.tree) : d.tree[i].id = d.tree[j].id => i = j
    BY <2>1, Zenon DEF Piece
  <2> QED  BY <2>4, <2>5, <2>6
<1>8. View!Unique([i \in 1 .. Len(d.tree) |-> d.tree[i].id])
  <2> DEFINE ids == [i \in 1 .. Len(d.tree) |-> d.tree[i].id]
  <2>0. Len(d.tree) \in Nat
    BY <1>7
  <2>1. Len(ids) = Len(d.tree) /\ \A i \in 1 .. Len(d.tree) : ids[i] = d.tree[i].id
    BY <2>0
  <2> HIDE DEF ids
  <2>2. View!Unique(ids)
    BY <1>7, <2>1 DEF View!Unique
  <2> QED  BY <2>2 DEF ids
<1>9. /\ View!Keyed(d.sources) /\ View!Keyed(d.actions) /\ View!Keyed(d.state)
      /\ View!Collected(d.sources) = known
  <2>1. View!Keyed(d.sources) /\ View!Collected(d.sources) = known
    BY <1>2, <1>4, KeyedIs
  <2>2. View!Keyed(d.actions)
    <3>1. /\ Len(d.actions) \in Nat
          /\ \A i \in 1 .. Len(d.actions) : d.actions[i].key \in U
          /\ \A i, j \in 1 .. Len(d.actions) : d.actions[i].key = d.actions[j].key => i = j
      BY <1>1, <1>3 DEF ActionsFine
    <3> QED  BY <1>2, <3>1, KeyedIs
  <2>3. View!Keyed(d.state)
    <3>1. Len(d.state) = 0
      BY <1>1
    <3> QED  BY <3>1 DEF View!Keyed
  <2> QED  BY <2>1, <2>2, <2>3
<1>10. known \subseteq View!Known(d) /\ known \cup {"capabilities"} \subseteq View!Bindable(d)
  BY <1>9 DEF View!Known, View!Bindable
<1>11. ~View!PolicyFails(manual) /\ ~View!ConditionFails(d, manual.stop)
  <2>1. manual.mode = "manual" /\ manual.strategy = "replace" /\ manual.stop = View!Always
    BY Zenon DEF View!Manual, View!Policy
  <2> HIDE DEF manual
  <2> QED  BY <2>1, Zenon DEF View!PolicyFails, View!ConditionFails, View!RefreshModes, View!Strategies
<1>12. \A c : c = View!Always => ~View!ConditionFails(d, c)
  BY Zenon DEF View!ConditionFails
<1>13. ASSUME NEW e \in refresh PROVE ~View!EffectFails(d, e)
  <2>1. e[1] = "refresh_source" /\ e[2] = "items"
    BY DEF refresh
  <2> QED  BY <1>5, <1>9, <2>1 DEF View!EffectFails, View!EffectTypes, View!OfSource, View!OfState
<1> HIDE DEF refresh, manual
<1>14. ASSUME NEW i \in 1 .. Len(d.sources), NEW x PROVE ~SourceFinding(d, d.sources[i], x)
  <2> DEFINE s == d.sources[i]
  <2>1. /\ s.kind \in View!SourceKinds /\ s.told /\ s.depends \subseteq known
        /\ s.nested \subseteq known \cup {"capabilities"} /\ s.refresh = manual
    BY <1>4, Zenon DEF SourceFine, manual
  <2> HIDE DEF s
  <2>2. s.depends \subseteq View!Known(d) /\ s.nested \subseteq View!Bindable(d)
    BY <1>10, <2>1
  <2> QED  BY <1>11, <2>1, <2>2, Zenon DEF SourceFinding, s
<1>15. ASSUME NEW i \in 1 .. Len(d.actions), NEW x PROVE ~ActionFinding(d, d.actions[i], x)
  <2> DEFINE a == d.actions[i]
  <2>1. /\ a.told /\ a.scope \in View!ActionScopes /\ a.target /\ a.enabled = View!Always
        /\ a.nested \subseteq known \cup {"capabilities"} /\ a.effects \subseteq refresh
    <3>1. ActionFine(a, known, refresh)
      BY <1>1, <1>3 DEF ActionsFine
    <3> HIDE DEF a
    <3> QED  BY <3>1, Zenon DEF ActionFine
  <2> HIDE DEF a
  <2>2. a.nested \subseteq View!Bindable(d) /\ \A e \in a.effects : ~View!EffectFails(d, e)
    BY <1>10, <1>13, <2>1
  <2> QED  BY <1>12, <2>1, <2>2, Zenon DEF ActionFinding, a
<1>16. ASSUME NEW i \in 1 .. Len(d.tree), NEW x PROVE ~ComponentFinding(d, d.tree[i], x)
  <2> DEFINE c == d.tree[i]
  <2>1. Fine(c, known) /\ c.id # View!Id("")
    BY <1>7
  <2> HIDE DEF c
  <2>2. /\ c.type \in View!ComponentTypes /\ c.action = "" /\ c.shown = View!Always
        /\ c.binding # "" => c.binding \in known
        /\ c.type \in View!NeedsBinding => c.binding # ""
        /\ c.type = "field" => c.key # "" /\ c.input \in View!FieldTypes
        /\ c.nested \subseteq known \cup {"capabilities"}
    BY <2>1, Zenon DEF Fine
  <2>3. /\ c.nested \subseteq View!Bindable(d)
        /\ c.binding # "" => c.binding \in View!Known(d)
    BY <1>10, <2>2
  <2> QED  BY <1>12, <2>1, <2>2, <2>3, Zenon DEF ComponentFinding, c
<1>17. ASSUME NEW x PROVE ~FrameFinding(d, x)
  <2>1. d.named /\ d.version = View!Version /\ d.tree # <<>> /\ d.tree[1].type = "page"
    BY <1>1, <1>6, Faultless, Zenon
  <2>2. \A e \in View!Range1(d.effects) : FALSE
    BY <1>1 DEF View!Range1
  <2>3. ~View!PolicyFails(d.poll) /\ ~View!ConditionFails(d, d.poll.stop)
    BY <1>1, <1>11, Zenon DEF manual
  <2> QED  BY <1>8, <1>9, <2>1, <2>2, <2>3, Zenon DEF FrameFinding
<1>18. \A i \in 1 .. Len(d.state) : FALSE
  BY <1>1
<1>19. ASSUME NEW x PROVE ~Finding(d, x)
  BY <1>14, <1>15, <1>16, <1>17, <1>18, Zenon DEF Finding
<1>20. View!Issues(d) = {}
  BY <1>19, IssuesAre
<1> QED  BY <1>20 DEF d

LEMMA TreeGrows ==
  ASSUME NEW tree, TreeShaped(tree), NEW c, "id" \in DOMAIN c, "shown" \in DOMAIN c,
         c.id \in ViewId, ConditionShaped(c.shown)
  PROVE  TreeShaped(Append(tree, c))
<1> DEFINE new == Append(tree, c)
<1>1. PICK S : tree \in Seq(S)
  BY DEF TreeShaped
<1>2. tree \in Seq(S \cup {c}) /\ c \in S \cup {c}
  BY <1>1
<1>3. new \in Seq(S \cup {c}) /\ Len(new) = Len(tree) + 1
  BY <1>2
<1>4. \A i \in 1 .. Len(new) : new[i] = IF i = Len(tree) + 1 THEN c ELSE tree[i]
  BY <1>2, <1>3
<1> HIDE DEF new
<1>5. ASSUME NEW i \in 1 .. Len(new)
      PROVE  /\ "id" \in DOMAIN new[i] /\ "shown" \in DOMAIN new[i]
             /\ new[i].id \in ViewId /\ ConditionShaped(new[i].shown)
  <2>1. Len(tree) \in Nat /\ (i # Len(tree) + 1 => i \in 1 .. Len(tree))
    BY <1>1, <1>3
  <2> QED  BY <1>4, <2>1 DEF TreeShaped
<1>6. TreeShaped(new)
  BY <1>3, <1>5 DEF TreeShaped
<1> QED  BY <1>6 DEF new

LEMMA ActsGrow ==
  ASSUME NEW actions, ActsShaped(actions), NEW a, ConditionShaped(a.enabled)
  PROVE  ActsShaped(Append(actions, a))
<1> DEFINE new == Append(actions, a)
<1>1. PICK S : actions \in Seq(S)
  BY DEF ActsShaped
<1>2. actions \in Seq(S \cup {a}) /\ a \in S \cup {a}
  BY <1>1
<1>3. new \in Seq(S \cup {a}) /\ Len(new) = Len(actions) + 1
  BY <1>2
<1>4. \A i \in 1 .. Len(new) : new[i] = IF i = Len(actions) + 1 THEN a ELSE actions[i]
  BY <1>2, <1>3
<1> HIDE DEF new
<1>5. ASSUME NEW i \in 1 .. Len(new) PROVE ConditionShaped(new[i].enabled)
  <2>1. Len(actions) \in Nat /\ (i # Len(actions) + 1 => i \in 1 .. Len(actions))
    BY <1>1, <1>3
  <2> QED  BY <1>4, <2>1 DEF ActsShaped
<1>6. ActsShaped(new)
  BY <1>3, <1>5 DEF ActsShaped
<1> QED  BY <1>6 DEF new

\* The conditions an author writes.
OperandShaped(a) == a.of = "condition" => \E S : a.args \in Seq(S)

LEMMA ConditionIs ==
  ASSUME NEW op, NEW args, \E S : args \in Seq(S),
         \A i \in 1 .. Len(args) : OperandShaped(args[i])
  PROVE  ConditionShaped(View!Condition(op, args))
<1> DEFINE c == View!Condition(op, args)
<1>1. c.args = args
  BY DEF View!Condition
<1> HIDE DEF c
<1>2. ASSUME NEW inner \in View!Inside(c) PROVE \E S : inner.args \in Seq(S)
  <2>1. CASE inner = c
    BY <1>1, <2>1
  <2>2. CASE inner # c
    <3>1. PICK i \in 1 .. Len(args) : inner = args[i] /\ inner.of = "condition"
      BY <1>1, <2>2 DEF View!Inside, View!Range1
    <3> QED  BY <3>1, Zenon DEF OperandShaped
  <2> QED  BY <2>1, <2>2
<1>3. ConditionShaped(c)
  BY <1>2, Zenon DEF ConditionShaped
<1> QED  BY <1>3 DEF c

LEMMA NoOperand == ASSUME NEW op PROVE ConditionShaped(View!Condition(op, <<>>))
<1>1. <<>> \in Seq({}) /\ Len(<<>>) = 0
  OBVIOUS
<1>2. \A i \in 1 .. 0 : FALSE
  OBVIOUS
<1> QED  BY <1>1, <1>2, ConditionIs, Zenon

LEMMA OneOperand ==
  ASSUME NEW op, NEW x, OperandShaped(x)
  PROVE  /\ ConditionShaped(View!Condition(op, <<x>>))
         /\ OperandShaped(View!Condition(op, <<x>>))
<1> DEFINE args == <<x>>
<1>1. args \in Seq({x}) /\ Len(args) = 1 /\ args[1] = x
  OBVIOUS
<1>2. View!Condition(op, args).args = args
  BY DEF View!Condition
<1> HIDE DEF args
<1>3. \A i \in 1 .. Len(args) : OperandShaped(args[i])
  BY <1>1
<1>4. ConditionShaped(View!Condition(op, args))
  BY <1>1, <1>3, ConditionIs
<1>5. OperandShaped(View!Condition(op, args))
  BY <1>1, <1>2 DEF OperandShaped
<1> QED  BY <1>4, <1>5 DEF args

LEMMA TwoOperands ==
  ASSUME NEW op, NEW x, NEW y, OperandShaped(x), OperandShaped(y)
  PROVE  ConditionShaped(View!Condition(op, <<x, y>>))
<1> DEFINE args == <<x, y>>
<1>1. args \in Seq({x, y}) /\ Len(args) = 2 /\ args[1] = x /\ args[2] = y
  OBVIOUS
<1> HIDE DEF args
<1>3. \A i \in 1 .. Len(args) : OperandShaped(args[i])
  BY <1>1
<1>4. ConditionShaped(View!Condition(op, args))
  BY <1>1, <1>3, ConditionIs
<1> QED  BY <1>4 DEF args

LEMMA LeafIs ==
  ASSUME NEW x PROVE OperandShaped(View!Binding(x)) /\ OperandShaped(View!Literal(x))
<1>1. View!Binding(x).of = "binding" /\ View!Literal(x).of = "literal"
  BY DEF View!Binding, View!Literal
<1> QED  BY <1>1 DEF OperandShaped

LEMMA AlwaysShaped == ConditionShaped(View!Always)
BY NoOperand DEF View!Always

LEMMA ConditionsAre == \A c \in View!Conditions : ConditionShaped(c)
<1>1. /\ ConditionShaped(View!Always)
      /\ ConditionShaped(View!Condition("truthy", <<>>)) /\ ConditionShaped(View!Condition("maybe", <<>>))
  BY NoOperand, AlwaysShaped
<1>2. /\ ConditionShaped(View!Condition("truthy", <<View!Binding("k")>>))
      /\ ConditionShaped(View!Condition("falsy", <<View!Binding("x")>>))
      /\ ConditionShaped(View!Condition("exists", <<View!Literal("yes")>>))
  BY OneOperand, LeafIs, Zenon
<1>3. ConditionShaped(View!Condition("in", <<View!Literal("yes"), View!Binding("capabilities")>>))
  BY TwoOperands, LeafIs, Zenon
<1>4. OperandShaped(View!Condition("truthy", <<View!Binding("s")>>))
  BY OneOperand, LeafIs, Zenon
<1>5. ConditionShaped(View!Condition("not", <<View!Condition("truthy", <<View!Binding("s")>>)>>))
  BY <1>4, OneOperand, Zenon
<1>6. ConditionShaped(View!Condition("any", <<View!Condition("truthy", <<View!Binding("s")>>),
                                              View!Binding("s")>>))
  BY <1>4, LeafIs, TwoOperands, Zenon
<1>7. ConditionShaped(View!Condition("all", <<View!Condition("not", <<View!Literal("yes")>>)>>))
  BY OneOperand, LeafIs, Zenon
<1> QED  BY <1>1, <1>2, <1>3, <1>5, <1>6, <1>7, Zenon DEF View!Conditions

\* What an author writes of components, actions and policies.
ComponentShaped(c) == "id" \in DOMAIN c /\ "shown" \in DOMAIN c /\ ConditionShaped(c.shown)

LEMMA ComponentIs ==
  ASSUME NEW id, NEW type, NEW parent, NEW binding, NEW inner, NEW action, NEW when,
         ConditionShaped(when)
  PROVE  /\ ComponentShaped(View!Component(id, type, parent, binding, inner, action, when))
         /\ \A x : /\ ComponentShaped([View!Component(id, type, parent, binding, inner, action, when)
                                EXCEPT !.input = x])
                   /\ ComponentShaped([View!Component(id, type, parent, binding, inner, action, when)
                                EXCEPT !.nested = x])
                   /\ ComponentShaped([View!Component(id, type, parent, binding, inner, action, when)
                                EXCEPT !.type = x])
<1> DEFINE none == ""  text == "text"
           c == View!Component(id, type, parent, binding, inner, action, when)
<1>1. c = [id |-> id, type |-> type, parent |-> parent, binding |-> binding, inner |-> inner,
           key |-> none, input |-> text, nested |-> {}, action |-> action, shown |-> when]
  BY DEF View!Component
<1> HIDE DEF c, none, text
<1>2. ComponentShaped(c)
  BY <1>1 DEF ComponentShaped
<1>3. ASSUME NEW x
      PROVE  /\ ComponentShaped([c EXCEPT !.input = x]) /\ ComponentShaped([c EXCEPT !.nested = x])
             /\ ComponentShaped([c EXCEPT !.type = x])
  BY <1>2 DEF ComponentShaped
<1> QED  BY <1>2, <1>3 DEF c

LEMMA ComponentsAre == \A c \in View!Components \cup View!OddComponents : ComponentShaped(c)
<1>0. \A type, binding : ComponentShaped(View!Bare(type, binding))
  BY ComponentIs, AlwaysShaped, Zenon DEF View!Bare
<1>1. ASSUME NEW c \in View!Components PROVE ComponentShaped(c)
  <2>1. PICK b : c = View!Bare(b[1], b[2])
    BY DEF View!Components
  <2> QED  BY <1>0, <2>1
<1>2. ASSUME NEW when, ConditionShaped(when) PROVE ComponentShaped(View!Card(when))
  BY <1>2, ComponentIs, Zenon DEF View!Card
<1>3. /\ ConditionShaped(View!Condition("truthy", <<View!Binding("x")>>))
      /\ ConditionShaped(View!Condition("not", <<View!Literal("yes")>>))
  BY OneOperand, LeafIs, Zenon
<1>4. /\ ComponentShaped(View!FieldComponent)
      /\ \A x : ComponentShaped([View!FieldComponent EXCEPT !.input = x])
      /\ \A x : ComponentShaped([View!FieldComponent EXCEPT !.nested = x])
  BY ComponentIs, AlwaysShaped, Zenon DEF View!FieldComponent, View!Bare
<1>5. /\ ComponentShaped(View!Component(View!Id(""), "collection", 1, "", "s", "", View!Always))
      /\ ComponentShaped(View!Component(View!Id(""), "card", 1, "", "", "a", View!Always))
      /\ ComponentShaped(View!Bare("hologram", ""))
  BY <1>0, ComponentIs, AlwaysShaped, Zenon
<1>6. ASSUME NEW c \in View!OddComponents PROVE ComponentShaped(c)
  BY <1>2, <1>3, <1>4, <1>5, Zenon DEF View!OddComponents
<1> QED  BY <1>1, <1>6

LEMMA ActionIs ==
  ASSUME NEW key, NEW scope, NEW effects, NEW enabled, ConditionShaped(enabled)
  PROVE  /\ ConditionShaped(View!Action(key, scope, effects, enabled).enabled)
         /\ \A x : /\ ConditionShaped([View!Action(key, scope, effects, enabled) EXCEPT !.told = x].enabled)
                   /\ ConditionShaped([View!Action(key, scope, effects, enabled) EXCEPT !.target = x].enabled)
                   /\ ConditionShaped([View!Action(key, scope, effects, enabled) EXCEPT !.nested = x].enabled)
<1> DEFINE a == View!Action(key, scope, effects, enabled)
<1>1. a = [key |-> key, scope |-> scope, effects |-> effects, enabled |-> enabled,
           told |-> TRUE, target |-> TRUE, nested |-> {}]
  BY DEF View!Action
<1> HIDE DEF a
<1>2. a.enabled = enabled
  BY <1>1
<1>3. \A x : /\ [a EXCEPT !.told = x].enabled = enabled
             /\ [a EXCEPT !.target = x].enabled = enabled
             /\ [a EXCEPT !.nested = x].enabled = enabled
  BY <1>1
<1> QED  BY <1>2, <1>3 DEF a

LEMMA ActionsAre == \A a \in View!Actions \cup View!OddActions : ConditionShaped(a.enabled)
<1>1. ASSUME NEW a \in View!Actions PROVE ConditionShaped(a.enabled)
  <2>1. PICK effects, enabled :
          a = View!Action("a", "view", effects, enabled) /\ ConditionShaped(enabled)
    <3> DEFINE Acting(e) == View!Action("a", "view", {e}, View!Always)
               Under(c) == View!Action("a", "view", {<<"refresh_source", "k">>}, c)
    <3>1. View!Actions = {Acting(e) : e \in View!Effects} \cup {Under(c) : c \in View!Conditions}
      BY Zenon DEF View!Actions, Acting, Under
    <3> HIDE DEF Acting, Under
    <3>2. \/ \E e \in View!Effects : a = Acting(e)
          \/ \E c \in View!Conditions : a = Under(c)
      BY <3>1
    <3> QED  BY <3>2, ConditionsAre, AlwaysShaped, Zenon DEF Acting, Under
  <2> QED  BY <2>1, ActionIs, Zenon
<1>2. ASSUME NEW a \in View!OddActions PROVE ConditionShaped(a.enabled)
  <2>1. /\ ConditionShaped(View!Action("a", "galaxy", {}, View!Always).enabled)
        /\ \A x : /\ ConditionShaped([View!PlainAction EXCEPT !.told = x].enabled)
                  /\ ConditionShaped([View!PlainAction EXCEPT !.target = x].enabled)
                  /\ ConditionShaped([View!PlainAction EXCEPT !.nested = x].enabled)
    BY ActionIs, AlwaysShaped, Zenon DEF View!PlainAction
  <2> QED  BY <2>1, Zenon DEF View!OddActions
<1> QED  BY <1>1, <1>2

LEMMA PolicyIs ==
  ASSUME NEW mode, NEW strategy, NEW interval, NEW stop
  PROVE  View!Policy(mode, strategy, interval, stop).stop = stop
BY DEF View!Policy

LEMMA PoliciesAre == \A p \in View!Policies : ConditionShaped(p.stop)
<1> DEFINE until == View!Condition("not", <<View!Binding("k")>>)
<1>1. ConditionShaped(until)
  BY OneOperand, LeafIs, Zenon DEF until
<1> HIDE DEF until
<1>2. ASSUME NEW p \in View!Policies
      PROVE  \E mode, strategy, interval :
               p = View!Policy(mode, strategy, interval, View!Always)
               \/ p = View!Policy(mode, strategy, interval, until)
  BY <1>2, Zenon DEF View!Policies, until
<1>3. \A mode, strategy, interval :
        /\ ConditionShaped(View!Policy(mode, strategy, interval, View!Always).stop)
        /\ ConditionShaped(View!Policy(mode, strategy, interval, until).stop)
  BY <1>1, AlwaysShaped, PolicyIs
<1> QED  BY <1>2, <1>3, Zenon

LEMMA ViewIds ==
  ASSUME NEW base \in {"a", "b", "p", ""}, NEW marks \in Seq(Nat)
  PROVE  [base |-> <<base>>, marks |-> marks] \in ViewId
BY DEF ViewId

LEMMA ViewInit == View!Init => ViewInv
<1> SUFFICES ASSUME View!Init PROVE ViewInv
  OBVIOUS
<1>1. view = View!Blank /\ legacy = <<>> /\ served = <<>> /\ verdict = "written"
  BY DEF View!Init
<1>2. MaxParts \in Nat
  BY BoundsAssumption
<1>4. /\ view.sources = <<>> /\ view.state = <<>> /\ view.actions = <<>> /\ view.effects = <<>>
      /\ view.poll = View!Manual /\ view.tree = <<View!Page>>
      /\ view.named /\ view.version = View!Version /\ view.needs = {}
      /\ DOMAIN view = {"named", "version", "needs", "sources", "state", "actions", "effects",
                        "poll", "tree"}
  BY <1>1 DEF View!Blank
<1>5. View!Parts(view) = 0
  <2> DEFINE a == {i \in 1 .. Len(view.sources) : view.sources[i] \notin View!Sources}
             b == {i \in 1 .. Len(view.actions) : view.actions[i] \notin View!Actions}
             c == {i \in 2 .. Len(view.tree) :
                     [view.tree[i] EXCEPT !.id = View!Id(""), !.parent = 1] \notin View!Components}
  <2>1. Len(<<>>) = 0 /\ Len(<<View!Page>>) = 1 /\ <<View!Page>>[1] = View!Page
        /\ <<View!Page>> # <<>>
    OBVIOUS
  <2>2. a = {} /\ b = {} /\ c = {}
    BY <1>4, <2>1
  <2>3. View!Cardinality(a) = 0 /\ View!Cardinality(b) = 0 /\ View!Cardinality(c) = 0
    <3> HIDE DEF a, b, c
    <3> QED  BY <2>2, CountIs, FS_EmptySet
  <2>4. View!Parts(view) =
          Len(view.sources) + Len(view.state) + Len(view.actions) + Len(view.effects)
          + View!Cardinality(a) + View!Cardinality(b) + View!Cardinality(c)
          + (IF view.poll = View!Manual THEN 0 ELSE 2)
          + (IF view.named /\ view.version = View!Version /\ view.needs = {} /\ view.tree # <<>>
                /\ view.tree[1] = View!Page
             THEN Len(view.tree) - 1 ELSE Len(view.tree) + 2)
    BY DEF View!Parts
  <2> HIDE DEF a, b, c
  <2> QED  BY <1>4, <2>1, <2>3, <2>4
<1>6. /\ "id" \in DOMAIN View!Page /\ View!Page.id \in ViewId
      /\ "shown" \in DOMAIN View!Page /\ ConditionShaped(View!Page.shown)
  <2>1. <<>> \in Seq(Nat)
    OBVIOUS
  <2>2. View!Id("p") \in ViewId
    BY <2>1, ViewIds DEF View!Id, View!IdOf
  <2>3. ComponentShaped(View!Page)
    BY ComponentIs, AlwaysShaped, Zenon DEF View!Page
  <2> QED  BY <2>2, <2>3, PageIs DEF ComponentShaped
<1>7. TreeShaped(view.tree)
  <2> DEFINE page == View!Page  tree == <<page>>
  <2>1. /\ "id" \in DOMAIN page /\ page.id \in ViewId
        /\ "shown" \in DOMAIN page /\ ConditionShaped(page.shown)
    BY <1>6
  <2> HIDE DEF page
  <2>2. tree \in Seq({page}) /\ Len(tree) = 1
    OBVIOUS
  <2>3. \A i \in 1 .. Len(tree) : tree[i] = page
    OBVIOUS
  <2> HIDE DEF tree
  <2>4. TreeShaped(tree)
    BY <2>1, <2>2, <2>3 DEF TreeShaped
  <2> QED  BY <1>4, <2>4 DEF page, tree
<1>8. ActsShaped(view.actions) /\ ConditionShaped(view.poll.stop)
  <2>1. <<>> \in Seq({}) /\ Len(<<>>) = 0
    OBVIOUS
  <2>2. ActsShaped(<<>>)
    BY <2>1 DEF ActsShaped
  <2>3. View!Manual.stop = View!Always
    BY PolicyIs DEF View!Manual
  <2> QED  BY <1>4, <2>2, <2>3, AlwaysShaped
<1>9. DocumentShaped(view)
  BY <1>4, <1>7, <1>8 DEF DocumentShaped
<1> QED  BY <1>1, <1>2, <1>5, <1>9 DEF ViewInv, View!TypeOK, Translated

\* An author adds a part.
LEMMA ViewWrites ==
  ASSUME ViewInv, NEW d, View!Write(d), DocumentShaped(d)
  PROVE  ViewInv'
<1>1. view' = d /\ View!Parts(d) <= MaxParts /\ UNCHANGED <<legacy, served, verdict>>
  BY DEF View!Write
<1>2. View!TypeOK'
  BY <1>1 DEF View!TypeOK, ViewInv
<1>3. DocumentShaped(view)'
  BY <1>1
<1> QED  BY <1>1, <1>2, <1>3 DEF ViewInv, Translated

LEMMA MarksAre == <<>> \in Seq(Nat) /\ <<2>> \in Seq(Nat)
OBVIOUS

LEMMA ViewAdds ==
  ASSUME ViewInv, View!AddComponent PROVE ViewInv'
<1>1. PICK base \in {"a", "b", ""}, marks \in {<<>>, <<2>>}, parent \in {1, Len(view.tree)},
           c \in View!Components \cup View!OddComponents :
        View!Write([view EXCEPT !.tree =
          Append(@, [c EXCEPT !.id = [base |-> <<base>>, marks |-> marks], !.parent = parent])])
  BY Zenon DEF View!AddComponent
<1> DEFINE id == [base |-> <<base>>, marks |-> marks]
           new == [c EXCEPT !.id = id, !.parent = parent]
           d == [view EXCEPT !.tree = Append(@, new)]
<1>2. ComponentShaped(c)
  BY ComponentsAre
<1>3. id \in ViewId
  <2>1. marks \in Seq(Nat)
    BY MarksAre
  <2> QED  BY <2>1, ViewIds
<1> HIDE DEF id
<1>4. /\ "id" \in DOMAIN new /\ new.id \in ViewId
      /\ "shown" \in DOMAIN new /\ ConditionShaped(new.shown)
  BY <1>2, <1>3 DEF ComponentShaped
<1>5. View!Write(d)
  BY <1>1 DEF id
<1> HIDE DEF new
<1>6. /\ DOMAIN d = DOMAIN view /\ d.tree = Append(view.tree, new)
      /\ d.actions = view.actions /\ d.poll = view.poll
  BY DEF ViewInv, DocumentShaped
<1>7. TreeShaped(d.tree)
  BY <1>4, <1>6, TreeGrows DEF ViewInv, DocumentShaped
<1> HIDE DEF d
<1>8. DocumentShaped(d)
  BY <1>6, <1>7 DEF ViewInv, DocumentShaped
<1> QED  BY <1>5, <1>8, ViewWrites, Zenon

\* What an author writes beside components.
LEMMA FrameWritten ==
  ASSUME ViewInv
  PROVE  /\ \A x : /\ DocumentShaped([view EXCEPT !.sources = x])
                   /\ DocumentShaped([view EXCEPT !.state = x])
                   /\ DocumentShaped([view EXCEPT !.effects = x])
                   /\ DocumentShaped([view EXCEPT !.needs = x])
                   /\ DocumentShaped([view EXCEPT !.named = x])
                   /\ DocumentShaped([view EXCEPT !.version = x])
         /\ \A p : ConditionShaped(p.stop) => DocumentShaped([view EXCEPT !.poll = p])
         /\ \A a : ActsShaped(a) => DocumentShaped([view EXCEPT !.actions = a])
         /\ \A t : TreeShaped(t) => DocumentShaped([view EXCEPT !.tree = t])
<1>1. /\ \A x : /\ DocumentShaped([view EXCEPT !.sources = x])
                /\ DocumentShaped([view EXCEPT !.state = x])
                /\ DocumentShaped([view EXCEPT !.effects = x])
                /\ DocumentShaped([view EXCEPT !.needs = x])
                /\ DocumentShaped([view EXCEPT !.named = x])
                /\ DocumentShaped([view EXCEPT !.version = x])
  BY DEF ViewInv, DocumentShaped
<1>2. \A p : ConditionShaped(p.stop) => DocumentShaped([view EXCEPT !.poll = p])
  BY DEF ViewInv, DocumentShaped
<1>3. \A a : ActsShaped(a) => DocumentShaped([view EXCEPT !.actions = a])
  BY DEF ViewInv, DocumentShaped
<1>4. \A t : TreeShaped(t) => DocumentShaped([view EXCEPT !.tree = t])
  BY DEF ViewInv, DocumentShaped
<1> QED  BY <1>1, <1>2, <1>3, <1>4

LEMMA ViewActs == ASSUME ViewInv, View!AddAction PROVE ViewInv'
<1>1. PICK a \in View!Actions \cup View!OddActions :
        View!Write([view EXCEPT !.actions = Append(@, a)])
  BY Zenon DEF View!AddAction
<1>2. ActsShaped(Append(view.actions, a))
  BY ActionsAre, ActsGrow DEF ViewInv, DocumentShaped
<1>3. DocumentShaped([view EXCEPT !.actions = Append(@, a)])
  BY <1>2, FrameWritten
<1> QED  BY <1>1, <1>3, ViewWrites

LEMMA ViewFrames == ASSUME ViewInv, View!SetFrame PROVE ViewInv'
<1> DEFINE card == [View!Page EXCEPT !.type = "card"]
<1>1. TreeShaped(<<>>) /\ TreeShaped(<<card>>)
  <2>1. <<>> \in Seq({}) /\ Len(<<>>) = 0
    OBVIOUS
  <2>2. TreeShaped(<<>>)
    BY <2>1 DEF TreeShaped
  <2>3. ComponentShaped(card)
    BY ComponentIs, AlwaysShaped, Zenon DEF View!Page
  <2>4. <<>> \in Seq(Nat)
    OBVIOUS
  <2>5. View!Id("p") \in ViewId
    BY <2>4, ViewIds DEF View!Id, View!IdOf
  <2>6. card.id \in ViewId
    BY <2>5, PageIs
  <2> HIDE DEF card
  <2>7. TreeShaped(Append(<<>>, card))
    BY <2>2, <2>3, <2>6, TreeGrows DEF ComponentShaped
  <2>8. Append(<<>>, card) = <<card>>
    OBVIOUS
  <2> QED  BY <2>2, <2>7, <2>8
<1>2. \E d : View!Write(d) /\ DocumentShaped(d)
  BY <1>1, FrameWritten, Zenon DEF View!SetFrame
<1> QED  BY <1>2, ViewWrites

LEMMA ViewOthers ==
  ASSUME ViewInv, View!AddSource \/ View!AddState \/ View!AddEffect \/ View!SetPolling
  PROVE  ViewInv'
<1>1. \E d : View!Write(d) /\ DocumentShaped(d)
  BY FrameWritten, PoliciesAre, Zenon
     DEF View!AddSource, View!AddState, View!AddEffect, View!SetPolling
<1> QED  BY <1>1, ViewWrites

LEMMA ViewServes ==
  ASSUME ViewInv,
         View!Normalize \/ View!NormalizeLegacy \/ View!Validate \/ View!Negotiate \/ View!Render
         \/ UNCHANGED viewState
  PROVE  ViewInv'
<1>1. UNCHANGED view
  BY Zenon DEF View!Normalize, View!NormalizeLegacy, View!Validate, View!Negotiate, View!Render,
               viewState
<1>2. DocumentShaped(view)' /\ View!TypeOK /\ View!Parts(view)' = View!Parts(view)
  BY <1>1 DEF ViewInv
<1>3. ASSUME NEW d, View!Normalized(d)
      PROVE  /\ Len(served') <= 1 /\ verdict' \in {"served", "refused"}
             /\ verdict' = "refused" <=> served' = <<>>
  <2>1. Len(<<>>) = 0 /\ Len(<<d>>) = 1 /\ <<d>> # <<>>
    OBVIOUS
  <2> QED  BY <1>3, <2>1 DEF View!Normalized
<1>4. CASE View!Normalize
  BY <1>1, <1>2, <1>3, <1>4 DEF ViewInv, View!TypeOK, View!Normalize, Translated
<1>5. CASE View!NormalizeLegacy
  <2>1. PICK v \in View!LegacyViews :
          legacy' = <<v>> /\ View!Normalized(View!LegacyDocument(v))
    BY <1>5, Zenon DEF View!NormalizeLegacy
  <2>2. Len(legacy') = 1 /\ legacy'[1] = v
    BY <2>1
  <2>3. verdict' # "written"
        /\ (verdict' = "refused" => View!Issues(View!LegacyDocument(v)) # {})
    BY <2>1 DEF View!Normalized
  <2>4. Translated'
    BY <2>1, <2>2, <2>3 DEF Translated
  <2> QED  BY <1>1, <1>2, <1>3, <2>1, <2>2, <2>4 DEF ViewInv, View!TypeOK
<1>6. CASE View!Negotiate \/ View!Render
  <2>1. /\ verdict = "served" /\ UNCHANGED <<legacy, served>>
        /\ verdict' \in {"negotiated", "incompatible", "rendered", "reported", "raised"}
    BY <1>6, Zenon DEF View!Negotiate, View!Render
  <2> QED  BY <1>1, <1>2, <2>1 DEF ViewInv, View!TypeOK, Translated
<1>7. CASE UNCHANGED viewState
  BY <1>1, <1>2, <1>7 DEF ViewInv, View!TypeOK, viewState, Translated
<1>8. CASE View!Validate
  BY <1>1, <1>2, <1>3, <1>8 DEF ViewInv, View!TypeOK, View!Validate, Translated
<1> QED  BY <1>4, <1>5, <1>6, <1>7, <1>8

LEMMA ViewStep == ASSUME ViewInv, [View!Next]_viewState PROVE ViewInv'
BY ViewAdds, ViewActs, ViewFrames, ViewOthers, ViewServes, Zenon DEF View!Next

\* Normalizing keeps what a view has beside its tree, and the conditions in it.
LEMMA PreparedShaped ==
  ASSUME ViewInv
  PROVE  LET d == [view EXCEPT !.tree = View!Prepared(@)]
         IN  d.tree = View!Prepared(view.tree) /\ ConditionsShaped(d)
<1> DEFINE d == [view EXCEPT !.tree = View!Prepared(@)]
           tree == view.tree
           one(i) == [tree[i] EXCEPT !.id = View!Renamed(tree, i),
                        !.binding = View!Bound(tree, i),
                        !.key = IF tree[i].type = "field" /\ @ = "" THEN tree[i].id.base[1] ELSE @]
<1>1. d.tree = View!Prepared(tree) /\ d.actions = view.actions /\ d.poll = view.poll
  BY DEF ViewInv, DocumentShaped
<1>2. View!Prepared(tree) = [i \in 1 .. Len(tree) |-> one(i)]
  BY DEF View!Prepared
<1>3. ASSUME NEW i \in 1 .. Len(tree) PROVE one(i).shown = tree[i].shown
  BY DEF ViewInv, DocumentShaped, TreeShaped
<1> HIDE DEF one, d
<1>4. Len([i \in 1 .. Len(tree) |-> one(i)]) = Len(tree)
  BY DEF ViewInv, DocumentShaped, TreeShaped
<1>5. \A i \in 1 .. Len(d.tree) : ConditionShaped(d.tree[i].shown)
  BY <1>1, <1>2, <1>3, <1>4 DEF ViewInv, DocumentShaped, TreeShaped
<1>6. ConditionsShaped(d)
  BY <1>1, <1>5 DEF ViewInv, DocumentShaped, ActsShaped, ConditionsShaped
<1> QED  BY <1>1, <1>6 DEF d

LEMMA ViewsHold ==
  ViewInv => View!ContractsAgree /\ View!ShorthandServes /\ View!TypeOK
<1> SUFFICES ASSUME ViewInv PROVE View!ContractsAgree /\ View!ShorthandServes /\ View!TypeOK
  OBVIOUS
<1> DEFINE d == [view EXCEPT !.tree = View!Prepared(@)]
<1>1. d.tree = View!Prepared(view.tree) /\ ConditionsShaped(d)
  BY PreparedShaped
<1>2. View!ContractsAgree
  <2> HIDE DEF d
  <2>1. ASSUME View!PlainKeys(d), NEW env \in View!Environments(View!KeysOf(d.sources))
        PROVE  View!Agree(d, env)
    <3>1. env.given = View!KeysOf(d.sources)
      BY <2>1 DEF View!Environments
    <3> QED  BY <1>1, <2>1, <3>1, ContractsAgreeOn
  <2> QED  BY <2>1, Zenon DEF View!ContractsAgree, d
<1>3. View!ShorthandServes
  <2> HIDE DEF d
  <2>1. (\A i \in 1 .. Len(view.tree) : view.tree[i].id.marks = <<>>)
           => "component id" \notin View!Issues(d)
    BY <1>1, ShorthandUnique, Zenon DEF ViewInv, DocumentShaped
  <2> QED  BY <2>1, Zenon DEF View!ShorthandServes, d
<1> QED  BY <1>2, <1>3 DEF ViewInv

\* The legacy views of the model are of the shape the translation is shown for.
ViewWords == {"name", "test", "add", "create", "edit", "delete", "s", "items"}

LEMMA WordsAre ==
  /\ Words(ViewWords) /\ {"create", "edit", "delete"} \subseteq ViewWords
  /\ "name" \in ViewWords /\ "test" \in ViewWords /\ "add" \in ViewWords
  /\ "s" \in ViewWords /\ "items" \in ViewWords
BY DEF ViewWords, Words, View!Stripped

LEMMA ListTwo == ASSUME NEW x, NEW y, NEW W, x.key \in W, y.key \in W PROVE ListOf(<<x, y>>, W)
<1> DEFINE s == <<x, y>>
<1>1. s \in Seq({x, y}) /\ Len(s) = 2 /\ s[1] = x /\ s[2] = y
  OBVIOUS
<1> HIDE DEF s
<1>2. ListOf(s, W)
  BY <1>1 DEF ListOf
<1> QED  BY <1>2 DEF s

LEMMA ActionNamed ==
  ASSUME NEW key, NEW scope
  PROVE  LET a == View!Action(key, scope, {}, View!Always)
         IN  /\ a.key = key
             /\ \A x : /\ [a EXCEPT !.scope = x].key = key
                       /\ [a EXCEPT !.nested = x].key = key
                       /\ [a EXCEPT !.told = x].key = key
<1> DEFINE none == {}  always == View!Always
           a == View!Action(key, scope, none, always)
<1>1. a = [key |-> key, scope |-> scope, effects |-> none, enabled |-> always,
           told |-> TRUE, target |-> TRUE, nested |-> {}]
  BY DEF View!Action
<1> HIDE DEF a, none, always
<1>2. /\ a.key = key
      /\ \A x : /\ [a EXCEPT !.scope = x].key = key
                /\ [a EXCEPT !.nested = x].key = key
                /\ [a EXCEPT !.told = x].key = key
  BY <1>1
<1> QED  BY <1>2 DEF a, none, always

LEMMA FieldNamed ==
  ASSUME NEW key, NEW type, NEW nested, NEW flags
  PROVE  View!Field(key, type, nested, flags).key = key
BY DEF View!Field

LEMMA SourceNamed ==
  ASSUME NEW key, NEW sort, NEW depends, NEW nested
  PROVE  /\ View!Source(key, sort, depends, nested).key = key
         /\ View!Source(key, sort, depends, nested).told
         /\ View!Source(key, sort, depends, nested).refresh = View!Manual
<1> DEFINE manual == View!Manual
<1>1. View!Source(key, sort, depends, nested)
        = [key |-> key, kind |-> sort, told |-> TRUE, depends |-> depends, nested |-> nested,
           refresh |-> manual]
  BY DEF View!Source
<1> HIDE DEF manual
<1>2. /\ View!Source(key, sort, depends, nested).key = key
      /\ View!Source(key, sort, depends, nested).told
      /\ View!Source(key, sort, depends, nested).refresh = manual
  BY <1>1
<1> QED  BY <1>2 DEF manual

\* The parts of which they are made.
LEMMA ActionListsAre ==
  /\ ListOf(<<>>, ViewWords) /\ ListOf(<<View!Add>>, ViewWords)
  /\ ListOf(<<View!Test>>, ViewWords) /\ ListOf(<<View!Test, View!Test>>, ViewWords)
  /\ \A x : /\ ListOf(<<[View!Add EXCEPT !.scope = x]>>, ViewWords)
            /\ ListOf(<<[View!Add EXCEPT !.nested = x]>>, ViewWords)
            /\ ListOf(<<[View!Add EXCEPT !.told = x]>>, ViewWords)
<1>1. /\ View!Add.key = "add" /\ View!Test.key = "test"
      /\ \A x : /\ [View!Add EXCEPT !.scope = x].key = "add"
                /\ [View!Add EXCEPT !.nested = x].key = "add"
                /\ [View!Add EXCEPT !.told = x].key = "add"
  BY ActionNamed, Zenon DEF View!Add, View!Test
<1>2. /\ View!Add.key \in ViewWords /\ View!Test.key \in ViewWords
      /\ \A x : /\ [View!Add EXCEPT !.scope = x].key \in ViewWords
                /\ [View!Add EXCEPT !.nested = x].key \in ViewWords
                /\ [View!Add EXCEPT !.told = x].key \in ViewWords
  BY <1>1, WordsAre
<1> QED  BY <1>2, ListNone, ListOne, ListTwo, Zenon

LEMMA FieldListsAre ==
  /\ \A flags : ListOf(<<View!Name(flags)>>, ViewWords)
  /\ \A type, nested, flags : ListOf(<<View!Field("name", type, nested, flags)>>, ViewWords)
<1>1. /\ \A flags : View!Name(flags).key \in ViewWords
      /\ \A type, nested, flags : View!Field("name", type, nested, flags).key \in ViewWords
  BY WordsAre, FieldNamed DEF View!Name
<1> QED  BY <1>1, ListOne, Zenon

SourcesShaped(s) ==
  ListOf(s, ViewWords) /\ \A i \in 1 .. Len(s) : s[i].told /\ s[i].refresh = View!Manual

LEMMA OneSource ==
  ASSUME NEW x, x.key \in ViewWords, x.told, x.refresh = View!Manual
  PROVE  SourcesShaped(<<x>>)
<1> DEFINE s == <<x>>
<1>1. Len(s) = 1 /\ s[1] = x
  OBVIOUS
<1>2. ListOf(s, ViewWords)
  BY ListOne
<1> HIDE DEF s
<1>3. SourcesShaped(s)
  BY <1>1, <1>2 DEF SourcesShaped
<1> QED  BY <1>3 DEF s

LEMMA TwoSources ==
  ASSUME NEW x, x.key \in ViewWords, x.told, x.refresh = View!Manual,
         NEW y, y.key \in ViewWords, y.told, y.refresh = View!Manual
  PROVE  SourcesShaped(<<x, y>>)
<1> DEFINE s == <<x, y>>
<1>1. Len(s) = 2 /\ s[1] = x /\ s[2] = y
  OBVIOUS
<1>2. ListOf(s, ViewWords)
  BY ListTwo
<1> HIDE DEF s
<1>3. SourcesShaped(s)
  BY <1>1, <1>2 DEF SourcesShaped
<1> QED  BY <1>3 DEF s

LEMMA SourceListsAre ==
  /\ SourcesShaped(<<>>)
  /\ \A depends : SourcesShaped(<<View!Plain("s", depends)>>)
  /\ \A depends : SourcesShaped(<<View!Plain("items", depends)>>)
  /\ \A sort, nested : SourcesShaped(<<View!Source("s", sort, {}, nested)>>)
  /\ \A d1, d2 : SourcesShaped(<<View!Plain("s", d1), View!Plain("s", d2)>>)
<1>1. ASSUME NEW key \in {"s", "items"}, NEW sort, NEW depends, NEW nested, NEW x,
             x = View!Source(key, sort, depends, nested) \/ x = View!Plain(key, depends)
      PROVE  x.key \in ViewWords /\ x.told /\ x.refresh = View!Manual
  <2>1. key \in ViewWords
    BY WordsAre
  <2>2. x = View!Source(key, sort, depends, nested)
        \/ x = View!Source(key, "collection", depends, {})
    BY <1>1, Zenon DEF View!Plain
  <2> QED  BY <2>1, <2>2, SourceNamed
<1>2. SourcesShaped(<<>>)
  <2>1. Len(<<>>) = 0
    OBVIOUS
  <2> QED  BY <2>1, ListNone DEF SourcesShaped
<1>3. \A depends : SourcesShaped(<<View!Plain("s", depends)>>)
                   /\ SourcesShaped(<<View!Plain("items", depends)>>)
  BY <1>1, OneSource
<1>4. \A sort, nested : SourcesShaped(<<View!Source("s", sort, {}, nested)>>)
  BY <1>1, OneSource
<1>5. \A d1, d2 : SourcesShaped(<<View!Plain("s", d1), View!Plain("s", d2)>>)
  BY <1>1, TwoSources
<1> QED  BY <1>2, <1>3, <1>4, <1>5

SchemaShaped(schema) ==
  /\ ListOf(schema.fields, ViewWords)
  /\ SectionShaped(schema.create, ViewWords) /\ SectionShaped(schema.edit, ViewWords)

LEMMA SchemaIs ==
  ASSUME NEW fields, NEW extra, NEW actions, ListOf(fields, ViewWords),
         ListOf(extra, ViewWords), ListOf(actions, ViewWords)
  PROVE  SchemaShaped(View!Schema(fields, extra, actions))
<1> DEFINE s == View!Schema(fields, extra, actions)
<1>1. /\ s.fields = fields /\ s.create.extra = extra /\ s.create.actions = actions
      /\ s.edit.extra = <<>> /\ s.edit.actions = <<>>
  BY DEF View!Schema
<1> HIDE DEF s
<1>2. ListOf(s.edit.extra, ViewWords) /\ ListOf(s.edit.actions, ViewWords)
  BY <1>1, ListNone
<1>3. SchemaShaped(s)
  BY <1>1, <1>2 DEF SchemaShaped, SectionShaped
<1> QED  BY <1>3 DEF s

LEMMA FieldsOf ==
  ASSUME NEW M, NEW C, NEW N, NEW D, NEW VA, NEW IA, NEW CO, NEW CR, NEW ED, NEW SC, NEW OP, NEW SO,
         NEW v \in [mode : M, columns : C, navigation : N, named : D, viewActions : VA,
                    itemActions : IA, commands : CO, create : CR, edit : ED, schema : SC,
                    options : OP, sources : SO]
  PROVE  /\ v.viewActions \in VA /\ v.itemActions \in IA /\ v.create \in CR /\ v.edit \in ED
         /\ v.schema \in SC /\ v.sources \in SO
OBVIOUS

LEMMA LegacyFields ==
  ASSUME NEW v \in View!LegacyViews
  PROVE  /\ v.viewActions \in
              {<<>>, <<View!Add>>, <<[View!Add EXCEPT !.scope = "galaxy"]>>,
               <<[View!Add EXCEPT !.nested = {"s"}]>>, <<[View!Add EXCEPT !.told = FALSE]>>}
         /\ v.itemActions \in {<<>>, <<View!Add>>}
         /\ v.create \in {View!NoForm, View!Form(<<View!Name({})>>, <<View!Test, View!Test>>)}
         /\ v.edit \in
              {View!NoForm, View!Form(<<>>, <<View!Add>>),
               View!Form(<<View!Name({})>>, <<View!Test>>), View!Form(<<View!Name({})>>, <<>>),
               View!Form(<<View!Field("name", "dial", {}, {})>>, <<>>),
               View!Form(<<View!Field("name", "text", {"x"}, {})>>, <<>>)}
         /\ v.schema \in
              {View!NoSchema, View!Schema(<<View!Name({"list", "create", "edit"})>>, <<>>, <<View!Test>>),
               View!Schema(<<View!Name({"create"})>>, <<View!Name({})>>, <<>>)}
         /\ v.sources \in
              {<<>>, <<View!Plain("s", {})>>, <<View!Plain("s", {"items"}), View!Plain("s", {})>>,
               <<View!Plain("items", {})>>, <<View!Plain("s", {"x"})>>,
               <<View!Source("s", "cube", {}, {})>>, <<View!Source("s", "tree", {}, {"x"})>>}
<1>1. CASE v \in View!LayoutViews
  <2>1. /\ v.viewActions \in {<<>>, <<View!Add>>} /\ v.itemActions \in {<<>>, <<View!Add>>}
        /\ v.create \in {View!NoForm, View!Form(<<View!Name({})>>, <<View!Test, View!Test>>)}
        /\ v.edit \in {View!NoForm, View!Form(<<>>, <<View!Add>>),
                       View!Form(<<View!Name({})>>, <<View!Test>>)}
        /\ v.schema \in
             {View!NoSchema, View!Schema(<<View!Name({"list", "create", "edit"})>>, <<>>, <<View!Test>>),
              View!Schema(<<View!Name({"create"})>>, <<View!Name({})>>, <<>>)}
        /\ v.sources \in {<<>>}
    BY <1>1, FieldsOf, Zenon DEF View!LayoutViews
  <2> QED  BY <2>1, Zenon
<1>2. CASE v \in View!OddViews
  <2>1. /\ v.viewActions \in
             {<<View!Add>>, <<[View!Add EXCEPT !.scope = "galaxy"]>>,
              <<[View!Add EXCEPT !.nested = {"s"}]>>, <<[View!Add EXCEPT !.told = FALSE]>>}
        /\ v.itemActions \in {<<>>} /\ v.create \in {View!NoForm}
        /\ v.edit \in
             {View!Form(<<View!Name({})>>, <<>>),
              View!Form(<<View!Field("name", "dial", {}, {})>>, <<>>),
              View!Form(<<View!Field("name", "text", {"x"}, {})>>, <<>>)}
        /\ v.schema \in {View!NoSchema}
        /\ v.sources \in
             {<<>>, <<View!Plain("s", {})>>, <<View!Plain("s", {"items"}), View!Plain("s", {})>>,
              <<View!Plain("items", {})>>, <<View!Plain("s", {"x"})>>,
              <<View!Source("s", "cube", {}, {})>>, <<View!Source("s", "tree", {}, {"x"})>>}
    BY <1>2, FieldsOf, Zenon DEF View!OddViews
  <2> QED  BY <2>1, Zenon
<1> QED  BY <1>1, <1>2 DEF View!LegacyViews

LEMMA LegacyViewsShaped ==
  ASSUME NEW v \in View!LegacyViews
  PROVE  LegacyShaped(v, ViewWords)
<1>1. ListOf(v.viewActions, ViewWords) /\ ListOf(v.itemActions, ViewWords)
  BY LegacyFields, ActionListsAre, Zenon
<1>2. \A fields, actions : ListOf(fields, ViewWords) /\ ListOf(actions, ViewWords)
        => FormShaped(View!Form(fields, actions), ViewWords)
  BY FormIs DEF FormShaped
<1>3. FormShaped(v.create, ViewWords)
  <2>1. FormShaped(View!Form(<<View!Name({})>>, <<View!Test, View!Test>>), ViewWords)
    BY <1>2, ActionListsAre, FieldListsAre, Zenon
  <2> QED  BY <2>1, LegacyFields, NoFormShaped, Zenon
<1>4. FormShaped(v.edit, ViewWords)
  <2>1. /\ FormShaped(View!Form(<<>>, <<View!Add>>), ViewWords)
        /\ FormShaped(View!Form(<<View!Name({})>>, <<View!Test>>), ViewWords)
        /\ FormShaped(View!Form(<<View!Name({})>>, <<>>), ViewWords)
        /\ FormShaped(View!Form(<<View!Field("name", "dial", {}, {})>>, <<>>), ViewWords)
        /\ FormShaped(View!Form(<<View!Field("name", "text", {"x"}, {})>>, <<>>), ViewWords)
    BY <1>2, ActionListsAre, FieldListsAre, Zenon
  <2> QED  BY <2>1, LegacyFields, NoFormShaped, Zenon
<1>5. SchemaShaped(v.schema)
  <2>1. /\ SchemaShaped(View!NoSchema)
        /\ SchemaShaped(View!Schema(<<View!Name({"list", "create", "edit"})>>, <<>>, <<View!Test>>))
        /\ SchemaShaped(View!Schema(<<View!Name({"create"})>>, <<View!Name({})>>, <<>>))
    BY SchemaIs, ActionListsAre, FieldListsAre, Zenon DEF View!NoSchema
  <2> QED  BY <2>1, LegacyFields, Zenon
<1>6. SourcesShaped(v.sources)
  <2>1. /\ SourcesShaped(<<>>) /\ SourcesShaped(<<View!Plain("s", {})>>)
        /\ SourcesShaped(<<View!Plain("s", {"items"}), View!Plain("s", {})>>)
        /\ SourcesShaped(<<View!Plain("items", {})>>) /\ SourcesShaped(<<View!Plain("s", {"x"})>>)
        /\ SourcesShaped(<<View!Source("s", "cube", {}, {})>>)
        /\ SourcesShaped(<<View!Source("s", "tree", {}, {"x"})>>)
    BY SourceListsAre, Zenon
  <2> QED  BY <2>1, LegacyFields, Zenon
<1>7. ListOf(v.schema.fields, ViewWords) /\ SectionShaped(v.schema.create, ViewWords)
      /\ SectionShaped(v.schema.edit, ViewWords)
  BY <1>5 DEF SchemaShaped
<1>8. /\ ListOf(v.sources, ViewWords)
      /\ \A i \in 1 .. Len(v.sources) : v.sources[i].told /\ v.sources[i].refresh = View!Manual
  BY <1>6 DEF SourcesShaped
<1> QED  BY <1>1, <1>3, <1>4, <1>7, <1>8, WordsAre DEF LegacyShaped

LEMMA LegacyHolds == ViewInv => View!LegacyServes
<1> SUFFICES ASSUME Translated, legacy # <<>>, verdict = "refused", ~View!AtFault(legacy[1])
             PROVE  FALSE
  BY Zenon DEF View!LegacyServes, ViewInv
<1>1. legacy[1] \in View!LegacyViews /\ View!Issues(View!LegacyDocument(legacy[1])) # {}
  BY DEF Translated
<1>2. LegacyShaped(legacy[1], ViewWords)
  BY <1>1, LegacyViewsShaped
<1> QED  BY <1>1, <1>2, LegacyServed

-----------------------------------------------------------------------------
(* StreamlitSession: whom the page of a tab names is whom Core acts as      *)

\* No token is taken for its absence.
LEMMA NoToken == Nothing \notin SignIn!Token
BY NothingAssumption, Zenon DEF SignIn!Token

TabState == [at: {"closed", "start", "told", "views", "stopped", "opened", "confirmed",
               "page", "left"},
          click: SignIn!Clicks \cup {Nothing}, seen: SignIn!Token \cup {Nothing},
          token: SignIn!Token \cup {Nothing}, user: Users \cup {Nothing},
          reply: Users \cup {Nothing}]

TabTypes ==
  /\ sessionOwners \in [SignIn!Token -> Users \cup {Nothing}] /\ liveSessions \subseteq SignIn!Token
  /\ cookie \in SignIn!Token \cup {Nothing}
  /\ tab \in [Tabs -> TabState]

\* The token a tab would send is one of a session of this user.
TabSpeaks(t, user) ==
  user # Nothing => SignIn!Carried(t) # Nothing /\ sessionOwners[SignIn!Carried(t)] = user

\* What Core has answered to a tab is about the token that the tab still has,
\* and so is what the page names.
TabNamed(t) ==
  /\ tab[t].at = "told" => TabSpeaks(t, tab[t].reply)
  /\ tab[t].at = "page" => tab[t].user # Nothing /\ TabSpeaks(t, tab[t].user)

SignInInv == TabTypes /\ \A t \in Tabs : TabNamed(t)

-----------------------------------------------------------------------------
LEMMA SignInInit == SignIn!Init => SignInInv
BY DEF SignIn!Init, SignInInv, TabTypes, TabNamed, SignIn!Closed, TabState, SignIn!Token

LEMMA CarriedType == ASSUME TabTypes, NEW t \in Tabs PROVE SignIn!Carried(t) \in SignIn!Token \cup {Nothing}
BY DEF TabTypes, TabState, SignIn!Carried

\* A tab whose own state is left alone, and whose session keeps its owner,
\* still names whom it speaks for.
LEMMA OtherTab ==
  ASSUME TabTypes, NEW r \in Tabs, TabNamed(r), tab'[r] = tab[r],
         \A token \in SignIn!Token : sessionOwners[token] # Nothing => sessionOwners'[token] = sessionOwners[token]
  PROVE  TabNamed(r)'
<1>1. SignIn!Carried(r)' = SignIn!Carried(r) /\ SignIn!Carried(r) \in SignIn!Token \cup {Nothing}
  BY CarriedType DEF SignIn!Carried
<1>2. ASSUME NEW user, TabSpeaks(r, user) PROVE TabSpeaks(r, user)'
  BY <1>1, <1>2 DEF TabSpeaks
<1> QED  BY <1>2 DEF TabNamed

\* A request changes the tab that makes it, and not the token it carries.
LEMMA RequestKeeps ==
  ASSUME TabTypes, NEW t \in Tabs, NEW token \in SignIn!Token \cup {Nothing},
         NEW step \in TabState, step.seen = tab[t].seen, SignIn!Request(t, token, step)
  PROVE  /\ tab' \in [Tabs -> TabState] /\ cookie' \in SignIn!Token \cup {Nothing}
         /\ \A r \in Tabs \ {t} : tab'[r] = tab[r]
         /\ tab'[t].at = step.at /\ tab'[t].reply = step.reply /\ tab'[t].user = step.user
         /\ SignIn!Carried(t)' = IF token # Nothing THEN token ELSE tab[t].seen
<1> DEFINE new == [step EXCEPT !.token = token]
<1>1. /\ new \in TabState /\ new.at = step.at /\ new.reply = step.reply
      /\ new.user = step.user /\ new.token = token /\ new.seen = step.seen
  BY DEF TabState
<1>2. tab' = [tab EXCEPT ![t] = new] /\ cookie' \in {cookie, token}
  BY DEF SignIn!Request
<1> HIDE DEF new
<1>3. tab' \in [Tabs -> TabState] /\ tab'[t] = new /\ \A r \in Tabs \ {t} : tab'[r] = tab[r]
  BY <1>1, <1>2 DEF TabTypes
<1>4. SignIn!Carried(t)' = IF token # Nothing THEN token ELSE tab[t].seen
  BY <1>1, <1>3 DEF SignIn!Carried
<1>5. cookie' \in SignIn!Token \cup {Nothing}
  BY <1>2 DEF TabTypes
<1> QED  BY <1>1, <1>3, <1>4, <1>5

\* A step of one tab that gives no session to anybody.
LEMMA TabStep ==
  ASSUME SignInInv, NEW t \in Tabs, TabTypes', UNCHANGED sessionOwners,
         \A r \in Tabs \ {t} : tab'[r] = tab[r], TabNamed(t)'
  PROVE  SignInInv'
<1>1. ASSUME NEW r \in Tabs, r # t PROVE TabNamed(r)'
  BY <1>1, OtherTab DEF SignInInv
<1> QED  BY <1>1 DEF SignInInv

\* The session is asked for.
LEMMA SignInAsk ==
  ASSUME SignInInv, NEW t \in Tabs, NEW from, NEW to \in {"told", "confirmed"},
         SignIn!AskSession(t, from, to)
  PROVE  SignInInv'
<1> DEFINE token == SignIn!Carried(t)
<1>1. token \in SignIn!Token \cup {Nothing} /\ TabTypes /\ tab[t] \in TabState
  BY CarriedType DEF SignInInv, TabTypes
<1>2. token = Nothing => tab[t].seen = Nothing
  BY DEF SignIn!Carried
<1>3. CASE SignIn!Request(t, token, [tab[t] EXCEPT !.at = to, !.reply = SignIn!Whose(token)])
  <2> DEFINE step == [tab[t] EXCEPT !.at = to, !.reply = SignIn!Whose(token)]
  <2>1. SignIn!Whose(token) \in Users \cup {Nothing}
    BY <1>1 DEF SignIn!Whose, TabTypes
  <2>2. step \in TabState /\ step.seen = tab[t].seen /\ step.at = to /\ step.reply = SignIn!Whose(token)
    BY <1>1, <2>1 DEF TabState
  <2>3. SignIn!Request(t, token, step)
    BY <1>3
  <2> HIDE DEF token, step
  <2>4. /\ tab' \in [Tabs -> TabState] /\ cookie' \in SignIn!Token \cup {Nothing}
        /\ \A r \in Tabs \ {t} : tab'[r] = tab[r]
        /\ tab'[t].at = to /\ tab'[t].reply = SignIn!Whose(token)
        /\ SignIn!Carried(t)' = IF token # Nothing THEN token ELSE tab[t].seen
    BY <1>1, <2>2, <2>3, RequestKeeps
  <2>5. UNCHANGED <<sessionOwners, liveSessions>>
    BY DEF SignIn!AskSession
  <2>6. TabNamed(t)'
    <3>1. SignIn!Whose(token) # Nothing => token \in SignIn!Token /\ sessionOwners[token] = SignIn!Whose(token)
      BY <1>1 DEF SignIn!Whose, TabTypes
    <3> QED  BY <2>4, <2>5, <3>1, NoToken DEF TabNamed, TabSpeaks
  <2>7. TabTypes'
    BY <1>1, <2>4, <2>5 DEF TabTypes
  <2> QED  BY <2>4, <2>5, <2>6, <2>7, TabStep
<1>4. ASSUME NEW at \in {"views", "stopped"},
             SignIn!Request(t, token, [tab[t] EXCEPT !.at = at, !.click = Nothing])
      PROVE  SignInInv'
  <2> DEFINE step == [tab[t] EXCEPT !.at = at, !.click = Nothing]
  <2>1. step \in TabState /\ step.seen = tab[t].seen /\ step.at = at
    BY <1>1 DEF TabState
  <2>2. SignIn!Request(t, token, step)
    BY <1>4
  <2> HIDE DEF token, step
  <2>3. /\ tab' \in [Tabs -> TabState] /\ cookie' \in SignIn!Token \cup {Nothing}
        /\ \A r \in Tabs \ {t} : tab'[r] = tab[r]
        /\ tab'[t].at = at
    BY <1>1, <2>1, <2>2, RequestKeeps
  <2>4. UNCHANGED <<sessionOwners, liveSessions>>
    BY DEF SignIn!AskSession
  <2>5. TabTypes' /\ TabNamed(t)'
    BY <1>1, <2>3, <2>4 DEF TabTypes, TabNamed
  <2> QED  BY <2>3, <2>4, <2>5, TabStep
<1> QED  BY <1>3, <1>4 DEF SignIn!AskSession

\* What the script does about an answer, on the tab alone.
LEMMA SignInScript ==
  ASSUME SignInInv, NEW t \in Tabs, SignIn!RequireAuth(t) \/ SignIn!Welcome(t) \/ SignIn!Logout(t)
  PROVE  SignInInv'
<1>1. TabTypes /\ tab[t] \in TabState /\ TabNamed(t)
  BY DEF SignInInv, TabTypes
<1>2. ASSUME NEW step \in TabState, SignIn!Goes(t, step) PROVE
        /\ TabTypes' /\ UNCHANGED sessionOwners /\ tab'[t] = step
        /\ \A r \in Tabs \ {t} : tab'[r] = tab[r]
  BY <1>1, <1>2 DEF SignIn!Goes, TabTypes
<1>3. ASSUME NEW user \in Users \cup {Nothing}, SignIn!Again(t, user) PROVE SignInInv'
  <2> DEFINE step == [tab[t] EXCEPT !.at = "start", !.click = Nothing, !.user = user]
  <2>1. step \in TabState /\ step.at = "start"
    BY <1>1 DEF TabState
  <2>2. SignIn!Goes(t, step)
    BY <1>3 DEF SignIn!Again
  <2> HIDE DEF step
  <2>3. TabNamed(t)'
    BY <1>2, <2>1, <2>2 DEF TabNamed
  <2> QED  BY <1>2, <2>1, <2>2, <2>3, TabStep
<1>4. CASE SignIn!RequireAuth(t)
  <2> DEFINE step == [tab[t] EXCEPT !.user = tab[t].reply, !.reply = Nothing,
                        !.at = IF tab[t].reply = Nothing THEN "views" ELSE "page"]
  <2>1. /\ step \in TabState /\ step.user = tab[t].reply
        /\ step.at = IF tab[t].reply = Nothing THEN "views" ELSE "page"
        /\ step.token = tab[t].token /\ step.seen = tab[t].seen
    BY <1>1 DEF TabState
  <2>2. SignIn!Goes(t, step) /\ tab[t].at = "told"
    BY <1>4 DEF SignIn!RequireAuth
  <2> HIDE DEF step
  <2>3. TabTypes' /\ UNCHANGED sessionOwners /\ tab'[t] = step /\ \A r \in Tabs \ {t} : tab'[r] = tab[r]
    BY <1>2, <2>1, <2>2
  <2>4. SignIn!Carried(t)' = SignIn!Carried(t) /\ TabSpeaks(t, tab[t].reply)
    BY <1>1, <2>1, <2>2, <2>3 DEF SignIn!Carried, TabNamed
  <2>5. TabNamed(t)'
    BY <2>1, <2>3, <2>4 DEF TabNamed, TabSpeaks
  <2> QED  BY <2>3, <2>5, TabStep
<1>5. CASE SignIn!Welcome(t)
  <2> DEFINE user == IF tab[t].reply = Nothing THEN tab[t].user ELSE tab[t].reply
  <2>1. user \in Users \cup {Nothing}
    BY <1>1 DEF TabState
  <2> QED  BY <1>3, <1>5, <2>1 DEF SignIn!Welcome
<1>6. CASE SignIn!Logout(t)
  BY <1>3, <1>6 DEF SignIn!Logout
<1> QED  BY <1>4, <1>5, <1>6

\* A login gives the tab the token of a session that nobody had.
LEMMA SignInLogin ==
  ASSUME SignInInv, NEW t \in Tabs, SignIn!Login(t) PROVE SignInInv'
<1>1. TabTypes /\ tab[t] \in TabState /\ tab[t].at = "views" /\ tab[t].click \in Users
  BY DEF SignInInv, TabTypes, SignIn!Login
<1>2. ASSUME NEW token \in SignIn!Token, sessionOwners[token] = Nothing,
             sessionOwners' = [sessionOwners EXCEPT ![token] = tab[t].click], liveSessions' = liveSessions \cup {token},
             SignIn!Request(t, token, [tab[t] EXCEPT !.at = "opened"])
      PROVE  SignInInv'
  <2> DEFINE step == [tab[t] EXCEPT !.at = "opened"]
  <2>1. step \in TabState /\ step.seen = tab[t].seen /\ step.at = "opened"
    BY <1>1 DEF TabState
  <2>2. SignIn!Request(t, token, step)
    BY <1>2
  <2> HIDE DEF step
  <2>3. /\ tab' \in [Tabs -> TabState] /\ cookie' \in SignIn!Token \cup {Nothing}
        /\ \A r \in Tabs \ {t} : tab'[r] = tab[r]
        /\ tab'[t].at = "opened"
    BY <1>1, <2>1, <2>2, RequestKeeps
  <2>4. TabTypes' /\ TabNamed(t)'
    BY <1>1, <1>2, <2>3 DEF TabTypes, TabNamed
  <2>5. \A other \in SignIn!Token : sessionOwners[other] # Nothing => sessionOwners'[other] = sessionOwners[other]
    BY <1>1, <1>2 DEF TabTypes
  <2>6. ASSUME NEW r \in Tabs, r # t PROVE TabNamed(r)'
    BY <1>1, <2>3, <2>5, <2>6, OtherTab DEF SignInInv
  <2> QED  BY <2>4, <2>6 DEF SignInInv
<1>3. CASE /\ SignIn!Request(t, SignIn!Carried(t), [tab[t] EXCEPT !.click = Nothing])
           /\ UNCHANGED <<sessionOwners, liveSessions>>
  <2> DEFINE step == [tab[t] EXCEPT !.click = Nothing]
  <2>1. step \in TabState /\ step.seen = tab[t].seen /\ step.at = "views"
    BY <1>1 DEF TabState
  <2>2. SignIn!Request(t, SignIn!Carried(t), step) /\ SignIn!Carried(t) \in SignIn!Token \cup {Nothing}
    BY <1>1, <1>3, CarriedType
  <2> HIDE DEF step
  <2>3. /\ tab' \in [Tabs -> TabState] /\ cookie' \in SignIn!Token \cup {Nothing}
        /\ \A r \in Tabs \ {t} : tab'[r] = tab[r]
        /\ tab'[t].at = "views"
    BY <1>1, <2>1, <2>2, RequestKeeps
  <2>4. TabTypes' /\ TabNamed(t)'
    BY <1>1, <1>3, <2>3 DEF TabTypes, TabNamed
  <2> QED  BY <1>3, <2>3, <2>4, TabStep
<1> QED  BY <1>2, <1>3 DEF SignIn!Login

\* What is clicked on the page is sent with the token the page has.
LEMMA SignInPage ==
  ASSUME SignInInv, NEW t \in Tabs, SignIn!AskLogout(t) \/ SignIn!Act(t) PROVE SignInInv'
<1> DEFINE token == SignIn!Carried(t)
<1>1. TabTypes /\ tab[t] \in TabState /\ TabNamed(t) /\ tab[t].at = "page"
  BY DEF SignInInv, TabTypes, SignIn!AskLogout, SignIn!Act
<1>2. token \in SignIn!Token \cup {Nothing} /\ (token = Nothing => tab[t].seen = Nothing)
  BY <1>1, CarriedType DEF SignIn!Carried
<1>3. ASSUME NEW step \in TabState, step.at \in {"page", "left"}, step.seen = tab[t].seen,
             step.user = tab[t].user, UNCHANGED sessionOwners, liveSessions' \subseteq liveSessions,
             SignIn!Request(t, token, step)
      PROVE  SignInInv'
  <2> HIDE DEF token
  <2>1. /\ tab' \in [Tabs -> TabState] /\ cookie' \in SignIn!Token \cup {Nothing}
        /\ \A r \in Tabs \ {t} : tab'[r] = tab[r]
        /\ tab'[t].at = step.at /\ tab'[t].user = tab[t].user
        /\ SignIn!Carried(t)' = IF token # Nothing THEN token ELSE tab[t].seen
    BY <1>1, <1>2, <1>3, RequestKeeps
  <2>2. SignIn!Carried(t)' = token
    BY <1>2, <2>1
  <2>3. TabTypes'
    BY <1>1, <1>3, <2>1 DEF TabTypes
  <2>4. TabNamed(t)'
    BY <1>1, <1>3, <2>1, <2>2 DEF TabNamed, TabSpeaks, token
  <2> QED  BY <1>3, <2>1, <2>3, <2>4, TabStep
<1> DEFINE leaves  == [tab[t] EXCEPT !.at = "left"]
<1> DEFINE stays == [tab[t] EXCEPT !.click = Nothing]
<1>4. /\ leaves \in TabState /\ leaves.at = "left" /\ leaves.seen = tab[t].seen
      /\ leaves.user = tab[t].user
  BY <1>1 DEF TabState
<1>5. /\ stays \in TabState /\ stays.at = "page" /\ stays.seen = tab[t].seen
      /\ stays.user = tab[t].user
  BY <1>1 DEF TabState
<1>6. UNCHANGED sessionOwners /\ liveSessions' \subseteq liveSessions
  BY DEF SignIn!AskLogout, SignIn!Act
<1>7. SignIn!Request(t, token, leaves) \/ SignIn!Request(t, token, stays)
  BY DEF SignIn!AskLogout, SignIn!Act
<1> HIDE DEF token, leaves, stays
<1> QED  BY <1>3, <1>4, <1>5, <1>6, <1>7

\* The user's part, and the end of a session.
LEMMA SignInOthers ==
  ASSUME SignInInv, (\E t \in Tabs : SignIn!OpenTab(t) \/ SignIn!UserClicks(t)) \/ SignIn!EndSession \/ UNCHANGED sessionState
  PROVE  SignInInv'
<1>0. TabTypes
  BY DEF SignInInv
<1>1. ASSUME NEW t \in Tabs, SignIn!OpenTab(t) PROVE SignInInv'
  <2> DEFINE new == [SignIn!Closed EXCEPT !.at = "start", !.seen = cookie]
  <2>1. new \in TabState /\ new.at = "start"
    BY <1>0 DEF SignIn!Closed, TabState, TabTypes
  <2>2. tab' = [tab EXCEPT ![t] = new] /\ UNCHANGED <<sessionOwners, liveSessions, cookie>>
    BY <1>1 DEF SignIn!OpenTab
  <2> HIDE DEF new
  <2>3. TabTypes' /\ TabNamed(t)' /\ \A r \in Tabs \ {t} : tab'[r] = tab[r]
    BY <1>0, <2>1, <2>2 DEF TabTypes, TabNamed
  <2> QED  BY <2>2, <2>3, TabStep
<1>2. ASSUME NEW t \in Tabs, SignIn!UserClicks(t) PROVE SignInInv'
  <2>1. PICK click \in SignIn!Clicks : tab' = [tab EXCEPT ![t] = [@ EXCEPT !.at = "start", !.click = click]]
    BY <1>2, Zenon DEF SignIn!UserClicks
  <2> DEFINE new == [tab[t] EXCEPT !.at = "start", !.click = click]
  <2>2. new \in TabState /\ new.at = "start"
    BY <1>0 DEF TabState, TabTypes
  <2>3. tab' = [tab EXCEPT ![t] = new] /\ UNCHANGED <<sessionOwners, liveSessions, cookie>>
    BY <1>2, <2>1, Zenon DEF SignIn!UserClicks
  <2> HIDE DEF new
  <2>4. TabTypes' /\ TabNamed(t)' /\ \A r \in Tabs \ {t} : tab'[r] = tab[r]
    BY <1>0, <2>2, <2>3 DEF TabTypes, TabNamed
  <2> QED  BY <2>3, <2>4, TabStep
<1>3. CASE SignIn!EndSession
  <2>1. UNCHANGED <<sessionOwners, cookie, tab>> /\ liveSessions' \subseteq liveSessions
    BY <1>3 DEF SignIn!EndSession
  <2> QED  BY <1>0, <2>1 DEF SignInInv, TabTypes, TabNamed, TabSpeaks, SignIn!Carried
<1>4. CASE UNCHANGED sessionState
  BY <1>0, <1>4 DEF SignInInv, TabTypes, TabNamed, TabSpeaks, SignIn!Carried, sessionState
<1> QED  BY <1>1, <1>2, <1>3, <1>4

LEMMA SignInStep == ASSUME SignInInv, [SignIn!Next]_sessionState PROVE SignInInv'
BY SignInAsk, SignInScript, SignInLogin, SignInPage, SignInOthers DEF SignIn!Next

LEMMA SignInNamed == SignInInv => SignIn!TabsActAsNamed /\ SignIn!TypeOK
BY DEF SignInInv, TabTypes, TabState, TabNamed, TabSpeaks, SignIn!TabsActAsNamed, SignIn!TypeOK

Shelves == Lookup!Directories \cup Lookup!Documents

LEMMA ShelvesCount == IsFiniteSet(Shelves) /\ Cardinality(Shelves) \in Nat /\ Cardinality(Shelves) >= 2
<1> DEFINE a == <<"docs">>  b == <<"short">>  c == <<"docs", "long">>  none == <<>>
<1>1. Shelves = {none, a} \cup {c, b}
  BY DEF Shelves, Lookup!Directories, Lookup!Documents
<1>2. none # a
  OBVIOUS
<1> HIDE DEF a, b, c, none
<1>3. IsFiniteSet({none, a}) /\ IsFiniteSet({c, b}) /\ Cardinality({none, a}) = 2
  <2>1. IsFiniteSet({a}) /\ IsFiniteSet({b}) /\ Cardinality({a}) = 1
    BY FS_Singleton
  <2>2. {none, a} = {a} \cup {none} /\ {c, b} = {b} \cup {c} /\ none \notin {a}
    BY <1>2
  <2>3. IsFiniteSet({a} \cup {none}) /\ IsFiniteSet({b} \cup {c})
    BY <2>1, FS_AddElement
  <2>4. Cardinality({a} \cup {none}) = 2
    BY <2>1, <2>2, FS_AddElement
  <2> QED  BY <2>2, <2>3, <2>4
<1>4. IsFiniteSet(Shelves)
  BY <1>1, <1>3, FS_Union
<1>5. {none, a} \subseteq Shelves
  BY <1>1
<1> QED  BY <1>3, <1>4, <1>5, FS_Subset, FS_CardinalityType

\* Any path as it is given is one by names, and so is what its alias leaves.
LEMMA GivenByNames ==
  ASSUME NEW path \in Lookup!GivenPath
  PROVE  \E P : Lookup!WithoutAlias(path) \in Seq(P)
<1> DEFINE N == {"workspace", "knowledge", "docs", "long", ".."}
<1>1. path.parts \in Lookup!BoundedSeq(N, 3)
  BY DEF Lookup!GivenPath
<1> HIDE DEF N
<1>2. path.parts \in Seq(N)
  <2>1. PICK m \in 0 .. 3 : path.parts \in [1 .. m -> N]
    BY <1>1 DEF Lookup!BoundedSeq, Lookup!SeqOf
  <2> QED  BY <2>1
<1>3. Lookup!IsPrefix(<<"workspace", "knowledge">>, path.parts)
        => SubSeq(path.parts, 3, Len(path.parts)) \in Seq(N)
  BY <1>2
<1>4. Lookup!IsPrefix(<<"knowledge">>, path.parts) => Tail(path.parts) \in Seq(N)
  <2>1. Lookup!IsPrefix(<<"knowledge">>, path.parts) => path.parts # <<>>
    BY <1>2 DEF Lookup!IsPrefix
  <2> QED  BY <1>2, <2>1
<1> QED  BY <1>2, <1>3, <1>4 DEF Lookup!WithoutAlias

LEMMA InsideShown ==
  ASSUME NEW path \in Lookup!GivenPath
  PROVE  Lookup!Normalized(path) # Nothing => ~Lookup!Contains(Lookup!Normalized(path), "..")
<1> DEFINE up == ".."
<1>1. PICK P : Lookup!Normalized(path) \in Inside(P)
  BY GivenByNames, NormalizedInside
<1>2. \A s \in Seq(P \ {up}) : ~Lookup!Contains(s, up)
  BY DEF Lookup!Contains
<1> QED  BY <1>1, <1>2 DEF Inside

LookupInv == Lookup!TypeOK /\ Lookup!PathsStayInside

LEMMA LookupInit == Lookup!Init => LookupInv
BY DEF Lookup!Init, LookupInv, Lookup!TypeOK, Lookup!PathsStayInside

LEMMA LookupStep == ASSUME LookupInv, [Lookup!Next]_lookupState PROVE LookupInv'
<1>1. \A S : Lookup!Cardinality(S) = Cardinality(S)
  BY DEF Lookup!Cardinality, Cardinality
<1>2. ASSUME NEW path \in Lookup!GivenPath, NEW says,
             says # Nothing => /\ says \in 0 .. Cardinality(Shelves)
                               /\ Lookup!Normalized(path) \in Shelves,
             Lookup!Answered(path, says)
      PROVE  LookupInv'
  <2>1. given' = path /\ knowledgeTarget' = Lookup!Normalized(path) /\ answer' = says
    BY <1>2 DEF Lookup!Answered
  <2>2. Lookup!TypeOK'
    BY <1>1, <1>2, <2>1 DEF Lookup!TypeOK, Shelves
  <2>3. Lookup!PathsStayInside'
    BY <1>2, <2>1, InsideShown DEF Lookup!PathsStayInside, Shelves
  <2> QED  BY <2>2, <2>3 DEF LookupInv
<1>3. ASSUME NEW path \in Lookup!GivenPath, Lookup!InspectTree(path) PROVE LookupInv'
  <2>1. PICK depth, withFiles :
          Lookup!Answered(path, Lookup!Tree(Lookup!Normalized(path), depth, withFiles))
    BY <1>3 DEF Lookup!InspectTree
  <2> DEFINE says == Lookup!Tree(Lookup!Normalized(path), depth, withFiles)
  <2>2. \A dir : Lookup!Visible(dir, depth, withFiles) \subseteq Shelves
    BY DEF Lookup!Visible, Shelves
  <2>3. \A dir : Cardinality(Lookup!Visible(dir, depth, withFiles)) \in 0 .. Cardinality(Shelves)
    BY <2>2, ShelvesCount, FS_Subset, FS_CardinalityType
  <2>4. says # Nothing => says \in 0 .. Cardinality(Shelves) /\ Lookup!Normalized(path) \in Shelves
    BY <1>1, <2>3 DEF Lookup!Tree, Shelves
  <2> HIDE DEF says
  <2> QED  BY <1>2, <2>1, <2>4 DEF says
<1>4. ASSUME NEW path \in Lookup!GivenPath, Lookup!Read(path) PROVE LookupInv'
  <2> DEFINE says == Lookup!ReadFile(Lookup!Normalized(path))
  <2>1. \A file : Lookup!Shown(file) \in {1, 2}
    BY DEF Lookup!Shown, Lookup!Lines, Lookup!MaxLines, Lookup!EdgeLines
  <2>2. says # Nothing => says \in 0 .. Cardinality(Shelves) /\ Lookup!Normalized(path) \in Shelves
    BY <2>1, ShelvesCount DEF Lookup!ReadFile, Shelves
  <2> HIDE DEF says
  <2> QED  BY <1>2, <1>4, <2>2 DEF Lookup!Read, says
<1>5. CASE Lookup!Done
  BY <1>5 DEF Lookup!Done, LookupInv, Lookup!TypeOK, Lookup!PathsStayInside
<1>6. CASE UNCHANGED lookupState
  BY <1>6 DEF lookupState, LookupInv, Lookup!TypeOK, Lookup!PathsStayInside
<1> QED  BY <1>3, <1>4, <1>5, <1>6 DEF Lookup!Next

-----------------------------------------------------------------------------
(* IdeaPipeline: its own proofs are about these variables too               *)

IdeaFacts == INSTANCE IdeaPipelineProofs
               WITH items <- ideaItems, count <- ideaCount, owner <- ideaOwner

IdeaInv == IdeaFacts!IInv /\ IdeaFacts!Types

LEMMA IdeaBegins == ASSUME Idea!Init PROVE IdeaInv
<1>1. IdeaFacts!Init
  BY DEF Idea!Init, IdeaFacts!Init, Idea!Kinds, IdeaFacts!Kinds, Idea!EmptyTable,
         IdeaFacts!EmptyTable, Idea!Idle, IdeaFacts!Idle, Idea!IdeaId, IdeaFacts!IdeaId
<1>2. IdeaFacts!Assumptions
  BY BoundsAssumption DEF IdeaFacts!Assumptions
<1> QED  BY <1>1, <1>2, IdeaFacts!InitInv, IdeaFacts!TypesBegin DEF IdeaInv

\* The actions are the same, written with either copy of their definitions.
LEMMA SameTables ==
  /\ \A table : Idea!Ids(table) = IdeaFacts!Ids(table)
  /\ \A table, id : Idea!Delete(table, id) = IdeaFacts!Delete(table, id)
  /\ \A table, row : Idea!Insert(table, row) = IdeaFacts!Insert(table, row)
  /\ \A table, id, row : Idea!Update(table, id, row) = IdeaFacts!Update(table, id, row)
  /\ Idea!Kinds = IdeaFacts!Kinds /\ Idea!IdeaId = IdeaFacts!IdeaId /\ Idea!Idle = IdeaFacts!Idle
  /\ \A u, i : Idea!NewItem(u, i) = IdeaFacts!NewItem(u, i)
  /\ \A item, u : Idea!Visible(item, u) <=> IdeaFacts!Visible(item, u)
BY DEF Idea!Ids, IdeaFacts!Ids, Idea!Delete, IdeaFacts!Delete, Idea!Insert, IdeaFacts!Insert,
       Idea!Update, IdeaFacts!Update, Idea!Kinds, IdeaFacts!Kinds, Idea!IdeaId, IdeaFacts!IdeaId,
       Idea!Idle, IdeaFacts!Idle, Idea!NewItem, IdeaFacts!NewItem, Idea!Visible, IdeaFacts!Visible

LEMMA SameGo ==
  ASSUME NEW h, NEW local
  PROVE  Idea!Go(h, local) <=> IdeaFacts!Go(h, local)
BY DEF Idea!Go, IdeaFacts!Go

LEMMA SameAsk ==
  ASSUME NEW h, NEW local
  PROVE  Idea!Ask(h, local) <=> IdeaFacts!Ask(h, local)
BY SameTables, SameGo DEF Idea!Ask, IdeaFacts!Ask

LEMMA SameStepped ==
  ASSUME NEW h, NEW local
  PROVE  Idea!Stepped(h, local) <=> IdeaFacts!Stepped(h, local)
BY SameTables, SameGo DEF Idea!Stepped, IdeaFacts!Stepped

LEMMA SameCapture == ASSUME NEW u PROVE Idea!Capture(u) <=> IdeaFacts!Capture(u)
BY SameTables DEF Idea!Capture, IdeaFacts!Capture

LEMMA SameRemove ==
  ASSUME NEW h, NEW u, NEW k, NEW id
  PROVE  Idea!Remove(h, u, k, id) <=> IdeaFacts!Remove(h, u, k, id)
BY SameTables, SameAsk DEF Idea!Remove, IdeaFacts!Remove, Idea!At, IdeaFacts!At

LEMMA SameConvert ==
  ASSUME NEW h, NEW k, NEW id, NEW to
  PROVE  Idea!Convert(h, k, id, to) <=> IdeaFacts!Convert(h, k, id, to)
BY SameTables, SameAsk DEF Idea!Convert, IdeaFacts!Convert, Idea!At, IdeaFacts!At,
   Idea!Convertible, IdeaFacts!Convertible, Idea!StepsTo, IdeaFacts!StepsTo

LEMMA SameAdvise == ASSUME NEW h, NEW u PROVE Idea!Advise(h, u) <=> IdeaFacts!Advise(h, u)
BY SameTables, SameAsk DEF Idea!Advise, IdeaFacts!Advise, Idea!At, IdeaFacts!At, Idea!Reading,
   IdeaFacts!Reading

LEMMA SameRemoveRow == ASSUME NEW h PROVE Idea!RemoveRow(h) <=> IdeaFacts!RemoveRow(h)
BY SameTables, SameGo DEF Idea!RemoveRow, IdeaFacts!RemoveRow, Idea!Source, IdeaFacts!Source

LEMMA SameCreate == ASSUME NEW h PROVE Idea!CreateItem(h) <=> IdeaFacts!CreateItem(h)
BY SameTables, SameStepped DEF Idea!CreateItem, IdeaFacts!CreateItem, Idea!Doing, IdeaFacts!Doing

LEMMA SameRoot == ASSUME NEW h PROVE Idea!WriteRoot(h) <=> IdeaFacts!WriteRoot(h)
BY SameTables, SameStepped DEF Idea!WriteRoot, IdeaFacts!WriteRoot, Idea!Doing, IdeaFacts!Doing

LEMMA SameDrop == ASSUME NEW h PROVE Idea!DropSource(h) <=> IdeaFacts!DropSource(h)
BY SameTables, SameStepped DEF Idea!DropSource, IdeaFacts!DropSource, Idea!Doing, IdeaFacts!Doing

LEMMA SameRead == ASSUME NEW h PROVE Idea!ReadKind(h) <=> IdeaFacts!ReadKind(h)
<1>1. \A k, u : Idea!Due(k, u) = IdeaFacts!Due(k, u)
  BY SameTables DEF Idea!Due, IdeaFacts!Due
<1> QED  BY <1>1, SameGo DEF Idea!ReadKind, IdeaFacts!ReadKind

LEMMA SameAnswer == ASSUME NEW h PROVE Idea!AnswerFocus(h) <=> IdeaFacts!AnswerFocus(h)
BY SameTables, SameGo DEF Idea!AnswerFocus, IdeaFacts!AnswerFocus

LEMMA SameCrash == Idea!Crash <=> IdeaFacts!Crash
BY SameTables DEF Idea!Crash, IdeaFacts!Crash

LEMMA SameNext == Idea!Next => IdeaFacts!Next
BY SameTables, SameCapture, SameRemove, SameConvert, SameAdvise, SameRemoveRow, SameCreate,
   SameRoot, SameDrop, SameRead, SameAnswer, SameCrash DEF Idea!Next, IdeaFacts!Next

LEMMA IdeaStep == ASSUME IdeaInv, [Idea!Next]_ideaState PROVE IdeaInv'
<1>1. IdeaFacts!Assumptions
  BY BoundsAssumption DEF IdeaFacts!Assumptions
<1>2. [IdeaFacts!Next]_(IdeaFacts!ideaVars)
  BY SameNext DEF ideaState, IdeaFacts!ideaVars
<1> QED  BY <1>1, <1>2, IdeaFacts!NextInv, IdeaFacts!TypesKept DEF IdeaInv

LEMMA IdeasAreKept == IdeaInv => Idea!IdeasKept
BY SameTables DEF IdeaInv, IdeaFacts!IInv, IdeaFacts!RowInv, IdeaFacts!Derived,
   IdeaFacts!IdeasAreNotLost, Idea!IdeasAreNotLost, Idea!OwnersAreKept, Idea!IdeasKept

LEMMA IdeaTyped == IdeaInv => Idea!TypeOK
<1>1. Idea!Item = IdeaFacts!Item /\ \A found : Idea!Focus(found) = IdeaFacts!Focus(found)
  BY SameTables DEF Idea!Item, IdeaFacts!Item, Idea!Focus, IdeaFacts!Focus, Idea!Precedence,
     IdeaFacts!Precedence
<1>2. \A table, Row, max : Idea!IsTable(table, Row, max) <=> IdeaFacts!IsTable(table, Row, max)
  BY SameTables DEF Idea!IsTable, IdeaFacts!IsTable
<1>3. IdeaInv => IdeaFacts!TypeOK
  BY IdeaFacts!TypesHold DEF IdeaInv
<1> QED  BY <1>1, <1>2, <1>3, SameTables DEF Idea!TypeOK, IdeaFacts!TypeOK

-----------------------------------------------------------------------------
(* The nine modules together                                                *)

WorkInv ==
  /\ DraftInv /\ FileInv /\ LookupInv /\ CatalogInv /\ IdeaInv /\ ViewInv
  /\ ClientInv /\ BrowserInv /\ SignInInv

LEMMA WorkBegins == ASSUME Init PROVE WorkInv
<1>1. /\ Draft!Init /\ File!Init /\ Lookup!Init /\ Catalog!Init /\ Idea!Init /\ View!Init
      /\ Client!Init /\ Browser!Init /\ SignIn!Init
  BY DEF Init
<1> QED
  BY <1>1, DraftInit, FileInit, LookupInit, CatalogInit, IdeaBegins, ViewInit, ClientInit,
     BrowserInit, SignInInit DEF WorkInv

\* Every step is one of one of them, and leaves the others alone.
LEMMA StepOfParts ==
  ASSUME [Next]_vars
  PROVE  /\ [Draft!Next]_draftState /\ [File!Next]_fileState /\ [Lookup!Next]_lookupState
         /\ [Catalog!Next]_catalogState /\ [Idea!Next]_ideaState /\ [View!Next]_viewState
         /\ [Client!Next]_clientState /\ [Browser!Next]_browserState
         /\ [SignIn!Next]_sessionState
BY DEF Next, vars

LEMMA WorkStep == ASSUME WorkInv, [Next]_vars PROVE WorkInv' /\ KeyKept /\ FileMakes
<1>1. DraftInv' /\ (FileInv' /\ FileMakes) /\ LookupInv'
  BY StepOfParts, DraftStep, FileStep, LookupStep DEF WorkInv
<1>2. (CatalogInv' /\ KeyKept) /\ IdeaInv' /\ ViewInv'
  BY StepOfParts, CatalogStep, IdeaStep, ViewStep DEF WorkInv
<1>3. ClientInv' /\ BrowserInv' /\ SignInInv'
  BY StepOfParts, ClientStep, BrowserStep, SignInStep DEF WorkInv
<1> QED  BY <1>1, <1>2, <1>3 DEF WorkInv

\* What each of the nine modules knows holds in every reachable state.
THEOREM Inductive == Spec => []WorkInv
BY WorkBegins, WorkStep, PTL DEF Spec

\* Every state of the modules has its type; for ideas and the client that
\* depends on what the requests that are under way have read.
THEOREM Typed == Spec => []TypeOK
<1>1. WorkInv => TypeOK
  <2>1. FileInv => File!TypeOK
    BY DEF FileInv
  <2>2. LookupInv => Lookup!TypeOK
    BY DEF LookupInv
  <2> QED
    BY <2>1, <2>2, DraftWhole, CatalogTyped, IdeaTyped, ViewsHold, ClientScreens, BrowserScreens,
       SignInNamed DEF WorkInv, TypeOK
<1> QED  BY <1>1, Inductive, PTL

\* core/view_contract: a legacy view of the model is refused only for a fault
\* that is in the view (LegacyServed shows it of every view whose keys are words,
\* however long its forms and lists are); and agent_config/tooling.py: a path,
\* however it is spelled and however long, stays below the knowledge root.
THEOREM ConversionsTrue == Spec => []ConversionsHold
<1>1. WorkInv => ConversionsHold
  BY LegacyHolds DEF WorkInv, LookupInv, ConversionsHold
<1> QED  BY <1>1, Inductive, PTL

\* agent_tools/workspace_modules.py: whatever is edited during a validation,
\* what it passes was whole, file by file, at moments of it; and
\* workspace_files.py: a tool works where the agent's workspace was
\* configured to be at a moment of the call.
THEOREM PassedAndPlaced == Spec => []WorkspaceKept
<1>1. WorkInv => WorkspaceKept
  BY DraftWhole, FilesWhere DEF WorkInv, WorkspaceKept
<1> QED  BY <1>1, Inductive, PTL

\* ipe/services.py: conversions that overlap and crash lose no idea and
\* give none to another user, by what IdeaPipelineProofs shows.
THEOREM IdeasStay == Spec => []IdeasKept
<1>1. WorkInv => IdeasKept
  BY IdeasAreKept DEF WorkInv, IdeasKept
<1> QED  BY <1>1, Inductive, PTL

\* ai_model_manager/services.py: a file is twice in the list only after a
\* client gave its path to a record beside one that had it, or after a scan
\* recorded a file while its listing of the list was out of date.
THEOREM DoublesExplained == Spec => []DoublesAreExcused
<1>1. WorkInv => DoublesAreExcused
  BY DoublesExcused DEF WorkInv, DoublesAreExcused
<1> QED  BY <1>1, Inductive, PTL

\* An edit with a blank key keeps a key that the endpoint had during the edit,
\* and only a write makes a directory of the agent's.
THEOREM AskedOnly == Spec => NothingUnasked
<1>1. WorkInv /\ [Next]_vars => [Catalog!KeyIsKept /\ File!MakesOnlyToWrite]_vars
  BY WorkStep DEF KeyKept, FileMakes
<1>2. Spec => [][Catalog!KeyIsKept /\ File!MakesOnlyToWrite]_vars
  BY <1>1, Inductive, PTL DEF Spec
<1> QED  BY <1>2 DEF NothingUnasked

\* What the screens show and send. Of declared views whose keys have no blanks
\* around them: what validates the headless renderer renders without a report
\* but for a source that depends on a state key, and it raises only on a
\* condition that negates or combines what is no condition; what it renders
\* without a report is refused only for what it does not look at. Names are
\* those Core acts under, and commands are about what is listed.
THEOREM ScreensTrue == Spec => []ScreensHold
<1>1. WorkInv => ScreensHold
  BY ViewsHold, ClientScreens, BrowserScreens, SignInNamed DEF WorkInv, ScreensHold
<1> QED  BY <1>1, Inductive, PTL

=============================================================================
