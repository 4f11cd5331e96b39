-------------------------- MODULE AppConfigProofs --------------------------
(***************************************************************************)
(* What a load and a save keep of the configuration, for any settings,     *)
(* values, environment, catalog, number of requests and restarts.          *)
(***************************************************************************)
EXTENDS AppConfig, FiniteSetTheorems, WellFoundedInduction, TLAPS

-----------------------------------------------------------------------------
(* Loading *)

\* What a load makes of a stored value.
Fill(k, v) ==
  IF v = "missing" THEN DefaultOf(k) ELSE v

Value(k, v) ==
  IF Replaces(k, Fill(k, v)) THEN "env" ELSE Fill(k, v)

Moved(conf) == conf.archived \cup (IF LegacyFile THEN {"state"} ELSE {})
                             \cup (IF conf.obsolete THEN {"config"} ELSE {})

LEMMA LoadedIs ==
  ASSUME NEW conf \in Config
  PROVE  Loaded(conf) = [set |-> [k \in Keys |-> Value(k, conf.set[k])], items |-> conf.items, old |-> conf.old,
                         obsolete |-> FALSE, archived |-> Moved(conf)]
<1> DEFINE a == [conf EXCEPT !.set = [k \in Keys |-> IF @[k] = "missing" THEN DefaultOf(k) ELSE @[k]]]
           b == [a EXCEPT !.archived = @ \cup (IF LegacyFile THEN {"state"} ELSE {})
                                         \cup (IF a.obsolete THEN {"config"} ELSE {}),
                          !.obsolete = FALSE]
<1>1. a = [set |-> [k \in Keys |-> Fill(k, conf.set[k])], items |-> conf.items, old |-> conf.old,
           obsolete |-> conf.obsolete, archived |-> conf.archived]
  BY DEF Config, Fill
<1>2. WithDefaults(conf) = a
  BY DEF WithDefaults
<1> HIDE DEF a
<1>3. b = [set |-> [k \in Keys |-> Fill(k, conf.set[k])], items |-> conf.items, old |-> conf.old,
           obsolete |-> FALSE, archived |-> Moved(conf)]
  <2>1. /\ a.archived = conf.archived /\ a.obsolete = conf.obsolete
        /\ b = [a EXCEPT !.archived = Moved(conf), !.obsolete = FALSE]
    BY <1>1 DEF Moved
  <2> HIDE DEF b
  <2> QED  BY <1>1, <2>1
<1>4. Archived(WithDefaults(conf)) = b
  BY <1>2 DEF Archived
<1> HIDE DEF b
<1>5. Seeded(b) = [set |-> [k \in Keys |-> Value(k, conf.set[k])], items |-> conf.items, old |-> conf.old,
                   obsolete |-> FALSE, archived |-> Moved(conf)]
  <2> DEFINE seeded == [k \in Keys |->
                          IF Replaces(k, b.set[k]) THEN "env" ELSE b.set[k]]
  <2>1. b.set = [k \in Keys |-> Fill(k, conf.set[k])]
    BY <1>3
  <2>2. \A k \in Keys : b.set[k] = Fill(k, conf.set[k])
    BY <2>1
  <2>3. seeded = [k \in Keys |-> Value(k, conf.set[k])]
    <3>1. ASSUME NEW k \in Keys
          PROVE  (IF Replaces(k, b.set[k]) THEN "env" ELSE b.set[k])
                   = Value(k, conf.set[k])
      BY <2>2 DEF Value
    <3> QED  BY <3>1
  <2>4. Seeded(b) = [b EXCEPT !.set = seeded]
    BY DEF Seeded
  <2> HIDE DEF seeded
  <2> QED  BY <1>3, <2>3, <2>4
<1> QED  BY <1>4, <1>5 DEF Loaded

LEMMA LoadedType ==
  ASSUME NEW conf \in Config
  PROVE  /\ Loaded(conf) \in Config
         /\ Loaded(conf).set \in [Keys -> Vals]
         /\ Loaded(conf).items = conf.items /\ Loaded(conf).old = conf.old
         /\ Loaded(conf).archived = Moved(conf)
         /\ \A k \in Keys : Loaded(conf).set[k] = Value(k, conf.set[k])
<1>1. Loaded(conf) = [set |-> [k \in Keys |-> Value(k, conf.set[k])], items |-> conf.items, old |-> conf.old,
                      obsolete |-> FALSE, archived |-> Moved(conf)]
  BY LoadedIs
<1>2. conf.set \in [Keys -> Vals \cup {"missing"}] /\ conf.items \in SUBSET Items
        /\ conf.old \in SUBSET (1 .. MaxOld)
  BY DEF Config
<1>3. \A k \in Keys : Value(k, conf.set[k]) \in Vals
  BY <1>2 DEF Value, Fill, Vals, DefaultOf
<1>4. Moved(conf) \in SUBSET {"config", "state"}
  BY DEF Moved, Config
<1> QED  BY <1>1, <1>2, <1>3, <1>4 DEF Config

-----------------------------------------------------------------------------
(* Ids of new items *)

LEMMA Least ==
  ASSUME NEW S \in SUBSET Nat, S # {}
  PROVE  \E m \in S : \A k \in S : m <= k
<1> DEFINE R == OpToRel(<, Nat)
<1>1. IsWellFoundedOn(R, Nat)
  BY NatLessThanWellFounded
<1> HIDE DEF R
<1>2. PICK m \in S : \A k \in S : <<k, m>> \notin R
  BY <1>1, WFMin
<1>3. \A k \in S : ~(k < m)
  BY <1>2 DEF R, OpToRel
<1> QED  BY <1>3

\* A new id exists below the bound, is not in use, and is at most one more
\* than any bound of the ids in use.
LEMMA NextItemIs ==
  ASSUME NEW items \in SUBSET Items, NEW k \in Nat, k < MaxItem, \A i \in items : i <= k
  PROVE  /\ NextItem(items) \in Items
         /\ NextItem(items) \notin items
         /\ NextItem(items) <= k + 1
<1> DEFINE S == {j \in 0 .. k : \A i \in items : i <= j}
<1>1. k \in S /\ S \in SUBSET Nat
  OBVIOUS
<1>2. PICK m \in S : \A j \in S : m <= j
  BY <1>1, Least
<1>3. m \in Nat /\ m <= k /\ \A i \in items : i <= m /\ i \in Nat /\ i >= 1
  BY <1>2 DEF Items
<1>4. m >= 1 => m \in items
  <2>1. ASSUME m >= 1, m \notin items
        PROVE  m - 1 \in S
    <3>1. \A i \in items : i # m
      BY <2>1
    <3>2. \A i \in items : i <= m - 1
      BY <1>3, <3>1
    <3> QED  BY <1>3, <2>1, <3>2
  <2>2. m - 1 \in S => FALSE
    BY <1>2, <1>3
  <2> QED  BY <2>1, <2>2
<1>5. m + 1 \in Items /\ (\A i \in items : i < m + 1) /\ (m + 1 > 1 => (m + 1) - 1 \in items)
  <2>1. m + 1 \in Items
    BY <1>3, IdsSuffice DEF Items
  <2>2. \A i \in items : i < m + 1
    BY <1>3
  <2>3. (m + 1) - 1 = m /\ (m + 1 > 1 => m >= 1)
    BY <1>3
  <2> QED  BY <1>4, <2>1, <2>2, <2>3
<1> HIDE DEF S
<1>6. /\ NextItem(items) \in Items
      /\ \A i \in items : i < NextItem(items)
      /\ NextItem(items) > 1 => NextItem(items) - 1 \in items
  BY <1>5 DEF NextItem
<1>7. NextItem(items) \in Nat
  BY <1>6 DEF Items
<1>8. NextItem(items) \notin items
  BY <1>6, <1>7
<1> QED  BY <1>6, <1>7, <1>8


-----------------------------------------------------------------------------
(* The inductive invariants *)

Local == [pc: {"idle", "read", "open", "close"}, ask: Request, items: SUBSET Items,
          conf: Config, stage: Stages, mixed: BOOLEAN]

\* A request that has yet to choose the id of a new item.
Choosing(loc) == /\ loc.pc # "idle" /\ loc.ask.op = "create"
                 /\ loc.stage \in {"load", "legacy", "migrate", "migrated"}

Pending == {t \in Threads : Choosing(thread[t])}

\* An id is of the old version, or was chosen by one of the requests begun,
\* and not by one of these.
Chosen == MaxOld + count.ops

Spent(S) == \A i \in S : i + Cardinality(Pending) <= Chosen

IdInv ==
  /\ IsFiniteSet(Pending) /\ Cardinality(Pending) <= count.ops
  /\ Spent(file.conf.items) /\ Spent(acked.items)
  /\ \A t \in Threads : Spent(thread[t].items) /\ Spent(thread[t].conf.items)

Typed == TypeOK /\ IdInv

Writing(loc) == loc.pc \in {"open", "close"}

\* A load saves for the stage it is in; only the catalog is loaded again.
Staged(loc) == /\ loc.pc = "read" => loc.stage \notin {"save", "migrated"}
               /\ loc.pc # "idle" /\ loc.stage \notin {"load", "save"} => loc.ask.op # "set"

\* What a load gives for a setting that was acknowledged, and for a catalog.
Refilled(k, val) == IF k \in EnvFills /\ val = "empty" THEN "env" ELSE val

HoldsItems(conf, items) == Shown(conf) = IF items = {} THEN conf.old ELSE items

\* What a request is to put in place of what was acknowledged.
Intended(loc, set, items) ==
  /\ \A k \in Keys :
       loc.conf.set[k] = IF loc.stage = "save" /\ loc.ask.op = "set" /\ k = loc.ask.key
                         THEN loc.ask.val ELSE Refilled(k, set[k])
  /\ IF loc.stage = "save" /\ loc.ask.op # "set" THEN loc.conf.items = loc.items
     ELSE HoldsItems(loc.conf, items)

\* A request looks for the items of the old version only where there are no
\* others, and has those.
Looking(loc, conf) ==
  /\ loc.stage \in {"legacy", "migrate"} => conf.items = {}
  /\ loc.stage = "migrate" => conf.old = loc.items

\* Where one request runs at a time: the file, while it is not open for
\* writing, and what is about to be written, hold all that was acknowledged,
\* but for the one change that the request is to make.
Whole(loc) == loc.pc # "close" /\ file.kind # "torn"
Alone(loc) == loc.pc = "close" => file.kind = "torn" /\ ~loc.mixed

KeptInv ==
  \A t \in Threads :
    /\ Staged(thread[t])
    /\ ~torn => /\ Whole(thread[t]) => Kept /\ Looking(thread[t], Effective)
                /\ Alone(thread[t])
                /\ Writing(thread[t]) => /\ Intended(thread[t], acked.set, acked.items)
                                         /\ Looking(thread[t], thread[t].conf)

ArchiveInv ==
  \A t \in Threads :
    ~torn => /\ Whole(thread[t]) => acked.archived \subseteq Effective.archived
             /\ Alone(thread[t])
             /\ Writing(thread[t]) => acked.archived \subseteq thread[t].conf.archived

-----------------------------------------------------------------------------
(* Requests *)

LEMMA Requests ==
  ASSUME NEW ask \in Request
  PROVE  /\ ask.op \in AllOps
         /\ ask.op = "set" => ask.key \in Keys /\ ask.val \in Vals
BY DEF Request, AllOps, Reads

LEMMA EmptyType ==
  /\ Empty \in Config
  /\ Empty.items = {}
BY DEF Empty, Config, Vals

LEMMA RestingType ==
  /\ Resting \in Local
  /\ Resting.pc = "idle" /\ Resting.stage = "load" /\ Resting.items = {}
  /\ Resting.conf = Empty /\ Resting.mixed = FALSE
<1>1. Resting.ask \in Request
  BY DEF Resting, Request
<1> QED  BY <1>1, EmptyType DEF Resting, Local, Stages

\* What a catalog operation may have in hand to change.
InHand(loc, conf) == {conf.items, {}, loc.items}

LEMMA ApplyCases ==
  ASSUME NEW loc, NEW S
  PROVE  \/ Apply(loc, S) = Resting
         \/ Apply(loc, S) = Load(loc, "reload", Changed(loc.ask, S))
BY DEF Apply

\* The things that a request may do after a load or a save.
LEMMA AfterCases ==
  ASSUME NEW loc \in Local, NEW conf \in Config
  PROVE  \/ After(loc, conf) = Resting
         \/ /\ loc.stage = "load" /\ loc.ask.op = "set"
            /\ After(loc, conf) = SaveSetting(loc, conf)
         \/ /\ loc.stage = "load" /\ loc.ask.op # "set" /\ conf.items = {}
            /\ After(loc, conf) = Load(loc, "legacy", {})
         \/ loc.stage = "legacy" /\ After(loc, conf) = Load(loc, "migrate", conf.old)
         \/ loc.stage = "migrate" /\ After(loc, conf) = SaveItems(loc, "migrated", conf)
         \/ loc.stage = "reload" /\ After(loc, conf) = SaveItems(loc, "save", conf)
         \/ /\ loc.stage \in {"load", "legacy", "migrated"}
            /\ loc.stage = "load" => loc.ask.op # "set"
            /\ \E S \in InHand(loc, conf) :
                 After(loc, conf) = Load(loc, "reload", Changed(loc.ask, S))
<1> DEFINE first == CASE loc.ask.op = "get" -> Resting
                      [] loc.ask.op = "set" -> SaveSetting(loc, conf)
                      [] OTHER -> IF conf.items = {} THEN Load(loc, "legacy", {})
                                  ELSE Apply(loc, conf.items)
           second == IF conf.old = {} THEN Apply(loc, {}) ELSE Load(loc, "migrate", conf.old)
<1>1. After(loc, conf) =
        CASE loc.stage = "load" -> first
          [] loc.stage = "legacy" -> second
          [] loc.stage = "migrate"  -> SaveItems(loc, "migrated", conf)
          [] loc.stage = "migrated" -> Apply(loc, loc.items)
          [] loc.stage = "reload"   -> SaveItems(loc, "save", conf)
          [] OTHER -> Resting
  BY DEF After
<1>2. \/ first = Resting
      \/ loc.ask.op = "set" /\ first = SaveSetting(loc, conf)
      \/ loc.ask.op # "set" /\ conf.items = {} /\ first = Load(loc, "legacy", {})
      \/ loc.ask.op # "set" /\ first = Apply(loc, conf.items)
  OBVIOUS
<1>3. second = Apply(loc, {}) \/ second = Load(loc, "migrate", conf.old)
  OBVIOUS
<1> HIDE DEF first, second
<1>4. loc.stage \in Stages
  BY DEF Local
<1>5. /\ loc.stage = "load" => After(loc, conf) = first
      /\ loc.stage = "legacy" => After(loc, conf) = second
      /\ loc.stage = "migrate" => After(loc, conf) = SaveItems(loc, "migrated", conf)
      /\ loc.stage = "migrated" => After(loc, conf) = Apply(loc, loc.items)
      /\ loc.stage = "reload" => After(loc, conf) = SaveItems(loc, "save", conf)
      /\ loc.stage = "save" => After(loc, conf) = Resting
  BY <1>1
<1>6. CASE loc.stage = "load"
  <2>1. CASE loc.ask.op # "set" /\ first = Apply(loc, conf.items)
    BY <1>5, <1>6, <2>1, ApplyCases DEF InHand
  <2> QED  BY <1>2, <1>5, <1>6, <2>1
<1>7. CASE loc.stage = "legacy"
  BY <1>3, <1>5, <1>7, ApplyCases DEF InHand
<1>8. CASE loc.stage = "migrated"
  BY <1>5, <1>8, ApplyCases DEF InHand
<1> QED  BY <1>4, <1>5, <1>6, <1>7, <1>8 DEF Stages

LEMMA LoadIs ==
  ASSUME NEW loc \in Local, NEW stage, NEW items
  PROVE  LET a == Load(loc, stage, items)
         IN  /\ a.pc = "read" /\ a.stage = stage /\ a.items = items
             /\ a.ask = loc.ask /\ a.conf = loc.conf
             /\ stage \in Stages /\ items \in SUBSET Items => a \in Local
BY DEF Load, Local

LEMMA SaveSettingIs ==
  ASSUME NEW loc \in Local, NEW conf \in Config, loc.ask.op = "set"
  PROVE  LET a == SaveSetting(loc, conf)
         IN  /\ a.pc = "open" /\ a.stage = "save" /\ a.items = loc.items /\ a.ask = loc.ask
             /\ a.conf.items = conf.items /\ a.conf.old = conf.old
             /\ a.conf.archived = conf.archived /\ a.conf.obsolete = conf.obsolete
             /\ \A k \in Keys : a.conf.set[k] = IF k = loc.ask.key THEN loc.ask.val ELSE conf.set[k]
             /\ a.conf \in Config /\ a \in Local
<1> DEFINE c == [conf EXCEPT !.set[loc.ask.key] = loc.ask.val]
<1>1. loc.ask.key \in Keys /\ loc.ask.val \in Vals
  BY Requests DEF Local
<1>2. /\ c.items = conf.items /\ c.old = conf.old
      /\ c.archived = conf.archived /\ c.obsolete = conf.obsolete
      /\ \A k \in Keys : c.set[k] = IF k = loc.ask.key THEN loc.ask.val ELSE conf.set[k]
      /\ c \in Config
  BY <1>1 DEF Config
<1>3. SaveSetting(loc, conf) = [loc EXCEPT !.pc = "open", !.stage = "save", !.conf = c]
  BY DEF SaveSetting
<1> HIDE DEF c
<1>4. "save" \in Stages
  BY DEF Stages
<1> QED  BY <1>2, <1>3, <1>4 DEF Local

LEMMA SaveItemsIs ==
  ASSUME NEW loc \in Local, NEW conf \in Config, NEW stage \in Stages
  PROVE  LET a == SaveItems(loc, stage, conf)
         IN  /\ a.pc = "open" /\ a.stage = stage /\ a.items = loc.items /\ a.ask = loc.ask
             /\ a.conf.items = loc.items /\ a.conf.old = conf.old
             /\ a.conf.archived = conf.archived /\ a.conf.obsolete = conf.obsolete
             /\ a.conf.set = conf.set
             /\ a.conf \in Config /\ a \in Local
<1> DEFINE c == [conf EXCEPT !.items = loc.items]
<1>1. loc.items \in SUBSET Items
  BY DEF Local
<1>2. /\ c.items = loc.items /\ c.old = conf.old
      /\ c.archived = conf.archived /\ c.obsolete = conf.obsolete
      /\ c.set = conf.set /\ c \in Config
  BY <1>1 DEF Config
<1>3. SaveItems(loc, stage, conf) = [loc EXCEPT !.pc = "open", !.stage = stage, !.conf = c]
  BY DEF SaveItems
<1> HIDE DEF c
<1> QED  BY <1>2, <1>3 DEF Local

\* A request that creates an item has a new id to give it.
Room(loc, conf) ==
  loc.ask.op = "create" /\ loc.stage \in {"load", "legacy", "migrated"} =>
    \E k \in Nat : k < MaxItem /\ \A S \in InHand(loc, conf) : \A i \in S : i <= k

LEMMA ChangedType ==
  ASSUME NEW loc \in Local, NEW conf \in Config, Room(loc, conf),
         loc.stage \in {"load", "legacy", "migrated"}, NEW S \in InHand(loc, conf)
  PROVE  Changed(loc.ask, S) \in SUBSET Items
<1>1. S \in SUBSET Items
  BY DEF Config, Local, InHand
<1>2. CASE loc.ask.op = "create"
  <2>1. PICK k \in Nat : k < MaxItem /\ \A i \in S : i <= k
    BY <1>2 DEF Room
  <2>2. NextItem(S) \in Items
    BY <1>1, <2>1, NextItemIs
  <2> QED  BY <1>1, <1>2, <2>2 DEF Changed
<1>3. CASE loc.ask.op # "create"
  BY <1>1, <1>3 DEF Changed
<1> QED  BY <1>2, <1>3

LEMMA AfterType ==
  ASSUME NEW loc \in Local, NEW conf \in Config, Room(loc, conf), loc.pc # "idle"
  PROVE  /\ After(loc, conf) \in Local
         /\ After(loc, conf).pc # "close"
         /\ Choosing(After(loc, conf)) => Choosing(loc)
<1> DEFINE A == After(loc, conf)
<1>1. {} \in SUBSET Items /\ conf.old \in SUBSET Items
  BY IdsSuffice DEF Config, Items
<1>2. /\ "legacy" \in Stages /\ "migrate" \in Stages /\ "migrated" \in Stages
      /\ "reload" \in Stages /\ "save" \in Stages
  BY DEF Stages
<1>3. CASE A = Resting
  BY <1>3, RestingType DEF Choosing
<1>4. CASE loc.stage = "load" /\ loc.ask.op = "set" /\ A = SaveSetting(loc, conf)
  BY <1>4, SaveSettingIs DEF Choosing
<1>5. CASE loc.stage = "load" /\ A = Load(loc, "legacy", {})
  <2>1. /\ A.pc = "read" /\ A.ask = loc.ask /\ A \in Local
    BY <1>1, <1>2, <1>5, LoadIs
  <2> QED  BY <1>5, <2>1 DEF Choosing
<1>6. CASE loc.stage = "legacy" /\ A = Load(loc, "migrate", conf.old)
  <2>1. /\ A.pc = "read" /\ A.ask = loc.ask /\ A \in Local
    BY <1>1, <1>2, <1>6, LoadIs
  <2> QED  BY <1>6, <2>1 DEF Choosing
<1>7. CASE loc.stage = "migrate" /\ A = SaveItems(loc, "migrated", conf)
  <2> HIDE DEF A
  <2> DEFINE B == SaveItems(loc, "migrated", conf)
  <2>0. /\ B.pc = "open" /\ B.ask = loc.ask /\ B \in Local
    BY <1>2, SaveItemsIs
  <2> HIDE DEF B
  <2>1. /\ A.pc = "open" /\ A.ask = loc.ask /\ A \in Local
    BY <1>7, <2>0 DEF B
  <2>2. Choosing(A) => Choosing(loc)
    BY <1>7, <2>1 DEF Choosing
  <2> QED  BY <2>1, <2>2 DEF A
<1>8. CASE loc.stage = "reload" /\ A = SaveItems(loc, "save", conf)
  <2> HIDE DEF A
  <2> DEFINE B == SaveItems(loc, "save", conf)
  <2>0. /\ B.pc = "open" /\ B.stage = "save" /\ B \in Local
    BY <1>2, SaveItemsIs
  <2> HIDE DEF B
  <2>1. /\ A.pc = "open" /\ A.stage = "save" /\ A \in Local
    BY <1>8, <2>0 DEF B
  <2>2. ~Choosing(A)
    BY <2>1 DEF Choosing
  <2> QED  BY <2>1, <2>2 DEF A
<1>9. CASE /\ loc.stage \in {"load", "legacy", "migrated"}
           /\ \E S \in InHand(loc, conf) : A = Load(loc, "reload", Changed(loc.ask, S))
  <2>1. PICK S \in InHand(loc, conf) : A = Load(loc, "reload", Changed(loc.ask, S))
    BY <1>9
  <2>2. Changed(loc.ask, S) \in SUBSET Items
    BY <1>9, ChangedType
  <2>3. /\ A.pc = "read" /\ A.stage = "reload" /\ A \in Local
    BY <1>2, <2>1, <2>2, LoadIs
  <2> QED  BY <2>3 DEF Choosing
<1> HIDE DEF A
<1> QED  BY <1>3, <1>4, <1>5, <1>6, <1>7, <1>8, <1>9, AfterCases DEF A

-----------------------------------------------------------------------------
(* Types, and ids within their bound *)

\* What a request has in hand after a load or a save are ids that were
\* chosen; the one it may choose now is its own.
LEMMA AfterSpent ==
  ASSUME Typed, NEW t \in Threads, thread[t].pc # "idle",
         NEW conf \in Config, Spent(conf.items)
  PROVE  /\ Room(thread[t], conf)
         /\ \A i \in After(thread[t], conf).items \cup After(thread[t], conf).conf.items :
              /\ i + Cardinality(Pending \ {t}) <= Chosen
              /\ Choosing(After(thread[t], conf)) => i + Cardinality(Pending) <= Chosen
<1> DEFINE loc == thread[t]
           A == After(loc, conf)
           old == conf.items \cup loc.items \cup loc.conf.items \cup conf.old
<1>1. /\ loc \in Local /\ count.ops \in 0 .. MaxOps /\ MaxOps \in Nat /\ MaxOld \in Nat
      /\ MaxOld + MaxOps <= MaxItem /\ MaxItem \in Nat /\ Chosen = MaxOld + count.ops
  BY IdsSuffice DEF Typed, TypeOK, Local, Chosen
<1>2. /\ IsFiniteSet(Pending) /\ Cardinality(Pending) <= count.ops
      /\ Spent(loc.items) /\ Spent(loc.conf.items)
  BY DEF Typed, IdInv
<1>3. /\ Cardinality(Pending) \in Nat /\ Cardinality(Pending \ {t}) \in Nat
      /\ Cardinality(Pending \ {t}) = IF t \in Pending THEN Cardinality(Pending) - 1
                                                       ELSE Cardinality(Pending)
  BY <1>2, FS_RemoveElement, FS_CardinalityType
<1>4. /\ conf.items \in SUBSET Nat /\ loc.items \in SUBSET Nat /\ loc.conf.items \in SUBSET Nat
      /\ conf.old \in SUBSET (1 .. MaxOld)
  BY <1>1 DEF Config, Local, Items
<1>5. \A i \in old : /\ i \in Nat /\ i + Cardinality(Pending) <= Chosen
                     /\ i + Cardinality(Pending \ {t}) <= Chosen
  <2>1. ASSUME NEW i \in old
        PROVE  i + Cardinality(Pending) <= Chosen /\ i \in Nat
    <3>1. CASE i \in conf.old
      BY <1>1, <1>2, <1>3, <1>4, <3>1
    <3>2. CASE i \in conf.items \cup loc.items \cup loc.conf.items
      BY <1>2, <1>4, <3>2 DEF Spent
    <3> QED  BY <3>1, <3>2
  <2> HIDE DEF old
  <2> QED  BY <1>1, <1>3, <2>1
<1>6. CASE ~(loc.ask.op = "create" /\ loc.stage \in {"load", "legacy", "migrated"})
  <2>1. Room(loc, conf)
    BY <1>6 DEF Room
  <2>2. A.items \cup A.conf.items \subseteq old
    <3>1. CASE A = Resting
      BY <3>1, RestingType, EmptyType
    <3>2. CASE loc.ask.op = "set" /\ A = SaveSetting(loc, conf)
      BY <1>1, <3>2, SaveSettingIs
    <3>3. CASE A = Load(loc, "legacy", {})
      BY <1>1, <3>3, LoadIs
    <3>4. CASE A = Load(loc, "migrate", conf.old)
      BY <1>1, <3>4, LoadIs
    <3>5. CASE A = SaveItems(loc, "migrated", conf)
      <4>1. A.items = loc.items /\ A.conf.items = loc.items
        BY <1>1, <3>5, SaveItemsIs DEF Stages
      <4> QED  BY <4>1
    <3>6. CASE A = SaveItems(loc, "save", conf)
      <4>1. A.items = loc.items /\ A.conf.items = loc.items
        BY <1>1, <3>6, SaveItemsIs DEF Stages
      <4> QED  BY <4>1
    <3>7. CASE /\ loc.stage \in {"load", "legacy", "migrated"}
               /\ \E S \in InHand(loc, conf) : A = Load(loc, "reload", Changed(loc.ask, S))
      <4>1. PICK S \in InHand(loc, conf) : A = Load(loc, "reload", Changed(loc.ask, S))
        BY <3>7
      <4>2. A.items = Changed(loc.ask, S) /\ A.conf = loc.conf
        BY <1>1, <4>1, LoadIs
      <4>3. Changed(loc.ask, S) \subseteq S /\ S \subseteq old
        BY <1>6, <3>7 DEF Changed, InHand
      <4> QED  BY <4>2, <4>3
    <3> HIDE DEF A, old
    <3> QED  BY <1>1, <3>1, <3>2, <3>3, <3>4, <3>5, <3>6, <3>7, AfterCases DEF A
  <2> HIDE DEF A, old
  <2>3. \A i \in A.items \cup A.conf.items :
          i + Cardinality(Pending \ {t}) <= Chosen /\ i + Cardinality(Pending) <= Chosen
    BY <1>5, <2>2
  <2> QED  BY <2>1, <2>3 DEF A
<1>7. CASE loc.ask.op = "create" /\ loc.stage \in {"load", "legacy", "migrated"}
  <2>1. t \in Pending
    BY <1>7 DEF Pending, Choosing
  <2> DEFINE k == Chosen - Cardinality(Pending)
  <2>2. k \in Nat /\ k < MaxItem /\ k + 1 + Cardinality(Pending \ {t}) <= Chosen
    <3>1. Cardinality(Pending) # 0
      BY <1>2, <2>1, FS_EmptySet
    <3> QED  BY <1>1, <1>2, <1>3, <2>1, <3>1
  <2>3. \A S \in InHand(loc, conf) : \A i \in S : i <= k
    <3>1. ASSUME NEW S \in InHand(loc, conf), NEW i \in S
          PROVE  i + Cardinality(Pending) <= Chosen /\ i \in Nat
      BY <1>5 DEF InHand
    <3>2. Chosen \in Nat
      BY <1>1
    <3> QED  BY <1>3, <3>1, <3>2
  <2> HIDE DEF k
  <2>4. Room(loc, conf)
    BY <2>2, <2>3 DEF Room
  <2>5. ASSUME NEW S \in InHand(loc, conf)
        PROVE  \A i \in Changed(loc.ask, S) : i + Cardinality(Pending \ {t}) <= Chosen
    <3>1. S \in SUBSET Items
      BY <1>1 DEF Config, Local, InHand
    <3>2. NextItem(S) \in Items /\ NextItem(S) <= k + 1
      BY <2>2, <2>3, <3>1, NextItemIs
    <3>3. NextItem(S) + Cardinality(Pending \ {t}) <= Chosen
      <4>1. NextItem(S) \in Nat /\ Chosen \in Nat
        BY <1>1, <3>2 DEF Items
      <4> QED  BY <1>3, <2>2, <3>2, <4>1
    <3>4. Changed(loc.ask, S) = S \cup {NextItem(S)}
      BY <1>7 DEF Changed
    <3>5. S \subseteq old
      BY DEF InHand
    <3> HIDE DEF old
    <3> QED  BY <1>5, <3>3, <3>4, <3>5
  <2>6. \/ A.items \cup A.conf.items \subseteq old
        \/ /\ ~Choosing(A)
           /\ \E S \in InHand(loc, conf) : A.items = Changed(loc.ask, S) /\ A.conf = loc.conf
    <3>1. CASE A = Resting
      BY <3>1, RestingType, EmptyType
    <3>2. CASE A = Load(loc, "legacy", {})
      BY <1>1, <3>2, LoadIs
    <3>3. CASE A = Load(loc, "migrate", conf.old)
      BY <1>1, <3>3, LoadIs
    <3>4. CASE \E S \in InHand(loc, conf) : A = Load(loc, "reload", Changed(loc.ask, S))
      <4>1. PICK S \in InHand(loc, conf) : A = Load(loc, "reload", Changed(loc.ask, S))
        BY <3>4
      <4>2. A.items = Changed(loc.ask, S) /\ A.conf = loc.conf /\ A.stage = "reload"
        BY <1>1, <4>1, LoadIs
      <4> QED  BY <4>2 DEF Choosing
    <3> HIDE DEF A, old
    <3> QED  BY <1>1, <1>7, <3>1, <3>2, <3>3, <3>4, AfterCases DEF A
  <2>7. loc.conf.items \subseteq old
    OBVIOUS
  <2> HIDE DEF A, old
  <2>8. \A i \in A.items \cup A.conf.items :
          i + Cardinality(Pending \ {t}) <= Chosen /\ (Choosing(A) => i + Cardinality(Pending) <= Chosen)
    <3>1. CASE A.items \cup A.conf.items \subseteq old
      BY <1>5, <3>1
    <3>2. CASE /\ ~Choosing(A)
               /\ \E S \in InHand(loc, conf) : A.items = Changed(loc.ask, S) /\ A.conf = loc.conf
      BY <1>5, <2>5, <2>7, <3>2
    <3> QED  BY <2>6, <3>1, <3>2
  <2> QED  BY <2>4, <2>8 DEF A
<1> QED  BY <1>6, <1>7

LEMMA InitTyped == Init => Typed
<1> SUFFICES ASSUME Init  PROVE Typed
  OBVIOUS
<1>1. file.conf \in Config /\ file.conf.items = {}
  <2>1. CASE file = Absent
    BY <2>1, EmptyType DEF Absent
  <2>2. ASSUME NEW s \in [Keys -> Vals \cup {"missing"}], NEW obsolete \in BOOLEAN,
               NEW old \in SUBSET (1 .. MaxOld),
               file = Full([Empty EXCEPT !.set = s, !.obsolete = obsolete, !.old = old])
        PROVE  file.conf \in Config /\ file.conf.items = {}
    BY <2>2, EmptyType DEF Full, Empty, Config, Vals
  <2> QED  BY <2>1, <2>2 DEF Init
<1>2. /\ file \in [kind : {"absent", "torn", "full"}, conf : Config]
      /\ file.kind # "full" => file.conf = Empty
  <2>1. file = Absent \/ \E conf : file = Full(conf)
    BY DEF Init
  <2> QED  BY <1>1, <2>1 DEF Absent, Full
<1>3. /\ acked \in [set : [Keys -> Vals], items : SUBSET Items, archived : SUBSET {"config", "state"}]
      /\ \A i \in acked.items : i \in 1 .. MaxOld
  <2>1. acked = [set |-> Loaded(file.conf).set, items |-> file.conf.old, archived |-> Owed(file.conf)]
    BY DEF Init
  <2>2. file.conf.old \in SUBSET (1 .. MaxOld) /\ file.conf.old \in SUBSET Items
    BY <1>1, IdsSuffice DEF Config, Items
  <2>3. Loaded(file.conf).set \in [Keys -> Vals]
    BY <1>1, LoadedType
  <2>4. Owed(file.conf) \in SUBSET {"config", "state"}
    BY DEF Owed
  <2> QED  BY <2>1, <2>2, <2>3, <2>4
<1>4. count \in [ops : 0 .. MaxOps, crashes : 0 .. MaxCrashes] /\ count.ops = 0
  <2>1. count = [ops |-> 0, crashes |-> 0]
    BY DEF Init
  <2>2. 0 \in 0 .. MaxOps /\ 0 \in 0 .. MaxCrashes
    BY IdsSuffice, CrashesAssumption
  <2> QED  BY <2>1, <2>2
<1>5. thread \in [Threads -> Local] /\ \A t \in Threads : thread[t] = Resting
  BY RestingType DEF Init
<1>6. TypeOK
  BY <1>2, <1>3, <1>4, <1>5 DEF TypeOK, Local, Init
<1>7. Pending = {}
  BY <1>5, RestingType DEF Pending, Choosing
<1>8. IsFiniteSet(Pending) /\ Cardinality(Pending) = 0
  BY <1>7, FS_EmptySet
<1>9. IdInv
  <2>1. Spent(acked.items)
    <3>1. \A i \in acked.items : i + 0 <= MaxOld + 0
      BY <1>3, IdsSuffice
    <3> QED  BY <1>4, <1>8, <3>1 DEF Spent, Chosen
  <2> QED  BY <1>1, <1>4, <1>5, <1>8, <2>1, RestingType, EmptyType DEF IdInv, Spent
<1> QED  BY <1>6, <1>9 DEF Typed

\* The slack between the ids in use and the requests begun does not shrink.
Slack ==
  /\ IsFiniteSet(Pending') /\ Cardinality(Pending)' \in Nat
  /\ Cardinality(Pending)' - Cardinality(Pending) <= count'.ops - count.ops

LEMMA SlackKeeps ==
  ASSUME TypeOK, TypeOK', IdInv, Slack
  PROVE  /\ Cardinality(Pending)' <= count'.ops
         /\ \A i \in Items : i + Cardinality(Pending) <= Chosen
                               => i + Cardinality(Pending)' <= Chosen'
<1>1. count.ops \in Nat /\ count'.ops \in Nat
  BY DEF TypeOK
<1>2. Cardinality(Pending) \in Nat /\ Cardinality(Pending) <= count.ops
  BY FS_CardinalityType DEF IdInv
<1>3. Items \subseteq Nat
  BY DEF Items
<1> DEFINE m == Cardinality(Pending)
           n == Cardinality(Pending)'
<1>4. n \in Nat /\ n - m <= count'.ops - count.ops
  BY DEF Slack
<1> HIDE DEF m, n
<1>5. m \in Nat /\ m <= count.ops
  BY <1>2 DEF m
<1>6. n <= count'.ops
  BY <1>1, <1>4, <1>5
<1>7. ASSUME NEW i \in Items, i + m <= Chosen
      PROVE  i + n <= Chosen'
  BY <1>1, <1>3, <1>4, <1>5, <1>7, IdsSuffice DEF Chosen
<1> QED  BY <1>6, <1>7 DEF m, n

LEMMA TypedBegin ==
  ASSUME Typed, NEW t \in Threads, NEW ask \in Request, Begin(t, ask)
  PROVE  Typed'
<1>1. TypeOK /\ IdInv
  BY DEF Typed
<1> DEFINE new == [Resting EXCEPT !.pc = "read", !.ask = ask]
<1>2. thread \in [Threads -> Local]
  BY <1>1 DEF TypeOK, Local
<1>3. new \in Local /\ new.items = {} /\ new.conf = Empty /\ new.stage = "load"
        /\ new.pc = "read" /\ new.ask = ask
  BY RestingType DEF Local, Resting
<1> HIDE DEF new
<1>4. thread' = [thread EXCEPT ![t] = new] /\ thread[t].pc = "idle"
  BY DEF Begin, new
<1>5. thread' \in [Threads -> Local] /\ thread'[t] = new
        /\ \A u \in Threads \ {t} : thread'[u] = thread[u]
  BY <1>2, <1>3, <1>4
<1>6. /\ count' = [count EXCEPT !.ops = IF ask.op \in Reads THEN @ ELSE @ + 1]
      /\ ask.op \notin Reads => count.ops < MaxOps
      /\ count \in [ops : 0 .. MaxOps, crashes : 0 .. MaxCrashes]
  BY <1>1 DEF Begin, TypeOK
<1>7. /\ count' \in [ops : 0 .. MaxOps, crashes : 0 .. MaxCrashes]
      /\ count.ops \in Nat /\ count'.ops \in Nat
      /\ count'.ops = IF ask.op \in Reads THEN count.ops ELSE count.ops + 1
  BY <1>6, IdsSuffice
<1>8. TypeOK'
  BY <1>1, <1>5, <1>7 DEF Begin, TypeOK, Local
<1>9. Pending' = IF ask.op = "create" THEN Pending \cup {t} ELSE Pending
  <2>1. Choosing(new) <=> ask.op = "create"
    BY <1>3 DEF Choosing
  <2>2. ~Choosing(thread[t])
    BY <1>4 DEF Choosing
  <2> HIDE DEF Choosing
  <2> QED  BY <1>5, <2>1, <2>2 DEF Pending
<1>10. t \notin Pending /\ IsFiniteSet(Pending)
  BY <1>1, <1>4 DEF Pending, IdInv, Choosing
<1>11. Slack
  <2>1. /\ IsFiniteSet(Pending \cup {t})
        /\ Cardinality(Pending \cup {t}) = Cardinality(Pending) + 1
        /\ Cardinality(Pending) \in Nat
    BY <1>10, FS_AddElement, FS_CardinalityType
  <2>2. CASE ask.op = "create"
    <3>1. Pending' = Pending \cup {t} /\ count'.ops = count.ops + 1
      BY <1>7, <1>9, <2>2 DEF Reads
    <3>2. Cardinality(Pending)' = Cardinality(Pending) + 1
      BY <2>1, <3>1
    <3> QED  BY <1>7, <2>1, <3>1, <3>2 DEF Slack
  <2>3. CASE ask.op # "create"
    <3>1. Pending' = Pending /\ count'.ops >= count.ops
      BY <1>7, <1>9, <2>3
    <3>2. Cardinality(Pending)' = Cardinality(Pending)
      BY <3>1
    <3> QED  BY <1>7, <1>10, <2>1, <3>1, <3>2 DEF Slack
  <2> QED  BY <2>2, <2>3
<1>12. IdInv'
  <2>1. /\ Cardinality(Pending)' <= count'.ops
        /\ \A i \in Items : i + Cardinality(Pending) <= Chosen
                              => i + Cardinality(Pending)' <= Chosen'
    BY <1>1, <1>8, <1>11, SlackKeeps
  <2>2. /\ file.conf.items \subseteq Items /\ acked.items \subseteq Items
        /\ \A u \in Threads : thread[u].items \subseteq Items /\ thread[u].conf.items \subseteq Items
    BY <1>1, <1>2 DEF TypeOK, Config, Local
  <2>3. file' = file /\ acked' = acked
    BY DEF Begin
  <2>4. Spent(file.conf.items)' /\ Spent(acked.items)'
    BY <1>1, <2>1, <2>2, <2>3 DEF IdInv, Spent
  <2>5. ASSUME NEW u \in Threads
        PROVE  Spent(thread[u].items)' /\ Spent(thread[u].conf.items)'
    <3>1. CASE u = t
      BY <1>3, <1>5, <3>1, EmptyType DEF Spent
    <3>2. CASE u # t
      BY <1>1, <1>5, <2>1, <2>2, <3>2 DEF IdInv, Spent
    <3> QED  BY <3>1, <3>2
  <2> QED  BY <1>11, <2>1, <2>4, <2>5 DEF IdInv, Slack
<1> QED  BY <1>8, <1>12 DEF Typed

LEMMA Fewer ==
  ASSUME NEW S, IsFiniteSet(S), NEW t
  PROVE  /\ IsFiniteSet(S \ {t})
         /\ Cardinality(S) \in Nat /\ Cardinality(S \ {t}) \in Nat
         /\ Cardinality(S \ {t}) <= Cardinality(S)
<1>1. /\ IsFiniteSet(S \ {t})
      /\ Cardinality(S \ {t}) = IF t \in S THEN Cardinality(S) - 1 ELSE Cardinality(S)
  BY FS_RemoveElement
<1>2. Cardinality(S) \in Nat /\ Cardinality(S \ {t}) \in Nat
  BY <1>1, FS_CardinalityType
<1> QED  BY <1>1, <1>2

\* A step that begins no request: the ids in use stay within the bound if
\* those that it puts anywhere are.
LEMMA StepSpent ==
  ASSUME Typed, TypeOK', count' = count, NEW t \in Threads,
         Pending' = Pending \/ Pending' = Pending \ {t},
         \A i \in file'.conf.items \cup acked'.items :
           i \in file.conf.items \cup acked.items \cup thread[t].items \cup thread[t].conf.items,
         \A u \in Threads \ {t} : /\ thread'[u].items = thread[u].items
                                  /\ thread'[u].conf = thread[u].conf,
         \A i \in thread'[t].items \cup thread'[t].conf.items :
           \/ i \in file.conf.items \cup acked.items \cup thread[t].items \cup thread[t].conf.items
           \/ i + Cardinality(Pending') <= Chosen
  PROVE  IdInv'
<1>1. TypeOK /\ IdInv
  BY DEF Typed
<1>2. Slack
  <2>1. /\ IsFiniteSet(Pending) /\ IsFiniteSet(Pending \ {t})
        /\ Cardinality(Pending) \in Nat /\ Cardinality(Pending \ {t}) \in Nat
        /\ Cardinality(Pending \ {t}) <= Cardinality(Pending)
    <3>1. IsFiniteSet(Pending)
      BY <1>1 DEF IdInv
    <3> QED  BY <3>1, Fewer
  <2>2. IsFiniteSet(Pending') /\ Cardinality(Pending') \in Nat
          /\ Cardinality(Pending') <= Cardinality(Pending)
    BY <2>1
  <2>3. count'.ops - count.ops = 0
    BY <1>1 DEF TypeOK
  <2>4. Cardinality(Pending)' = Cardinality(Pending')
    OBVIOUS
  <2> QED  BY <2>1, <2>2, <2>3, <2>4 DEF Slack
<1>3. /\ Cardinality(Pending)' <= count'.ops
      /\ \A i \in Items : i + Cardinality(Pending) <= Chosen
                            => i + Cardinality(Pending)' <= Chosen'
  BY <1>1, <1>2, SlackKeeps
<1>4. /\ file.conf.items \subseteq Items /\ acked.items \subseteq Items
      /\ \A u \in Threads : thread[u].items \subseteq Items /\ thread[u].conf.items \subseteq Items
  BY <1>1 DEF TypeOK, Config
<1>5. \A i \in file.conf.items \cup acked.items : i + Cardinality(Pending)' <= Chosen'
  BY <1>1, <1>3, <1>4 DEF IdInv, Spent
<1>6. \A u \in Threads : \A i \in thread[u].items \cup thread[u].conf.items :
        i + Cardinality(Pending)' <= Chosen'
  BY <1>1, <1>3, <1>4 DEF IdInv, Spent
<1>7. \A i \in file.conf.items \cup acked.items \cup thread[t].items \cup thread[t].conf.items :
        i + Cardinality(Pending)' <= Chosen'
  BY <1>5, <1>6
<1>8. Spent(file.conf.items)' /\ Spent(acked.items)'
  BY <1>7 DEF Spent
<1>9. ASSUME NEW u \in Threads
      PROVE  Spent(thread[u].items)' /\ Spent(thread[u].conf.items)'
  <2>1. CASE u = t
    <3>1. \A i \in thread'[t].items \cup thread'[t].conf.items :
            i + Cardinality(Pending)' <= Chosen'
      BY <1>7 DEF Chosen
    <3> QED  BY <2>1, <3>1 DEF Spent
  <2>2. CASE u # t
    BY <1>6, <2>2 DEF Spent
  <2> QED  BY <2>1, <2>2
<1> QED  BY <1>2, <1>3, <1>8, <1>9 DEF IdInv, Slack

\* The state of one thread, and what the others agree on, as a step of it
\* leaves them.
LEMMA PendingNext ==
  ASSUME NEW t \in Threads,
         \A u \in Threads \ {t} : /\ thread'[u].ask = thread[u].ask
                                  /\ thread'[u].stage = thread[u].stage
                                  /\ thread'[u].pc = "idle" <=> thread[u].pc = "idle",
         Choosing(thread'[t]) => Choosing(thread[t])
  PROVE  Pending' = IF Choosing(thread'[t]) THEN Pending ELSE Pending \ {t}
<1>1. ASSUME NEW u \in Threads \ {t}
      PROVE  u \in Pending' <=> u \in Pending
  BY DEF Pending, Choosing
<1>2. t \in Pending' <=> Choosing(thread'[t])
  BY DEF Pending, Choosing
<1>3. Choosing(thread'[t]) => t \in Pending
  BY DEF Pending
<1>4. Pending' \subseteq Threads /\ Pending \subseteq Threads
  BY DEF Pending
<1>5. CASE Choosing(thread'[t])
  <2>1. \A u : u \in Pending' <=> u \in Pending
    BY <1>1, <1>2, <1>3, <1>4, <1>5
  <2> QED  BY <1>5, <2>1
<1>6. CASE ~Choosing(thread'[t])
  <2>1. \A u : u \in Pending' <=> u \in Pending \ {t}
    BY <1>1, <1>2, <1>4, <1>6
  <2> QED  BY <1>6, <2>1
<1> QED  BY <1>5, <1>6

LEMMA TypedRead ==
  ASSUME Typed, NEW t \in Threads, Read(t)
  PROVE  Typed'
<1> DEFINE loc == thread[t]
           conf == Loaded(file.conf)
           new == IF file = Full(conf) THEN After(loc, conf)
                  ELSE [loc EXCEPT !.pc = "open", !.conf = conf]
<1>1. TypeOK /\ IdInv
  BY DEF Typed
<1>2. thread \in [Threads -> Local] /\ file.conf \in Config /\ loc \in Local
  BY <1>1 DEF TypeOK, Local
<1>3. conf \in Config /\ conf.items = file.conf.items
  BY <1>2, LoadedType
<1>4. thread' = [thread EXCEPT ![t] = new] /\ loc.pc = "read"
  BY DEF Read
<1>5. count' = count /\ file' = file /\ acked' = acked /\ torn' \in BOOLEAN
  BY DEF Read
<1>6. Spent(conf.items)
  BY <1>1, <1>3 DEF IdInv
<1>7. /\ Room(loc, conf)
      /\ \A i \in After(loc, conf).items \cup After(loc, conf).conf.items :
           /\ i + Cardinality(Pending \ {t}) <= Chosen
           /\ Choosing(After(loc, conf)) => i + Cardinality(Pending) <= Chosen
  BY <1>3, <1>4, <1>6, AfterSpent
<1>8. /\ After(loc, conf) \in Local
      /\ Choosing(After(loc, conf)) => Choosing(loc)
  BY <1>2, <1>3, <1>4, <1>7, AfterType
<1> HIDE DEF conf
<1>9. new \in Local
  BY <1>2, <1>3, <1>8 DEF Local
<1>10. new = After(loc, conf) \/ new = [loc EXCEPT !.pc = "open", !.conf = conf]
  OBVIOUS
<1> HIDE DEF new
<1>11. thread' \in [Threads -> Local] /\ thread'[t] = new
         /\ \A u \in Threads \ {t} : thread'[u] = thread[u]
  BY <1>2, <1>4, <1>9
<1>12. TypeOK'
  BY <1>1, <1>5, <1>11 DEF TypeOK, Local
<1> HIDE DEF loc
<1>13. CASE new = After(loc, conf)
  <2>1. Pending' = IF Choosing(new) THEN Pending ELSE Pending \ {t}
    BY <1>8, <1>11, <1>13, PendingNext DEF loc
  <2>2. \A i \in new.items \cup new.conf.items : i + Cardinality(Pending') <= Chosen
    BY <1>7, <1>13, <2>1
  <2>3. IdInv'
    BY <1>5, <1>11, <1>12, <2>1, <2>2, StepSpent
  <2> QED  BY <1>12, <2>3 DEF Typed
<1>14. CASE new = [loc EXCEPT !.pc = "open", !.conf = conf]
  <2>1. /\ new.pc = "open" /\ new.stage = loc.stage /\ new.ask = loc.ask
        /\ new.items = loc.items /\ new.conf = conf
    BY <1>2, <1>14 DEF Local
  <2>2. Pending' = IF Choosing(new) THEN Pending ELSE Pending \ {t}
    <3>1. Choosing(new) => Choosing(loc)
      BY <1>4, <2>1 DEF Choosing
    <3> QED  BY <1>11, <3>1, PendingNext DEF loc
  <2>3. IdInv'
    BY <1>3, <1>5, <1>11, <1>12, <2>1, <2>2, StepSpent DEF loc
  <2> QED  BY <1>12, <2>3 DEF Typed
<1> QED  BY <1>10, <1>13, <1>14

LEMMA TypedOpen ==
  ASSUME Typed, NEW t \in Threads, Open(t)
  PROVE  Typed'
<1>1. TypeOK /\ IdInv
  BY DEF Typed
<1>2. thread \in [Threads -> Local]
  BY <1>1 DEF TypeOK, Local
<1>3. ASSUME NEW u \in Threads
      PROVE  /\ thread'[u] \in Local
             /\ thread'[u] = [thread[u] EXCEPT !.mixed = FALSE, !.pc = IF u = t THEN "close" ELSE @]
             /\ thread'[u].items = thread[u].items /\ thread'[u].conf = thread[u].conf
             /\ thread'[u].ask = thread[u].ask /\ thread'[u].stage = thread[u].stage
             /\ thread'[u].pc = IF u = t THEN "close" ELSE thread[u].pc
  BY <1>2 DEF Open, Local
<1>4. thread[t].pc = "open" /\ file' = Torn /\ count' = count /\ acked' = acked /\ torn' = torn
  BY DEF Open
<1>5. DOMAIN thread' = Threads /\ thread' = [u \in Threads |-> thread'[u]]
  BY DEF Open
<1>6. thread' \in [Threads -> Local]
  BY <1>3, <1>5
<1>7. file'.conf = Empty /\ file'.kind = "torn" /\ file' \in [kind : {"absent", "torn", "full"}, conf : Config]
  BY <1>4, EmptyType DEF Torn
<1>8. TypeOK'
  BY <1>1, <1>4, <1>6, <1>7 DEF TypeOK, Local
<1>9. Pending' = Pending \/ Pending' = Pending \ {t}
  <2>1. Choosing(thread'[t]) => Choosing(thread[t])
    BY <1>3, <1>4 DEF Choosing
  <2>2. \A u \in Threads \ {t} : /\ thread'[u].ask = thread[u].ask
                                  /\ thread'[u].stage = thread[u].stage
                                  /\ (thread'[u].pc = "idle" <=> thread[u].pc = "idle")
    BY <1>3, <1>4
  <2>3. Pending' = IF Choosing(thread'[t]) THEN Pending ELSE Pending \ {t}
    <3> HIDE DEF Pending, Choosing
    <3> QED  BY <2>1, <2>2, PendingNext
  <2> QED  BY <2>3
<1>10. file'.conf.items = {}
  BY <1>7, EmptyType
<1>11. IdInv'
  BY <1>3, <1>4, <1>8, <1>9, <1>10, StepSpent
<1> QED  BY <1>8, <1>11 DEF Typed

LEMMA TypedClose ==
  ASSUME Typed, NEW t \in Threads, Close(t)
  PROVE  Typed'
<1> DEFINE loc == thread[t]
           new == After(loc, loc.conf)
<1>1. TypeOK /\ IdInv
  BY DEF Typed
<1>2. thread \in [Threads -> Local] /\ loc \in Local /\ loc.conf \in Config /\ loc.items \in SUBSET Items
  BY <1>1 DEF TypeOK, Local
<1>3. loc.pc = "close" /\ count' = count /\ torn' = torn
  BY DEF Close
<1>4. Spent(loc.conf.items)
  BY <1>1 DEF IdInv
<1>5. /\ Room(loc, loc.conf)
      /\ \A i \in new.items \cup new.conf.items :
           /\ i + Cardinality(Pending \ {t}) <= Chosen
           /\ Choosing(new) => i + Cardinality(Pending) <= Chosen
  BY <1>2, <1>3, <1>4, AfterSpent
<1>6. new \in Local /\ (Choosing(new) => Choosing(loc))
  BY <1>2, <1>3, <1>5, AfterType
<1>7. thread' = [u \in Threads |-> IF u = t THEN new
                   ELSE [thread[u] EXCEPT !.mixed = @ \/ thread[u].pc = "close"]]
  BY DEF Close
<1> HIDE DEF new
<1>8. thread'[t] = new
  BY <1>7
<1>9. ASSUME NEW u \in Threads \ {t}
      PROVE  /\ thread'[u] \in Local
             /\ thread'[u].items = thread[u].items /\ thread'[u].conf = thread[u].conf
             /\ thread'[u].ask = thread[u].ask /\ thread'[u].stage = thread[u].stage
             /\ thread'[u].pc = thread[u].pc
  <2>1. thread'[u] = [thread[u] EXCEPT !.mixed = thread[u].mixed \/ thread[u].pc = "close"]
    BY <1>7
  <2>2. (thread[u].mixed \/ thread[u].pc = "close") \in BOOLEAN /\ thread[u] \in Local
    BY <1>2
  <2> QED  BY <2>1, <2>2 DEF Local
<1>10. thread' \in [Threads -> Local]
  <2>1. DOMAIN thread' = Threads /\ thread' = [u \in Threads |-> thread'[u]]
    BY <1>7
  <2> QED  BY <1>6, <1>8, <1>9, <2>1
<1>11. file' = Full(loc.conf) \/ file' = Torn
  BY DEF Close
<1>12. /\ file' \in [kind : {"absent", "torn", "full"}, conf : Config]
       /\ file'.kind # "full" => file'.conf = Empty
       /\ file'.conf.items = loc.conf.items \/ file'.conf.items = {}
  BY <1>2, <1>11, EmptyType DEF Full, Torn
<1>13. /\ acked' \in [set : [Keys -> Vals], items : SUBSET Items, archived : SUBSET {"config", "state"}]
       /\ acked'.items = acked.items \/ acked'.items = loc.items
  <2>1. acked \in [set : [Keys -> Vals], items : SUBSET Items, archived : SUBSET {"config", "state"}]
    BY <1>1 DEF TypeOK
  <2>2. CASE acked' = acked
    BY <2>1, <2>2
  <2>3. CASE acked' = [acked EXCEPT !.set[loc.ask.key] = loc.ask.val] /\ loc.ask.op = "set"
    <3>1. loc.ask.key \in Keys /\ loc.ask.val \in Vals
      BY <1>2, <2>3, Requests DEF Local, Vals
    <3> QED  BY <2>1, <2>3, <3>1
  <2>4. CASE acked' = [acked EXCEPT !.items = loc.items]
    BY <1>2, <2>1, <2>4
  <2>5. acked' = CASE loc.stage # "save" -> acked
                   [] loc.stage = "save" /\ loc.ask.op = "set" -> [acked EXCEPT !.set[loc.ask.key] = loc.ask.val]
                   [] OTHER -> [acked EXCEPT !.items = loc.items]
    BY DEF Close
  <2>6. \/ acked' = acked
        \/ acked' = [acked EXCEPT !.set[loc.ask.key] = loc.ask.val] /\ loc.ask.op = "set"
        \/ acked' = [acked EXCEPT !.items = loc.items]
    BY <2>5
  <2> QED  BY <2>2, <2>3, <2>4, <2>6
<1>14. TypeOK'
  BY <1>1, <1>3, <1>10, <1>12, <1>13 DEF TypeOK, Local
<1> HIDE DEF loc
<1>15. Pending' = IF Choosing(new) THEN Pending ELSE Pending \ {t}
  BY <1>6, <1>8, <1>9, PendingNext DEF loc
<1>16. \A i \in file'.conf.items \cup acked'.items :
         i \in file.conf.items \cup acked.items \cup thread[t].items \cup thread[t].conf.items
  BY <1>12, <1>13 DEF loc
<1>17. \A i \in thread'[t].items \cup thread'[t].conf.items : i + Cardinality(Pending') <= Chosen
  BY <1>5, <1>8, <1>15
<1>18. IdInv'
  BY <1>3, <1>9, <1>14, <1>15, <1>16, <1>17, StepSpent
<1> QED  BY <1>14, <1>18 DEF Typed

LEMMA TypedRestart ==
  ASSUME Typed, Restart
  PROVE  Typed'
<1>1. TypeOK /\ IdInv
  BY DEF Typed
<1>2. thread' \in [Threads -> Local] /\ \A t \in Threads : thread'[t] = Resting
  BY RestingType DEF Restart
<1>3. file' = file /\ acked' = acked /\ torn' = torn
  BY DEF Restart
<1>4. /\ count' \in [ops : 0 .. MaxOps, crashes : 0 .. MaxCrashes]
      /\ count'.ops = count.ops /\ count.ops \in Nat
  <2>1. count \in [ops : 0 .. MaxOps, crashes : 0 .. MaxCrashes]
    BY <1>1 DEF TypeOK
  <2>2. count.crashes < MaxCrashes /\ count' = [count EXCEPT !.crashes = @ + 1]
    BY DEF Restart
  <2> QED  BY <2>1, <2>2, CrashesAssumption, IdsSuffice
<1>5. TypeOK'
  BY <1>1, <1>2, <1>3, <1>4 DEF TypeOK, Local
<1>6. Pending' = {}
  BY <1>2, RestingType DEF Pending, Choosing
<1>7. IsFiniteSet(Pending') /\ Cardinality(Pending') = 0 /\ Cardinality(Pending)' = Cardinality(Pending')
  BY <1>6, FS_EmptySet
<1>8. Slack
  <2>1. Cardinality(Pending) \in Nat
    BY <1>1, FS_CardinalityType DEF IdInv
  <2> QED  BY <1>4, <1>7, <2>1 DEF Slack
<1>9. /\ Cardinality(Pending)' <= count'.ops
      /\ \A i \in Items : i + Cardinality(Pending) <= Chosen
                            => i + Cardinality(Pending)' <= Chosen'
  BY <1>1, <1>5, <1>8, SlackKeeps
<1>10. file.conf.items \subseteq Items /\ acked.items \subseteq Items
  BY <1>1 DEF TypeOK, Config
<1>11. Spent(file.conf.items)' /\ Spent(acked.items)'
  BY <1>1, <1>3, <1>9, <1>10 DEF IdInv, Spent
<1>12. \A t \in Threads : Spent(thread[t].items)' /\ Spent(thread[t].conf.items)'
  BY <1>2, RestingType, EmptyType DEF Spent
<1>13. IdInv'
  BY <1>7, <1>9, <1>11, <1>12 DEF IdInv
<1> QED  BY <1>5, <1>13 DEF Typed

\* Whatever the threads do at once, every local of theirs, the file and what
\* was acknowledged have their types; in particular the next id of a catalog
\* exists, since each id was chosen by a request of its own.
THEOREM TypeCorrect == Spec => []TypeOK
<1>1. Init => Typed
  BY InitTyped
<1>2. Typed /\ [Next]_vars => Typed'
  <2> SUFFICES ASSUME Typed, [Next]_vars  PROVE Typed'
    OBVIOUS
  <2>1. ASSUME NEW t \in Threads, NEW ask \in Request, Begin(t, ask)  PROVE Typed'
    BY <2>1, TypedBegin
  <2>2. ASSUME NEW t \in Threads, Read(t)  PROVE Typed'
    BY <2>2, TypedRead
  <2>3. ASSUME NEW t \in Threads, Open(t)  PROVE Typed'
    BY <2>3, TypedOpen
  <2>4. ASSUME NEW t \in Threads, Close(t)  PROVE Typed'
    BY <2>4, TypedClose
  <2>5. CASE Restart
    BY <2>5, TypedRestart
  <2>6. CASE UNCHANGED vars
    BY <2>6 DEF vars, Typed, TypeOK, IdInv, Pending, Choosing, Spent, Chosen
  <2> QED  BY <2>1, <2>2, <2>3, <2>4, <2>5, <2>6 DEF Next
<1>3. Typed => TypeOK
  BY DEF Typed
<1> QED  BY <1>1, <1>2, <1>3, PTL DEF Spec

-----------------------------------------------------------------------------
(* Loading settles *)
LEMMA Fixed ==
  ASSUME NEW conf \in Config
  PROVE  Loaded(conf) = conf <=> /\ conf.obsolete = FALSE
                                 /\ LegacyFile => "state" \in conf.archived
                                 /\ \A k \in Keys : Value(k, conf.set[k]) = conf.set[k]
<1>1. Loaded(conf) = [set |-> [k \in Keys |-> Value(k, conf.set[k])], items |-> conf.items, old |-> conf.old,
                      obsolete |-> FALSE, archived |-> Moved(conf)]
  BY LoadedIs
<1>2. /\ conf = [set |-> conf.set, items |-> conf.items, old |-> conf.old,
                 obsolete |-> conf.obsolete, archived |-> conf.archived]
      /\ conf.set = [k \in Keys |-> conf.set[k]]
      /\ conf.obsolete \in BOOLEAN
  BY DEF Config
<1>3. LegacyFile \in BOOLEAN
  BY EnvAssumption
<1>4. ASSUME Loaded(conf) = conf
      PROVE  /\ conf.obsolete = FALSE
             /\ LegacyFile => "state" \in conf.archived
             /\ \A k \in Keys : Value(k, conf.set[k]) = conf.set[k]
  <2>1. conf.obsolete = FALSE /\ conf.archived = Moved(conf)
    BY <1>1, <1>4
  <2>2. conf.set = [k \in Keys |-> Value(k, conf.set[k])]
    BY <1>1, <1>4
  <2>3. \A k \in Keys : Value(k, conf.set[k]) = conf.set[k]
    BY <2>2
  <2>4. LegacyFile => "state" \in Moved(conf)
    BY DEF Moved
  <2> QED  BY <2>1, <2>3, <2>4
<1>5. ASSUME conf.obsolete = FALSE, LegacyFile => "state" \in conf.archived,
             \A k \in Keys : Value(k, conf.set[k]) = conf.set[k]
      PROVE  Loaded(conf) = conf
  <2>1. [k \in Keys |-> Value(k, conf.set[k])] = conf.set
    BY <1>2, <1>5
  <2>2. Moved(conf) = conf.archived
    BY <1>3, <1>5 DEF Moved
  <2> QED  BY <1>1, <1>2, <1>5, <2>1, <2>2
<1> QED  BY <1>4, <1>5

LEMMA LoadSettles ==
  ASSUME NEW conf \in Config
  PROVE  Loaded(Loaded(conf)) = Loaded(conf)
<1>1. /\ Loaded(conf) \in Config /\ Loaded(conf).obsolete = FALSE
      /\ Loaded(conf).archived = Moved(conf)
      /\ \A k \in Keys : Loaded(conf).set[k] = Value(k, conf.set[k])
  BY LoadedIs, LoadedType
<1>2. LegacyFile => "state" \in Moved(conf)
  BY DEF Moved
<1> DEFINE l == Loaded(conf)
<1>3. \A k \in Keys : Value(k, l.set[k]) = l.set[k]
  BY <1>1 DEF Value, Fill, Replaces, DefaultOf
<1>4. l \in Config /\ l.obsolete = FALSE /\ (LegacyFile => "state" \in l.archived)
  BY <1>1, <1>2
<1> HIDE DEF l
<1>5. Loaded(l) = l
  BY <1>3, <1>4, Fixed
<1> QED  BY <1>5 DEF l

\* A change of one setting, or of the catalog, settles nothing anew where no
\* Putting in another catalog settles nothing anew; changing one setting does
\* so only where a variable replaces the value that it is given.
LEMMA ItemsSettle ==
  ASSUME NEW conf \in Config, Loaded(conf) = conf, NEW new \in Config,
         new.set = conf.set, new.old = conf.old,
         new.archived = conf.archived, new.obsolete = conf.obsolete
  PROVE  Loaded(new) = new
<1>1. /\ conf.obsolete = FALSE
      /\ LegacyFile => "state" \in conf.archived
      /\ \A k \in Keys : Value(k, conf.set[k]) = conf.set[k]
  BY Fixed
<1> QED  BY <1>1, Fixed

LEMMA SettingSettles ==
  ASSUME NEW conf \in Config, Loaded(conf) = conf, NEW key \in Keys, NEW val \in Vals,
         NEW new \in Config, new.items = conf.items, new.old = conf.old,
         new.archived = conf.archived, new.obsolete = conf.obsolete,
         \A k \in Keys : new.set[k] = IF k = key THEN val ELSE conf.set[k]
  PROVE  \/ Loaded(new) = new
         \/ Replaces(key, val) /\ Loaded(new) = [new EXCEPT !.set[key] = "env"]
<1>1. /\ conf.obsolete = FALSE
      /\ LegacyFile => "state" \in conf.archived
      /\ \A k \in Keys : Value(k, conf.set[k]) = conf.set[k]
  BY Fixed
<1>2. val # "missing"
  BY ValsAssumption DEF Vals
<1>3. Value(key, val) = IF Replaces(key, val) THEN "env" ELSE val
  BY <1>2 DEF Value, Fill
<1>4. \A k \in Keys : Value(k, new.set[k]) = IF k = key THEN Value(key, val) ELSE new.set[k]
  BY <1>1
<1>5. CASE ~Replaces(key, val)
  <2>1. \A k \in Keys : Value(k, new.set[k]) = new.set[k]
    BY <1>3, <1>4, <1>5
  <2> QED  BY <1>1, <2>1, Fixed
<1>6. CASE Replaces(key, val)
  <2>1. Loaded(new) = [set |-> [k \in Keys |-> Value(k, new.set[k])], items |-> new.items,
                       old |-> new.old, obsolete |-> FALSE, archived |-> Moved(new)]
    BY LoadedIs
  <2>2. Moved(new) = new.archived
    <3>1. LegacyFile \in BOOLEAN
      BY EnvAssumption
    <3> QED  BY <1>1, <3>1 DEF Moved
  <2>3. [k \in Keys |-> Value(k, new.set[k])] = [new.set EXCEPT ![key] = "env"]
    <3>1. new.set = [k \in Keys |-> new.set[k]]
      BY DEF Config
    <3>2. \A k \in Keys : Value(k, new.set[k]) = IF k = key THEN "env" ELSE new.set[k]
      BY <1>3, <1>4, <1>6
    <3> QED  BY <3>1, <3>2
  <2>4. [new EXCEPT !.set[key] = "env"] =
          [set |-> [new.set EXCEPT ![key] = "env"], items |-> new.items,
           old |-> new.old, obsolete |-> new.obsolete, archived |-> new.archived]
    BY DEF Config
  <2>5. Loaded(new) = [new EXCEPT !.set[key] = "env"]
    BY <1>1, <2>1, <2>2, <2>3, <2>4
  <2> QED  BY <1>6, <2>5
<1> QED  BY <1>5, <1>6

\* Where a request goes after a load or a save that leaves it conf.
LEMMA AfterConf ==
  ASSUME NEW loc \in Local, NEW conf \in Config
  PROVE  LET a == After(loc, conf)
         IN  \/ a = Resting
             \/ /\ a.pc = "read" /\ a.stage \in {"legacy", "migrate", "reload"}
                /\ a.ask = loc.ask /\ (loc.stage = "load" => a.ask.op # "set")
                /\ Looking(loc, conf) => Looking(a, conf)
             \/ /\ a.pc = "open" /\ a.stage = "save" /\ loc.stage = "load" /\ loc.ask.op = "set"
                /\ a.ask = loc.ask /\ a.conf \in Config
                /\ a.conf.items = conf.items /\ a.conf.old = conf.old
                /\ a.conf.archived = conf.archived /\ a.conf.obsolete = conf.obsolete
                /\ \A k \in Keys : a.conf.set[k] = IF k = loc.ask.key THEN loc.ask.val ELSE conf.set[k]
             \/ /\ a.pc = "open" /\ a.ask = loc.ask /\ a.conf \in Config
                /\ \/ loc.stage = "migrate" /\ a.stage = "migrated"
                   \/ loc.stage = "reload" /\ a.stage = "save"
                /\ a.items = loc.items /\ a.conf.items = loc.items /\ a.conf.old = conf.old
                /\ a.conf.archived = conf.archived /\ a.conf.obsolete = conf.obsolete
                /\ a.conf.set = conf.set
<1> DEFINE a == After(loc, conf)
<1>1. CASE /\ loc.stage = "load" /\ loc.ask.op = "set"
           /\ a = SaveSetting(loc, conf)
  BY <1>1, SaveSettingIs
<1>2. CASE /\ loc.stage = "load" /\ loc.ask.op # "set" /\ conf.items = {}
           /\ a = Load(loc, "legacy", {})
  <2>1. a.pc = "read" /\ a.stage = "legacy" /\ a.ask = loc.ask
    BY <1>2, LoadIs
  <2>2. Looking(a, conf)
    BY <1>2, <2>1 DEF Looking
  <2> QED  BY <1>2, <2>1, <2>2
<1>3. CASE loc.stage = "legacy" /\ a = Load(loc, "migrate", conf.old)
  <2>1. a.pc = "read" /\ a.stage = "migrate" /\ a.items = conf.old /\ a.ask = loc.ask
    BY <1>3, LoadIs
  <2>2. Looking(loc, conf) => Looking(a, conf)
    BY <1>3, <2>1 DEF Looking
  <2> QED  BY <1>3, <2>1, <2>2
<1>4. CASE loc.stage = "migrate" /\ a = SaveItems(loc, "migrated", conf)
  <2>1. "migrated" \in Stages
    BY DEF Stages
  <2> HIDE DEF a
  <2>2. /\ a.pc = "open" /\ a.stage = "migrated" /\ a.items = loc.items /\ a.ask = loc.ask
        /\ a.conf.items = loc.items /\ a.conf.old = conf.old
        /\ a.conf.archived = conf.archived /\ a.conf.obsolete = conf.obsolete
        /\ a.conf.set = conf.set /\ a.conf \in Config
    BY <1>4, <2>1, SaveItemsIs
  <2> QED  BY <1>4, <2>2 DEF a
<1>5. CASE loc.stage = "reload" /\ a = SaveItems(loc, "save", conf)
  <2>1. "save" \in Stages
    BY DEF Stages
  <2> HIDE DEF a
  <2>2. /\ a.pc = "open" /\ a.stage = "save" /\ a.items = loc.items /\ a.ask = loc.ask
        /\ a.conf.items = loc.items /\ a.conf.old = conf.old
        /\ a.conf.archived = conf.archived /\ a.conf.obsolete = conf.obsolete
        /\ a.conf.set = conf.set /\ a.conf \in Config
    BY <1>5, <2>1, SaveItemsIs
  <2> QED  BY <1>5, <2>2 DEF a
<1>6. CASE /\ loc.stage = "load" => loc.ask.op # "set"
           /\ \E S \in InHand(loc, conf) : a = Load(loc, "reload", Changed(loc.ask, S))
  <2>1. a.pc = "read" /\ a.stage = "reload" /\ a.ask = loc.ask
    BY <1>6, LoadIs
  <2>2. Looking(a, conf)
    BY <2>1 DEF Looking
  <2> HIDE DEF a
  <2> QED  BY <1>6, <2>1, <2>2 DEF a
<1> HIDE DEF a
<1> QED  BY <1>1, <1>2, <1>3, <1>4, <1>5, <1>6, AfterCases DEF a

LEMMA AfterSettled ==
  ASSUME NEW loc \in Local, NEW conf \in Config, Loaded(conf) = conf,
         Writing(After(loc, conf))
  PROVE  LET a == After(loc, conf)
         IN  \/ Loaded(a.conf) = a.conf
             \/ /\ a.ask.op = "set" /\ a.stage = "save" /\ Replaces(a.ask.key, a.ask.val)
                /\ Loaded(a.conf) = [a.conf EXCEPT !.set[a.ask.key] = "env"]
<1> DEFINE a == After(loc, conf)
<1>1. loc.ask.op = "set" => loc.ask.key \in Keys /\ loc.ask.val \in Vals
  BY Requests DEF Local
<1>2. a # Resting /\ a.pc # "read"
  BY RestingType DEF Writing
<1> HIDE DEF a
<1>3. CASE /\ a.pc = "open" /\ a.stage = "save" /\ loc.stage = "load" /\ loc.ask.op = "set"
           /\ a.ask = loc.ask /\ a.conf \in Config
           /\ a.conf.items = conf.items /\ a.conf.old = conf.old
           /\ a.conf.archived = conf.archived /\ a.conf.obsolete = conf.obsolete
           /\ \A k \in Keys : a.conf.set[k] = IF k = loc.ask.key THEN loc.ask.val ELSE conf.set[k]
  <2>1. loc.ask.key \in Keys /\ loc.ask.val \in Vals
    BY <1>1, <1>3
  <2>2. \/ Loaded(a.conf) = a.conf
        \/ /\ Replaces(loc.ask.key, loc.ask.val)
           /\ Loaded(a.conf) = [a.conf EXCEPT !.set[loc.ask.key] = "env"]
    BY <1>3, <2>1, SettingSettles
  <2>3. a.ask = loc.ask /\ a.stage = "save" /\ loc.ask.op = "set"
    BY <1>3
  <2> QED  BY <2>2, <2>3 DEF a
<1>4. CASE /\ a.conf \in Config /\ a.conf.old = conf.old /\ a.conf.archived = conf.archived
           /\ a.conf.obsolete = conf.obsolete /\ a.conf.set = conf.set
  <2>1. Loaded(a.conf) = a.conf
    BY <1>4, ItemsSettle
  <2> QED  BY <2>1 DEF a
<1> QED  BY <1>2, <1>3, <1>4, AfterConf DEF a

\* What a thread writes, as a load leaves it or as its own change does.
Settled(loc) ==
  Writing(loc) =>
    \/ Loaded(loc.conf) = loc.conf
    \/ /\ loc.ask.op = "set" /\ loc.stage = "save" /\ Replaces(loc.ask.key, loc.ask.val)
       /\ Loaded(loc.conf) = [loc.conf EXCEPT !.set[loc.ask.key] = "env"]

SettledInv == \A t \in Threads : Settled(thread[t])

LEMMA SettledNext ==
  ASSUME TypeOK, SettledInv, [Next]_vars
  PROVE  SettledInv'
<1>1. thread \in [Threads -> Local] /\ file.conf \in Config
  BY DEF TypeOK, Local
<1> SUFFICES ASSUME NEW u \in Threads  PROVE Settled(thread'[u])
  BY DEF SettledInv, Settled, Writing
<1>2. Settled(thread[u])
  BY DEF SettledInv
<1>3. ASSUME NEW t \in Threads, NEW ask \in Request, Begin(t, ask)
      PROVE  Settled(thread'[u])
  <2> DEFINE new == [Resting EXCEPT !.pc = "read", !.ask = ask]
  <2>1. new.pc = "read"
    BY DEF Resting
  <2> HIDE DEF new
  <2>2. thread' = [thread EXCEPT ![t] = new]
    BY <1>3 DEF Begin, new
  <2>3. Settled(new)
    BY <2>1 DEF Settled, Writing
  <2> HIDE DEF Settled
  <2> QED  BY <1>1, <1>2, <2>2, <2>3
<1>4. ASSUME NEW t \in Threads, Read(t)
      PROVE  Settled(thread'[u])
  <2> DEFINE loc == thread[t]
             conf == Loaded(file.conf)
             new == IF file = Full(conf) THEN After(loc, conf)
                    ELSE [loc EXCEPT !.pc = "open", !.conf = conf]
  <2>1. conf \in Config /\ Loaded(conf) = conf
    BY <1>1, LoadedType, LoadSettles
  <2>2. thread' = [thread EXCEPT ![t] = new]
    BY <1>4 DEF Read
  <2> HIDE DEF conf
  <2>3. Settled(new)
    <3>1. CASE new = After(loc, conf)
      BY <1>1, <2>1, <3>1, AfterSettled DEF Settled
    <3>2. CASE new = [loc EXCEPT !.pc = "open", !.conf = conf]
      <4>1. new.conf = conf
        BY <1>1, <3>2 DEF Local
      <4> QED  BY <2>1, <4>1 DEF Settled
    <3> QED  BY <3>1, <3>2
  <2> HIDE DEF new, loc, Settled
  <2>4. thread'[u] = IF u = t THEN new ELSE thread[u]
    BY <1>1, <2>2
  <2> QED  BY <1>2, <2>3, <2>4
<1>5. ASSUME NEW t \in Threads, Open(t)
      PROVE  Settled(thread'[u])
  <2>1. /\ thread'[u].conf = thread[u].conf /\ thread'[u].ask = thread[u].ask
        /\ thread'[u].stage = thread[u].stage
        /\ thread'[u].pc = IF u = t THEN "close" ELSE thread[u].pc
    BY <1>1, <1>5 DEF Open, Local
  <2>2. thread[t].pc = "open"
    BY <1>5 DEF Open
  <2>3. Writing(thread'[u]) => Writing(thread[u])
    BY <2>1, <2>2 DEF Writing
  <2> QED  BY <1>2, <2>1, <2>3 DEF Settled
<1>6. ASSUME NEW t \in Threads, Close(t)
      PROVE  Settled(thread'[u])
  <2> DEFINE loc == thread[t]
  <2>1. /\ loc.pc = "close"
        /\ thread' = [v \in Threads |-> IF v = t THEN After(loc, loc.conf)
                        ELSE [thread[v] EXCEPT !.mixed = @ \/ thread[v].pc = "close"]]
    BY <1>6 DEF Close
  <2>2. loc \in Local /\ loc.conf \in Config
    BY <1>1 DEF Local
  <2>3. CASE u = t /\ loc.stage # "save"
    <3>1. Loaded(loc.conf) = loc.conf
      BY <2>1, <2>3 DEF SettledInv, Settled, Writing
    <3>2. Settled(After(loc, loc.conf))
      BY <2>2, <3>1, AfterSettled DEF Settled
    <3> QED  BY <2>1, <2>3, <3>2
  <2>4. CASE u = t /\ loc.stage = "save"
    <3>1. After(loc, loc.conf) = Resting
      BY <2>4 DEF After
    <3>2. thread'[u].pc = "idle"
      BY <2>1, <2>4, <3>1, RestingType
    <3> QED  BY <3>2 DEF Settled, Writing
  <2>5. CASE u # t
    <3>1. thread'[u] = [thread[u] EXCEPT !.mixed = @ \/ thread[u].pc = "close"]
      BY <2>1, <2>5
    <3>2. /\ thread'[u].conf = thread[u].conf /\ thread'[u].pc = thread[u].pc
          /\ thread'[u].ask = thread[u].ask /\ thread'[u].stage = thread[u].stage
      BY <1>1, <3>1 DEF Local
    <3> QED  BY <1>2, <3>2 DEF Settled, Writing
  <2> QED  BY <2>3, <2>4, <2>5
<1>7. CASE Restart
  <2>1. thread'[u].pc = "idle"
    BY <1>7, RestingType DEF Restart
  <2> QED  BY <2>1 DEF Settled, Writing
<1>8. CASE UNCHANGED vars
  BY <1>2, <1>8 DEF vars
<1> QED  BY <1>3, <1>4, <1>5, <1>6, <1>7, <1>8 DEF Next

\* Whatever the threads do at once and whatever the environment holds: what a
\* request saves is as a load would leave it, so that the next load of it does
\* not write the file; but for the one setting that it has given a value that
\* a variable replaces, or that it has cleared where a variable fills it.
THEOREM ReadsSettle == Spec => []ReadsDoNotWrite
<1>1. Init => SettledInv
  BY RestingType DEF Init, SettledInv, Settled, Writing
<1>2. TypeOK /\ SettledInv /\ [Next]_vars => SettledInv'
  BY SettledNext
<1>3. SettledInv => ReadsDoNotWrite
  BY DEF SettledInv, Settled, ReadsDoNotWrite, Writing
<1> QED  BY <1>1, <1>2, <1>3, TypeCorrect, PTL DEF Spec

-----------------------------------------------------------------------------
(* One request at a time *)

\* What a step of the only thread makes of it.
LEMMA OneNext ==
  ASSUME NEW t, Threads = {t}, TypeOK, [Next]_vars
  PROVE  LET loc == thread[t]
             new == thread'[t]
             conf == Loaded(file.conf)
         IN  \/ /\ loc.pc = "idle" /\ new.pc = "read" /\ new.stage = "load"
                /\ file' = file /\ acked' = acked /\ torn' = torn
             \/ /\ loc.pc = "read" /\ new = After(loc, conf)
                /\ file' = file /\ acked' = acked /\ torn' = (torn \/ file.kind = "torn")
             \/ /\ loc.pc = "read" /\ new = [loc EXCEPT !.pc = "open", !.conf = conf]
                /\ file' = file /\ acked' = acked /\ torn' = (torn \/ file.kind = "torn")
             \/ /\ loc.pc = "open" /\ new = [loc EXCEPT !.mixed = FALSE, !.pc = "close"]
                /\ file' = Torn /\ acked' = acked /\ torn' = torn
             \/ /\ loc.pc = "close" /\ new = After(loc, loc.conf) /\ torn' = torn
                /\ file' = Full(loc.conf) \/ (loc.mixed /\ file' = Torn)
                /\ acked' = CASE loc.stage # "save" -> acked
                              [] loc.stage = "save" /\ loc.ask.op = "set" ->
                                   [acked EXCEPT !.set[loc.ask.key] = loc.ask.val]
                              [] OTHER -> [acked EXCEPT !.items = loc.items]
             \/ new = Resting /\ file' = file /\ acked' = acked /\ torn' = torn
             \/ new = loc /\ file' = file /\ acked' = acked /\ torn' = torn
<1> DEFINE loc == thread[t]
           new == thread'[t]
           conf == Loaded(file.conf)
<1>1. t \in Threads /\ \A u \in Threads : u = t
  OBVIOUS
<1>2. thread \in [Threads -> Local]
  BY DEF TypeOK, Local
<1>3. ASSUME NEW ask \in Request, Begin(t, ask)
      PROVE  /\ loc.pc = "idle" /\ new.pc = "read" /\ new.stage = "load"
             /\ file' = file /\ acked' = acked /\ torn' = torn
  <2> DEFINE begun == [Resting EXCEPT !.pc = "read", !.ask = ask]
  <2>1. begun.pc = "read" /\ begun.stage = "load"
    BY DEF Resting
  <2> HIDE DEF begun
  <2>2. thread' = [thread EXCEPT ![t] = begun] /\ loc.pc = "idle"
          /\ file' = file /\ acked' = acked /\ torn' = torn
    BY <1>3 DEF Begin, begun
  <2> QED  BY <1>1, <1>2, <2>1, <2>2
<1>4. ASSUME Read(t)
      PROVE  /\ loc.pc = "read"
             /\ new = After(loc, conf) \/ new = [loc EXCEPT !.pc = "open", !.conf = conf]
             /\ file' = file /\ acked' = acked /\ torn' = (torn \/ file.kind = "torn")
  <2> DEFINE next == IF file = Full(conf) THEN After(loc, conf)
                     ELSE [loc EXCEPT !.pc = "open", !.conf = conf]
  <2>1. thread' = [thread EXCEPT ![t] = next]
    BY <1>4 DEF Read
  <2>2. next = After(loc, conf) \/ next = [loc EXCEPT !.pc = "open", !.conf = conf]
    OBVIOUS
  <2> HIDE DEF next
  <2>3. thread'[t] = next
    BY <1>1, <1>2, <2>1
  <2>4. loc.pc = "read" /\ file' = file /\ acked' = acked /\ torn' = (torn \/ file.kind = "torn")
    BY <1>4 DEF Read
  <2> QED  BY <2>2, <2>3, <2>4
<1>5. ASSUME Open(t)
      PROVE  /\ loc.pc = "open" /\ new = [loc EXCEPT !.mixed = FALSE, !.pc = "close"]
             /\ file' = Torn /\ acked' = acked /\ torn' = torn
  BY <1>1, <1>2, <1>5 DEF Open
<1>6. ASSUME Close(t)
      PROVE  /\ loc.pc = "close" /\ new = After(loc, loc.conf) /\ torn' = torn
             /\ file' = Full(loc.conf) \/ (loc.mixed /\ file' = Torn)
             /\ acked' = CASE loc.stage # "save" -> acked
                           [] loc.stage = "save" /\ loc.ask.op = "set" ->
                                [acked EXCEPT !.set[loc.ask.key] = loc.ask.val]
                           [] OTHER -> [acked EXCEPT !.items = loc.items]
  <2>1. /\ loc.pc = "close" /\ torn' = torn
        /\ acked' = CASE loc.stage # "save" -> acked
                      [] loc.stage = "save" /\ loc.ask.op = "set" ->
                           [acked EXCEPT !.set[loc.ask.key] = loc.ask.val]
                      [] OTHER -> [acked EXCEPT !.items = loc.items]
    BY <1>6 DEF Close
  <2>2. thread'[t] = After(loc, loc.conf)
    BY <1>1, <1>6 DEF Close
  <2>3. file' = Full(loc.conf) \/ (loc.mixed /\ file' = Torn)
    BY <1>6 DEF Close
  <2> QED  BY <2>1, <2>2, <2>3
<1>7. ASSUME Restart
      PROVE  new = Resting /\ file' = file /\ acked' = acked /\ torn' = torn
  BY <1>1, <1>7 DEF Restart
<1>8. ASSUME UNCHANGED vars
      PROVE  new = loc /\ file' = file /\ acked' = acked /\ torn' = torn
  BY <1>8 DEF vars
<1>9. \/ \E ask \in Request : Begin(t, ask)
      \/ Read(t) \/ Open(t) \/ Close(t) \/ Restart \/ UNCHANGED vars
  BY <1>1 DEF Next
<1> HIDE DEF loc, new, conf
<1>10. \/ /\ loc.pc = "idle" /\ new.pc = "read" /\ new.stage = "load"
          /\ file' = file /\ acked' = acked /\ torn' = torn
       \/ /\ loc.pc = "read"
          /\ new = After(loc, conf) \/ new = [loc EXCEPT !.pc = "open", !.conf = conf]
          /\ file' = file /\ acked' = acked /\ torn' = (torn \/ file.kind = "torn")
       \/ /\ loc.pc = "open" /\ new = [loc EXCEPT !.mixed = FALSE, !.pc = "close"]
          /\ file' = Torn /\ acked' = acked /\ torn' = torn
       \/ /\ loc.pc = "close" /\ new = After(loc, loc.conf) /\ torn' = torn
          /\ file' = Full(loc.conf) \/ (loc.mixed /\ file' = Torn)
          /\ acked' = CASE loc.stage # "save" -> acked
                        [] loc.stage = "save" /\ loc.ask.op = "set" ->
                             [acked EXCEPT !.set[loc.ask.key] = loc.ask.val]
                        [] OTHER -> [acked EXCEPT !.items = loc.items]
       \/ new = Resting /\ file' = file /\ acked' = acked /\ torn' = torn
       \/ new = loc /\ file' = file /\ acked' = acked /\ torn' = torn
  BY <1>3, <1>4, <1>5, <1>6, <1>7, <1>8, <1>9
<1> QED  BY <1>10 DEF loc, new, conf

\* A request goes on from a load or a save that leaves it conf, which holds
\* what was acknowledged: so does what it is to write.
LEMMA AfterKeeps ==
  ASSUME NEW loc \in Local, loc.pc # "idle", NEW conf \in Config, Staged(loc),
         NEW set, NEW items
  PROVE  LET a == After(loc, conf)
         IN  /\ Staged(a) /\ a.pc # "close"
             /\ Looking(loc, conf) => Looking(a, conf)
             /\ /\ Writing(a) /\ Looking(loc, conf) /\ HoldsItems(conf, items)
                /\ \A k \in Keys : conf.set[k] = Refilled(k, set[k])
                => Intended(a, set, items) /\ Looking(a, a.conf)
<1> DEFINE a == After(loc, conf)
<1>1. loc.stage \notin {"load", "save"} => loc.ask.op # "set"
  BY DEF Staged
<1> HIDE DEF a
<1>2. CASE a = Resting
  <2>1. a.pc = "idle" /\ a.stage = "load"
    BY <1>2, RestingType
  <2> QED  BY <2>1 DEF a, Staged, Looking, Writing
<1>3. CASE /\ a.pc = "read" /\ a.stage \in {"legacy", "migrate", "reload"}
           /\ a.ask = loc.ask /\ (loc.stage = "load" => a.ask.op # "set")
           /\ Looking(loc, conf) => Looking(a, conf)
  <2>1. loc.stage = "save" => After(loc, conf) = Resting
    BY DEF After
  <2>2. loc.stage # "save"
    BY <1>3, <2>1, RestingType DEF a
  <2>3. Staged(a)
    BY <1>1, <1>3, <2>2 DEF Staged
  <2> QED  BY <1>3, <2>3 DEF a, Writing
<1>4. CASE /\ a.pc = "open" /\ a.stage = "save" /\ loc.stage = "load" /\ loc.ask.op = "set"
           /\ a.ask = loc.ask /\ a.conf \in Config
           /\ a.conf.items = conf.items /\ a.conf.old = conf.old
           /\ \A k \in Keys : a.conf.set[k] = IF k = loc.ask.key THEN loc.ask.val ELSE conf.set[k]
  <2>1. Staged(a) /\ Looking(a, conf) /\ Looking(a, a.conf)
    BY <1>4 DEF Staged, Looking
  <2>2. HoldsItems(conf, items) => HoldsItems(a.conf, items)
    BY <1>4 DEF HoldsItems, Shown
  <2>3. HoldsItems(conf, items) /\ (\A k \in Keys : conf.set[k] = Refilled(k, set[k]))
          => Intended(a, set, items)
    BY <1>4, <2>2 DEF Intended
  <2> QED  BY <1>4, <2>1, <2>3 DEF a
<1>5. CASE /\ a.pc = "open" /\ a.ask = loc.ask /\ a.conf \in Config
           /\ \/ loc.stage = "migrate" /\ a.stage = "migrated"
              \/ loc.stage = "reload" /\ a.stage = "save"
           /\ a.items = loc.items /\ a.conf.items = loc.items /\ a.conf.old = conf.old
           /\ a.conf.set = conf.set
  <2>1. loc.ask.op # "set"
    BY <1>1, <1>5
  <2>2. Staged(a) /\ Looking(a, conf) /\ Looking(a, a.conf)
    BY <1>5, <2>1 DEF Staged, Looking
  <2>3. a.stage = "migrated" /\ Looking(loc, conf) /\ HoldsItems(conf, items)
          => HoldsItems(a.conf, items)
    BY <1>5 DEF HoldsItems, Shown, Looking
  <2>4. /\ Looking(loc, conf) /\ HoldsItems(conf, items)
        /\ \A k \in Keys : conf.set[k] = Refilled(k, set[k])
        => Intended(a, set, items)
    BY <1>5, <2>1, <2>3 DEF Intended
  <2> QED  BY <1>5, <2>2, <2>4 DEF a
<1> QED  BY <1>2, <1>3, <1>4, <1>5, AfterConf DEF a

\* What a load makes of what a save has left: a setting that was cleared is
\* filled again.
LEMMA LoadKeeps ==
  ASSUME EnvWins = {}, NEW conf \in Config, NEW set \in [Keys -> Vals],
         \A k \in Keys : conf.set[k] = set[k] \/ conf.set[k] = Refilled(k, set[k])
  PROVE  \A k \in Keys : Loaded(conf).set[k] = Refilled(k, set[k])
<1> SUFFICES ASSUME NEW k \in Keys  PROVE Value(k, conf.set[k]) = Refilled(k, set[k])
  BY LoadedType
<1>1. set[k] \in Vals /\ set[k] # "missing"
  BY ValsAssumption DEF Vals
<1>2. conf.set[k] # "missing"
  BY <1>1 DEF Refilled
<1> QED  BY <1>1, <1>2 DEF Value, Fill, Replaces, Refilled

LEMMA KeptNext ==
  ASSUME EnvWins = {}, NEW t, Threads = {t}, TypeOK, KeptInv, [Next]_vars
  PROVE  KeptInv'
<1> DEFINE loc == thread[t]
           new == thread'[t]
           conf == Loaded(file.conf)
           Holds(c, set, items) == /\ \A k \in Keys : c.set[k] = Refilled(k, set[k])
                                   /\ HoldsItems(c, items)
<1>1. t \in Threads /\ \A u \in Threads : u = t
  OBVIOUS
<1>2. /\ loc \in Local /\ loc.conf \in Config /\ file.conf \in Config /\ torn \in BOOLEAN
      /\ acked.set \in [Keys -> Vals]
      /\ acked \in [set : [Keys -> Vals], items : SUBSET Items,
                    archived : SUBSET {"config", "state"}]
  BY <1>1 DEF TypeOK, Local
<1>3. conf \in Config
  BY <1>2, LoadedType
<1>4. /\ Staged(loc)
      /\ ~torn => /\ Whole(loc) => Holds(conf, acked.set, acked.items) /\ Looking(loc, conf)
                  /\ Alone(loc)
                  /\ Writing(loc) => /\ Intended(loc, acked.set, acked.items)
                                     /\ Looking(loc, loc.conf)
  BY <1>1 DEF KeptInv, Kept, Effective, HoldsItems, Refilled
<1> DEFINE Goal == /\ Staged(new)
                   /\ ~torn' => /\ (new.pc # "close" /\ file'.kind # "torn" =>
                                      /\ Holds(Loaded(file'.conf), acked'.set, acked'.items)
                                      /\ Looking(new, Loaded(file'.conf)))
                                /\ (new.pc = "close" => file'.kind = "torn" /\ ~new.mixed)
                                /\ Writing(new) => /\ Intended(new, acked'.set, acked'.items)
                                                   /\ Looking(new, new.conf)
<1> SUFFICES Goal
  BY <1>1 DEF KeptInv, Kept, Effective, Staged, Whole, Alone, Writing, Intended, Looking,
              HoldsItems, Refilled
<1>5. CASE /\ loc.pc = "idle" /\ new.pc = "read" /\ new.stage = "load"
           /\ file' = file /\ acked' = acked /\ torn' = torn
  <2>1. Staged(new) /\ Looking(new, conf)
    BY <1>5 DEF Staged, Looking
  <2> HIDE DEF Holds, new, loc
  <2>2. ~torn /\ file.kind # "torn" => Holds(conf, acked.set, acked.items)
    BY <1>4, <1>5 DEF Whole
  <2> QED  BY <1>5, <2>1, <2>2 DEF Writing
<1>6. CASE /\ loc.pc = "read" /\ new = After(loc, conf)
           /\ file' = file /\ acked' = acked /\ torn' = (torn \/ file.kind = "torn")
  <2> HIDE DEF loc, new, conf
  <2>1. /\ Staged(new) /\ new.pc # "close"
        /\ Looking(loc, conf) => Looking(new, conf)
        /\ Writing(new) /\ Looking(loc, conf) /\ Holds(conf, acked.set, acked.items)
             => Intended(new, acked.set, acked.items) /\ Looking(new, new.conf)
    BY <1>2, <1>3, <1>4, <1>6, AfterKeeps
  <2> HIDE DEF Holds
  <2>2. ASSUME ~torn'
        PROVE  ~torn /\ Holds(conf, acked.set, acked.items) /\ Looking(loc, conf)
    BY <1>2, <1>4, <1>6, <2>2 DEF Whole
  <2> QED  BY <1>6, <2>1, <2>2 DEF conf
<1>7. CASE /\ loc.pc = "read" /\ new = [loc EXCEPT !.pc = "open", !.conf = conf]
           /\ file' = file /\ acked' = acked /\ torn' = (torn \/ file.kind = "torn")
  <2> HIDE DEF loc, new, conf
  <2>1. /\ new.pc = "open" /\ new.stage = loc.stage /\ new.ask = loc.ask
        /\ new.conf = conf /\ new.items = loc.items
    BY <1>2, <1>7 DEF Local
  <2>2. ASSUME ~torn'
        PROVE  ~torn /\ Holds(conf, acked.set, acked.items) /\ Looking(loc, conf)
    BY <1>2, <1>4, <1>7, <2>2 DEF Whole
  <2>3. loc.stage # "save"
    BY <1>4, <1>7 DEF Staged
  <2>4. Staged(new)
    BY <1>4, <1>7, <2>1 DEF Staged
  <2>5. Looking(loc, conf) => Looking(new, conf)
    BY <2>1 DEF Looking
  <2>6. Holds(conf, acked.set, acked.items) => Intended(new, acked.set, acked.items)
    BY <2>1, <2>3 DEF Intended
  <2> HIDE DEF Holds
  <2> QED  BY <1>7, <2>1, <2>2, <2>4, <2>5, <2>6 DEF conf
<1>8. CASE /\ loc.pc = "open" /\ new = [loc EXCEPT !.mixed = FALSE, !.pc = "close"]
           /\ file' = Torn /\ acked' = acked /\ torn' = torn
  <2> HIDE DEF loc, new, conf, Holds
  <2>1. /\ new.pc = "close" /\ new.stage = loc.stage /\ new.ask = loc.ask /\ new.mixed = FALSE
        /\ new.conf = loc.conf /\ new.items = loc.items
    BY <1>2, <1>8 DEF Local
  <2>2. file'.kind = "torn"
    BY <1>8 DEF Torn
  <2>3. Writing(loc)
    BY <1>8 DEF Writing
  <2>4. Staged(new)
    BY <1>4, <1>8, <2>1 DEF Staged
  <2>5. Looking(loc, loc.conf) => Looking(new, new.conf)
    BY <2>1 DEF Looking
  <2>6. Intended(loc, acked.set, acked.items) => Intended(new, acked.set, acked.items)
    BY <2>1 DEF Intended
  <2> QED  BY <1>4, <1>8, <2>1, <2>2, <2>3, <2>4, <2>5, <2>6
<1>9. CASE /\ loc.pc = "close" /\ new = After(loc, loc.conf) /\ torn' = torn
           /\ file' = Full(loc.conf) \/ (loc.mixed /\ file' = Torn)
           /\ acked' = CASE loc.stage # "save" -> acked
                         [] loc.stage = "save" /\ loc.ask.op = "set" ->
                              [acked EXCEPT !.set[loc.ask.key] = loc.ask.val]
                         [] OTHER -> [acked EXCEPT !.items = loc.items]
  <2> HIDE DEF loc, new, conf
  <2>1. /\ Staged(new) /\ new.pc # "close"
        /\ Looking(loc, loc.conf) => Looking(new, loc.conf)
        /\ /\ Writing(new) /\ Looking(loc, loc.conf)
           /\ Holds(loc.conf, acked.set, acked.items)
           => Intended(new, acked.set, acked.items) /\ Looking(new, new.conf)
    BY <1>2, <1>4, <1>9, AfterKeeps
  <2>2. ASSUME ~torn'
        PROVE  /\ file'.conf = loc.conf /\ Looking(loc, loc.conf)
               /\ Intended(loc, acked.set, acked.items)
    BY <1>4, <1>9, <2>2 DEF Alone, Writing, Full
  <2>3. ASSUME loc.stage # "save"  PROVE acked' = acked
    BY <1>9, <2>3
  <2>4. ASSUME loc.stage = "save", loc.ask.op = "set"
        PROVE  /\ loc.ask.key \in Keys /\ loc.ask.val \in Vals
               /\ acked'.set = [acked.set EXCEPT ![loc.ask.key] = loc.ask.val]
               /\ acked'.items = acked.items
    <3>1. acked' = [acked EXCEPT !.set[loc.ask.key] = loc.ask.val]
      BY <1>9, <2>4
    <3> QED  BY <1>2, <2>4, <3>1, Requests DEF Local
  <2>5. ASSUME loc.stage = "save", loc.ask.op # "set"
        PROVE  acked'.set = acked.set /\ acked'.items = loc.items
    <3>1. acked' = [acked EXCEPT !.items = loc.items]
      BY <1>9, <2>5
    <3> QED  BY <1>2, <3>1
  <2>6. ASSUME ~torn'
        PROVE  HoldsItems(loc.conf, acked'.items)
    <3>1. IF loc.stage = "save" /\ loc.ask.op # "set" THEN loc.conf.items = loc.items
          ELSE HoldsItems(loc.conf, acked.items)
      BY <2>2, <2>6 DEF Intended
    <3>2. CASE loc.stage = "save" /\ loc.ask.op # "set"
      BY <2>5, <3>1, <3>2 DEF HoldsItems, Shown
    <3>3. CASE ~(loc.stage = "save" /\ loc.ask.op # "set")
      BY <2>3, <2>4, <3>1, <3>3
    <3> QED  BY <3>2, <3>3
  <2>7. acked'.set \in [Keys -> Vals]
    BY <1>2, <2>3, <2>4, <2>5
  <2>8. ASSUME ~torn', NEW k \in Keys
        PROVE  loc.conf.set[k] = acked'.set[k] \/ loc.conf.set[k] = Refilled(k, acked'.set[k])
    <3>1. loc.conf.set[k] = IF loc.stage = "save" /\ loc.ask.op = "set" /\ k = loc.ask.key
                            THEN loc.ask.val ELSE Refilled(k, acked.set[k])
      BY <2>2, <2>8 DEF Intended
    <3>2. CASE loc.stage = "save" /\ loc.ask.op = "set"
      <4>1. acked'.set[k] = IF k = loc.ask.key THEN loc.ask.val ELSE acked.set[k]
        BY <1>2, <2>4, <3>2
      <4> QED  BY <3>1, <3>2, <4>1
    <3>3. CASE ~(loc.stage = "save" /\ loc.ask.op = "set")
      <4>1. acked'.set[k] = acked.set[k]
        BY <2>3, <2>5, <3>3
      <4> QED  BY <3>1, <3>3, <4>1
    <3> QED  BY <3>2, <3>3
  <2>9. ASSUME ~torn'
        PROVE  /\ Holds(Loaded(loc.conf), acked'.set, acked'.items)
               /\ Looking(new, Loaded(loc.conf))
    <3>1. \A k \in Keys : Loaded(loc.conf).set[k] = Refilled(k, acked'.set[k])
      BY <1>2, <2>7, <2>8, <2>9, LoadKeeps
    <3>2. Loaded(loc.conf).items = loc.conf.items /\ Loaded(loc.conf).old = loc.conf.old
      BY <1>2, LoadedType
    <3>3. HoldsItems(Loaded(loc.conf), acked'.items)
      BY <2>6, <2>9, <3>2 DEF HoldsItems, Shown
    <3>4. Looking(new, Loaded(loc.conf))
      BY <2>1, <2>2, <2>9, <3>2 DEF Looking
    <3> QED  BY <3>1, <3>3, <3>4
  <2>10. ASSUME ~torn', Writing(new)
         PROVE  Intended(new, acked'.set, acked'.items) /\ Looking(new, new.conf)
    <3>1. loc.stage # "save"
      <4>1. ASSUME loc.stage = "save"  PROVE FALSE
        <5>1. new = Resting
          BY <1>9, <4>1 DEF After
        <5> QED  BY <2>10, <5>1, RestingType DEF Writing
      <4> QED  BY <4>1
    <3>2. acked' = acked
      BY <2>3, <3>1
    <3>3. Holds(loc.conf, acked.set, acked.items)
      BY <2>2, <2>10, <3>1 DEF Intended
    <3> QED  BY <2>1, <2>2, <2>10, <3>2, <3>3
  <2> HIDE DEF Holds
  <2>11. ~torn' => /\ Holds(Loaded(file'.conf), acked'.set, acked'.items)
                   /\ Looking(new, Loaded(file'.conf))
    BY <2>2, <2>9
  <2> QED  BY <2>1, <2>10, <2>11
<1>10. CASE new = Resting /\ file' = file /\ acked' = acked /\ torn' = torn
  <2> HIDE DEF Holds
  <2>1. ~torn /\ file.kind # "torn" => Holds(conf, acked.set, acked.items)
    BY <1>4 DEF Whole, Alone
  <2> HIDE DEF new
  <2>2. new.pc = "idle" /\ new.stage = "load"
    BY <1>10, RestingType
  <2>3. Staged(new) /\ Looking(new, conf)
    BY <2>2 DEF Staged, Looking
  <2> QED  BY <1>10, <2>1, <2>2, <2>3 DEF Writing
<1>11. CASE new = loc /\ file' = file /\ acked' = acked /\ torn' = torn
  <2> HIDE DEF Holds
  <2> QED  BY <1>4, <1>11 DEF Whole, Alone
<1>12. \/ /\ loc.pc = "idle" /\ new.pc = "read" /\ new.stage = "load"
          /\ file' = file /\ acked' = acked /\ torn' = torn
       \/ /\ loc.pc = "read" /\ new = After(loc, conf)
          /\ file' = file /\ acked' = acked /\ torn' = (torn \/ file.kind = "torn")
       \/ /\ loc.pc = "read" /\ new = [loc EXCEPT !.pc = "open", !.conf = conf]
          /\ file' = file /\ acked' = acked /\ torn' = (torn \/ file.kind = "torn")
       \/ /\ loc.pc = "open" /\ new = [loc EXCEPT !.mixed = FALSE, !.pc = "close"]
          /\ file' = Torn /\ acked' = acked /\ torn' = torn
       \/ /\ loc.pc = "close" /\ new = After(loc, loc.conf) /\ torn' = torn
          /\ file' = Full(loc.conf) \/ (loc.mixed /\ file' = Torn)
          /\ acked' = CASE loc.stage # "save" -> acked
                        [] loc.stage = "save" /\ loc.ask.op = "set" ->
                             [acked EXCEPT !.set[loc.ask.key] = loc.ask.val]
                        [] OTHER -> [acked EXCEPT !.items = loc.items]
       \/ new = Resting /\ file' = file /\ acked' = acked /\ torn' = torn
       \/ new = loc /\ file' = file /\ acked' = acked /\ torn' = torn
  BY OneNext
<1> HIDE DEF loc, new, conf, Goal
<1> QED  BY <1>5, <1>6, <1>7, <1>8, <1>9, <1>10, <1>11, <1>12

\* One request at a time, and restarts: between requests, what the next load
\* gives is what was acknowledged last. Filling in what is missing, the
\* search for the catalog of an old version, the second load of a catalog
\* operation and the whole-file save lose nothing, unless a load met a torn
\* file; only a setting that was cleared, or a catalog that was emptied, is
\* filled again from what there is to fill it.
THEOREM SetsKept ==
  ASSUME EnvWins = {}, NEW t, Threads = {t}
  PROVE  Spec => []SetsAreKept
<1>1. Init => KeptInv
  <2> SUFFICES ASSUME Init  PROVE KeptInv
    OBVIOUS
  <2>1. \A u \in Threads : thread[u] = Resting
    BY DEF Init
  <2>2. acked = [set |-> Loaded(file.conf).set, items |-> file.conf.old, archived |-> Owed(file.conf)]
    BY DEF Init
  <2>3. file.conf \in Config /\ file.conf.items = {}
    <3>1. CASE file = Absent
      BY <3>1, EmptyType DEF Absent
    <3>2. ASSUME NEW s \in [Keys -> Vals \cup {"missing"}], NEW obsolete \in BOOLEAN,
                 NEW old \in SUBSET (1 .. MaxOld),
                 file = Full([Empty EXCEPT !.set = s, !.obsolete = obsolete, !.old = old])
          PROVE  file.conf \in Config /\ file.conf.items = {}
      BY <3>2, EmptyType DEF Full, Empty, Config, Vals
    <3> QED  BY <3>1, <3>2 DEF Init
  <2>4. Kept
    <3>1. \A k \in Keys : Effective.set[k] # "empty" \/ k \notin EnvFills
      <4>1. \A k \in Keys : Value(k, file.conf.set[k]) # "empty" \/ k \notin EnvFills
        BY DEF Value, Replaces
      <4> QED  BY <2>3, <4>1, LoadedType DEF Effective
    <3>2. Effective.items = {} /\ Effective.old = file.conf.old
      BY <2>3, LoadedType DEF Effective
    <3>3. acked.set = Effective.set /\ acked.items = Effective.old
      BY <2>2, <3>2 DEF Effective
    <3> QED  BY <3>1, <3>2, <3>3 DEF Kept, Shown
  <2>5. \A u \in Threads : thread[u].pc = "idle" /\ thread[u].stage = "load"
    BY <2>1, RestingType
  <2> QED  BY <2>4, <2>5 DEF KeptInv, Staged, Alone, Writing, Looking
<1>2. TypeOK /\ KeptInv /\ [Next]_vars => KeptInv'
  BY KeptNext
<1>3. KeptInv => SetsAreKept
  BY DEF KeptInv, SetsAreKept, Quiet, Whole
<1> QED  BY <1>1, <1>2, <1>3, TypeCorrect, PTL DEF Spec

LEMMA ArchiveNext ==
  ASSUME NEW t, Threads = {t}, TypeOK, ArchiveInv, [Next]_vars
  PROVE  ArchiveInv'
<1> DEFINE loc == thread[t]
           new == thread'[t]
           conf == Loaded(file.conf)
<1>1. t \in Threads /\ \A u \in Threads : u = t
  OBVIOUS
<1>2. loc \in Local /\ loc.conf \in Config /\ file.conf \in Config /\ torn \in BOOLEAN
  BY <1>1 DEF TypeOK, Local
<1>3. conf \in Config
  BY <1>2, LoadedType
<1>4. ~torn => /\ Whole(loc) => acked.archived \subseteq conf.archived
               /\ Alone(loc)
               /\ Writing(loc) => acked.archived \subseteq loc.conf.archived
  BY <1>1 DEF ArchiveInv, Effective
<1> SUFFICES ~torn' => /\ (new.pc # "close" /\ file'.kind # "torn" =>
                             acked'.archived \subseteq Loaded(file'.conf).archived)
                       /\ (new.pc = "close" => file'.kind = "torn" /\ ~new.mixed)
                       /\ Writing(new) => acked'.archived \subseteq new.conf.archived
  BY <1>1 DEF ArchiveInv, Effective, Whole, Alone, Writing
<1>5. ASSUME NEW c \in Config, new = After(loc, c)
      PROVE  new.pc # "close" /\ (Writing(new) => new.conf.archived = c.archived)
  <2> HIDE DEF new
  <2> QED  BY <1>2, <1>5, AfterConf, RestingType DEF Writing
<1>6. CASE /\ loc.pc = "idle" /\ new.pc = "read" /\ new.stage = "load"
           /\ file' = file /\ acked' = acked /\ torn' = torn
  BY <1>4, <1>6 DEF Whole, Writing
<1>7. CASE /\ loc.pc = "read" /\ new = After(loc, conf)
           /\ file' = file /\ acked' = acked /\ torn' = (torn \/ file.kind = "torn")
  <2>1. new.pc # "close" /\ (Writing(new) => new.conf.archived = conf.archived)
    BY <1>3, <1>5, <1>7
  <2>2. ASSUME ~torn'
        PROVE  acked.archived \subseteq conf.archived
    BY <1>2, <1>4, <1>7, <2>2 DEF Whole
  <2> QED  BY <1>7, <2>1, <2>2
<1>8. CASE /\ loc.pc = "read" /\ new = [loc EXCEPT !.pc = "open", !.conf = conf]
           /\ file' = file /\ acked' = acked /\ torn' = (torn \/ file.kind = "torn")
  <2>1. ASSUME ~torn'
        PROVE  acked.archived \subseteq conf.archived
    BY <1>2, <1>4, <1>8, <2>1 DEF Whole
  <2> HIDE DEF loc, new
  <2>2. new.pc = "open" /\ new.conf = conf
    BY <1>2, <1>8 DEF Local
  <2> QED  BY <1>8, <2>1, <2>2
<1>9. CASE /\ loc.pc = "open" /\ new = [loc EXCEPT !.mixed = FALSE, !.pc = "close"]
           /\ file' = Torn /\ acked' = acked /\ torn' = torn
  <2> HIDE DEF loc, new, conf
  <2>1. new.pc = "close" /\ new.mixed = FALSE /\ new.conf = loc.conf /\ file'.kind = "torn"
    BY <1>2, <1>9 DEF Local, Torn
  <2>2. Writing(loc)
    BY <1>9 DEF Writing
  <2> QED  BY <1>4, <1>9, <2>1, <2>2
<1>10. CASE /\ loc.pc = "close" /\ new = After(loc, loc.conf) /\ torn' = torn
            /\ file' = Full(loc.conf) \/ (loc.mixed /\ file' = Torn)
            /\ acked' = CASE loc.stage # "save" -> acked
                          [] loc.stage = "save" /\ loc.ask.op = "set" ->
                               [acked EXCEPT !.set[loc.ask.key] = loc.ask.val]
                          [] OTHER -> [acked EXCEPT !.items = loc.items]
  <2>1. new.pc # "close" /\ (Writing(new) => new.conf.archived = loc.conf.archived)
    BY <1>2, <1>5, <1>10
  <2>2. acked'.archived = acked.archived
    <3>1. acked \in [set : [Keys -> Vals], items : SUBSET Items,
                     archived : SUBSET {"config", "state"}]
      BY DEF TypeOK
    <3>2. \/ acked' = acked
          \/ acked' = [acked EXCEPT !.set[loc.ask.key] = loc.ask.val]
          \/ acked' = [acked EXCEPT !.items = loc.items]
      BY <1>10
    <3> QED  BY <3>1, <3>2
  <2>3. ASSUME ~torn'
        PROVE  file' = Full(loc.conf) /\ acked.archived \subseteq loc.conf.archived
    BY <1>4, <1>10, <2>3 DEF Alone, Writing
  <2>4. Loaded(loc.conf).archived = Moved(loc.conf) /\ loc.conf.archived \subseteq Moved(loc.conf)
    BY <1>2, LoadedType DEF Moved
  <2>5. ASSUME ~torn'
        PROVE  acked'.archived \subseteq Loaded(file'.conf).archived
    <3>1. file'.conf = loc.conf
      BY <2>3, <2>5 DEF Full
    <3> QED  BY <2>2, <2>3, <2>4, <2>5, <3>1
  <2> QED  BY <2>1, <2>2, <2>3, <2>5
<1>11. CASE new = Resting /\ file' = file /\ acked' = acked /\ torn' = torn
  <2>1. ~torn /\ file.kind # "torn" => acked.archived \subseteq conf.archived
    BY <1>4 DEF Whole, Alone
  <2> HIDE DEF new
  <2>2. new.pc = "idle"
    BY <1>11, RestingType
  <2> QED  BY <1>11, <2>1, <2>2 DEF Writing
<1>12. CASE new = loc /\ file' = file /\ acked' = acked /\ torn' = torn
  BY <1>4, <1>12 DEF Whole, Alone
<1>13. \/ /\ loc.pc = "idle" /\ new.pc = "read" /\ new.stage = "load"
          /\ file' = file /\ acked' = acked /\ torn' = torn
       \/ /\ loc.pc = "read" /\ new = After(loc, conf)
          /\ file' = file /\ acked' = acked /\ torn' = (torn \/ file.kind = "torn")
       \/ /\ loc.pc = "read" /\ new = [loc EXCEPT !.pc = "open", !.conf = conf]
          /\ file' = file /\ acked' = acked /\ torn' = (torn \/ file.kind = "torn")
       \/ /\ loc.pc = "open" /\ new = [loc EXCEPT !.mixed = FALSE, !.pc = "close"]
          /\ file' = Torn /\ acked' = acked /\ torn' = torn
       \/ /\ loc.pc = "close" /\ new = After(loc, loc.conf) /\ torn' = torn
          /\ file' = Full(loc.conf) \/ (loc.mixed /\ file' = Torn)
          /\ acked' = CASE loc.stage # "save" -> acked
                        [] loc.stage = "save" /\ loc.ask.op = "set" ->
                             [acked EXCEPT !.set[loc.ask.key] = loc.ask.val]
                        [] OTHER -> [acked EXCEPT !.items = loc.items]
       \/ new = Resting /\ file' = file /\ acked' = acked /\ torn' = torn
       \/ new = loc /\ file' = file /\ acked' = acked /\ torn' = torn
  BY OneNext
<1> HIDE DEF loc, new, conf
<1> QED  BY <1>6, <1>7, <1>8, <1>9, <1>10, <1>11, <1>12, <1>13

\* One request at a time, and restarts: what the first load moved to the
\* legacy section stays there, whatever the environment replaces.
THEOREM ArchiveStays ==
  ASSUME NEW t, Threads = {t}
  PROVE  Spec => []ArchiveKept
<1>1. Init => ArchiveInv
  <2> SUFFICES ASSUME Init  PROVE ArchiveInv
    OBVIOUS
  <2>1. \A u \in Threads : thread[u] = Resting
    BY DEF Init
  <2>2. acked.archived = Owed(file.conf)
    BY DEF Init
  <2>3. file.conf \in Config
    BY InitTyped DEF Typed, TypeOK
  <2>4. Owed(file.conf) \subseteq Moved(file.conf)
    <3>1. file.conf.obsolete \in BOOLEAN /\ LegacyFile \in BOOLEAN
      BY <2>3, EnvAssumption DEF Config
    <3>2. ("config" \in Owed(file.conf) => file.conf.obsolete)
            /\ ("state" \in Owed(file.conf) => LegacyFile)
      BY <3>1 DEF Owed
    <3>3. (file.conf.obsolete => "config" \in Moved(file.conf))
            /\ (LegacyFile => "state" \in Moved(file.conf))
      BY <3>1 DEF Moved
    <3>4. Owed(file.conf) \subseteq {"config", "state"}
      BY DEF Owed
    <3> QED  BY <3>2, <3>3, <3>4
  <2>5. acked.archived \subseteq Effective.archived
    BY <2>2, <2>3, <2>4, LoadedType DEF Effective
  <2> QED  BY <2>1, <2>5, RestingType DEF ArchiveInv, Alone, Writing
<1>2. TypeOK /\ ArchiveInv /\ [Next]_vars => ArchiveInv'
  BY ArchiveNext
<1>3. ArchiveInv => ArchiveKept
  BY DEF ArchiveInv, ArchiveKept, Quiet, Whole
<1> QED  BY <1>1, <1>2, <1>3, TypeCorrect, PTL DEF Spec
=============================================================================
