------------------------- MODULE IdeaPipelineProofs -------------------------
(***************************************************************************)
(* No idea is lost and none changes hands, for any number of users,        *)
(* conversions that overlap, and crashes.                                  *)
(***************************************************************************)
EXTENDS IdeaPipeline, SqliteStoreProofs

Assumptions == MaxRow \in Nat

-----------------------------------------------------------------------------
(* The inductive invariant *)

\* What ideas become.
Derived == Kinds \ {"idea"}

\* Ideas with their owners, and what stems from them.
RowInv ==
  /\ items = [k \in Kinds |-> items[k]]
  /\ \A k \in Kinds : Shaped(items[k])
  /\ owner = [i \in IdeaId |-> owner[i]]
  /\ items["idea"].last <= MaxRow
  /\ \A i \in Ids(items["idea"]) : items["idea"].rows[i].owner = owner[i]
  /\ \A k \in Derived : \A id \in Ids(items[k]) :
       /\ items[k].rows[id].idea \in 1 .. items["idea"].last
       /\ items[k].rows[id].owner = owner[items[k].rows[id].idea]

\* A user removed the idea or what became of it, or there is something of
\* these kinds that was made of it.
LivesOn(i, kinds) ==
  i \in discarded \/ \E k \in kinds : \E id \in Ids(items[k]) : items[k].rows[id].idea = i

\* The idea that a conversion is about.
IdeaOf(here) == IF here.kind = "idea" THEN here.id ELSE here.item.idea

\* What must be there before the source is deleted.
Heirs(kind) == IF kind = "idea" THEN Derived ELSE {"project"}

Fields == {"pc", "kind", "id", "todo", "item", "to", "made", "user", "found"}

Todos == {<<"create", "drop">>, <<"create", "root", "drop">>, <<"root", "drop">>, <<"drop">>}

\* What a conversion read is still true of the row, if the row is still there;
\* and what it has made, or something made later, is there until it is removed.
JobInv(h) ==
  LET here == job[h]
  IN  /\ here.pc # "idle" => DOMAIN here = Fields
      /\ here.pc = "remove" => here.kind \in Kinds
      /\ here.pc = "convert" =>
           /\ here.kind \in {"idea", "task"} /\ here.to \in Derived
           /\ here.kind = "task" => here.to = "project"
           /\ here.todo \in Todos
           /\ here.todo \in {<<"create", "root", "drop">>, <<"root", "drop">>} => here.to = "project"
           /\ IdeaOf(here) \in 1 .. items["idea"].last
           /\ here.item.owner = owner[IdeaOf(here)]
           /\ here.kind = "task" =>
                /\ here.id \in 1 .. items["task"].last
                /\ here.id \in Ids(items["task"]) =>
                     items["task"].rows[here.id].idea = IdeaOf(here)
           /\ Head(here.todo) # "create" => LivesOn(IdeaOf(here), Heirs(here.kind))
           /\ Head(here.todo) = "root" =>
                /\ here.made \in 1 .. items["project"].last
                /\ here.made \in Ids(items["project"]) =>
                     items["project"].rows[here.made].idea = IdeaOf(here)

Jobs == job = [h \in Handlers |-> job[h]] /\ \A h \in Handlers : JobInv(h)

IInv == RowInv /\ Jobs /\ IdeasAreNotLost

-----------------------------------------------------------------------------
(* What the steps have in common *)

\* No id is handed out twice, and no row gets another origin or owner.
Persist ==
  /\ items' = [k \in Kinds |-> items'[k]] /\ owner' = [i \in IdeaId |-> owner'[i]]
  /\ \A k \in Kinds : Shaped(items'[k]) /\ items[k].last <= items'[k].last
  /\ items'["idea"].last <= MaxRow
  /\ \A k \in Kinds : \A id \in Ids(items'[k]) : id <= items[k].last =>
       /\ id \in Ids(items[k])
       /\ items'[k].rows[id].idea = items[k].rows[id].idea
       /\ items'[k].rows[id].owner = items[k].rows[id].owner
  /\ \A i \in 1 .. items["idea"].last : owner'[i] = owner[i]
  /\ discarded \subseteq discarded'

LivesOnKept ==
  \A i, kinds : kinds \in {Derived, {"project"}} /\ LivesOn(i, kinds) => LivesOn(i, kinds)'

\* The rows that are new are right, and so are all.
LEMMA RowsKept ==
  ASSUME RowInv, Persist,
         \A i \in Ids(items'["idea"]) : i > items["idea"].last =>
           items'["idea"].rows[i].owner = owner'[i],
         \A k \in Derived : \A id \in Ids(items'[k]) : id > items[k].last =>
           /\ items'[k].rows[id].idea \in 1 .. items["idea"].last
           /\ items'[k].rows[id].owner = owner[items'[k].rows[id].idea]
  PROVE  RowInv'
<1>1. /\ \A k \in Kinds : items[k].last \in Nat /\ items'[k].last \in Nat
      /\ \A k \in Kinds : items[k].last <= items'[k].last
      /\ "idea" \in Kinds /\ Derived \subseteq Kinds
  BY DEF RowInv, Persist, Shaped, Kinds, Derived
<1>2. \A k \in Kinds : \A id \in Ids(items'[k]) : id \in Nat
  BY DEF Persist, Shaped
<1>3. ASSUME NEW i \in Ids(items'["idea"]) PROVE items'["idea"].rows[i].owner = owner'[i]
  <2>1. CASE i <= items["idea"].last
    <3>1. i \in Ids(items["idea"]) /\ i \in 1 .. items["idea"].last
      BY <1>1, <2>1 DEF Persist, RowInv, Shaped
    <3> QED  BY <1>1, <2>1, <3>1 DEF Persist, RowInv
  <2>2. CASE i > items["idea"].last
    BY <2>2
  <2> QED  BY <1>1, <1>2, <2>1, <2>2
<1>4. ASSUME NEW k \in Derived, NEW id \in Ids(items'[k])
      PROVE  /\ items'[k].rows[id].idea \in 1 .. items'["idea"].last
             /\ items'[k].rows[id].owner = owner'[items'[k].rows[id].idea]
  <2>1. /\ items'[k].rows[id].idea \in 1 .. items["idea"].last
        /\ items'[k].rows[id].owner = owner[items'[k].rows[id].idea]
    <3>1. CASE id <= items[k].last
      <4>1. /\ id \in Ids(items[k])
            /\ items'[k].rows[id].idea = items[k].rows[id].idea
            /\ items'[k].rows[id].owner = items[k].rows[id].owner
        BY <1>1, <3>1 DEF Persist
      <4>2. /\ items[k].rows[id].idea \in 1 .. items["idea"].last
            /\ items[k].rows[id].owner = owner[items[k].rows[id].idea]
        BY <4>1 DEF RowInv
      <4> QED  BY <4>1, <4>2
    <3>2. CASE id > items[k].last
      BY <3>2
    <3> QED  BY <1>1, <1>2, <3>1, <3>2
  <2> QED  BY <1>1, <2>1 DEF Persist
<1>5. /\ items' = [k \in Kinds |-> items'[k]] /\ owner' = [i \in IdeaId |-> owner'[i]]
      /\ \A k \in Kinds : Shaped(items'[k])
      /\ items'["idea"].last <= MaxRow
  BY DEF Persist
<1> QED  BY <1>3, <1>4, <1>5 DEF RowInv, Shaped, Ids

\* One row at most goes, and only where its idea lives on without it.
LEMMA NoneLost ==
  ASSUME RowInv, IdeasAreNotLost, Persist, NEW gone \in Kinds, NEW row,
         \A k \in Kinds : \A id \in Ids(items[k]) : k # gone \/ id # row => id \in Ids(items'[k]),
         gone = "idea" /\ row \in Ids(items["idea"]) =>
           row \in Ids(items'["idea"]) \/ LivesOn(row, Derived)',
         gone \in Derived /\ row \in Ids(items[gone]) =>
           \/ row \in Ids(items'[gone])
           \/ items[gone].rows[row].idea \in discarded'
           \/ gone = "task" /\ \A j : j = items["task"].rows[row].idea => LivesOn(j, {"project"})',
         \A i \in 1 .. items'["idea"].last : i > items["idea"].last => i \in Ids(items'["idea"])
  PROVE  LivesOnKept /\ IdeasAreNotLost'
<1>1. \A k \in Kinds : \A id \in Ids(items[k]) : id <= items[k].last
  BY DEF RowInv, Shaped
<1>2. \A k \in Kinds : \A id \in Ids(items[k]) : id \in Ids(items'[k]) =>
        items'[k].rows[id].idea = items[k].rows[id].idea
  BY <1>1 DEF Persist
<1>3. "project" \in Derived /\ "task" \notin {"project"} /\ Derived \subseteq Kinds
  BY DEF Derived, Kinds
<1>4. ASSUME NEW i, NEW kinds \in {Derived, {"project"}}, LivesOn(i, kinds)
      PROVE  LivesOn(i, kinds)'
  <2>1. CASE i \in discarded
    BY <2>1 DEF LivesOn, Persist
  <2>2. CASE i \notin discarded
    <3>1. PICK k \in kinds : \E id \in Ids(items[k]) : items[k].rows[id].idea = i
      BY <1>4, <2>2 DEF LivesOn
    <3>2. PICK id \in Ids(items[k]) : items[k].rows[id].idea = i
      BY <3>1
    <3>3. k \in Kinds /\ k \in Derived
      BY <1>3
    <3>4. CASE id \in Ids(items'[k])
      <4>1. items'[k].rows[id].idea = i
        BY <1>2, <3>2, <3>3, <3>4
      <4> QED  BY <3>4, <4>1 DEF LivesOn
    <3>5. CASE id \notin Ids(items'[k])
      <4>1. k = gone /\ id = row
        BY <3>3, <3>5
      <4>2. CASE i \in discarded'
        BY <4>2 DEF LivesOn
      <4>3. CASE k = "task" /\ LivesOn(i, {"project"})'
        <5>1. kinds = Derived
          BY <1>3, <4>3
        <5> QED  BY <1>3, <4>3, <5>1 DEF LivesOn
      <4>4. gone \in Derived /\ row \in Ids(items[gone]) /\ row \notin Ids(items'[gone])
        BY <3>2, <3>3, <3>5, <4>1
      <4>5. \/ items[gone].rows[row].idea \in discarded'
            \/ gone = "task" /\ \A j : j = items["task"].rows[row].idea => LivesOn(j, {"project"})'
        BY <4>4
      <4>6. items[gone].rows[row].idea = i
        BY <3>2, <4>1
      <4> QED  BY <4>1, <4>2, <4>3, <4>5, <4>6
    <3> QED  BY <3>4, <3>5
  <2> QED  BY <2>1, <2>2
<1>5. LivesOnKept
  BY <1>4 DEF LivesOnKept
<1>6. ASSUME NEW i \in 1 .. items'["idea"].last
      PROVE  i \in Ids(items'["idea"]) \/ LivesOn(i, Derived)'
  <2>1. items["idea"].last \in Nat /\ items'["idea"].last \in Nat /\ "idea" \in Kinds
    BY DEF RowInv, Persist, Shaped, Kinds
  <2>2. CASE i > items["idea"].last
    BY <2>2
  <2>3. CASE i <= items["idea"].last
    <3>1. i \in Ids(items["idea"]) \/ LivesOn(i, Derived)
      BY <2>1, <2>3 DEF IdeasAreNotLost, LivesOn, Derived
    <3>2. CASE LivesOn(i, Derived)
      BY <1>4, <3>2
    <3>3. CASE i \in Ids(items["idea"])
      <4>1. CASE gone = "idea" /\ i = row
        BY <3>3, <4>1
      <4>2. CASE ~(gone = "idea" /\ i = row)
        BY <2>1, <3>3, <4>2
      <4> QED  BY <4>1, <4>2
    <3> QED  BY <3>1, <3>2, <3>3
  <2> QED  BY <2>1, <2>2, <2>3
<1> QED  BY <1>5, <1>6 DEF IdeasAreNotLost, LivesOn, Derived, Ids

\* A conversion that is not at work is as right as before.
LEMMA JobKept ==
  ASSUME RowInv, Persist, LivesOnKept, NEW h \in Handlers, JobInv(h), job'[h] = job[h]
  PROVE  JobInv(h)'
<1> DEFINE here == job[h]
           i == IdeaOf(here)
<1>0. /\ \A k \in Kinds : items[k].last \in Nat /\ items'[k].last \in Nat
      /\ {"idea", "task", "project"} \subseteq Kinds
  BY DEF RowInv, Persist, Shaped, Kinds
<1>1. here.pc = "convert" => i \in 1 .. items'["idea"].last /\ here.item.owner = owner'[i]
  BY <1>0 DEF JobInv, Persist
<1>2. here.pc = "convert" /\ Head(here.todo) # "create" => LivesOn(i, Heirs(here.kind))'
  BY DEF JobInv, LivesOnKept, Heirs
<1>3. here.pc = "convert" /\ here.kind = "task" =>
        /\ here.id \in 1 .. items'["task"].last
        /\ here.id \in Ids(items'["task"]) => items'["task"].rows[here.id].idea = i
  BY <1>0 DEF JobInv, Persist
<1>4. here.pc = "convert" /\ Head(here.todo) = "root" =>
        /\ here.made \in 1 .. items'["project"].last
        /\ here.made \in Ids(items'["project"]) => items'["project"].rows[here.made].idea = i
  BY <1>0 DEF JobInv, Persist
<1>5. IdeaOf(job[h])' = i
  BY DEF IdeaOf
<1>6. Ids(items["task"])' = Ids(items'["task"]) /\ Ids(items["project"])' = Ids(items'["project"])
  BY DEF Ids
<1>7. /\ here.pc # "idle" => DOMAIN here = Fields
      /\ here.pc = "remove" => here.kind \in Kinds
      /\ here.pc = "convert" =>
           /\ here.kind \in {"idea", "task"} /\ here.to \in Derived
           /\ here.kind = "task" => here.to = "project"
           /\ here.todo \in Todos
           /\ here.todo \in {<<"create", "root", "drop">>, <<"root", "drop">>} => here.to = "project"
  BY DEF JobInv
<1>8. JobInv(h)' <=>
        /\ here.pc # "idle" => DOMAIN here = Fields
        /\ here.pc = "remove" => here.kind \in Kinds
        /\ here.pc = "convert" =>
             /\ here.kind \in {"idea", "task"} /\ here.to \in Derived
             /\ here.kind = "task" => here.to = "project"
             /\ here.todo \in Todos
             /\ here.todo \in {<<"create", "root", "drop">>, <<"root", "drop">>} => here.to = "project"
             /\ i \in 1 .. items'["idea"].last
             /\ here.item.owner = owner'[i]
             /\ here.kind = "task" =>
                  /\ here.id \in 1 .. items'["task"].last
                  /\ here.id \in Ids(items'["task"]) => items'["task"].rows[here.id].idea = i
             /\ Head(here.todo) # "create" => LivesOn(i, Heirs(here.kind))'
             /\ Head(here.todo) = "root" =>
                  /\ here.made \in 1 .. items'["project"].last
                  /\ here.made \in Ids(items'["project"]) => items'["project"].rows[here.made].idea = i
  BY DEF JobInv, LivesOn, Ids, IdeaOf, Heirs
<1> HIDE DEF i, here
<1> QED  BY <1>1, <1>2, <1>3, <1>4, <1>7, <1>8

\* A step of one thread.
LEMMA OneJob ==
  ASSUME RowInv, Jobs, Persist, LivesOnKept, NEW h \in Handlers, NEW local,
         Go(h, local), JobInv(h)'
  PROVE  Jobs'
<1>1. job' = [g \in Handlers |-> job'[g]] /\ \A g \in Handlers \ {h} : job'[g] = job[g]
  BY DEF Go, Jobs
<1>2. ASSUME NEW g \in Handlers PROVE JobInv(g)'
  <2>1. CASE g = h
    BY <2>1
  <2>2. CASE g # h
    BY <1>1, <2>2, JobKept DEF Jobs
  <2> QED  BY <2>1, <2>2
<1> QED  BY <1>1, <1>2 DEF Jobs

\* A thread that makes no step.
LEMMA NoJob ==
  ASSUME RowInv, Jobs, Persist, LivesOnKept, UNCHANGED job
  PROVE  Jobs'
<1>1. ASSUME NEW h \in Handlers PROVE JobInv(h)'
  BY JobKept DEF Jobs
<1> QED  BY <1>1 DEF Jobs

\* A step that leaves the tables alone.
LEMMA Quiet ==
  ASSUME RowInv, IdeasAreNotLost, UNCHANGED <<items, owner, discarded>>
  PROVE  Persist /\ LivesOnKept /\ RowInv' /\ IdeasAreNotLost'
<1>1. RowInv'
  BY DEF RowInv, Shaped, Ids
<1>2. IdeasAreNotLost'
  BY DEF IdeasAreNotLost, Ids
<1>3. LivesOnKept
  BY DEF LivesOnKept, LivesOn, Ids
<1>4. \A k \in Kinds : items[k].last \in Nat
  BY DEF RowInv, Shaped
<1>5. Persist
  BY <1>4 DEF Persist, RowInv
<1> QED  BY <1>1, <1>2, <1>3, <1>5

\* A step that gives one kind another table.
LEMMA OneTable ==
  ASSUME RowInv, NEW kind \in Kinds, NEW table, items' = [items EXCEPT ![kind] = table]
  PROVE  /\ items' = [k \in Kinds |-> items'[k]]
         /\ items'[kind] = table
         /\ \A k \in Kinds \ {kind} : items'[k] = items[k]
BY DEF RowInv

\* The steps a conversion has left.
LEMMA StepsLeft ==
  /\ Head(<<"create", "drop">>) = "create" /\ Tail(<<"create", "drop">>) = <<"drop">>
  /\ Len(<<"create", "drop">>) = 2
  /\ Head(<<"create", "root", "drop">>) = "create"
  /\ Tail(<<"create", "root", "drop">>) = <<"root", "drop">>
  /\ Len(<<"create", "root", "drop">>) = 3
  /\ Head(<<"root", "drop">>) = "root" /\ Tail(<<"root", "drop">>) = <<"drop">>
  /\ Len(<<"root", "drop">>) = 2
  /\ Head(<<"drop">>) = "drop" /\ Len(<<"drop">>) = 1
  /\ <<"drop">> # <<"root", "drop">>
  /\ <<"drop">> # <<"create", "root", "drop">>
OBVIOUS

\* A deletion, or a change of a row that keeps its origin.
LEMMA Dropped ==
  ASSUME RowInv, UNCHANGED owner, discarded \subseteq discarded', NEW kind \in Kinds,
         items' = [k \in Kinds |-> items'[k]],
         \A k \in Kinds \ {kind} : items'[k] = items[k],
         Shaped(items'[kind]), items'[kind].last = items[kind].last,
         \A id \in Ids(items'[kind]) :
           /\ id \in Ids(items[kind])
           /\ items'[kind].rows[id].idea = items[kind].rows[id].idea
           /\ items'[kind].rows[id].owner = items[kind].rows[id].owner
  PROVE  Persist /\ \A k \in Kinds : items'[k].last = items[k].last
<1>1. \A k \in Kinds : items'[k].last = items[k].last /\ Shaped(items'[k])
  BY DEF RowInv
<1>2. \A k \in Kinds : items[k].last \in Nat
  BY DEF RowInv, Shaped
<1>3. \A k \in Kinds : \A id \in Ids(items'[k]) :
        /\ id \in Ids(items[k])
        /\ items'[k].rows[id].idea = items[k].rows[id].idea
        /\ items'[k].rows[id].owner = items[k].rows[id].owner
  OBVIOUS
<1>4. "idea" \in Kinds /\ items["idea"].last <= MaxRow /\ owner = [i \in IdeaId |-> owner[i]]
  BY DEF RowInv, Kinds
<1> QED  BY <1>1, <1>2, <1>3, <1>4 DEF Persist

\* Where no row is new, all rows are right.
LEMMA NoRows ==
  ASSUME RowInv, Persist, \A k \in Kinds : items'[k].last = items[k].last
  PROVE  RowInv'
<1>1. \A k \in Kinds : \A id \in Ids(items'[k]) : ~(id > items[k].last)
  BY DEF Persist, Shaped
<1>2. "idea" \in Kinds /\ Derived \subseteq Kinds
  BY DEF Kinds, Derived
<1> QED  BY <1>1, <1>2, RowsKept

-----------------------------------------------------------------------------
(* The steps *)

LEMMA InitInv == ASSUME Assumptions, Init PROVE IInv
<1>1. /\ items = [k \in Kinds |-> EmptyTable] /\ owner = [i \in IdeaId |-> Nothing]
      /\ job = [h \in Handlers |-> [pc |-> "idle"]]
  BY DEF Init, Idle
<1>2. "idea" \in Kinds /\ Derived \subseteq Kinds
  BY DEF Kinds, Derived
<1>3. \A k \in Kinds : Shaped(items[k]) /\ Ids(items[k]) = {} /\ items[k].last = 0
  BY <1>1, EmptyShaped
<1>4. RowInv
  BY <1>1, <1>2, <1>3 DEF RowInv, Assumptions
<1>5. \A h \in Handlers : job[h].pc = "idle"
  BY <1>1
<1>6. Jobs
  BY <1>1, <1>5 DEF Jobs, JobInv
<1>7. IdeasAreNotLost
  BY <1>2, <1>3 DEF IdeasAreNotLost
<1> QED  BY <1>4, <1>6, <1>7 DEF IInv

LEMMA CaptureInv == ASSUME Assumptions, IInv, NEW u \in Users, Capture(u) PROVE IInv'
<1> DEFINE old == items["idea"]
           new == Insert(old, NewItem(u, 0))
<1>1. /\ items' = [items EXCEPT !["idea"] = new] /\ old.last < MaxRow
      /\ owner' = [owner EXCEPT ![old.last + 1] = u] /\ UNCHANGED <<job, discarded>>
  BY DEF Capture
<1>2. "idea" \in Kinds /\ "idea" \notin Derived /\ Derived \subseteq Kinds
  BY DEF Kinds, Derived
<1>3. RowInv /\ Jobs /\ IdeasAreNotLost /\ MaxRow \in Nat
  BY DEF IInv, Assumptions
<1>4. /\ items' = [k \in Kinds |-> items'[k]] /\ items'["idea"] = new
      /\ \A k \in Kinds \ {"idea"} : items'[k] = items[k]
  <2> HIDE DEF new
  <2> QED  BY <1>1, <1>2, <1>3, OneTable
<1>5. Shaped(old) /\ \A k \in Kinds : Shaped(items[k])
  BY <1>2, <1>3 DEF RowInv
<1>6. /\ Shaped(new) /\ new.last = old.last + 1 /\ Ids(new) = Ids(old) \cup {old.last + 1}
      /\ new.rows[old.last + 1] = NewItem(u, 0)
      /\ \A id \in Ids(old) : new.rows[id] = old.rows[id]
  BY <1>5, Inserted
<1>7. \A k \in Kinds : items[k].last \in Nat /\ \A id \in Ids(items[k]) : id \in 1 .. items[k].last
  BY <1>5 DEF Shaped
<1>8. /\ owner = [i \in IdeaId |-> owner[i]] /\ old.last + 1 \in IdeaId
      /\ \A i \in 1 .. old.last : i \in IdeaId /\ i # old.last + 1
  BY <1>1, <1>2, <1>3, <1>7 DEF RowInv, IdeaId
<1>9. /\ owner' = [i \in IdeaId |-> owner'[i]] /\ owner'[old.last + 1] = u
      /\ \A i \in 1 .. old.last : owner'[i] = owner[i]
  BY <1>1, <1>8
<1> HIDE DEF new
<1>10. Persist
  <2>1. \A k \in Kinds : Shaped(items'[k]) /\ items[k].last <= items'[k].last
    BY <1>4, <1>5, <1>6, <1>7
  <2>2. items'["idea"].last <= MaxRow
    BY <1>1, <1>2, <1>3, <1>4, <1>6, <1>7
  <2>3. ASSUME NEW k \in Kinds, NEW id \in Ids(items'[k]), id <= items[k].last
        PROVE  /\ id \in Ids(items[k])
               /\ items'[k].rows[id].idea = items[k].rows[id].idea
               /\ items'[k].rows[id].owner = items[k].rows[id].owner
    BY <1>2, <1>4, <1>6, <1>7, <2>3
  <2> QED  BY <1>1, <1>4, <1>9, <2>1, <2>2, <2>3 DEF Persist
<1>11. RowInv'
  <2>1. ASSUME NEW i \in Ids(items'["idea"]), i > items["idea"].last
        PROVE  items'["idea"].rows[i].owner = owner'[i]
    BY <1>2, <1>4, <1>6, <1>7, <1>9, <2>1 DEF NewItem
  <2>2. ASSUME NEW k \in Derived, NEW id \in Ids(items'[k]), id > items[k].last PROVE FALSE
    BY <1>2, <1>4, <1>7, <2>2
  <2> QED  BY <1>3, <1>10, <2>1, <2>2, RowsKept
<1>12. LivesOnKept /\ IdeasAreNotLost'
  <2>1. \A k \in Kinds : \A id \in Ids(items[k]) : id \in Ids(items'[k])
    BY <1>4, <1>6
  <2>2. \A i \in 1 .. items'["idea"].last : i > items["idea"].last => i \in Ids(items'["idea"])
    BY <1>2, <1>4, <1>6, <1>7
  <2> QED  BY <1>2, <1>3, <1>10, <2>1, <2>2, NoneLost
<1>13. Jobs'
  BY <1>1, <1>3, <1>10, <1>12, NoJob
<1> QED  BY <1>11, <1>12, <1>13 DEF IInv

\* A step that leaves tables alone and takes a thread to a right place.
LEMMA QuietInv ==
  ASSUME IInv, UNCHANGED <<items, owner, discarded>>,
         NEW h \in Handlers, NEW local, Go(h, local), JobInv(h)'
  PROVE  IInv'
<1>1. RowInv /\ Jobs /\ IdeasAreNotLost
  BY DEF IInv
<1>2. Persist /\ LivesOnKept /\ RowInv' /\ IdeasAreNotLost'
  BY <1>1, Quiet
<1>3. Jobs'
  BY <1>1, <1>2, OneJob
<1> QED  BY <1>2, <1>3 DEF IInv

\* Where a thread goes.
LEMMA Went ==
  ASSUME Jobs, NEW h \in Handlers, NEW local, Go(h, local)
  PROVE  job'[h] = local
BY DEF Jobs, Go

LEMMA RemoveInv ==
  ASSUME IInv, NEW h \in Handlers, NEW u \in Users, NEW kind \in Kinds, NEW id \in IdeaId,
         Remove(h, u, kind, id)
  PROVE  IInv'
<1> DEFINE local == At("remove", kind, id, <<>>)
<1>1. Go(h, local) /\ UNCHANGED <<items, owner, discarded>>
  BY DEF Remove, Ask
<1>2. job'[h] = local
  BY <1>1, Went DEF IInv
<1>3. JobInv(h)'
  BY <1>2 DEF JobInv, At, Fields
<1> HIDE DEF local
<1> QED  BY <1>1, <1>3, QuietInv

LEMMA AdviseInv ==
  ASSUME IInv, NEW h \in Handlers, NEW u \in Users, Advise(h, u) PROVE IInv'
<1> DEFINE local == [At("advise", "idea", 0, Reading) EXCEPT !.user = u]
<1>1. Go(h, local) /\ UNCHANGED <<items, owner, discarded>>
  BY DEF Advise, Ask
<1>2. job'[h] = local
  BY <1>1, Went DEF IInv
<1>3. JobInv(h)'
  BY <1>2 DEF JobInv, At, Fields
<1> HIDE DEF local
<1> QED  BY <1>1, <1>3, QuietInv

LEMMA ReadKindInv == ASSUME IInv, NEW h \in Handlers, ReadKind(h) PROVE IInv'
<1> DEFINE more == IF Due(Head(job[h].todo), job[h].user) # {} THEN <<Head(job[h].todo)>> ELSE <<>>
           local == [job[h] EXCEPT !.todo = Tail(@), !.found = @ \o more]
<1>1. Go(h, local) /\ UNCHANGED <<items, owner, discarded>> /\ job[h].pc = "advise"
  BY DEF ReadKind
<1>2. job'[h] = local
  BY <1>1, Went DEF IInv
<1>3. DOMAIN job[h] = Fields
  BY <1>1 DEF IInv, Jobs, JobInv
<1>4. DOMAIN local = Fields /\ local.pc = "advise"
  <2> HIDE DEF more
  <2> QED  BY <1>1, <1>3 DEF Fields
<1> HIDE DEF local
<1>5. JobInv(h)'
  BY <1>2, <1>4 DEF JobInv
<1> QED  BY <1>1, <1>5, QuietInv

LEMMA AnswerFocusInv == ASSUME IInv, NEW h \in Handlers, AnswerFocus(h) PROVE IInv'
<1>1. Go(h, Idle) /\ UNCHANGED <<items, owner, discarded>>
  BY DEF AnswerFocus
<1>2. job'[h] = Idle
  BY <1>1, Went DEF IInv
<1>3. JobInv(h)'
  BY <1>2 DEF JobInv, Idle
<1> QED  BY <1>1, <1>3, QuietInv

LEMMA CrashInv == ASSUME IInv, Crash PROVE IInv'
<1>1. job' = [h \in Handlers |-> [pc |-> "idle"]] /\ UNCHANGED <<items, owner, discarded>>
  BY DEF Crash, Idle
<1>2. \A h \in Handlers : job'[h].pc = "idle"
  BY <1>1
<1>3. Jobs'
  BY <1>1, <1>2 DEF Jobs, JobInv
<1> QED  BY <1>1, <1>3, Quiet DEF IInv

\* Nothing is made yet, and what is to be made is true of the row as it was read.
LEMMA ConvertInv ==
  ASSUME IInv, NEW h \in Handlers, NEW kind \in Kinds, NEW id \in IdeaId, NEW to \in Kinds,
         Convert(h, kind, id, to)
  PROVE  IInv'
<1> DEFINE row == items[kind].rows[id]
           local == [At("convert", kind, id, StepsTo(to)) EXCEPT !.to = to, !.item = row]
<1>1. /\ Go(h, local) /\ UNCHANGED <<items, owner, discarded>>
      /\ id \in Ids(items[kind]) /\ Convertible(kind, to)
  BY DEF Convert, Ask
<1>2. job'[h] = local
  BY <1>1, Went DEF IInv
<1>3. /\ kind \in {"idea", "task"} /\ to \in Derived /\ (kind = "task" => to = "project")
      /\ {"idea", "task"} \subseteq Kinds /\ "task" \in Derived
  BY <1>1 DEF Convertible, Derived, Kinds
<1>4. id \in 1 .. items[kind].last
  BY <1>1 DEF IInv, RowInv, Shaped
<1>5. kind = "idea" => row.owner = owner[id]
  BY <1>1 DEF IInv, RowInv
<1>6. kind = "task" => row.idea \in 1 .. items["idea"].last /\ row.owner = owner[row.idea]
  BY <1>1, <1>3 DEF IInv, RowInv
<1>7. StepsTo(to) = IF to = "project" THEN <<"create", "root", "drop">> ELSE <<"create", "drop">>
  BY DEF StepsTo
<1>8. /\ StepsTo(to) \in Todos /\ Head(StepsTo(to)) = "create"
      /\ StepsTo(to) \in {<<"create", "root", "drop">>, <<"root", "drop">>} => to = "project"
  BY <1>7, StepsLeft DEF Todos
<1>9. /\ local.pc = "convert" /\ local.kind = kind /\ local.id = id /\ local.todo = StepsTo(to)
      /\ local.to = to /\ local.item = row /\ DOMAIN local = Fields
  <2> HIDE DEF row
  <2> QED  BY DEF At, Fields
<1> HIDE DEF local
<1>10. JobInv(h)'
  <2>1. IdeaOf(local) = IF kind = "idea" THEN id ELSE row.idea
    BY <1>9 DEF IdeaOf
  <2>2. IdeaOf(local) \in 1 .. items["idea"].last /\ row.owner = owner[IdeaOf(local)]
    BY <1>3, <1>4, <1>5, <1>6, <2>1
  <2>3. IdeaOf(job[h])' = IdeaOf(local)
    BY <1>2 DEF IdeaOf
  <2>4. kind = "task" => items["task"].rows[id].idea = IdeaOf(local)
    BY <2>1
  <2> HIDE DEF row
  <2> QED  BY <1>1, <1>2, <1>3, <1>4, <1>8, <1>9, <2>2, <2>3, <2>4 DEF JobInv
<1> QED  BY <1>1, <1>10, QuietInv

LEMMA RemoveRowInv == ASSUME IInv, NEW h \in Handlers, RemoveRow(h) PROVE IInv'
<1>0. PICK kind, row : kind = job[h].kind /\ row = job[h].id
  OBVIOUS
<1> DEFINE old == items[kind]
           new == Delete(old, row)
<1>1. /\ items' = [items EXCEPT ![kind] = new] /\ Go(h, Idle) /\ UNCHANGED owner
      /\ discarded' = discarded \cup (IF row \in Ids(old) THEN {Source(kind, row)} ELSE {})
      /\ job[h].pc = "remove"
  BY <1>0 DEF RemoveRow
<1>2. kind \in Kinds /\ RowInv /\ Jobs /\ IdeasAreNotLost
  BY <1>0, <1>1 DEF IInv, Jobs, JobInv
<1>3. \A k \in Kinds : Shaped(items[k])
  BY <1>2 DEF RowInv
<1>4. /\ Shaped(new) /\ new.last = old.last /\ Ids(new) = Ids(old) \ {row}
      /\ \A id \in Ids(old) \ {row} : new.rows[id] = old.rows[id]
  BY <1>2, <1>3, Deleted
<1> HIDE DEF new
<1>5. /\ items' = [k \in Kinds |-> items'[k]] /\ items'[kind] = new
      /\ \A k \in Kinds \ {kind} : items'[k] = items[k]
  BY <1>1, <1>2, OneTable
<1>6. Persist /\ \A k \in Kinds : items'[k].last = items[k].last
  <2>1. \A id \in Ids(new) : id \in Ids(old) /\ new.rows[id] = old.rows[id]
    BY <1>4
  <2>2. discarded \subseteq discarded'
    BY <1>1
  <2> QED  BY <1>1, <1>2, <1>4, <1>5, <2>1, <2>2, Dropped
<1>7. RowInv'
  BY <1>2, <1>3, <1>6, NoRows
<1>8. LivesOnKept /\ IdeasAreNotLost'
  <2>1. \A k \in Kinds : \A id \in Ids(items[k]) :
          k # kind \/ id # row => id \in Ids(items'[k])
    BY <1>4, <1>5
  <2>2. row \in Ids(items[kind]) => Source(kind, row) \in discarded'
    BY <1>1
  <2>3. kind = "idea" /\ row \in Ids(items["idea"]) => LivesOn(row, Derived)'
    BY <2>2 DEF Source, LivesOn
  <2>4. kind \in Derived /\ row \in Ids(items[kind]) => items[kind].rows[row].idea \in discarded'
    BY <2>2 DEF Source, Derived
  <2>5. \A i \in 1 .. items'["idea"].last : ~(i > items["idea"].last)
    <3>1. items'["idea"].last = items["idea"].last /\ items["idea"].last \in Nat
      BY <1>3, <1>6 DEF Shaped, Kinds
    <3> QED  BY <3>1
  <2>6. /\ kind = "idea" /\ row \in Ids(items["idea"]) =>
             row \in Ids(items'["idea"]) \/ LivesOn(row, Derived)'
        /\ kind \in Derived /\ row \in Ids(items[kind]) =>
             \/ row \in Ids(items'[kind])
             \/ items[kind].rows[row].idea \in discarded'
             \/ kind = "task" /\ \A j : j = items["task"].rows[row].idea => LivesOn(j, {"project"})'
        /\ \A i \in 1 .. items'["idea"].last : i > items["idea"].last => i \in Ids(items'["idea"])
    BY <2>3, <2>4, <2>5
  <2> HIDE DEF old
  <2> QED  BY <1>2, <1>6, <2>1, <2>6, NoneLost
<1>9. job'[h] = Idle
  BY <1>1, <1>2, Went
<1>10. JobInv(h)'
  BY <1>9 DEF JobInv, Idle
<1>11. Jobs'
  BY <1>1, <1>2, <1>6, <1>8, <1>10, OneJob
<1> QED  BY <1>7, <1>8, <1>11 DEF IInv

\* The steps of a conversion, the next one first.
LEMMA StepAhead ==
  ASSUME NEW todo \in Todos, NEW to, NEW kind,
         todo \in {<<"create", "root", "drop">>, <<"root", "drop">>} => to = "project"
  PROVE  /\ Head(todo) = "create" =>
              /\ Len(todo) # 1 /\ Tail(todo) \in Todos /\ Head(Tail(todo)) # "create"
              /\ Head(Tail(todo)) = "root" => to = "project"
              /\ Tail(todo) \in {<<"create", "root", "drop">>, <<"root", "drop">>} => to = "project"
         /\ Head(todo) = "root" => Len(todo) # 1 /\ Tail(todo) = <<"drop">> /\ to = "project"
         /\ Head(todo) = "drop" => Len(todo) = 1
<1>1. CASE todo = <<"create", "drop">>
  BY <1>1, StepsLeft DEF Todos
<1>2. CASE todo = <<"create", "root", "drop">>
  BY <1>2, StepsLeft DEF Todos
<1>3. CASE todo = <<"root", "drop">>
  BY <1>3, StepsLeft DEF Todos
<1>4. CASE todo = <<"drop">>
  BY <1>4, StepsLeft DEF Todos
<1> QED  BY <1>1, <1>2, <1>3, <1>4 DEF Todos

LEMMA DropSourceInv == ASSUME IInv, NEW h \in Handlers, DropSource(h) PROVE IInv'
<1>0. PICK kind, row, idea : kind = job[h].kind /\ row = job[h].id /\ idea = IdeaOf(job[h])
  OBVIOUS
<1> DEFINE old == items[kind]
           new == Delete(old, row)
<1>1. /\ items' = [items EXCEPT ![kind] = new] /\ Stepped(h, job[h]) /\ UNCHANGED <<owner, discarded>>
      /\ job[h].pc = "convert" /\ Head(job[h].todo) = "drop"
  BY <1>0 DEF DropSource, Doing
<1>2. RowInv /\ Jobs /\ IdeasAreNotLost /\ JobInv(h)
  BY DEF IInv, Jobs
<1>3. /\ kind \in {"idea", "task"} /\ LivesOn(idea, Heirs(kind))
      /\ kind = "task" /\ row \in Ids(items["task"]) => items["task"].rows[row].idea = idea
      /\ Len(job[h].todo) = 1
      /\ kind = "idea" => idea = row
  BY <1>0, <1>1, <1>2, StepAhead DEF JobInv, IdeaOf
<1>4. kind \in Kinds /\ {"idea", "task", "project"} \subseteq Kinds /\ Derived = Kinds \ {"idea"}
  BY <1>3 DEF Kinds, Derived
<1>5. Go(h, Idle)
  BY <1>1, <1>3 DEF Stepped
<1>6. \A k \in Kinds : Shaped(items[k])
  BY <1>2 DEF RowInv
<1>7. /\ Shaped(new) /\ new.last = old.last /\ Ids(new) = Ids(old) \ {row}
      /\ \A id \in Ids(old) \ {row} : new.rows[id] = old.rows[id]
  BY <1>4, <1>6, Deleted
<1> HIDE DEF new
<1>8. /\ items' = [k \in Kinds |-> items'[k]] /\ items'[kind] = new
      /\ \A k \in Kinds \ {kind} : items'[k] = items[k]
  BY <1>1, <1>2, <1>4, OneTable
<1>9. Persist /\ \A k \in Kinds : items'[k].last = items[k].last
  <2>1. \A id \in Ids(new) : id \in Ids(old) /\ new.rows[id] = old.rows[id]
    BY <1>7
  <2> QED  BY <1>1, <1>2, <1>4, <1>7, <1>8, <2>1, Dropped
<1>10. RowInv'
  BY <1>2, <1>9, NoRows
\* What the source is survived by is not of its kind.
<1>11. LivesOn(idea, Heirs(kind))'
  <2>1. \A k \in Heirs(kind) : items'[k] = items[k]
    BY <1>3, <1>4, <1>8 DEF Heirs
  <2> QED  BY <1>1, <1>3, <2>1 DEF LivesOn, Ids, Heirs
<1>12. LivesOnKept /\ IdeasAreNotLost'
  <2>1. \A k \in Kinds : \A id \in Ids(items[k]) :
          k # kind \/ id # row => id \in Ids(items'[k])
    BY <1>7, <1>8
  <2>2. kind = "idea" => LivesOn(row, Derived)'
    BY <1>3, <1>11 DEF Heirs
  <2>3. kind = "task" /\ row \in Ids(items["task"]) =>
          \A j : j = items["task"].rows[row].idea => LivesOn(j, {"project"})'
    BY <1>3, <1>11 DEF Heirs
  <2>4. \A i \in 1 .. items'["idea"].last : ~(i > items["idea"].last)
    <3>1. items'["idea"].last = items["idea"].last /\ items["idea"].last \in Nat
      BY <1>4, <1>6, <1>9 DEF Shaped
    <3> QED  BY <3>1
  <2>5. /\ kind = "idea" /\ row \in Ids(items["idea"]) =>
             row \in Ids(items'["idea"]) \/ LivesOn(row, Derived)'
        /\ kind \in Derived /\ row \in Ids(items[kind]) =>
             \/ row \in Ids(items'[kind])
             \/ items[kind].rows[row].idea \in discarded'
             \/ kind = "task" /\ \A j : j = items["task"].rows[row].idea => LivesOn(j, {"project"})'
        /\ \A i \in 1 .. items'["idea"].last : i > items["idea"].last => i \in Ids(items'["idea"])
    BY <1>3, <1>4, <2>2, <2>3, <2>4
  <2> HIDE DEF old
  <2> QED  BY <1>2, <1>4, <1>9, <2>1, <2>5, NoneLost
<1>13. job'[h] = Idle
  BY <1>2, <1>5, Went
<1>14. JobInv(h)'
  BY <1>13 DEF JobInv, Idle
<1>15. Jobs'
  BY <1>2, <1>5, <1>9, <1>12, <1>14, OneJob
<1> QED  BY <1>10, <1>12, <1>15 DEF IInv

\* A conversion gets one step further.
LEMMA Ahead ==
  ASSUME RowInv, Persist, NEW h \in Handlers, JobInv(h), job[h].pc = "convert",
         Len(job[h].todo) # 1, Head(job[h].todo) \in {"create", "root"},
         NEW local, job'[h] = local, DOMAIN local = Fields,
         /\ local.pc = "convert" /\ local.kind = job[h].kind /\ local.id = job[h].id
         /\ local.item = job[h].item /\ local.to = job[h].to /\ local.todo = Tail(job[h].todo),
         NEW idea, idea = IdeaOf(job[h]),
         NEW kind, kind = job[h].kind, LivesOn(idea, Heirs(kind))',
         job[h].to = "project" /\ Head(job[h].todo) = "create" =>
           /\ local.made \in 1 .. items'["project"].last
           /\ local.made \in Ids(items'["project"]) => items'["project"].rows[local.made].idea = idea
  PROVE  JobInv(h)'
<1>1. /\ \A k \in Kinds : items[k].last \in Nat /\ items'[k].last \in Nat
      /\ {"idea", "task", "project"} \subseteq Kinds
  BY DEF RowInv, Persist, Shaped, Kinds
<1>2. idea \in 1 .. items'["idea"].last /\ local.item.owner = owner'[idea]
  BY <1>1 DEF JobInv, Persist
<1>3. kind = "task" =>
        /\ local.id \in 1 .. items'["task"].last
        /\ local.id \in Ids(items'["task"]) => items'["task"].rows[local.id].idea = idea
  BY <1>1 DEF JobInv, Persist
<1>4. /\ kind \in {"idea", "task"} /\ local.to \in Derived /\ (kind = "task" => local.to = "project")
      /\ job[h].todo \in Todos
      /\ job[h].todo \in {<<"create", "root", "drop">>, <<"root", "drop">>} => local.to = "project"
  BY DEF JobInv
<1>5. /\ local.todo \in Todos /\ Head(local.todo) # "create"
      /\ local.todo \in {<<"create", "root", "drop">>, <<"root", "drop">>} => local.to = "project"
      /\ Head(local.todo) = "root" => local.to = "project" /\ Head(job[h].todo) = "create"
  BY <1>4, StepAhead, StepsLeft DEF Todos
<1>6. IdeaOf(local) = idea
  BY DEF IdeaOf
<1>7. JobInv(h)' <=>
        /\ local.pc # "idle" => DOMAIN local = Fields
        /\ local.pc = "remove" => local.kind \in Kinds
        /\ local.pc = "convert" =>
             /\ local.kind \in {"idea", "task"} /\ local.to \in Derived
             /\ local.kind = "task" => local.to = "project"
             /\ local.todo \in Todos
             /\ local.todo \in {<<"create", "root", "drop">>, <<"root", "drop">>} => local.to = "project"
             /\ idea \in 1 .. items'["idea"].last
             /\ local.item.owner = owner'[idea]
             /\ local.kind = "task" =>
                  /\ local.id \in 1 .. items'["task"].last
                  /\ local.id \in Ids(items'["task"]) => items'["task"].rows[local.id].idea = idea
             /\ Head(local.todo) # "create" => LivesOn(idea, Heirs(kind))'
             /\ Head(local.todo) = "root" =>
                  /\ local.made \in 1 .. items'["project"].last
                  /\ local.made \in Ids(items'["project"]) => items'["project"].rows[local.made].idea = idea
  BY <1>6 DEF JobInv, LivesOn, Ids, IdeaOf, Heirs
<1> QED  BY <1>2, <1>3, <1>4, <1>5, <1>7

LEMMA WriteRootInv ==
  ASSUME Assumptions, IInv, NEW h \in Handlers, WriteRoot(h) PROVE IInv'
<1>0. PICK made, idea, user, kind :
        /\ made = job[h].made /\ idea = IdeaOf(job[h]) /\ user = job[h].item.owner
        /\ kind = job[h].kind
  OBVIOUS
<1> DEFINE row == [NewItem(user, idea) EXCEPT !.root = TRUE]
           old == items["project"]
           new == Update(old, made, row)
           local == [job[h] EXCEPT !.todo = Tail(@)]
<1>1. /\ items' = [items EXCEPT !["project"] = new] /\ Stepped(h, job[h])
      /\ UNCHANGED <<owner, discarded>>
      /\ job[h].pc = "convert" /\ Head(job[h].todo) = "root"
  BY <1>0 DEF WriteRoot, Doing, IdeaOf
<1>2. RowInv /\ Jobs /\ IdeasAreNotLost /\ JobInv(h)
  BY DEF IInv, Jobs
<1>3. /\ Len(job[h].todo) # 1 /\ Tail(job[h].todo) = <<"drop">>
      /\ LivesOn(idea, Heirs(kind)) /\ kind \in {"idea", "task"}
      /\ made \in Ids(old) => old.rows[made].idea = idea
      /\ idea \in 1 .. items["idea"].last /\ user = owner[idea]
      /\ DOMAIN job[h] = Fields
  BY <1>0, <1>1, <1>2, StepAhead, StepsLeft DEF JobInv
<1>4. "project" \in Kinds /\ "project" \in Derived
  BY DEF Kinds, Derived
<1>5. Go(h, local)
  BY <1>1, <1>3 DEF Stepped
<1>6. \A k \in Kinds : Shaped(items[k])
  BY <1>2 DEF RowInv
<1>7. row.idea = idea /\ row.owner = user
  BY DEF NewItem
<1> HIDE DEF row
<1>8. /\ Shaped(new) /\ new.last = old.last /\ Ids(new) = Ids(old)
      /\ made \in Ids(old) => new.rows[made] = row
      /\ \A id \in Ids(old) \ {made} : new.rows[id] = old.rows[id]
  BY <1>4, <1>6, Updated
<1> HIDE DEF new
<1>9. /\ items' = [k \in Kinds |-> items'[k]] /\ items'["project"] = new
      /\ \A k \in Kinds \ {"project"} : items'[k] = items[k]
  BY <1>1, <1>2, <1>4, OneTable
<1>10. Persist /\ \A k \in Kinds : items'[k].last = items[k].last
  <2>1. made \in Ids(old) => old.rows[made].owner = user
    BY <1>2, <1>3, <1>4 DEF RowInv
  <2>2. \A id \in Ids(new) :
          id \in Ids(old) /\ new.rows[id].idea = old.rows[id].idea /\ new.rows[id].owner = old.rows[id].owner
    BY <1>3, <1>7, <1>8, <2>1
  <2> QED  BY <1>1, <1>2, <1>4, <1>8, <1>9, <2>2, Dropped
<1>11. RowInv'
  BY <1>2, <1>10, NoRows
<1>12. LivesOnKept /\ IdeasAreNotLost'
  <2>1. \A k \in Kinds : \A id \in Ids(items[k]) : id \in Ids(items'[k])
    BY <1>8, <1>9
  <2>2. \A i \in 1 .. items'["idea"].last : ~(i > items["idea"].last)
    <3>1. items'["idea"].last = items["idea"].last /\ items["idea"].last \in Nat
      BY <1>6, <1>10 DEF Shaped, Kinds
    <3> QED  BY <3>1
  <2> QED  BY <1>2, <1>4, <1>10, <2>1, <2>2, NoneLost
<1>13. job'[h] = local
  BY <1>2, <1>5, Went
<1>14. JobInv(h)'
  <2>1. LivesOn(idea, Heirs(kind))'
    <3>1. CASE kind = "idea"
      <4>1. LivesOn(idea, Derived)'
        BY <1>3, <1>12, <3>1 DEF LivesOnKept, Heirs
      <4> QED  BY <3>1, <4>1 DEF Heirs
    <3>2. CASE kind = "task"
      <4>1. LivesOn(idea, {"project"})'
        BY <1>3, <1>12, <3>2 DEF LivesOnKept, Heirs
      <4> QED  BY <3>2, <4>1 DEF Heirs
    <3> QED  BY <1>3, <3>1, <3>2
  <2>2. /\ DOMAIN local = Fields /\ local.pc = "convert" /\ local.kind = job[h].kind
        /\ local.id = job[h].id /\ local.item = job[h].item /\ local.to = job[h].to
        /\ local.todo = Tail(job[h].todo)
    BY <1>1, <1>3 DEF Fields
  <2> HIDE DEF local
  <2> QED  BY <1>0, <1>1, <1>2, <1>3, <1>10, <1>13, <2>1, <2>2, Ahead
<1>15. Jobs'
  <2> HIDE DEF local
  <2> QED  BY <1>2, <1>5, <1>10, <1>12, <1>14, OneJob
<1> QED  BY <1>11, <1>12, <1>15 DEF IInv

LEMMA CreateItemInv ==
  ASSUME Assumptions, IInv, NEW h \in Handlers, CreateItem(h) PROVE IInv'
<1>0. PICK to, idea, user, kind :
        /\ to = job[h].to /\ idea = IdeaOf(job[h]) /\ user = job[h].item.owner
        /\ kind = job[h].kind
  OBVIOUS
<1> DEFINE row == NewItem(user, idea)
           old == items[to]
           new == Insert(old, row)
           here == [job[h] EXCEPT !.made = old.last + 1]
           local == [here EXCEPT !.todo = Tail(@)]
<1>1. /\ items' = [items EXCEPT ![to] = new] /\ Stepped(h, here)
      /\ UNCHANGED <<owner, discarded>>
      /\ job[h].pc = "convert" /\ Head(job[h].todo) = "create"
  BY <1>0 DEF CreateItem, Doing, IdeaOf
<1>2. RowInv /\ Jobs /\ IdeasAreNotLost /\ JobInv(h)
  BY DEF IInv, Jobs
<1>3. /\ Len(job[h].todo) # 1 /\ to \in Derived
      /\ idea \in 1 .. items["idea"].last /\ user = owner[idea]
      /\ DOMAIN job[h] = Fields
  BY <1>0, <1>1, <1>2, StepAhead DEF JobInv
<1>4. /\ to \in Kinds /\ to # "idea" /\ "idea" \in Kinds /\ Derived = Kinds \ {"idea"}
  BY <1>3 DEF Kinds, Derived
<1>5. Go(h, local)
  <2>1. here.todo = job[h].todo
    BY <1>3 DEF Fields
  <2> HIDE DEF here
  <2> QED  BY <1>1, <1>3, <2>1 DEF Stepped
<1>6. \A k \in Kinds : Shaped(items[k]) /\ items[k].last \in Nat
  BY <1>2 DEF RowInv, Shaped
<1>7. row.idea = idea /\ row.owner = user
  BY DEF NewItem
<1> HIDE DEF row
<1>8. /\ Shaped(new) /\ new.last = old.last + 1 /\ Ids(new) = Ids(old) \cup {old.last + 1}
      /\ new.rows[old.last + 1] = row
      /\ \A id \in Ids(old) : new.rows[id] = old.rows[id]
  BY <1>4, <1>6, Inserted
<1> HIDE DEF new
<1>9. /\ items' = [k \in Kinds |-> items'[k]] /\ items'[to] = new
      /\ \A k \in Kinds \ {to} : items'[k] = items[k]
  BY <1>1, <1>2, <1>4, OneTable
<1>10. \A k \in Kinds : \A id \in Ids(items'[k]) :
         \/ id \in Ids(items[k]) /\ items'[k].rows[id] = items[k].rows[id]
         \/ k = to /\ id = old.last + 1 /\ items'[k].rows[id] = row
  BY <1>8, <1>9
<1>11. Persist
  <2>1. \A k \in Kinds : Shaped(items'[k]) /\ items[k].last <= items'[k].last
    BY <1>4, <1>6, <1>8, <1>9
  <2>2. items'["idea"] = items["idea"] /\ items["idea"].last <= MaxRow
    BY <1>2, <1>4, <1>9 DEF RowInv
  <2>3. ASSUME NEW k \in Kinds, NEW id \in Ids(items'[k]), id <= items[k].last
        PROVE  /\ id \in Ids(items[k])
               /\ items'[k].rows[id].idea = items[k].rows[id].idea
               /\ items'[k].rows[id].owner = items[k].rows[id].owner
    <3>1. ~(k = to /\ id = old.last + 1)
      BY <1>6, <2>3
    <3> QED  BY <1>10, <3>1
  <2>4. owner' = [i \in IdeaId |-> owner'[i]]
    BY <1>1, <1>2 DEF RowInv
  <2> QED  BY <1>1, <1>9, <2>1, <2>2, <2>3, <2>4 DEF Persist
<1>12. RowInv'
  <2>1. ASSUME NEW k \in Kinds, NEW id \in Ids(items'[k]), id > items[k].last
        PROVE  k = to /\ items'[k].rows[id] = row
    <3>1. id \notin Ids(items[k])
      <4>1. Shaped(items[k]) /\ items[k].last \in Nat
        BY <1>6
      <4>2. Ids(items[k]) \subseteq 1 .. items[k].last
        BY <4>1 DEF Shaped
      <4> QED  BY <2>1, <4>1, <4>2
    <3> QED  BY <1>10, <3>1
  <2>2. ASSUME NEW i \in Ids(items'["idea"]), i > items["idea"].last
        PROVE  items'["idea"].rows[i].owner = owner'[i]
    BY <1>4, <2>1, <2>2
  <2>3. ASSUME NEW k \in Derived, NEW id \in Ids(items'[k]), id > items[k].last
        PROVE  /\ items'[k].rows[id].idea \in 1 .. items["idea"].last
               /\ items'[k].rows[id].owner = owner[items'[k].rows[id].idea]
    <3>1. k \in Kinds
      BY <1>4
    <3>2. items'[k].rows[id] = row
      BY <2>1, <2>3, <3>1
    <3> QED  BY <1>3, <1>7, <3>2
  <2> QED  BY <1>2, <1>11, <2>2, <2>3, RowsKept
<1>13. LivesOnKept /\ IdeasAreNotLost'
  <2>1. \A k \in Kinds : \A id \in Ids(items[k]) : id \in Ids(items'[k])
    BY <1>8, <1>9
  <2>2. \A i \in 1 .. items'["idea"].last : ~(i > items["idea"].last)
    <3>1. items'["idea"].last = items["idea"].last /\ items["idea"].last \in Nat
      BY <1>4, <1>6, <1>9
    <3> QED  BY <3>1
  <2> QED  BY <1>2, <1>4, <1>11, <2>1, <2>2, NoneLost
<1>14. job'[h] = local
  BY <1>2, <1>5, Went
<1>15. JobInv(h)'
  <2>1. old.last + 1 \in Ids(items'[to]) /\ items'[to].rows[old.last + 1].idea = idea
    BY <1>7, <1>8, <1>9
  <2>2. old.last + 1 \in 1 .. items'[to].last
    BY <1>4, <1>6, <1>8, <1>9
  <2>3. /\ DOMAIN local = Fields /\ local.pc = "convert" /\ local.kind = job[h].kind
        /\ local.id = job[h].id /\ local.item = job[h].item /\ local.to = job[h].to
        /\ local.todo = Tail(job[h].todo) /\ local.made = old.last + 1
    <3> HIDE DEF old
    <3> QED  BY <1>1, <1>3 DEF Fields
  <2>4. LivesOn(idea, Heirs(kind))'
    <3>1. to \in Heirs(kind)
      BY <1>0, <1>1, <1>2, <1>3 DEF JobInv, Heirs
    <3> QED  BY <2>1, <3>1 DEF LivesOn, Ids, Heirs
  <2>5. to = "project" =>
          /\ local.made \in 1 .. items'["project"].last
          /\ local.made \in Ids(items'["project"]) => items'["project"].rows[local.made].idea = idea
    <3> HIDE DEF local, old
    <3> QED  BY <2>1, <2>2, <2>3
  <2> HIDE DEF local, old
  <2> QED  BY <1>0, <1>1, <1>2, <1>3, <1>11, <1>14, <2>3, <2>4, <2>5, Ahead
<1>16. Jobs'
  <2> HIDE DEF local
  <2> QED  BY <1>2, <1>5, <1>11, <1>13, <1>15, OneJob
<1> QED  BY <1>12, <1>13, <1>16 DEF IInv

LEMMA NextInv == ASSUME Assumptions, IInv, [Next]_ideaVars PROVE IInv'
<1>1. CASE UNCHANGED ideaVars
  <2>1. UNCHANGED <<items, owner, discarded, job>>
    BY <1>1 DEF ideaVars
  <2>2. RowInv /\ Jobs /\ IdeasAreNotLost
    BY DEF IInv
  <2>3. Persist /\ LivesOnKept /\ RowInv' /\ IdeasAreNotLost'
    BY <2>1, <2>2, Quiet
  <2>4. Jobs'
    BY <2>1, <2>2, <2>3, NoJob
  <2> QED  BY <2>3, <2>4 DEF IInv
<1>2. ASSUME NEW u \in Users, Capture(u) PROVE IInv'
  BY <1>2, CaptureInv
<1>3. ASSUME NEW h \in Handlers, NEW u \in Users, NEW k \in Kinds, NEW id \in IdeaId,
             Remove(h, u, k, id)
      PROVE  IInv'
  BY <1>3, RemoveInv
<1>4. ASSUME NEW h \in Handlers, NEW k \in Kinds, NEW to \in Kinds, NEW id \in IdeaId,
             Convert(h, k, id, to)
      PROVE  IInv'
  BY <1>4, ConvertInv
<1>5. ASSUME NEW h \in Handlers, NEW u \in Users, Advise(h, u) PROVE IInv'
  BY <1>5, AdviseInv
<1>6. ASSUME NEW h \in Handlers, RemoveRow(h) PROVE IInv'
  BY <1>6, RemoveRowInv
<1>7. ASSUME NEW h \in Handlers, CreateItem(h) PROVE IInv'
  BY <1>7, CreateItemInv
<1>8. ASSUME NEW h \in Handlers, WriteRoot(h) PROVE IInv'
  BY <1>8, WriteRootInv
<1>9. ASSUME NEW h \in Handlers, DropSource(h) PROVE IInv'
  BY <1>9, DropSourceInv
<1>10. ASSUME NEW h \in Handlers, ReadKind(h) PROVE IInv'
  BY <1>10, ReadKindInv
<1>11. ASSUME NEW h \in Handlers, AnswerFocus(h) PROVE IInv'
  BY <1>11, AnswerFocusInv
<1>12. CASE Crash
  BY <1>12, CrashInv
<1> QED
  BY <1>1, <1>2, <1>3, <1>4, <1>5, <1>6, <1>7, <1>8, <1>9, <1>10, <1>11, <1>12 DEF Next

-----------------------------------------------------------------------------
(* Types: those of the rows need IInv, by which what a conversion inserts   *)
(* stems from an idea, and belongs to the user who captured that            *)

\* The kinds that a snapshot reads.
Listed == {Reading[i] : i \in 1 .. 4}

Captured ==
  /\ owner \in [IdeaId -> Users \cup {Nothing}]
  /\ \A i \in 1 .. items["idea"].last : owner[i] \in Users

Lists == \A h \in Handlers : job[h].pc = "advise" => {job[h].todo, job[h].found} \subseteq Seq(Listed)

Types ==
  /\ \A k \in Kinds : IsTable(items[k], Item, MaxRow)
  /\ Captured
  /\ discarded \subseteq IdeaId
  /\ Lists

LEMMA ListedAre == Listed = {"task", "habit", "event", "project"}
BY DEF Listed, Reading

\* The focus of a snapshot is of a kind it has read.
LEMMA FocusIsAKind ==
  ASSUME NEW found \in Seq(Listed)
  PROVE  Focus(found) \in Kinds \cup {Nothing}
<1> DEFINE kinds == {found[i] : i \in 1 .. Len(found)}
           Rank(kind) == CHOOSE i \in 1 .. 4 : Precedence[i] = kind
           Leads(kind) == \A other \in kinds : Rank(kind) <= Rank(other)
<1>1. kinds \subseteq {"task", "habit", "event", "project"}
  BY ListedAre
<1>2. /\ Precedence[1] = "event" /\ Precedence[2] = "task"
      /\ Precedence[3] = "habit" /\ Precedence[4] = "project"
  BY DEF Precedence
<1>3. Rank("event") = 1 /\ Rank("task") = 2 /\ Rank("habit") = 3 /\ Rank("project") = 4
  <2>1. \A i \in 1 .. 4 : i = 1 \/ i = 2 \/ i = 3 \/ i = 4
    OBVIOUS
  <2> QED  BY <1>2, <2>1
<1>4. Focus(found) = IF kinds = {} THEN Nothing ELSE CHOOSE kind \in kinds : Leads(kind)
  BY DEF Focus
<1> HIDE DEF kinds, Rank
<1>5. CASE kinds = {}
  BY <1>4, <1>5
<1>6. CASE kinds # {}
  <2>1. \E kind \in kinds : Leads(kind)
    <3>1. CASE "event" \in kinds
      BY <1>1, <1>3, <3>1
    <3>2. CASE "event" \notin kinds /\ "task" \in kinds
      BY <1>1, <1>3, <3>2
    <3>3. CASE "event" \notin kinds /\ "task" \notin kinds /\ "habit" \in kinds
      BY <1>1, <1>3, <3>3
    <3>4. CASE kinds = {"project"}
      BY <1>3, <3>4
    <3> QED  BY <1>1, <1>6, <3>1, <3>2, <3>3, <3>4
  <2> HIDE DEF Leads
  <2>2. Focus(found) \in kinds
    BY <1>4, <1>6, <2>1
  <2> QED  BY <1>1, <2>2 DEF Kinds
<1> QED  BY <1>5, <1>6

LEMMA TypesHold == Types => TypeOK
BY FocusIsAKind DEF Types, Captured, Lists, TypeOK

LEMMA TypesBegin == ASSUME Assumptions, Init PROVE Types
<1>1. \A k \in Kinds : items[k] = EmptyTable
  BY DEF Init
<1>2. \A k \in Kinds : IsTable(items[k], Item, MaxRow)
  BY <1>1, EmptyShaped DEF IsTable, Assumptions
<1>3. Captured
  BY <1>1, EmptyShaped DEF Init, Captured, Kinds
<1>4. Lists /\ discarded \subseteq IdeaId
  BY DEF Init, Lists, Idle
<1> QED  BY <1>2, <1>3, <1>4 DEF Types

\* A step of a thread that is, afterwards, about no snapshot.
LEMMA NoSnapshot ==
  ASSUME Jobs, Lists, NEW h \in Handlers, NEW local, Go(h, local), local.pc # "advise"
  PROVE  Lists'
<1>1. job'[h] = local /\ \A g \in Handlers \ {h} : job'[g] = job[g]
  BY DEF Jobs, Go
<1>2. ASSUME NEW g \in Handlers, job'[g].pc = "advise"
      PROVE  {job'[g].todo, job'[g].found} \subseteq Seq(Listed)
  <2>1. g # h
    BY <1>1, <1>2
  <2> QED  BY <1>1, <1>2, <2>1 DEF Lists
<1> QED  BY <1>2 DEF Lists

\* Where a conversion goes.
LEMMA SteppedOn ==
  ASSUME NEW h \in Handlers, NEW local, local.pc = "convert", DOMAIN local = Fields, Jobs, Lists,
         Stepped(h, local)
  PROVE  Lists'
<1> DEFINE next == IF Len(local.todo) = 1 THEN Idle ELSE [local EXCEPT !.todo = Tail(@)]
<1>1. next.pc # "advise"
  <2>1. CASE Len(local.todo) = 1
    BY <2>1 DEF Idle
  <2>2. CASE Len(local.todo) # 1
    BY <2>2 DEF Fields
  <2> QED  BY <2>1, <2>2
<1>2. Go(h, next)
  BY DEF Stepped
<1> HIDE DEF next
<1> QED  BY <1>1, <1>2, NoSnapshot

\* A step that gives one kind a table of the type, and no idea.
LEMMA TableTyped ==
  ASSUME RowInv, Types, NEW kind \in Kinds, NEW table, items' = [items EXCEPT ![kind] = table],
         IsTable(table, Item, MaxRow), kind = "idea" => table.last = items["idea"].last,
         UNCHANGED owner, discarded' \subseteq IdeaId, Lists'
  PROVE  Types'
<1>1. items'[kind] = table /\ \A k \in Kinds \ {kind} : items'[k] = items[k]
  BY OneTable
<1>2. \A k \in Kinds : IsTable(items'[k], Item, MaxRow)
  BY <1>1 DEF Types
<1>3. items'["idea"].last = items["idea"].last
  BY <1>1 DEF Kinds
<1>4. Captured'
  BY <1>3 DEF Types, Captured
<1>5. \A k \in Kinds : IsTable(items[k], Item, MaxRow)'
  BY <1>2 DEF IsTable, Ids
<1> QED  BY <1>4, <1>5 DEF Types

\* What a conversion reads was captured by a user.
LEMMA MadeOfIdea ==
  ASSUME Assumptions, RowInv, Jobs, Types, NEW h \in Handlers, job[h].pc = "convert"
  PROVE  /\ NewItem(job[h].item.owner, IdeaOf(job[h])) \in Item
         /\ [NewItem(job[h].item.owner, IdeaOf(job[h])) EXCEPT !.root = TRUE] \in Item
<1> DEFINE user == job[h].item.owner
           idea == IdeaOf(job[h])
<1>1. idea \in 1 .. items["idea"].last /\ user = owner[idea]
  BY DEF Jobs, JobInv
<1> HIDE DEF user, idea
<1>2. items["idea"].last \in Nat /\ items["idea"].last <= MaxRow /\ MaxRow \in Nat
  BY DEF RowInv, Assumptions, Shaped, Kinds
<1>3. user \in Users /\ idea \in IdeaId
  BY <1>1, <1>2 DEF Types, Captured, IdeaId
<1>4. NewItem(user, idea) \in Item /\ [NewItem(user, idea) EXCEPT !.root = TRUE] \in Item
  BY <1>3 DEF NewItem, Item
<1> QED  BY <1>4 DEF user, idea

LEMMA TypesKept ==
  ASSUME Assumptions, IInv, Types, [Next]_ideaVars
  PROVE  Types'
<1>0. RowInv /\ Jobs /\ Lists /\ MaxRow \in Nat /\ \A k \in Kinds : IsTable(items[k], Item, MaxRow)
  BY DEF IInv, Types, Assumptions
<1>1. ASSUME UNCHANGED <<items, owner, discarded>>, Lists' PROVE Types'
  <2>1. \A k \in Kinds : IsTable(items[k], Item, MaxRow)'
    BY <1>0, <1>1 DEF IsTable, Ids
  <2> QED  BY <1>1, <2>1 DEF Types, Captured
<1>2. CASE UNCHANGED ideaVars
  BY <1>0, <1>1, <1>2 DEF ideaVars, Lists
<1>3. ASSUME NEW u \in Users, Capture(u) PROVE Types'
  <2> DEFINE new == Insert(items["idea"], NewItem(u, 0))
             i == items["idea"].last + 1
  <2>1. /\ items' = [items EXCEPT !["idea"] = new] /\ items["idea"].last < MaxRow
        /\ owner' = [owner EXCEPT ![i] = u] /\ UNCHANGED <<job, discarded>>
    BY <1>3 DEF Capture
  <2>2. "idea" \in Kinds /\ Shaped(items["idea"])
    BY <1>0 DEF Kinds, RowInv
  <2>3. NewItem(u, 0) \in Item
    BY DEF NewItem, Item
  <2>4. IsTable(new, Item, MaxRow) /\ new.last = i
    BY <1>0, <2>1, <2>2, <2>3, TableKept, Inserted
  <2> HIDE DEF new
  <2>5. items'["idea"] = new /\ \A k \in Kinds \ {"idea"} : items'[k] = items[k]
    BY <1>0, <2>1, <2>2, OneTable
  <2>6. \A k \in Kinds : IsTable(items'[k], Item, MaxRow)
    BY <1>0, <2>4, <2>5
  <2>7. i \in IdeaId /\ 1 .. i = (1 .. items["idea"].last) \cup {i}
    BY <1>0, <2>1, <2>2 DEF IdeaId, Shaped
  <2>8. Captured'
    BY <2>1, <2>4, <2>5, <2>7 DEF Types, Captured
  <2>9. \A k \in Kinds : IsTable(items[k], Item, MaxRow)'
    BY <2>6 DEF IsTable, Ids
  <2>10. Lists'
    BY <1>0, <2>1 DEF Lists
  <2> QED  BY <2>1, <2>8, <2>9, <2>10 DEF Types
<1>4. ASSUME NEW h \in Handlers, NEW u \in Users, NEW k \in Kinds, NEW id \in IdeaId,
             Remove(h, u, k, id)
      PROVE  Types'
  <2> DEFINE local == At("remove", k, id, <<>>)
  <2>1. Go(h, local) /\ UNCHANGED <<items, owner, discarded>>
    BY <1>4 DEF Remove, Ask
  <2>2. local.pc # "advise"
    BY DEF At
  <2> HIDE DEF local
  <2> QED  BY <1>0, <1>1, <2>1, <2>2, NoSnapshot
<1>5. ASSUME NEW h \in Handlers, NEW k \in Kinds, NEW to \in Kinds, NEW id \in IdeaId,
             Convert(h, k, id, to)
      PROVE  Types'
  <2> DEFINE local == [At("convert", k, id, StepsTo(to)) EXCEPT !.to = to, !.item = items[k].rows[id]]
  <2>1. Go(h, local) /\ UNCHANGED <<items, owner, discarded>>
    BY <1>5 DEF Convert, Ask
  <2>2. local.pc # "advise"
    BY DEF At
  <2> HIDE DEF local
  <2> QED  BY <1>0, <1>1, <2>1, <2>2, NoSnapshot
<1>6. ASSUME NEW h \in Handlers, NEW u \in Users, Advise(h, u) PROVE Types'
  <2> DEFINE local == [At("advise", "idea", 0, Reading) EXCEPT !.user = u]
  <2>1. Go(h, local) /\ UNCHANGED <<items, owner, discarded>>
    BY <1>6 DEF Advise, Ask
  <2>2. job'[h] = local /\ \A g \in Handlers \ {h} : job'[g] = job[g]
    BY <1>0, <2>1 DEF Jobs, Go
  <2>3. local.todo = Reading /\ local.found = <<>>
    BY DEF At
  <2>4. Reading \in Seq(Listed) /\ <<>> \in Seq(Listed)
    BY ListedAre DEF Reading
  <2> HIDE DEF local
  <2>5. Lists'
    BY <1>0, <2>2, <2>3, <2>4 DEF Lists
  <2> QED  BY <1>1, <2>1, <2>5
<1>7. ASSUME NEW h \in Handlers, RemoveRow(h) PROVE Types'
  <2> DEFINE k == job[h].kind
             id == job[h].id
             new == Delete(items[k], id)
  <2>1. /\ items' = [items EXCEPT ![k] = new] /\ UNCHANGED owner /\ Go(h, Idle)
        /\ discarded' = discarded \cup (IF id \in Ids(items[k]) THEN {Source(k, id)} ELSE {})
        /\ k \in Kinds
    BY <1>0, <1>7 DEF RemoveRow, Jobs, JobInv
  <2>2. Shaped(items[k])
    BY <1>0, <2>1 DEF RowInv
  <2>3. IsTable(new, Item, MaxRow) /\ new.last = items[k].last
    BY <1>0, <2>1, <2>2, TableLeft, Deleted
  <2>4. id \in Ids(items[k]) => Source(k, id) \in IdeaId
    <3>1. items["idea"].last \in Nat /\ 1 .. items["idea"].last \subseteq IdeaId
      BY <1>0 DEF RowInv, IdeaId, Shaped, Kinds
    <3>2. CASE k = "idea"
      BY <2>2, <3>1, <3>2 DEF Source, Shaped
    <3>3. CASE k # "idea"
      BY <1>0, <2>1, <3>1, <3>3 DEF Source, RowInv, Derived
    <3> QED  BY <3>2, <3>3
  <2>5. discarded' \subseteq IdeaId
    <3>1. discarded \subseteq IdeaId
      BY DEF Types
    <3>2. CASE id \in Ids(items[k])
      BY <2>1, <2>4, <3>1, <3>2
    <3>3. CASE id \notin Ids(items[k])
      BY <2>1, <3>1, <3>3
    <3> QED  BY <3>2, <3>3
  <2>6. Lists'
    BY <1>0, <2>1, NoSnapshot DEF Idle
  <2> HIDE DEF k, id, new
  <2> QED  BY <1>0, <2>1, <2>3, <2>5, <2>6, TableTyped
<1>8. ASSUME NEW h \in Handlers, NEW step \in {"create", "root", "drop"}, Doing(h, step)
      PROVE  /\ job[h].pc = "convert" /\ DOMAIN job[h] = Fields
             /\ job[h].kind \in {"idea", "task"} /\ job[h].to \in Derived
             /\ IdeaOf(job[h]) = IF job[h].kind = "idea" THEN job[h].id ELSE job[h].item.idea
  BY <1>0, <1>8 DEF Doing, Jobs, JobInv, IdeaOf
<1>9. discarded \subseteq IdeaId /\ Derived \subseteq Kinds /\ {"idea", "task", "project"} \subseteq Kinds
      /\ "idea" \notin Derived
  BY DEF Types, Derived, Kinds
<1>10. ASSUME NEW h \in Handlers, CreateItem(h) PROVE Types'
  <2> DEFINE to == job[h].to
             row == NewItem(job[h].item.owner, IdeaOf(job[h]))
             new == Insert(items[to], row)
             local == [job[h] EXCEPT !.made = items[to].last + 1]
  <2>1. Doing(h, "create")
    BY <1>10 DEF CreateItem
  <2>2. /\ job[h].pc = "convert" /\ DOMAIN job[h] = Fields
        /\ to \in Derived /\ to \in Kinds
    BY <1>8, <1>9, <2>1
  <2>3. /\ items' = [items EXCEPT ![to] = new] /\ UNCHANGED <<owner, discarded>>
        /\ Stepped(h, local) /\ items[to].last < MaxRow
    BY <1>8, <1>10, <2>1 DEF CreateItem
  <2>4. local.pc = "convert" /\ DOMAIN local = Fields
    BY <2>2 DEF Fields
  <2>5. Lists'
    <3> HIDE DEF local
    <3> QED  BY <1>0, <2>3, <2>4, SteppedOn
  <2>6. row \in Item
    BY <1>0, <2>2, MadeOfIdea
  <2> HIDE DEF row
  <2>7. IsTable(new, Item, MaxRow)
    BY <1>0, <2>2, <2>3, <2>6, TableKept DEF RowInv
  <2> HIDE DEF new, to
  <2> QED  BY <1>0, <1>9, <2>2, <2>3, <2>5, <2>7, TableTyped
<1>11. ASSUME NEW h \in Handlers, WriteRoot(h) PROVE Types'
  <2> DEFINE row == [NewItem(job[h].item.owner, IdeaOf(job[h])) EXCEPT !.root = TRUE]
             new == Update(items["project"], job[h].made, row)
  <2>1. Doing(h, "root")
    BY <1>11 DEF WriteRoot
  <2>2. job[h].pc = "convert" /\ DOMAIN job[h] = Fields
    BY <1>8, <2>1
  <2>3. /\ items' = [items EXCEPT !["project"] = new] /\ UNCHANGED <<owner, discarded>>
        /\ Stepped(h, job[h])
    BY <1>8, <1>11, <2>1 DEF WriteRoot
  <2>4. Lists'
    BY <1>0, <2>2, <2>3, SteppedOn
  <2>5. row \in Item
    BY <1>0, <2>2, MadeOfIdea
  <2> HIDE DEF row
  <2>6. IsTable(new, Item, MaxRow)
    BY <1>0, <1>9, <2>5, TableKept DEF RowInv
  <2> HIDE DEF new
  <2> QED  BY <1>0, <1>9, <2>3, <2>4, <2>6, TableTyped
<1>12. ASSUME NEW h \in Handlers, DropSource(h) PROVE Types'
  <2> DEFINE k == job[h].kind
             new == Delete(items[k], job[h].id)
  <2>1. Doing(h, "drop")
    BY <1>12 DEF DropSource
  <2>2. job[h].pc = "convert" /\ DOMAIN job[h] = Fields /\ k \in Kinds
    BY <1>8, <1>9, <2>1
  <2>3. /\ items' = [items EXCEPT ![k] = new] /\ UNCHANGED <<owner, discarded>>
        /\ Stepped(h, job[h])
    BY <1>12 DEF DropSource
  <2>4. Lists'
    BY <1>0, <2>2, <2>3, SteppedOn
  <2>5. Shaped(items[k])
    BY <1>0, <2>2 DEF RowInv
  <2>6. IsTable(new, Item, MaxRow) /\ new.last = items[k].last
    BY <1>0, <2>2, <2>5, TableLeft, Deleted
  <2> HIDE DEF k, new
  <2> QED  BY <1>0, <1>9, <2>2, <2>3, <2>4, <2>6, TableTyped
<1>13. ASSUME NEW h \in Handlers, ReadKind(h) PROVE Types'
  <2> DEFINE next == Head(job[h].todo)
             more == IF Due(next, job[h].user) # {} THEN <<next>> ELSE <<>>
             local == [job[h] EXCEPT !.todo = Tail(@), !.found = @ \o more]
  <2>1. /\ Go(h, local) /\ UNCHANGED <<items, owner, discarded>> /\ job[h].pc = "advise"
        /\ job[h].todo # <<>>
    BY <1>13 DEF ReadKind
  <2>2. DOMAIN job[h] = Fields
    BY <1>0, <2>1 DEF Jobs, JobInv
  <2>3. job[h].todo \in Seq(Listed) /\ job[h].found \in Seq(Listed)
    BY <1>0, <2>1 DEF Lists
  <2>4. next \in Listed /\ Tail(job[h].todo) \in Seq(Listed)
    BY <2>1, <2>3
  <2>5. more \in Seq(Listed)
    BY <2>4
  <2> HIDE DEF more
  <2>6. local.todo = Tail(job[h].todo) /\ local.found = job[h].found \o more
    BY <2>2 DEF Fields
  <2>7. {local.todo, local.found} \subseteq Seq(Listed)
    BY <2>3, <2>4, <2>5, <2>6
  <2> HIDE DEF local
  <2>8. job'[h] = local /\ \A g \in Handlers \ {h} : job'[g] = job[g]
    BY <1>0, <2>1 DEF Jobs, Go
  <2>9. Lists'
    BY <1>0, <2>7, <2>8 DEF Lists
  <2> QED  BY <1>1, <2>1, <2>9
<1>14. ASSUME NEW h \in Handlers, AnswerFocus(h) PROVE Types'
  <2>1. Go(h, Idle) /\ UNCHANGED <<items, owner, discarded>>
    BY <1>14 DEF AnswerFocus
  <2>2. Lists'
    BY <1>0, <2>1, NoSnapshot DEF Idle
  <2> QED  BY <1>1, <2>1, <2>2
<1>15. CASE Crash
  <2>1. job' = [h \in Handlers |-> [pc |-> "idle"]] /\ UNCHANGED <<items, owner, discarded>>
    BY <1>15 DEF Crash, Idle
  <2>2. Lists'
    BY <2>1 DEF Lists
  <2> QED  BY <1>1, <2>1, <2>2
<1> QED
  BY <1>2, <1>3, <1>4, <1>5, <1>6, <1>7, <1>10, <1>11, <1>12, <1>13, <1>14, <1>15 DEF Next

-----------------------------------------------------------------------------
\* Ideas and jobs are right in every reachable state.
THEOREM Inductive == ASSUME Assumptions PROVE Spec => []IInv
<1>1. Init => IInv
  BY InitInv
<1>2. IInv /\ [Next]_ideaVars => IInv'
  BY NextInv
<1> QED  BY <1>1, <1>2, PTL DEF Spec

\* IdeaPipeline's TypeOK: every row is one of its kind's table, whatever was
\* inserted from what a conversion read before, and advice is about a kind.
THEOREM Typed == ASSUME Assumptions PROVE Spec => []TypeOK
<1>1. Init => IInv /\ Types
  BY InitInv, TypesBegin
<1>2. IInv /\ Types /\ [Next]_ideaVars => (IInv /\ Types)'
  BY NextInv, TypesKept
<1>3. Types => TypeOK
  BY TypesHold
<1> QED  BY <1>1, <1>2, <1>3, PTL DEF Spec

\* IdeaPipeline's IdeasAreNotLost, for every number of users, threads, ideas
\* and crashes: a conversion inserts what the idea becomes before it deletes
\* the idea, so that one of them is in the database whenever the process dies.
THEOREM NotLost == ASSUME Assumptions PROVE Spec => []IdeasAreNotLost
<1>1. IInv => IdeasAreNotLost
  BY DEF IInv
<1> QED  BY <1>1, Inductive, PTL

\* IdeaPipeline's OwnersAreKept: whoever converts, and in whatever order, what
\* an idea became belongs to the user who captured it.
THEOREM OwnersKept == ASSUME Assumptions PROVE Spec => []OwnersAreKept
<1>1. IInv => OwnersAreKept
  BY DEF IInv, RowInv, OwnersAreKept, Derived
<1> QED  BY <1>1, Inductive, PTL

\* IdeaPipeline's IdeasKept, which the run checks for two users: both at once.
THEOREM Kept == ASSUME Assumptions PROVE Spec => []IdeasKept
<1>1. IdeasAreNotLost /\ OwnersAreKept => IdeasKept
  BY DEF IdeasKept
<1> QED  BY <1>1, NotLost, OwnersKept, PTL

=============================================================================
