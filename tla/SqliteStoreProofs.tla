------------------------- MODULE SqliteStoreProofs -------------------------
(***************************************************************************)
(* What the calls of the store do to a table, for the proofs about the     *)
(* modules that use them.                                                  *)
(***************************************************************************)
EXTENDS SqliteStore, WellFoundedInduction, TLAPS

\* A table whose ids were all handed out.
Shaped(table) ==
  /\ table = [rows |-> table.rows, last |-> table.last]
  /\ table.last \in Nat
  /\ Ids(table) \subseteq 1 .. table.last

LEMMA EmptyShaped == Shaped(EmptyTable) /\ Ids(EmptyTable) = {} /\ EmptyTable.last = 0
BY DEF Shaped, EmptyTable, Ids

\* An insertion hands out a new id and leaves the other rows alone.
LEMMA Inserted ==
  ASSUME NEW table, Shaped(table), NEW row
  PROVE  /\ Shaped(Insert(table, row))
         /\ Insert(table, row).last = table.last + 1
         /\ Ids(Insert(table, row)) = Ids(table) \cup {table.last + 1}
         /\ table.last + 1 \notin Ids(table)
         /\ Insert(table, row).rows[table.last + 1] = row
         /\ \A id \in Ids(table) : Insert(table, row).rows[id] = table.rows[id]
<1> DEFINE added == [id \in Ids(table) \cup {table.last + 1} |->
                       IF id = table.last + 1 THEN row ELSE table.rows[id]]
           new == Insert(table, row)
<1>1. new = [rows |-> added, last |-> table.last + 1]
  BY DEF Insert
<1>2. table.last \in Nat /\ table.last + 1 \notin Ids(table)
  BY DEF Shaped
<1>3. /\ DOMAIN added = Ids(table) \cup {table.last + 1} /\ added[table.last + 1] = row
      /\ \A id \in Ids(table) : added[id] = table.rows[id]
  BY <1>2
<1> HIDE DEF added
<1>4. new.rows = added /\ new.last = table.last + 1 /\ Ids(new) = DOMAIN added
  BY <1>1 DEF Ids
<1> HIDE DEF new
<1>5. Shaped(new)
  BY <1>1, <1>2, <1>3, <1>4 DEF Shaped
<1>6. /\ Shaped(new) /\ new.last = table.last + 1
      /\ Ids(new) = Ids(table) \cup {table.last + 1}
      /\ table.last + 1 \notin Ids(table)
      /\ new.rows[table.last + 1] = row
      /\ \A id \in Ids(table) : new.rows[id] = table.rows[id]
  BY <1>2, <1>3, <1>4, <1>5
<1> QED  BY <1>6 DEF new

\* An update changes one row at most, and brings none back.
LEMMA Updated ==
  ASSUME NEW table, Shaped(table), NEW id, NEW row
  PROVE  /\ Shaped(Update(table, id, row))
         /\ Update(table, id, row).last = table.last
         /\ Ids(Update(table, id, row)) = Ids(table)
         /\ id \in Ids(table) => Update(table, id, row).rows[id] = row
         /\ \A other \in Ids(table) \ {id} :
              Update(table, id, row).rows[other] = table.rows[other]
<1> DEFINE changed == [table.rows EXCEPT ![id] = row]
           new == Update(table, id, row)
<1>1. CASE id \in Ids(table)
  <2>1. /\ DOMAIN changed = Ids(table) /\ changed[id] = row
        /\ \A other \in Ids(table) \ {id} : changed[other] = table.rows[other]
    BY <1>1 DEF Ids
  <2>2. new = [rows |-> changed, last |-> table.last]
    BY <1>1 DEF Update, Shaped
  <2> HIDE DEF changed, new
  <2>3. /\ Shaped(new) /\ new.last = table.last /\ Ids(new) = Ids(table)
        /\ new.rows[id] = row
        /\ \A other \in Ids(table) \ {id} : new.rows[other] = table.rows[other]
    BY <2>1, <2>2 DEF Shaped, Ids
  <2> QED  BY <2>3 DEF new
<1>2. CASE id \notin Ids(table)
  BY <1>2 DEF Update
<1> QED  BY <1>1, <1>2

\* A deletion takes one row at most, and leaves the others alone.
LEMMA Deleted ==
  ASSUME NEW table, Shaped(table), NEW id
  PROVE  /\ Shaped(Delete(table, id))
         /\ Delete(table, id).last = table.last
         /\ Ids(Delete(table, id)) = Ids(table) \ {id}
         /\ \A other \in Ids(table) \ {id} :
              Delete(table, id).rows[other] = table.rows[other]
<1> DEFINE left == [other \in Ids(table) \ {id} |-> table.rows[other]]
           new == Delete(table, id)
<1>1. /\ DOMAIN left = Ids(table) \ {id}
      /\ \A other \in Ids(table) \ {id} : left[other] = table.rows[other]
  OBVIOUS
<1>2. new = [rows |-> left, last |-> table.last]
  BY DEF Delete, Shaped
<1> HIDE DEF left, new
<1>3. /\ Shaped(new) /\ new.last = table.last /\ Ids(new) = Ids(table) \ {id}
      /\ \A other \in Ids(table) \ {id} : new.rows[other] = table.rows[other]
  BY <1>1, <1>2 DEF Shaped, Ids
<1> QED  BY <1>3 DEF new

\* A set of numbers that is not empty has a least element.
LEMMA Least ==
  ASSUME NEW S \in SUBSET Nat, S # {}
  PROVE  \E m \in S : \A k \in S : m <= k
<1> DEFINE R == OpToRel(<, Nat)
<1>1. IsWellFoundedOn(R, Nat)
  BY NatLessThanWellFounded
<1> HIDE DEF R
<1>2. PICK m \in S : \A k \in S : <<k, m>> \notin R
  BY <1>1, WFMin
<1>3. \A k \in S : ~(k < m)
  BY <1>2 DEF R, OpToRel
<1> QED  BY <1>3

\* The first of some rows is one of them, or 0 if there is none.
LEMMA Earliest ==
  ASSUME NEW found \in SUBSET (Nat \ {0}), NEW first,
         first = IF found = {} THEN 0
                 ELSE CHOOSE id \in found : \A other \in found : id <= other
  PROVE  /\ first = 0 <=> found = {}
         /\ first # 0 => first \in found
<1>1. found # {} => \E m \in found : \A k \in found : m <= k
  BY Least
<1> QED  BY <1>1

\* The calls keep the type of a table, given rows of the right type.
LEMMA TableKept ==
  ASSUME NEW table, NEW Row, NEW max \in Nat,
         Shaped(table), IsTable(table, Row, max), NEW row \in Row, NEW id
  PROVE  /\ table.last < max => IsTable(Insert(table, row), Row, max)
         /\ IsTable(Update(table, id, row), Row, max)
<1>1. /\ table.last \in 0 .. max /\ Ids(table) \subseteq 1 .. table.last
      /\ \A other \in Ids(table) : table.rows[other] \in Row
  BY DEF IsTable
<1>2. ASSUME table.last < max PROVE IsTable(Insert(table, row), Row, max)
  BY <1>1, <1>2, Inserted DEF IsTable, Shaped
<1>3. IsTable(Update(table, id, row), Row, max)
  BY <1>1, Updated DEF IsTable, Shaped
<1> QED  BY <1>2, <1>3

LEMMA TableLeft ==
  ASSUME NEW table, NEW Row, NEW max \in Nat,
         Shaped(table), IsTable(table, Row, max), NEW id
  PROVE  IsTable(Delete(table, id), Row, max)
<1>1. /\ table.last \in 0 .. max /\ Ids(table) \subseteq 1 .. table.last
      /\ \A other \in Ids(table) : table.rows[other] \in Row
  BY DEF IsTable
<1> QED  BY <1>1, Deleted DEF IsTable, Shaped

=============================================================================
