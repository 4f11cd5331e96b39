---------------------------- MODULE SqliteStore ----------------------------
(***************************************************************************)
(* The tables of modules/persistence/sqlite_store.py, over which the       *)
(* repositories of users, groups, agents, prompts, tools and ideas are     *)
(* written. Every call holds the store's lock, so it is one step of the    *)
(* modules that use these operators; several calls in a row are not.       *)
(*                                                                         *)
(* A table is the function from the ids present to their rows, with the    *)
(* largest id that was ever handed out (AUTOINCREMENT).                    *)
(***************************************************************************)
EXTENDS Naturals, FiniteSets

EmptyTable == [rows |-> [id \in {} |-> id], last |-> 0]

Ids(table) == DOMAIN table.rows

\* Mutant: without AUTOINCREMENT the id of a deleted last row is handed out again.
InsertReusing(table, row) ==
  LET new == CHOOSE n \in 1 .. table.last + 1 :
               \A id \in Ids(table) : id < n /\ (n > 1 => n - 1 \in Ids(table))
  IN  [rows |-> [id \in Ids(table) \cup {new} |->
                   IF id = new THEN row ELSE table.rows[id]],
       last |-> IF new > table.last THEN new ELSE table.last]

Insert(table, row) ==
  [rows |-> [id \in Ids(table) \cup {table.last + 1} |->
               IF id = table.last + 1 THEN row ELSE table.rows[id]],
   last |-> table.last + 1]

\* Mutant: INSERT OR REPLACE where the code has UPDATE.
Upsert(table, id, row) ==
  [table EXCEPT !.rows = [other \in Ids(table) \cup {id} |->
                            IF other = id THEN row ELSE table.rows[other]]]

\* An update of a row that is gone writes nothing and raises nothing.
Update(table, id, row) ==
  IF id \in Ids(table) THEN [table EXCEPT !.rows[id] = row] ELSE table

Delete(table, id) ==
  [table EXCEPT !.rows = [other \in Ids(table) \ {id} |-> table.rows[other]]]

\* The ids of a SELECT, and the first row of one, 0 if there is none: rows
\* come in the order of their ids.
Find(table, Matches(_)) == {id \in Ids(table) : Matches(table.rows[id])}

First(table, Matches(_)) ==
  LET found == Find(table, Matches)
  IN  IF found = {} THEN 0
      ELSE CHOOSE id \in found : \A other \in found : id <= other

IsTable(table, Row, maxId) ==
  /\ table.last \in 0 .. maxId
  /\ Ids(table) \subseteq 1 .. table.last
  /\ \A id \in Ids(table) : table.rows[id] \in Row

=============================================================================
