------------------------------- MODULE PqCodes -------------------------------
(***************************************************************************)
(* PqTable::load_codes of src/serving/pq_table.hpp: the code rows are read *)
(* in old-id order and permuted in place, cycle by cycle, with one row of  *)
(* scratch space.  A row is modelled by the old id it belongs to.          *)
(***************************************************************************)
EXTENDS Naturals, FiniteSets, Functions

CONSTANTS
  Rows,      \* rows of the table
  IdMaps     \* the new_to_old maps considered

RowIds == 0 .. Rows - 1

\* A map may point outside the table, but not send two new ids to one old id:
\* the cycle walk returns to its start only in a map that is one to one.
ASSUME CodesConstants ==
  /\ Rows \in Nat \ {0}
  /\ \A f \in IdMaps : f \in [RowIds -> Nat] /\ IsInjective(f)

VARIABLES
  new_to_old,
  codes,     \* row -> old id whose code it holds
  seen,      \* rows marked
  start,     \* i: start of the cycle
  cur,       \* the row being filled
  tmp,       \* the saved row
  step       \* where load_codes is

codesVars == <<new_to_old, codes, seen, start, cur, tmp, step>>

CodesInit ==
  /\ new_to_old \in IdMaps
  /\ codes = [k \in RowIds |-> k]
  /\ seen = {} /\ start = 0 /\ cur = 0 /\ tmp = 0
  /\ step = "read"

\* The file is missing, short or of another chunk count; or it is read, with a
\* map of its size to apply, or without one: then the rows keep their order.
Reads ==
  /\ step = "read"
  /\ step' \in {"false", "outer", "unmapped"}
  /\ UNCHANGED <<new_to_old, codes, seen, start, cur, tmp>>

Marked(s, k) == s \cup {k}

\* The outer loop: past the last row, at a marked row, or at the first row of a
\* cycle, which is saved.
CyclesEnd == start = Rows /\ step' = "true" /\ UNCHANGED <<start, cur, tmp>>
Skips == start \in seen /\ start' = start + 1 /\ UNCHANGED <<cur, tmp, step>>
Saves ==
  /\ start < Rows /\ start \notin seen
  /\ cur' = start /\ tmp' = codes[start] /\ step' = "walk" /\ UNCHANGED start

Outer ==
  /\ step = "outer"
  /\ CyclesEnd \/ Skips \/ Saves
  /\ UNCHANGED <<new_to_old, codes, seen>>

\* Mutant: an id outside the table ends the cycle.
BadId_ends(src) ==
  /\ src >= Rows
  /\ codes' = [codes EXCEPT ![cur] = tmp] /\ start' = start + 1 /\ step' = "outer"
  /\ UNCHANGED cur

\* A source id outside the table: the load fails.
BadId(src) == src >= Rows /\ step' = "false" /\ UNCHANGED <<codes, start, cur>>

\* The cycle is closed with the saved row.
Closes(src) ==
  /\ src = start
  /\ codes' = [codes EXCEPT ![cur] = tmp] /\ start' = start + 1 /\ step' = "outer"
  /\ UNCHANGED cur

Moves(src) ==
  /\ src < Rows /\ src # start
  /\ codes' = [codes EXCEPT ![cur] = codes[src]] /\ cur' = src
  /\ UNCHANGED <<start, step>>

Walk ==
  /\ step = "walk"
  /\ seen' = Marked(seen, cur)
  /\ LET src == new_to_old[cur] IN BadId(src) \/ Closes(src) \/ Moves(src)
  /\ UNCHANGED <<new_to_old, tmp>>

Returned == step \in {"true", "false", "unmapped"} /\ UNCHANGED codesVars

CodesNext == Reads \/ Outer \/ Walk \/ Returned
CodesSpec == CodesInit /\ [][CodesNext]_codesVars
-----------------------------------------------------------------------------
CodesTypeOK ==
  /\ new_to_old \in IdMaps /\ codes \in [RowIds -> RowIds] /\ seen \subseteq RowIds
  /\ start \in 0 .. Rows /\ cur \in RowIds /\ tmp \in RowIds
  /\ step \in {"read", "outer", "walk", "true", "false", "unmapped"}

\* After a successful load row k holds the code of the old id of k, for every
\* row: no cycle is permuted twice, cut short or started from a moved row.
Remapped == step = "true" => \A k \in RowIds : codes[k] = new_to_old[k]

\* Marked rows are final and unmarked rows untouched at every turn of the outer
\* loop: the scratch row is enough.
RowsSettled ==
  step = "outer" => \A k \in RowIds : codes[k] = IF k \in seen THEN new_to_old[k] ELSE k

(* The strengthening that makes RowsSettled inductive.                     *)

\* A marked row other than the start of the walk is the source of a marked
\* row, so a walk in a one-to-one map meets no marked row but its start.
SeenClosed == \A s \in seen : (step = "walk" /\ s = start) \/ \E k \in seen : new_to_old[k] = s

\* The walk is at an unmarked row, reached from the start by marked rows.
WalkState ==
  step = "walk" =>
    /\ start < Rows /\ cur \notin seen /\ tmp = start
    /\ cur = start \/ (start \in seen /\ \E k \in seen : new_to_old[k] = cur)

CodesInv ==
  /\ CodesTypeOK
  /\ step # "false" => \A k \in RowIds : codes[k] = IF k \in seen THEN new_to_old[k] ELSE k
  /\ step # "false" => SeenClosed
  /\ WalkState
  /\ step # "false" => \A k \in RowIds : k < start => k \in seen
  /\ step = "true" => start = Rows
==============================================================================
