------------------------------ MODULE UrcHandle ------------------------------
(***************************************************************************)
(* The identifiers of the URC handlers (urc_handle.c).  An identifier is   *)
(* an int in 1..INT_MAX; the counter urc_next_id wraps from INT_MAX to 1.  *)
(***************************************************************************)
EXTENDS Integers

CONSTANT IntMax   \* INT_MAX, scaled down for model checking

ASSUME IntMaxAssumption == IntMax \in Nat \ {0}

UrcId == 1 .. IntMax

\* The successor of an identifier: wraps to 1 instead of overflowing.
NextId_NoWrap(id) == id + 1                             \* mutant: overflows
NextId_Stuck(id) == IF id < IntMax THEN id + 1 ELSE id  \* mutant: stays at INT_MAX
NextId(id) == IF id < IntMax THEN id + 1 ELSE 1

\* How many increments lead from identifier a to identifier b.
Steps(a, b) == IF b >= a THEN b - a ELSE b - a + IntMax

\* The do-while loop of _atc_urc_register steps from urc_next_id over the
\* identifiers in use and ends at the first free one, if there is one.
IsAssigned(id, used, next) ==
  /\ id \in UrcId \ used
  /\ \A free \in UrcId \ used : Steps(next, id) <= Steps(next, free)
===============================================================================
