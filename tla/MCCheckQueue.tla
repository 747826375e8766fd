--------------------------- MODULE MCCheckQueue ---------------------------
(***************************************************************************)
(* Model values for CheckQueue: two script-check workers and a handful of  *)
(* checks that are added again in every session.                           *)
(***************************************************************************)
EXTENDS CheckQueue, TLC

\* Checks are interchangeable: it is enough to add them in one order.
InOrder == added' = 1..Cardinality(added')
=============================================================================
