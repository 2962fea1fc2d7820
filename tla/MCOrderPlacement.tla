--------------------------- MODULE MCOrderPlacement ---------------------------
(* OrderPlacement for TLC: the orders and their amounts. *)
EXTENDS OrderPlacement, TLC

CONSTANTS o1, o2, t1, t2

\* Either order fits the limit of 5 alone; the two together do not.
CompetingDue == (o1 :> 3) @@ (o2 :> 2)

===============================================================================
