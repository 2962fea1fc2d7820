----------------------- MODULE MCOrderPlacementRestarts -----------------------
(* OrderPlacementRestarts for TLC. *)
EXTENDS OrderPlacementRestarts, TLC

CONSTANTS o1, o2, o3, t1, t2

\* Amounts that leave room to grant an order its credit again.
OneDue == o1 :> 3
TwoDue == (o1 :> 2) @@ (o2 :> 2) @@ (o3 :> 2)

\* Of the orders whose customer is known only one is placed, whichever it is.
Placed(s)   == \E r \in requests : r.saga = s
OneIsPlaced == Cardinality({s \in Sagas \ UnknownCustomer : Placed(s)}) <= 1

OneOrderSpec ==
  RestartsInit /\ [][RestartsNext /\ OneIsPlaced']_restartVars /\ RestartsFairness
===============================================================================
