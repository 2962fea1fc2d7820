------------------------ MODULE MCOrderPlacementReports ------------------------
(* OrderPlacementReports for TLC: one order, and every report there is. *)
EXTENDS OrderPlacementReports, TLC

CONSTANTS o1, t1

Due == o1 :> 2
AllReports == {CREDIT_APPROVAL} \X CreditStatus \union {PAYMENT} \X PaymentStatus
===============================================================================
