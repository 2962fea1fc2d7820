---------------------------- MODULE AtomicPurchase ----------------------------
(***************************************************************************)
(* What placing orders is worth to the customer and to the shop, with no   *)
(* service, message or retry in sight: credit is reserved for an order     *)
(* before it is accepted, an order is refused only with its credit given   *)
(* back, and the decision on an order is final.                            *)
(***************************************************************************)
EXTENDS Integers

CONSTANTS Orders, due

VARIABLES
  decision,     \* [Orders -> "none" / "open" / "accepted" / "refused"]
  reserved,     \* the orders that hold credit
  available     \* the credit that is left

purchaseVars == <<decision, reserved, available>>

PurchaseInit ==
  /\ decision = [o \in Orders |-> "none"]
  /\ reserved = {}
  /\ available \in Nat

Decide(o, from, to) ==
  /\ decision[o] = from
  /\ decision' = [decision EXCEPT ![o] = to]
  /\ UNCHANGED <<reserved, available>>

Place(o)  == Decide(o, "none", "open")
Accept(o) == o \in reserved /\ Decide(o, "open", "accepted")
Refuse(o) == o \notin reserved /\ Decide(o, "open", "refused")

Reserve(o) ==
  /\ decision[o] = "open" /\ o \notin reserved
  /\ due[o] < available
  /\ reserved' = reserved \union {o}
  /\ available' = available - due[o]
  /\ UNCHANGED decision

GiveBack(o) ==
  /\ decision[o] = "open" /\ o \in reserved
  /\ reserved' = reserved \ {o}
  /\ available' = available + due[o]
  /\ UNCHANGED decision

PurchaseNext ==
  \E o \in Orders : Place(o) \/ Reserve(o) \/ GiveBack(o) \/ Accept(o) \/ Refuse(o)

PurchaseSpec == PurchaseInit /\ [][PurchaseNext]_purchaseVars
===============================================================================
