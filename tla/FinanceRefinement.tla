------------------------- MODULE FinanceRefinement -------------------------
(***************************************************************************)
(* Finance implements Earnings: what counts is the settlement on record    *)
(* and the payouts marked as paid.  That a payout is covered by earnings   *)
(* is nowhere compared in the code, which reads a balance instead.         *)
(***************************************************************************)
EXTENDS Finance

\* A payment is a payout without its status.
ASSUME NoneIsNoPayment == None \notin [driver: Driver, park: Park, amount: Nat]

PaidRow(payout) ==
  IF payout # None /\ payout.status = "paid"
  THEN [driver |-> payout.driver, park |-> payout.park, amount |-> payout.amount]
  ELSE None

E == INSTANCE Earnings WITH
       done   <- {o \in Order : status[o] = "completed"},
       earned <- settled,
       paid   <- [y \in Payout |-> PaidRow(payouts[y])]

(* Whatever requests, failures and changes of commission interleave, an     *)
(* order earns once and only when it is completed, at a commission that was *)
(* set, and no sequence of payouts, created and marked in any order, takes  *)
(* more than was earned (CreateOrderSettlement, MarkDriverPayoutPaid).      *)
ImplementsEarnings == E!Spec
=============================================================================
