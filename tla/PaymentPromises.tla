-------------------------- MODULE PaymentPromises --------------------------
(***************************************************************************)
(* What the repository's tests and plan say of a payment order, stated     *)
(* over PaymentOrders, whose steps contradict it.                          *)
(***************************************************************************)
EXTENDS PaymentOrders

\* An open payment order can be paid: its trade is not closed at the provider.
\* Of two requests for one order the slower finds the row changed, takes that
\* for a closing and closes the trade the faster one stored
\* (refreshProviderPayment).
OpenOrderIsPayable ==
  \A o \in Orders : orders[o].status = "PENDING" => trades[o] # "CLOSED"
=============================================================================
