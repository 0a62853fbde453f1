--------------------------- MODULE PaymentOrders ---------------------------
(***************************************************************************)
(* Online payment of one customer's bills: the portal requests that create *)
(* a payment order and open its trade with the provider, the callbacks     *)
(* that settle it, and the governance of a closure that closes payment     *)
(* orders before it disposes of a bill (payment-order.service.ts,          *)
(* settlePaymentOrder, subscription-return-governance.service.ts).         *)
(*                                                                         *)
(* Portal requests are no transactions: what they read before the call of  *)
(* the provider may be out of date when they write.                        *)
(***************************************************************************)
EXTENDS Naturals, FiniteSets

CONSTANTS
  Orders,      \* payment orders that can be created
  Bills,
  Governed,    \* the bills a closure governs
  Sessions,    \* portal requests, each sent once
  Amount,      \* the amount of a bill
  MaxEvents,   \* bound on what governance and finance do
  MaxFaults    \* bound on crashes and lost answers

ASSUME PaymentAssumption ==
  /\ Amount \in Nat \ {0} /\ Governed \subseteq Bills
  /\ MaxEvents \in Nat /\ MaxFaults \in Nat

VARIABLES
  orders,    \* payment_order rows
  trades,    \* what the provider holds under the order's number
  bills,     \* open amount, dispute and disposition of each bill
  credited,  \* what the payment record of an order took off each bill
  sessions,  \* portal requests
  settling,  \* orders whose settlement holds the row and waits for the bills
  governor,  \* the decision of the governance that is under way
  lost,      \* history: orders whose trade a failed request left behind
  reopened,  \* history: orders that became PENDING after they were CLOSED
  events, faults

vars == <<orders, trades, bills, credited, sessions, settling, governor, lost,
          reopened, events, faults>>

None == "none"
Active == {"CREATED", "PENDING"}
Kinds == {"dispose", "dispute", "accept", "legal"}
Nothing == [b \in Bills |-> 0]

New == [step |-> "new", order |-> None, copy |-> "stale"]
Done == [step |-> "done", order |-> None, copy |-> "stale"]
NoDecision == [step |-> "idle", kind |-> "dispose", bill |-> None, todo |-> {}, seen |-> {}]

OrderRow == [status : {None, "CREATED", "PENDING", "PAID", "CLOSED"},
             items : [Bills -> 0..Amount]]
BillRow == [remaining : 0..Amount, dispute : {None, "OPEN", "ACCEPTED", "REJECTED"},
            disposition : {None, "DISPUTED", "LEGAL"}]
SessionState == [step : {"new", "found", "calling", "created", "undo", "done"},
                 order : Orders \cup {None}, copy : {"fresh", "stale"}]
Decision == [step : {"idle", "locked", "closing"}, kind : Kinds, bill : Bills \cup {None},
             todo : SUBSET Orders, seen : SUBSET Orders]

TypeOK ==
  /\ orders \in [Orders -> OrderRow]
  /\ trades \in [Orders -> {None, "OPEN", "CLOSED", "PAID"}]
  /\ bills \in [Bills -> BillRow]
  /\ credited \in [Orders -> [Bills -> 0..Amount]]
  /\ sessions \in [Sessions -> SessionState]
  /\ settling \subseteq Orders /\ lost \subseteq Orders /\ reopened \subseteq Orders
  /\ governor \in Decision
  /\ events \in 0..MaxEvents /\ faults \in 0..MaxFaults

Init ==
  /\ orders = [o \in Orders |-> [status |-> None, items |-> Nothing]]
  /\ trades = [o \in Orders |-> None]
  /\ \E D \in SUBSET Governed :   \* the charges the customer has disputed
       bills = [b \in Bills |-> [remaining |-> Amount, disposition |-> None,
                                 dispute |-> IF b \in D THEN "OPEN" ELSE None]]
  /\ credited = [o \in Orders |-> Nothing]
  /\ sessions = [s \in Sessions |-> New]
  /\ settling = {} /\ lost = {} /\ reopened = {}
  /\ governor = NoDecision
  /\ events = 0 /\ faults = 0

Items(o) == {b \in Bills : orders[o].items[b] > 0}
ActiveOrdersOf(b) == {o \in Orders : orders[o].status \in Active /\ b \in Items(o)}

\* The portal takes no payment for a bill under dispute or legal collection.
PortalBlocked(b) == bills[b].dispute \in {"OPEN", "ACCEPTED"} \/ bills[b].disposition = "LEGAL"

\* A settlement also passes over a bill whose disposition says DISPUTED.
SettleBlocked(b) ==
  bills[b].dispute \in {"OPEN", "ACCEPTED"} \/ bills[b].disposition \in {"DISPUTED", "LEGAL"}

\* Only the transfer to legal collection holds a bill's row across steps.
LockedBills == IF governor.kind = "legal" /\ governor.step # "idle" THEN {governor.bill} ELSE {}

SetStatus(o, status) == orders' = [orders EXCEPT ![o].status = status]

\* Every update of a row changes its updatedAt: copies read before are stale.
Touched(o, ss) == [s \in Sessions |-> IF ss[s].order = o THEN [ss[s] EXCEPT !.copy = "stale"] ELSE ss[s]]

Fault == faults < MaxFaults /\ faults' = faults + 1

-----------------------------------------------------------------------------
(* Portal requests *)

Unused == CHOOSE o \in Orders : orders[o].status = None

\* Mutant: an order whose trade is open is not reused.
ReusableCreated(S) == {o \in Orders : orders[o].status = "CREATED" /\ Items(o) = S}

Reusable(S) == {o \in Orders : orders[o].status \in Active /\ Items(o) = S}

\* Create a payment order for S, or take the open one for the same bills.
Request(s, S) ==
  /\ sessions[s] = New
  /\ \A b \in S : bills[b].remaining > 0 /\ ~PortalBlocked(b)
  /\ \E o \in Orders :
       /\ sessions' = [sessions EXCEPT ![s] = [New EXCEPT !.step = "found", !.order = o]]
       /\ \/ o \in Reusable(S) /\ UNCHANGED orders
          \/ /\ Reusable(S) = {} /\ orders[o].status = None /\ o = Unused
             /\ S \cap LockedBills = {}
             /\ orders' = [orders EXCEPT ![o] =
                  [status |-> "CREATED",
                   items |-> [b \in Bills |-> IF b \in S THEN bills[b].remaining ELSE 0]]]
  /\ UNCHANGED <<trades, bills, credited, settling, governor, lost, reopened, events, faults>>

\* Pay an existing order.
Start(s, o) ==
  /\ sessions[s] = New
  /\ orders[o].status \in Active
  /\ \A b \in Items(o) : ~PortalBlocked(b)
  /\ sessions' = [sessions EXCEPT ![s] = [New EXCEPT !.step = "found", !.order = o]]
  /\ UNCHANGED <<orders, trades, bills, credited, settling, governor, lost, reopened, events, faults>>

\* refreshProviderPayment reads the row again; only PAID is turned away.
ReadOrder(s) ==
  /\ sessions[s].step = "found"
  /\ sessions' = [sessions EXCEPT ![s] =
       IF orders[sessions[s].order].status = "PAID" THEN Done
       ELSE [@ EXCEPT !.step = "calling", !.copy = "fresh"]]
  /\ UNCHANGED <<orders, trades, bills, credited, settling, governor, lost, reopened, events, faults>>

\* The provider opens, or returns, the unpaid trade of the order's number; a
\* closed or paid number is refused.
OpenTrade(s) ==
  /\ sessions[s].step = "calling"
  /\ LET o == sessions[s].order IN
       IF trades[o] \in {None, "OPEN"}
       THEN /\ trades' = [trades EXCEPT ![o] = "OPEN"]
            /\ sessions' = [sessions EXCEPT ![s].step = "created"]
       ELSE /\ sessions' = [sessions EXCEPT ![s] = Done]
            /\ UNCHANGED trades
  /\ UNCHANGED <<orders, bills, credited, settling, governor, lost, reopened, events, faults>>

\* The provider opens the trade and the answer is lost.
OpenTradeLost(s) ==
  /\ sessions[s].step = "calling"
  /\ trades[sessions[s].order] \in {None, "OPEN"}
  /\ trades' = [trades EXCEPT ![sessions[s].order] = "OPEN"]
  /\ lost' = lost \cup {sessions[s].order}
  /\ sessions' = [sessions EXCEPT ![s] = Done]
  /\ Fault
  /\ UNCHANGED <<orders, bills, credited, settling, governor, reopened, events>>

\* Under the row's lock: the row must be the one that was read.
StoreTrade(s) ==
  /\ sessions[s].step = "created"
  /\ LET o == sessions[s].order IN
       /\ o \notin settling
       /\ IF sessions[s].copy = "fresh"
          THEN /\ SetStatus(o, "PENDING")
               /\ sessions' = Touched(o, [sessions EXCEPT ![s] = Done])
               /\ reopened' = IF orders[o].status = "CLOSED" THEN reopened \cup {o} ELSE reopened
          ELSE /\ sessions' = [sessions EXCEPT ![s].step = "undo"]
               /\ UNCHANGED <<orders, reopened>>
  /\ UNCHANGED <<trades, bills, credited, settling, governor, lost, events, faults>>

\* The row changed meanwhile: close the trade again.
UndoTrade(s) ==
  /\ sessions[s].step = "undo"
  /\ trades' = [trades EXCEPT ![sessions[s].order] = IF @ = "PAID" THEN @ ELSE "CLOSED"]
  /\ sessions' = [sessions EXCEPT ![s] = Done]
  /\ UNCHANGED <<orders, bills, credited, settling, governor, lost, reopened, events, faults>>

\* The process dies, or a statement fails, with a trade in hand.
Abandon(s) ==
  /\ sessions[s].step \in {"created", "undo"}
  /\ lost' = lost \cup {sessions[s].order}
  /\ sessions' = [sessions EXCEPT ![s] = Done]
  /\ Fault
  /\ UNCHANGED <<orders, trades, bills, credited, settling, governor, reopened, events>>

-----------------------------------------------------------------------------
(* The customer pays and the provider reports it until it is handled *)

Pay(o) ==
  /\ trades[o] = "OPEN"
  /\ trades' = [trades EXCEPT ![o] = "PAID"]
  /\ UNCHANGED <<orders, bills, credited, sessions, settling, governor, lost, reopened, events, faults>>

\* Mutants: only open orders are settled; a paid order is settled again.
SettleableOpen(o) == orders[o].status \in Active
SettleableAgain(o) == orders[o].status \in Active \cup {"CLOSED", "PAID"}

\* A callback settles an open order, and one that was closed meanwhile.
Settleable(o) == orders[o].status \in Active \cup {"CLOSED"}

\* settlePaymentOrder locks the order, then waits for its bills.
Callback(o) ==
  /\ trades[o] = "PAID" /\ o \notin settling
  /\ Settleable(o)
  /\ settling' = settling \cup {o}
  /\ UNCHANGED <<orders, trades, bills, credited, sessions, governor, lost, reopened, events, faults>>

\* Mutant: what is open on the bill is not looked at.
WriteOffAsked(o, b) == IF SettleBlocked(b) THEN 0 ELSE orders[o].items[b]

WriteOff(o, b) ==
  IF SettleBlocked(b) THEN 0
  ELSE IF orders[o].items[b] <= bills[b].remaining THEN orders[o].items[b]
       ELSE bills[b].remaining

Settle(o) ==
  /\ o \in settling
  /\ Items(o) \cap LockedBills = {}
  /\ settling' = settling \ {o}
  /\ SetStatus(o, "PAID")
  /\ sessions' = Touched(o, sessions)
  /\ credited' = [credited EXCEPT ![o] = [b \in Bills |-> WriteOff(o, b)]]
  /\ bills' = [b \in Bills |-> [bills[b] EXCEPT !.remaining = @ - WriteOff(o, b)]]
  /\ UNCHANGED <<trades, governor, lost, reopened, events, faults>>

\* The transaction waited too long for a bill and is rolled back.
SettleTimeout(o) ==
  /\ o \in settling
  /\ Items(o) \cap LockedBills # {}
  /\ settling' = settling \ {o}
  /\ UNCHANGED <<orders, trades, bills, credited, sessions, governor, lost, reopened, events, faults>>

\* The process dies, or the transaction fails.
SettleFails(o) ==
  /\ o \in settling
  /\ settling' = settling \ {o}
  /\ Fault
  /\ UNCHANGED <<orders, trades, bills, credited, sessions, governor, lost, reopened, events>>

-----------------------------------------------------------------------------
(* Governance and finance *)

Decides == governor' = NoDecision

\* A decision (confirming a payment, waiving or writing off, a dispute and its
\* acceptance, the transfer to legal collection) first closes the payment
\* orders of the bill that it finds open;
\* the transfer to legal collection begins its transaction, and takes its
\* snapshot, before that.
Begin(kind, b) ==
  /\ governor = NoDecision /\ events < MaxEvents
  /\ events' = events + 1
  /\ governor' =
       IF kind = "legal"
       THEN [step |-> "locked", kind |-> kind, bill |-> b, todo |-> {}, seen |-> ActiveOrdersOf(b)]
       ELSE [step |-> "closing", kind |-> kind, bill |-> b, todo |-> ActiveOrdersOf(b), seen |-> {}]
  /\ UNCHANGED <<orders, trades, bills, credited, sessions, settling, lost, reopened, faults>>

ListOrders ==
  /\ governor.step = "locked"
  /\ governor' = [governor EXCEPT !.step = "closing", !.todo = ActiveOrdersOf(governor.bill)]
  /\ UNCHANGED <<orders, trades, bills, credited, sessions, settling, lost, reopened, events, faults>>

\* Mutant: an order is closed here only.
HasTradeNever(o) == FALSE

HasTrade(o) == orders[o].status = "PENDING"

\* Close one of the orders, its trade first, under the row's lock; a paid
\* order or trade ends the decision.
CloseOrder(o) ==
  /\ governor.step = "closing" /\ o \in governor.todo /\ o \notin settling
  /\ IF \/ orders[o].status = "PAID"
        \/ HasTrade(o) /\ trades[o] = "PAID"
     THEN Decides /\ UNCHANGED <<orders, trades, sessions>>
     ELSE /\ governor' = [governor EXCEPT !.todo = @ \ {o}]
          /\ IF orders[o].status \in Active
             THEN /\ SetStatus(o, "CLOSED")
                  /\ sessions' = Touched(o, sessions)
             ELSE UNCHANGED <<orders, sessions>>
          /\ IF HasTrade(o)
             THEN trades' = [trades EXCEPT ![o] = "CLOSED"]
             ELSE UNCHANGED trades
  /\ UNCHANGED <<bills, credited, settling, lost, reopened, events, faults>>

\* The trade is closed and the update of the order is lost.
CloseFails(o) ==
  /\ governor.step = "closing" /\ o \in governor.todo /\ o \notin settling
  /\ HasTrade(o) /\ trades[o] # "PAID"
  /\ trades' = [trades EXCEPT ![o] = "CLOSED"]
  /\ Decides
  /\ Fault
  /\ UNCHANGED <<orders, bills, credited, sessions, settling, lost, reopened, events>>

\* The transaction of the transfer took too long: it may be waiting for an
\* order whose settlement waits for the bill.
TransferTimeout ==
  /\ governor.kind = "legal" /\ governor.step # "idle"
  /\ Decides
  /\ UNCHANGED <<orders, trades, bills, credited, sessions, settling, lost, reopened, events, faults>>

\* Mutant: what was closed is not checked under the bill's lock.
ClearWithoutLook == TRUE

\* No order of the bill may be open; the transfer looks at its snapshot.
ClearOfOrders ==
  IF governor.kind = "legal" THEN governor.seen = {} ELSE ActiveOrdersOf(governor.bill) = {}

Decided(kind, bill) ==
  CASE kind = "dispose" -> [bill EXCEPT !.remaining = 0, !.disposition = None]
    [] kind = "dispute" -> [bill EXCEPT !.dispute = "OPEN"]
    [] kind = "accept" -> [bill EXCEPT !.remaining = 0, !.dispute = "ACCEPTED"]
    [] kind = "legal" -> [bill EXCEPT !.disposition = "LEGAL"]

MayDecide(kind, bill) ==
  CASE kind = "dispose" -> bill.remaining > 0 /\ bill.disposition # "LEGAL"
    [] kind = "dispute" -> bill.dispute = None
    [] kind = "accept" -> bill.dispute = "OPEN" /\ bill.remaining = Amount
    [] kind = "legal" -> bill.remaining > 0 /\ bill.disposition # "LEGAL"

Conclude ==
  /\ governor.step = "closing" /\ governor.todo = {}
  /\ LET b == governor.bill IN
       IF ClearOfOrders /\ MayDecide(governor.kind, bills[b])
       THEN bills' = [bills EXCEPT ![b] = Decided(governor.kind, @)]
       ELSE UNCHANGED bills
  /\ Decides
  /\ UNCHANGED <<orders, trades, credited, sessions, settling, lost, reopened, events, faults>>

\* What changes a bill without a look at its payment orders: the platform
\* rejects a dispute, records the disposition DISPUTED, or finance writes a
\* payment off.
WithoutClosing(b, bill) ==
  /\ events < MaxEvents /\ b \notin LockedBills
  /\ events' = events + 1
  /\ bills' = [bills EXCEPT ![b] = bill]
  /\ UNCHANGED <<orders, trades, credited, sessions, settling, governor, lost, reopened, faults>>

RejectDispute(b) ==
  /\ bills[b].dispute = "OPEN"
  /\ WithoutClosing(b, [bills[b] EXCEPT !.dispute = "REJECTED"])

RecordDisputed(b) ==
  /\ bills[b].dispute = "OPEN" /\ bills[b].disposition # "LEGAL"
  /\ WithoutClosing(b, [bills[b] EXCEPT !.disposition = "DISPUTED"])

WriteOffPayment(b, n) ==
  /\ n <= bills[b].remaining
  /\ WithoutClosing(b, [bills[b] EXCEPT !.remaining = @ - n])

-----------------------------------------------------------------------------

Session(s) ==
  \/ \E S \in (SUBSET Bills) \ {{}} : Request(s, S)
  \/ \E o \in Orders : Start(s, o)
  \/ ReadOrder(s) \/ OpenTrade(s) \/ OpenTradeLost(s)
  \/ StoreTrade(s) \/ UndoTrade(s) \/ Abandon(s)

Settlement(o) == Callback(o) \/ Settle(o) \/ SettleTimeout(o) \/ SettleFails(o)

Governance ==
  \/ \E kind \in Kinds, b \in Governed : Begin(kind, b)
  \/ ListOrders \/ TransferTimeout \/ Conclude
  \/ \E o \in Orders : CloseOrder(o) \/ CloseFails(o)
  \/ \E b \in Governed : RejectDispute(b) \/ RecordDisputed(b)
  \/ \E b \in Bills, n \in 1..Amount : WriteOffPayment(b, n)

Next ==
  \/ \E s \in Sessions : Session(s)
  \/ \E o \in Orders : Pay(o) \/ Settlement(o)
  \/ Governance

Spec == Init /\ [][Next]_vars

\* The provider repeats a report until it is handled; transactions end.
FairSpec ==
  /\ Spec
  /\ \A o \in Orders : /\ WF_vars(Callback(o)) /\ WF_vars(Settle(o))
                       /\ WF_vars(SettleTimeout(o)) /\ WF_vars(CloseOrder(o))
  /\ WF_vars(ListOrders) /\ WF_vars(TransferTimeout) /\ WF_vars(Conclude)
  /\ \A s \in Sessions : /\ WF_vars(ReadOrder(s)) /\ WF_vars(OpenTrade(s))
                         /\ WF_vars(StoreTrade(s)) /\ WF_vars(UndoTrade(s))

-----------------------------------------------------------------------------
(* Properties *)

\* The money of each order is booked once, every bill is credited what was
\* asked or what is open, and a held bill nothing (settlePaymentOrder).
Account == INSTANCE BillAccount WITH
  asked <- [o \in Orders |-> orders[o].items],
  paid <- {o \in Orders : orders[o].status = "PAID"},
  remaining <- [b \in Bills |-> bills[b].remaining],
  held <- {b \in Bills : SettleBlocked(b)}
FollowsAccount == Account!Spec

\* A trade the customer can still pay belongs to an open order, or a request
\* is about to deal with it, unless a crash or a lost answer left it behind
\* (closeActivePaymentOrdersForBills against refreshProviderPayment).
Dealing(s, o) == sessions[s].order = o /\ sessions[s].step \in {"created", "undo"}
OpenTradeHasOwner ==
  \A o \in Orders :
    trades[o] = "OPEN" =>
      \/ orders[o].status = "PENDING"
      \/ o \in lost
      \/ \E s \in Sessions : Dealing(s, o)

\* The customer cannot be asked twice for the same bills: two open orders do
\* not cover the same bills, unless one was reopened by a late request
\* (createPortalPaymentOrder).
OneOrderPerBills ==
  \A o, p \in Orders :
    o # p /\ {orders[o].status, orders[p].status} \subseteq Active /\ Items(o) = Items(p)
      => o \in reopened \/ p \in reopened

\* Under dispute or legal collection a bill has no open payment order, unless
\* a late request reopened it (assertNoActivePaymentOrders and the lock on the
\* bill in createPortalPaymentOrder).
BlockedBillHasNoOrder ==
  \A b \in Bills : PortalBlocked(b) => ActiveOrdersOf(b) \subseteq reopened

\* Money paid to the provider reaches the order, whatever happened to the
\* order meanwhile (handleCallback).
PaidTradeIsBooked == \A o \in Orders : trades[o] = "PAID" ~> orders[o].status = "PAID"
=============================================================================
