------------------------ MODULE PaymentOrdersProofs ------------------------
(***************************************************************************)
(* Theorems about PaymentOrders for any number of payment orders, bills,   *)
(* requests, events and faults.                                            *)
(***************************************************************************)
EXTENDS PaymentOrders, TLAPS

USE DEF New, Done, NoDecision, Nothing, None, Active, Kinds

(***************************************************************************)
(* Types                                                                   *)
(***************************************************************************)

\* A request under way has its order, a decision under way its bill.
TypeInv ==
  /\ TypeOK
  /\ Governed \subseteq Bills
  /\ \A s \in Sessions : sessions[s].step \in {"found", "calling", "created", "undo"}
                           => sessions[s].order \in Orders
  /\ governor.step # "idle" => governor.bill \in Bills

LEMMA WriteOffBound ==
  ASSUME TypeInv, NEW o \in Orders, NEW b \in Bills
  PROVE  /\ WriteOff(o, b) \in 0..Amount
         /\ bills[b].remaining - WriteOff(o, b) \in 0..Amount
BY PaymentAssumption DEF WriteOff, TypeInv, TypeOK, OrderRow, BillRow

LEMMA RecordTypes ==
  /\ New \in SessionState /\ Done \in SessionState /\ NoDecision \in Decision
  /\ \A x \in SessionState, t \in {"found", "calling", "created", "undo", "done"} :
       [x EXCEPT !.step = t] \in SessionState
  /\ \A x \in SessionState : /\ [x EXCEPT !.copy = "stale"] \in SessionState
                             /\ [x EXCEPT !.step = "calling", !.copy = "fresh"] \in SessionState
  /\ \A x \in SessionState, o \in Orders :
       [x EXCEPT !.step = "found", !.order = o] \in SessionState
  /\ \A x \in OrderRow, t \in {"CREATED", "PENDING", "PAID", "CLOSED"} :
       [x EXCEPT !.status = t] \in OrderRow
  /\ \A x \in BillRow, n \in 0..Amount : [x EXCEPT !.remaining = n] \in BillRow
  /\ \A x \in BillRow, d \in {"OPEN", "ACCEPTED", "REJECTED"} : [x EXCEPT !.dispute = d] \in BillRow
  /\ \A x \in BillRow, d \in {None, "DISPUTED", "LEGAL"} : [x EXCEPT !.disposition = d] \in BillRow
BY DEF SessionState, OrderRow, BillRow, Decision

LEMMA TypeInit == Init => TypeInv
<1> SUFFICES ASSUME Init PROVE TypeInv
  OBVIOUS
<1>1. orders \in [Orders -> OrderRow] /\ credited \in [Orders -> [Bills -> 0..Amount]]
  BY PaymentAssumption DEF Init, OrderRow
<1>2. bills \in [Bills -> BillRow]
  <2> PICK D \in SUBSET Governed :
         bills = [b \in Bills |-> [remaining |-> Amount, disposition |-> None,
                                   dispute |-> IF b \in D THEN "OPEN" ELSE None]]
    BY DEF Init
  <2> QED BY PaymentAssumption DEF BillRow
<1>3. sessions \in [Sessions -> SessionState] /\ governor \in Decision
  BY RecordTypes DEF Init
<1>4. /\ trades \in [Orders -> {None, "OPEN", "CLOSED", "PAID"}]
      /\ settling \subseteq Orders /\ lost \subseteq Orders /\ reopened \subseteq Orders
  BY DEF Init
<1>5. events \in 0..MaxEvents /\ faults \in 0..MaxFaults /\ Governed \subseteq Bills
  BY PaymentAssumption DEF Init
<1>6. /\ \A s \in Sessions : sessions[s].step = "new"
      /\ governor.step = "idle"
  BY DEF Init
<1> QED BY <1>1, <1>2, <1>3, <1>4, <1>5, <1>6 DEF TypeInv, TypeOK

LEMMA TypeSession ==
  ASSUME TypeInv, NEW s \in Sessions, Session(s)
  PROVE  TypeInv'
<1>1. ASSUME NEW S \in (SUBSET Bills) \ {{}}, Request(s, S)
      PROVE  TypeInv'
  <2> PICK o \in Orders :
        /\ sessions' = [sessions EXCEPT ![s] = [New EXCEPT !.step = "found", !.order = o]]
        /\ \/ UNCHANGED orders
           \/ orders' = [orders EXCEPT ![o] =
                 [status |-> "CREATED",
                  items |-> [b \in Bills |-> IF b \in S THEN bills[b].remaining ELSE 0]]]
    BY <1>1 DEF Request
  <2>1. sessions' \in [Sessions -> SessionState]
    BY RecordTypes DEF TypeInv, TypeOK
  <2>2. [b \in Bills |-> IF b \in S THEN bills[b].remaining ELSE 0] \in [Bills -> 0..Amount]
    BY PaymentAssumption DEF TypeInv, TypeOK, BillRow
  <2>3. orders' \in [Orders -> OrderRow]
    <3> DEFINE x == [status |-> "CREATED",
                     items |-> [b \in Bills |-> IF b \in S THEN bills[b].remaining ELSE 0]]
    <3>1. x \in OrderRow
      BY <2>2 DEF OrderRow
    <3>2. orders' = orders \/ orders' = [orders EXCEPT ![o] = x]
      OBVIOUS
    <3> HIDE DEF x
    <3> QED BY <3>1, <3>2 DEF TypeInv, TypeOK
  <2> QED BY <1>1, <2>1, <2>3 DEF TypeInv, TypeOK, Request, SessionState
<1>2. ASSUME NEW o \in Orders, Start(s, o)
      PROVE  TypeInv'
  <2>1. sessions' \in [Sessions -> SessionState]
    BY <1>2, RecordTypes DEF TypeInv, TypeOK, Start
  <2> QED BY <1>2, <2>1, PaymentAssumption DEF TypeInv, TypeOK, Start, SessionState, Decision
<1>3. CASE ReadOrder(s)
  <2>1. sessions' \in [Sessions -> SessionState]
    BY <1>3, RecordTypes DEF TypeInv, TypeOK, ReadOrder
  <2> QED BY <1>3, <2>1, PaymentAssumption DEF TypeInv, TypeOK, ReadOrder, SessionState, Decision
<1>4. CASE OpenTrade(s)
  <2>1. sessions[s] \in SessionState /\ sessions[s].order \in Orders
    BY <1>4 DEF TypeInv, TypeOK, OpenTrade
  <2>2. \/ sessions' = [sessions EXCEPT ![s].step = "created"]
        \/ sessions' = [sessions EXCEPT ![s] = Done]
    BY <1>4 DEF OpenTrade
  <2>3. sessions' \in [Sessions -> SessionState]
    BY <2>1, <2>2, RecordTypes DEF TypeInv, TypeOK
  <2>4. trades' \in [Orders -> {None, "OPEN", "CLOSED", "PAID"}]
    BY <1>4, <2>1 DEF TypeInv, TypeOK, OpenTrade
  <2>5. \A r \in Sessions : \/ sessions'[r].step = "done"
                            \/ /\ sessions'[r].order = sessions[r].order
                               /\ sessions'[r].step = "created" \/ sessions'[r] = sessions[r]
    BY <2>1, <2>2 DEF TypeInv, TypeOK, SessionState
  <2>6. UNCHANGED <<orders, bills, credited, settling, governor, lost, reopened, events, faults>>
    BY <1>4 DEF OpenTrade
  <2>7. \A r \in Sessions : sessions'[r].step = "created" => sessions'[r].order \in Orders
    BY <1>4, <2>1, <2>2 DEF TypeInv, TypeOK, SessionState
  <2> QED BY <2>3, <2>4, <2>5, <2>6, <2>7 DEF TypeInv, TypeOK
<1>5. CASE OpenTradeLost(s)
  <2>1. sessions' \in [Sessions -> SessionState]
    BY <1>5, RecordTypes DEF TypeInv, TypeOK, OpenTradeLost, Fault
  <2> QED BY <1>5, <2>1, PaymentAssumption DEF TypeInv, TypeOK, OpenTradeLost, Fault, SessionState, Decision
<1>6. CASE StoreTrade(s)
  <2> DEFINE o == sessions[s].order
  <2>1. sessions[s] \in SessionState /\ o \in Orders
    BY <1>6 DEF TypeInv, TypeOK, StoreTrade
  <2>2. CASE sessions[s].copy = "fresh"
    <3>1. /\ orders' = [orders EXCEPT ![o].status = "PENDING"]
          /\ sessions' = Touched(o, [sessions EXCEPT ![s] = Done])
          /\ reopened' \in {reopened, reopened \cup {o}}
      BY <1>6, <2>2 DEF StoreTrade, SetStatus
    <3>2. orders' \in [Orders -> OrderRow]
      BY <2>1, <3>1, RecordTypes DEF TypeInv, TypeOK
    <3>3. sessions' \in [Sessions -> SessionState]
      BY <3>1, RecordTypes DEF TypeInv, TypeOK, Touched
    <3> QED BY <1>6, <2>1, <3>1, <3>2, <3>3
            DEF TypeInv, TypeOK, StoreTrade, Touched, SessionState
  <2>3. CASE sessions[s].copy # "fresh"
    <3>1. sessions' = [sessions EXCEPT ![s].step = "undo"] /\ UNCHANGED <<orders, reopened>>
      BY <1>6, <2>3 DEF StoreTrade
    <3>2. sessions' \in [Sessions -> SessionState]
      BY <2>1, <3>1, RecordTypes DEF TypeInv, TypeOK
    <3> QED BY <1>6, <2>1, <3>1, <3>2 DEF TypeInv, TypeOK, StoreTrade, SessionState
  <2> QED BY <2>2, <2>3
<1>7. CASE UndoTrade(s)
  <2>1. sessions' \in [Sessions -> SessionState]
    BY <1>7, RecordTypes DEF TypeInv, TypeOK, UndoTrade
  <2> QED BY <1>7, <2>1, PaymentAssumption DEF TypeInv, TypeOK, UndoTrade, SessionState, Decision
<1>8. CASE Abandon(s)
  <2>1. sessions' \in [Sessions -> SessionState]
    BY <1>8, RecordTypes DEF TypeInv, TypeOK, Abandon, Fault
  <2> QED BY <1>8, <2>1, PaymentAssumption DEF TypeInv, TypeOK, Abandon, Fault, SessionState, Decision
<1> QED BY <1>1, <1>2, <1>3, <1>4, <1>5, <1>6, <1>7, <1>8 DEF Session

LEMMA TypeSettlement ==
  ASSUME TypeInv, NEW o \in Orders, Pay(o) \/ Settlement(o)
  PROVE  TypeInv'
<1>1. CASE Pay(o)
  BY <1>1, PaymentAssumption DEF TypeInv, TypeOK, Pay
<1>2. CASE Callback(o)
  BY <1>2, PaymentAssumption DEF TypeInv, TypeOK, Callback
<1>3. CASE Settle(o)
  <2>1. sessions' \in [Sessions -> SessionState]
    BY <1>3, RecordTypes, WriteOffBound DEF TypeInv, TypeOK, Settle, SetStatus, Touched
  <2>2. orders' \in [Orders -> OrderRow]
    BY <1>3, RecordTypes, WriteOffBound DEF TypeInv, TypeOK, Settle, SetStatus, Touched
  <2>3. bills' \in [Bills -> BillRow]
    BY <1>3, RecordTypes, WriteOffBound DEF TypeInv, TypeOK, Settle, SetStatus, Touched
  <2>4. credited' \in [Orders -> [Bills -> 0..Amount]]
    BY <1>3, RecordTypes, WriteOffBound DEF TypeInv, TypeOK, Settle, SetStatus, Touched
  <2> QED BY <1>3, <2>1, <2>2, <2>3, <2>4, PaymentAssumption DEF TypeInv, TypeOK, Settle, SetStatus, Touched, SessionState, Decision
<1>4. CASE SettleTimeout(o)
  BY <1>4, PaymentAssumption DEF TypeInv, TypeOK, SettleTimeout
<1>5. CASE SettleFails(o)
  BY <1>5, PaymentAssumption DEF TypeInv, TypeOK, SettleFails, Fault
<1> QED BY <1>1, <1>2, <1>3, <1>4, <1>5 DEF Settlement

LEMMA TypeGovernance ==
  ASSUME TypeInv, Governance
  PROVE  TypeInv'
<1>1. ASSUME NEW kind \in Kinds, NEW b \in Governed, Begin(kind, b)
      PROVE  TypeInv'
  <2>1. governor' \in Decision
    BY <1>1, RecordTypes DEF TypeInv, TypeOK, Begin, ActiveOrdersOf, Decision
  <2> QED BY <1>1, <2>1, PaymentAssumption DEF TypeInv, TypeOK, Begin, ActiveOrdersOf, Decision, SessionState, Decision
<1>2. CASE ListOrders
  <2>1. governor' \in Decision
    BY <1>2, RecordTypes DEF TypeInv, TypeOK, ListOrders, ActiveOrdersOf, Decision
  <2> QED BY <1>2, <2>1, PaymentAssumption DEF TypeInv, TypeOK, ListOrders, ActiveOrdersOf, Decision, SessionState, Decision
<1>3. CASE TransferTimeout
  <2>1. governor' \in Decision
    BY <1>3, RecordTypes DEF TypeInv, TypeOK, TransferTimeout, Decides
  <2> QED BY <1>3, <2>1, PaymentAssumption DEF TypeInv, TypeOK, TransferTimeout, Decides, SessionState, Decision
<1>4. CASE Conclude
  <2>1. governor' \in Decision /\ governor.bill \in Bills /\ governor.kind \in Kinds
    BY <1>4, RecordTypes DEF TypeInv, TypeOK, Conclude, Decides, Decision
  <2>2. \A x \in BillRow, kind \in Kinds : Decided(kind, x) \in BillRow
    <3> SUFFICES ASSUME NEW x \in BillRow, NEW kind \in Kinds
                 PROVE  Decided(kind, x) \in BillRow
      OBVIOUS
    <3>1. CASE kind = "dispose"
      <4>1. Decided(kind, x) = [x EXCEPT !.remaining = 0, !.disposition = None]
        BY <3>1 DEF Decided
      <4>2. 0 \in 0..Amount
        BY PaymentAssumption
      <4> QED BY <4>1, <4>2 DEF BillRow
    <3>2. CASE kind = "dispute"
      BY <3>2, RecordTypes DEF Decided
    <3>3. CASE kind = "accept"
      <4>1. Decided(kind, x) = [x EXCEPT !.remaining = 0, !.dispute = "ACCEPTED"]
        BY <3>3 DEF Decided
      <4>2. 0 \in 0..Amount
        BY PaymentAssumption
      <4> QED BY <4>1, <4>2 DEF BillRow
    <3>4. CASE kind = "legal"
      BY <3>4, RecordTypes DEF Decided
    <3> QED BY <3>1, <3>2, <3>3, <3>4
  <2>3. \/ bills' = [bills EXCEPT ![governor.bill] = Decided(governor.kind, @)]
        \/ UNCHANGED bills
    BY <1>4 DEF Conclude
  <2>4. bills' \in [Bills -> BillRow]
    BY <2>1, <2>2, <2>3 DEF TypeInv, TypeOK
  <2> QED BY <1>4, <2>1, <2>4 DEF TypeInv, TypeOK, Conclude, Decides
<1>5. ASSUME NEW o \in Orders, CloseOrder(o)
      PROVE  TypeInv'
  <2>1. \/ UNCHANGED <<orders, sessions>>
        \/ /\ orders' = [orders EXCEPT ![o].status = "CLOSED"]
           /\ sessions' = Touched(o, sessions)
    BY <1>5 DEF CloseOrder, SetStatus
  <2>2. trades' \in {trades, [trades EXCEPT ![o] = "CLOSED"]}
    BY <1>5 DEF CloseOrder
  <2>3. governor' \in {NoDecision, [governor EXCEPT !.todo = @ \ {o}]}
    BY <1>5 DEF CloseOrder, Decides
  <2>4. orders' \in [Orders -> OrderRow] /\ sessions' \in [Sessions -> SessionState]
    <3>1. CASE UNCHANGED <<orders, sessions>>
      BY <3>1 DEF TypeInv, TypeOK
    <3>2. CASE /\ orders' = [orders EXCEPT ![o].status = "CLOSED"]
               /\ sessions' = Touched(o, sessions)
      <4>1. orders' \in [Orders -> OrderRow]
        BY <3>2, RecordTypes DEF TypeInv, TypeOK
      <4>2. sessions' \in [Sessions -> SessionState]
        BY <3>2, RecordTypes DEF TypeInv, TypeOK, Touched
      <4> QED BY <4>1, <4>2
    <3> QED BY <2>1, <3>1, <3>2
  <2>5. governor' \in Decision /\ (governor'.step # "idle" => governor'.bill \in Bills)
    BY <2>3, RecordTypes DEF TypeInv, TypeOK, Decision
  <2>6. trades' \in [Orders -> {None, "OPEN", "CLOSED", "PAID"}]
    BY <2>2 DEF TypeInv, TypeOK
  <2>7. \A s \in Sessions : /\ sessions'[s].step = sessions[s].step
                            /\ sessions'[s].order = sessions[s].order
    BY <2>1 DEF TypeInv, TypeOK, Touched, SessionState
  <2> QED BY <1>5, <2>4, <2>5, <2>6, <2>7 DEF TypeInv, TypeOK, CloseOrder
<1>6. ASSUME NEW o \in Orders, CloseFails(o)
      PROVE  TypeInv'
  <2>1. governor' \in Decision
    BY <1>6, RecordTypes DEF TypeInv, TypeOK, CloseFails, Decides, Fault
  <2> QED BY <1>6, <2>1, PaymentAssumption DEF TypeInv, TypeOK, CloseFails, Decides, Fault, SessionState, Decision
<1>7. ASSUME NEW b \in Bills, NEW x \in BillRow, WithoutClosing(b, x)
      PROVE  TypeInv'
  BY <1>7, PaymentAssumption DEF TypeInv, TypeOK, WithoutClosing
<1>8. ASSUME NEW b \in Governed, RejectDispute(b) \/ RecordDisputed(b)
      PROVE  TypeInv'
  <2>1. b \in Bills /\ bills[b] \in BillRow
    BY DEF TypeInv, TypeOK
  <2>2. CASE RejectDispute(b)
    BY <1>7, <2>1, <2>2, RecordTypes DEF RejectDispute
  <2>3. CASE RecordDisputed(b)
    BY <1>7, <2>1, <2>3, RecordTypes DEF RecordDisputed
  <2> QED BY <1>8, <2>2, <2>3
<1>9. ASSUME NEW b \in Bills, NEW n \in 1..Amount, WriteOffPayment(b, n)
      PROVE  TypeInv'
  <2>1. bills[b] \in BillRow /\ bills[b].remaining - n \in 0..Amount
    BY <1>9, PaymentAssumption DEF TypeInv, TypeOK, BillRow, WriteOffPayment
  <2> QED BY <1>7, <1>9, <2>1, RecordTypes DEF WriteOffPayment
<1> QED BY <1>1, <1>2, <1>3, <1>4, <1>5, <1>6, <1>8, <1>9 DEF Governance

LEMMA TypeStep == TypeInv /\ [Next]_vars => TypeInv'
<1> SUFFICES ASSUME TypeInv, [Next]_vars
             PROVE  TypeInv'
  OBVIOUS
<1>1. CASE UNCHANGED vars
  BY <1>1 DEF TypeInv, TypeOK, vars
<1> QED BY <1>1, TypeSession, TypeSettlement, TypeGovernance DEF Next

\* All variables of PaymentOrders keep their types; in particular no bill and
\* no credit ever becomes negative or exceeds the bill.
THEOREM PaymentTypeCorrect == Spec => []TypeOK
<1>1. TypeInv => TypeOK
  BY DEF TypeInv
<1> QED BY <1>1, TypeInit, TypeStep, PTL DEF Spec

(***************************************************************************)
(* The inductive invariant of the safety properties                        *)
(***************************************************************************)

\* A settlement under way has the money of an order that is not paid yet.
SettlingInv ==
  \A o \in settling : orders[o].status \in Active \cup {"CLOSED"} /\ trades[o] = "PAID"

\* An order that was not created asks for nothing.
RowsInv == \A o \in Orders : orders[o].status = None => orders[o].items = Nothing

\* A request deals with an order that exists; while its copy is up to date the
\* order is not paid.
CopyInv ==
  \A s \in Sessions :
    /\ sessions[s].step \in {"found", "calling", "created", "undo"}
         => orders[sessions[s].order].status # None
    /\ sessions[s].copy = "fresh"
         => /\ sessions[s].step \in {"calling", "created"}
            /\ orders[sessions[s].order].status # "PAID"

\* While the transfer to legal collection holds the bill, no order of it is
\* created: those that are open were in its snapshot, or were reopened.
LegalInv ==
  governor.kind = "legal" /\ governor.step # "idle" =>
    ActiveOrdersOf(governor.bill) \subseteq governor.seen \cup reopened

PInv ==
  /\ TypeInv /\ SettlingInv /\ RowsInv /\ CopyInv /\ LegalInv
  /\ OpenTradeHasOwner /\ OneOrderPerBills /\ BlockedBillHasNoOrder

(***************************************************************************)
(* What a step does to the orders                                          *)
(***************************************************************************)

Kept(p) ==
  /\ orders'[p].items = orders[p].items
  /\ \/ orders'[p].status = orders[p].status
     \/ orders'[p].status \in Active /\ orders[p].status \in Active
     \/ orders'[p].status = "PENDING" /\ orders[p].status = "CLOSED" /\ p \in reopened'
     \/ orders'[p].status = "CLOSED" /\ orders[p].status \in Active /\ p \notin settling
     \/ orders'[p].status = "PAID" /\ p \in settling /\ p \notin settling'

Written(o, S) ==
  /\ orders[o].status = None /\ S # {} /\ Reusable(S) = {} /\ S \cap LockedBills = {}
  /\ \A b \in S : bills[b].remaining > 0 /\ ~PortalBlocked(b)
  /\ orders' = [orders EXCEPT ![o] =
       [status |-> "CREATED",
        items |-> [b \in Bills |-> IF b \in S THEN bills[b].remaining ELSE 0]]]
  /\ UNCHANGED <<trades, bills, credited, settling, governor, lost, reopened>>

LEMMA OrderStep ==
  ASSUME PInv, [Next]_vars
  PROVE  /\ reopened \subseteq reopened'
         /\ \/ \A p \in Orders : Kept(p)
            \/ \E o \in Orders, S \in SUBSET Bills : Written(o, S)
<1> DEFINE Goal == /\ reopened \subseteq reopened'
                   /\ \/ \A p \in Orders : Kept(p)
                      \/ \E o \in Orders, S \in SUBSET Bills : Written(o, S)
<1>0. orders \in [Orders -> OrderRow] /\ settling \subseteq Orders
  BY DEF PInv, TypeInv, TypeOK
<1>1. ASSUME UNCHANGED <<orders, reopened>> PROVE Goal
  BY <1>1 DEF Kept
<1>2. ASSUME NEW o \in Orders, NEW st \in {"PENDING", "CLOSED", "PAID"},
             orders' = [orders EXCEPT ![o].status = st], reopened \subseteq reopened',
             \/ st = "PENDING" /\ (orders[o].status \in Active \/ (orders[o].status = "CLOSED" /\ o \in reopened'))
             \/ st = "CLOSED" /\ orders[o].status \in Active /\ o \notin settling
             \/ st = "PAID" /\ o \in settling /\ o \notin settling'
      PROVE  Goal
  <2>1. \A p \in Orders \ {o} : orders'[p] = orders[p]
    BY <1>0, <1>2
  <2>2. orders'[o].items = orders[o].items /\ orders'[o].status = st
    BY <1>0, <1>2 DEF OrderRow
  <2>3. Kept(o)
    BY <1>2, <2>2 DEF Kept
  <2> QED BY <1>2, <2>1, <2>3 DEF Kept
<1>3. ASSUME NEW s \in Sessions, NEW S \in (SUBSET Bills) \ {{}}, Request(s, S) PROVE Goal
  <2>1. CASE UNCHANGED orders
    BY <1>1, <1>3, <2>1 DEF Request
  <2>2. CASE ~UNCHANGED orders
    <3>1. PICK o \in Orders :
            /\ Reusable(S) = {} /\ orders[o].status = None
            /\ S \cap LockedBills = {}
            /\ orders' = [orders EXCEPT ![o] =
                 [status |-> "CREATED",
                  items |-> [b \in Bills |-> IF b \in S THEN bills[b].remaining ELSE 0]]]
      BY <1>3, <2>2 DEF Request
    <3>2. /\ \A b \in S : bills[b].remaining > 0 /\ ~PortalBlocked(b)
          /\ UNCHANGED <<trades, bills, credited, settling, governor, lost, reopened>>
          /\ S # {} /\ S \in SUBSET Bills
      BY <1>3 DEF Request
    <3>3. Written(o, S)
      BY <3>1, <3>2 DEF Written
    <3> QED BY <3>2, <3>3
  <2> QED BY <2>1, <2>2
<1>4. ASSUME NEW s \in Sessions, StoreTrade(s) PROVE Goal
  <2> DEFINE o == sessions[s].order
  <2>1. CASE sessions[s].copy = "fresh"
    <3>1. o \in Orders /\ orders[o].status \notin {"PAID", None}
      BY <2>1 DEF PInv, CopyInv, TypeInv
    <3>2. orders[o].status \in Active \cup {"CLOSED"}
      BY <1>0, <3>1 DEF OrderRow
    <3>3. /\ orders' = [orders EXCEPT ![o].status = "PENDING"]
          /\ reopened' = IF orders[o].status = "CLOSED" THEN reopened \cup {o} ELSE reopened
      BY <1>4, <2>1 DEF StoreTrade, SetStatus
    <3> HIDE DEF o
    <3> QED BY <1>2, <3>1, <3>2, <3>3
  <2>2. CASE sessions[s].copy # "fresh"
    BY <1>1, <1>4, <2>2 DEF StoreTrade
  <2> QED BY <2>1, <2>2
<1>5. ASSUME NEW s \in Sessions, Session(s) PROVE Goal
  BY <1>1, <1>3, <1>4, <1>5
     DEF Session, Start, ReadOrder, OpenTrade, OpenTradeLost, UndoTrade, Abandon
<1>6. ASSUME NEW o \in Orders, Settle(o) PROVE Goal
  <2>1. /\ orders' = [orders EXCEPT ![o].status = "PAID"] /\ o \in settling /\ o \notin settling'
        /\ reopened' = reopened
    BY <1>6 DEF Settle, SetStatus
  <2> QED BY <1>2, <2>1
<1>7. ASSUME NEW o \in Orders, CloseOrder(o) PROVE Goal
  <2>1. reopened' = reopened
    BY <1>7 DEF CloseOrder
  <2>2. CASE UNCHANGED orders
    BY <1>1, <2>1, <2>2
  <2>3. CASE ~UNCHANGED orders
    <3>1. orders' = [orders EXCEPT ![o].status = "CLOSED"] /\ orders[o].status \in Active
          /\ o \notin settling
      BY <1>7, <2>3 DEF CloseOrder, SetStatus
    <3> QED BY <1>2, <2>1, <3>1
  <2> QED BY <2>2, <2>3
<1>8. ASSUME NEW o \in Orders, Pay(o) \/ Settlement(o) PROVE Goal
  BY <1>1, <1>6, <1>8 DEF Pay, Settlement, Callback, SettleTimeout, SettleFails
<1>9. ASSUME Governance PROVE Goal
  BY <1>1, <1>7, <1>9 DEF Governance, Begin, ListOrders, TransferTimeout, Conclude, CloseFails,
     RejectDispute, RecordDisputed, WriteOffPayment, WithoutClosing
<1> QED BY <1>1, <1>5, <1>8, <1>9 DEF Next, vars

LEMMA RowsNext ==
  ASSUME PInv, [Next]_vars
  PROVE  RowsInv'
<1>0. orders \in [Orders -> OrderRow] /\ settling \subseteq Orders
  BY DEF PInv, TypeInv, TypeOK
<1>1. CASE \A p \in Orders : Kept(p)
  <2> SUFFICES ASSUME NEW p \in Orders, orders'[p].status = None PROVE orders'[p].items = Nothing
    BY DEF RowsInv
  <2>1. orders[p].status = None /\ orders'[p].items = orders[p].items
    BY <1>1 DEF Kept
  <2> QED BY <2>1 DEF PInv, RowsInv
<1>2. ASSUME NEW o \in Orders, NEW S \in SUBSET Bills, Written(o, S) PROVE RowsInv'
  <2>1. orders'[o].status = "CREATED" /\ \A p \in Orders \ {o} : orders'[p] = orders[p]
    BY <1>0, <1>2 DEF Written
  <2> QED BY <2>1 DEF PInv, RowsInv
<1> QED BY <1>1, <1>2, OrderStep

\* The bills that an order which has just been created asks for.
LEMMA WrittenItems ==
  ASSUME PInv, NEW o \in Orders, NEW S \in SUBSET Bills, Written(o, S)
  PROVE  /\ Items(o)' = S /\ orders'[o].status = "CREATED"
         /\ \A p \in Orders \ {o} : orders'[p] = orders[p] /\ Items(p)' = Items(p)
<1>0. orders \in [Orders -> OrderRow] /\ bills \in [Bills -> BillRow]
  BY DEF PInv, TypeInv, TypeOK
<1>1. /\ orders'[o].status = "CREATED"
      /\ orders'[o].items = [b \in Bills |-> IF b \in S THEN bills[b].remaining ELSE 0]
      /\ \A p \in Orders \ {o} : orders'[p] = orders[p]
  BY <1>0 DEF Written
<1>2. \A b \in Bills : orders'[o].items[b] > 0 <=> b \in S
  <2>1. \A b \in S : bills[b].remaining > 0
    BY DEF Written
  <2> QED BY <1>1, <2>1
<1> QED BY <1>1, <1>2 DEF Items

LEMMA OneOrderNext ==
  ASSUME PInv, [Next]_vars
  PROVE  OneOrderPerBills'
<1> SUFFICES ASSUME NEW o \in Orders, NEW p \in Orders, o # p,
                    orders'[o].status \in Active, orders'[p].status \in Active,
                    Items(o)' = Items(p)', o \notin reopened', p \notin reopened'
             PROVE  FALSE
  BY DEF OneOrderPerBills
<1>1. CASE \A q \in Orders : Kept(q)
  <2>1. orders[o].status \in Active /\ orders[p].status \in Active
    BY <1>1 DEF Kept
  <2>2. Items(o) = Items(p)
    BY <1>1 DEF Kept, Items
  <2> QED BY <2>1, <2>2, OrderStep DEF PInv, OneOrderPerBills
<1>2. ASSUME NEW q \in Orders, NEW S \in SUBSET Bills, Written(q, S) PROVE FALSE
  <2>1. /\ Items(q)' = S
        /\ \A r \in Orders \ {q} : orders'[r] = orders[r] /\ Items(r)' = Items(r)
    BY <1>2, WrittenItems
  <2>2. \A r \in Orders : ~(orders[r].status \in Active /\ Items(r) = S)
    BY <1>2 DEF Written, Reusable
  <2>3. o # q /\ p # q
    BY <2>1, <2>2
  <2> QED BY <2>1, <2>3, OrderStep DEF PInv, OneOrderPerBills
<1> QED BY <1>1, <1>2, OrderStep

\* The open orders of a bill: a step adds one only by creating or reopening it.
LEMMA OpenOrdersNext ==
  ASSUME PInv, [Next]_vars, NEW b \in Bills
  PROVE  \/ ActiveOrdersOf(b)' \subseteq ActiveOrdersOf(b) \cup reopened'
         \/ \E o \in Orders, S \in SUBSET Bills : Written(o, S) /\ b \in S
<1>1. CASE \A q \in Orders : Kept(q)
  BY <1>1 DEF Kept, ActiveOrdersOf, Items
<1>2. ASSUME NEW q \in Orders, NEW S \in SUBSET Bills, Written(q, S), b \notin S
      PROVE  ActiveOrdersOf(b)' \subseteq ActiveOrdersOf(b) \cup reopened'
  <2>1. /\ Items(q)' = S
        /\ \A r \in Orders \ {q} : orders'[r] = orders[r] /\ Items(r)' = Items(r)
    BY <1>2, WrittenItems
  <2> QED BY <1>2, <2>1 DEF ActiveOrdersOf
<1> QED BY <1>1, <1>2, OrderStep

LEMMA SettlingNext ==
  ASSUME PInv, [Next]_vars
  PROVE  SettlingInv'
<1> SUFFICES ASSUME NEW o \in Orders, o \in settling'
             PROVE  orders'[o].status \in Active \cup {"CLOSED"} /\ trades'[o] = "PAID"
  <2>1. TypeInv'
    BY TypeStep DEF PInv
  <2> QED BY <2>1 DEF SettlingInv, TypeInv, TypeOK
<1>0. /\ orders \in [Orders -> OrderRow] /\ settling \subseteq Orders
      /\ trades \in [Orders -> {None, "OPEN", "CLOSED", "PAID"}]
  BY DEF PInv, TypeInv, TypeOK
<1>1. /\ o \in settling \/ Callback(o)
      /\ \A p \in Orders : trades[p] = "PAID" => trades'[p] = "PAID"
  <2>1. ASSUME NEW s \in Sessions, Session(s)
        PROVE  settling' = settling /\ \A p \in Orders : trades[p] = "PAID" => trades'[p] = "PAID"
    BY <1>0, <2>1 DEF Session, Request, Start, ReadOrder, OpenTrade, OpenTradeLost, StoreTrade,
                      UndoTrade, Abandon
  <2>2. ASSUME NEW p \in Orders, Pay(p) \/ Settlement(p)
        PROVE  /\ settling' \subseteq settling \/ (settling' = settling \cup {p} /\ Callback(p))
               /\ \A q \in Orders : trades[q] = "PAID" => trades'[q] = "PAID"
    BY <1>0, <2>2 DEF Pay, Settlement, Callback, Settle, SettleTimeout, SettleFails
  <2>3. ASSUME Governance
        PROVE  settling' = settling /\ \A p \in Orders : trades[p] = "PAID" => trades'[p] = "PAID"
    <3>1. ASSUME NEW p \in Orders, CloseOrder(p)
          PROVE  settling' = settling /\ \A q \in Orders : trades[q] = "PAID" => trades'[q] = "PAID"
      BY <1>0, <3>1 DEF CloseOrder
    <3>2. ASSUME NEW p \in Orders, CloseFails(p)
          PROVE  settling' = settling /\ \A q \in Orders : trades[q] = "PAID" => trades'[q] = "PAID"
      BY <1>0, <3>2 DEF CloseFails
    <3> QED BY <2>3, <3>1, <3>2 DEF Governance, Begin, ListOrders, TransferTimeout, Conclude,
               RejectDispute, RecordDisputed, WriteOffPayment, WithoutClosing
  <2>4. CASE UNCHANGED vars
    BY <2>4 DEF vars
  <2>5. CASE \E s \in Sessions : Session(s)
    BY <2>1, <2>5
  <2>6. CASE \E p \in Orders : Pay(p) \/ Settlement(p)
    BY <2>2, <2>6
  <2>7. CASE Governance
    BY <2>3, <2>7
  <2> QED BY <2>4, <2>5, <2>6, <2>7 DEF Next
<1>2. CASE Callback(o)
  BY <1>2 DEF Callback, Settleable
<1>3. CASE o \in settling
  <2>1. orders[o].status \in Active \cup {"CLOSED"} /\ trades[o] = "PAID"
    BY <1>3 DEF PInv, SettlingInv
  <2>2. CASE \A q \in Orders : Kept(q)
    <3>1. Kept(o)
      BY <2>2
    <3> QED BY <1>1, <2>1, <3>1 DEF Kept
  <2>3. ASSUME NEW q \in Orders, NEW S \in SUBSET Bills, Written(q, S)
        PROVE  orders'[o].status \in Active \cup {"CLOSED"}
    BY <2>1, <2>3, WrittenItems DEF Written
  <2> QED BY <1>1, <2>1, <2>2, <2>3, OrderStep DEF Kept
<1> QED BY <1>1, <1>2, <1>3

LEMMA CopyNext ==
  ASSUME PInv, [Next]_vars
  PROVE  CopyInv'
<1>0. /\ orders \in [Orders -> OrderRow] /\ sessions \in [Sessions -> SessionState]
      /\ \A s \in Sessions : sessions[s].step \in {"found", "calling", "created", "undo"}
                               => sessions[s].order \in Orders
      /\ CopyInv
  BY DEF PInv, TypeInv, TypeOK
<1>1. \A p \in Orders : orders[p].status # None => orders'[p].status # None
  <2>1. CASE \A q \in Orders : Kept(q)
    BY <2>1 DEF Kept
  <2>2. ASSUME NEW q \in Orders, NEW S \in SUBSET Bills, Written(q, S)
        PROVE  \A p \in Orders : orders[p].status # None => orders'[p].status # None
    BY <2>2, WrittenItems
  <2> QED BY <2>1, <2>2, OrderStep
\* A step that pays no order and starts no request at most outdates copies.
<1>2. ASSUME \A s \in Sessions : \/ sessions'[s] = sessions[s]
                                  \/ sessions'[s] = [sessions[s] EXCEPT !.copy = "stale"]
                                  \/ sessions'[s] = Done,
             \A p \in Orders : orders'[p].status = "PAID" => orders[p].status = "PAID"
      PROVE  CopyInv'
  <2> SUFFICES ASSUME NEW s \in Sessions
               PROVE  /\ sessions'[s].step \in {"found", "calling", "created", "undo"}
                           => orders'[sessions'[s].order].status # None
                      /\ sessions'[s].copy = "fresh"
                           => /\ sessions'[s].step \in {"calling", "created"}
                              /\ orders'[sessions'[s].order].status # "PAID"
    BY DEF CopyInv
  <2>1. CASE sessions'[s] = sessions[s]
    BY <1>0, <1>1, <1>2, <2>1 DEF CopyInv
  <2>2. CASE sessions'[s] = [sessions[s] EXCEPT !.copy = "stale"]
    <3>1. /\ sessions'[s].step = sessions[s].step /\ sessions'[s].order = sessions[s].order
          /\ sessions'[s].copy = "stale"
      BY <1>0, <2>2 DEF SessionState
    <3> QED BY <1>0, <1>1, <3>1 DEF CopyInv
  <2>3. CASE sessions'[s] = Done
    BY <2>3
  <2> QED BY <1>2, <2>1, <2>2, <2>3
<1>3. ASSUME NEW s \in Sessions, NEW S \in (SUBSET Bills) \ {{}}, Request(s, S)
      PROVE  CopyInv'
  <2>1. PICK o \in Orders :
          /\ sessions' = [sessions EXCEPT ![s] = [New EXCEPT !.step = "found", !.order = o]]
          /\ \/ o \in Reusable(S) /\ UNCHANGED orders
             \/ /\ orders[o].status = None
                /\ orders' = [orders EXCEPT ![o] =
                     [status |-> "CREATED",
                      items |-> [b \in Bills |-> IF b \in S THEN bills[b].remaining ELSE 0]]]
    BY <1>3 DEF Request
  <2>2. orders'[o].status \in Active
        /\ \A p \in Orders : orders'[p].status = "PAID" => orders[p].status = "PAID"
    <3>1. CASE o \in Reusable(S) /\ UNCHANGED orders
      BY <3>1 DEF Reusable
    <3>2. CASE orders' = [orders EXCEPT ![o] =
                 [status |-> "CREATED",
                  items |-> [b \in Bills |-> IF b \in S THEN bills[b].remaining ELSE 0]]]
      BY <1>0, <3>2
    <3> QED BY <2>1, <3>1, <3>2
  <2>3. sessions'[s].step = "found" /\ sessions'[s].copy = "stale" /\ sessions'[s].order = o
    BY <1>0, <2>1
  <2>4. \A r \in Sessions \ {s} : sessions'[r] = sessions[r]
    BY <1>0, <2>1
  <2> QED BY <1>0, <1>1, <2>2, <2>3, <2>4 DEF CopyInv
<1>4. ASSUME NEW s \in Sessions, NEW o \in Orders, Start(s, o) PROVE CopyInv'
  <2>1. sessions' = [sessions EXCEPT ![s] = [New EXCEPT !.step = "found", !.order = o]]
        /\ UNCHANGED orders /\ orders[o].status \in Active
    BY <1>4 DEF Start
  <2>2. sessions'[s].step = "found" /\ sessions'[s].copy = "stale" /\ sessions'[s].order = o
    BY <1>0, <2>1
  <2>3. \A r \in Sessions \ {s} : sessions'[r] = sessions[r]
    BY <1>0, <2>1
  <2> QED BY <1>0, <2>1, <2>2, <2>3 DEF CopyInv
<1>5. ASSUME NEW s \in Sessions, ReadOrder(s) PROVE CopyInv'
  <2>1. CASE orders[sessions[s].order].status = "PAID"
    <3>1. UNCHANGED orders /\ sessions' = [sessions EXCEPT ![s] = Done]
      BY <1>5, <2>1 DEF ReadOrder
    <3> QED BY <1>0, <1>2, <3>1
  <2>2. CASE orders[sessions[s].order].status # "PAID"
    <3>1. /\ UNCHANGED orders /\ sessions[s].step = "found"
          /\ sessions' = [sessions EXCEPT ![s] = [@ EXCEPT !.step = "calling", !.copy = "fresh"]]
      BY <1>5, <2>2 DEF ReadOrder
    <3>2. /\ sessions'[s].step = "calling" /\ sessions'[s].order = sessions[s].order
          /\ \A r \in Sessions \ {s} : sessions'[r] = sessions[r]
      BY <1>0, <3>1 DEF SessionState
    <3> QED BY <1>0, <2>2, <3>1, <3>2 DEF CopyInv
  <2> QED BY <2>1, <2>2
<1>6. ASSUME NEW s \in Sessions, OpenTrade(s) \/ OpenTradeLost(s) PROVE CopyInv'
  <2>1. /\ UNCHANGED orders /\ sessions[s].step = "calling"
        /\ \/ sessions' = [sessions EXCEPT ![s].step = "created"]
           \/ sessions' = [sessions EXCEPT ![s] = Done]
    BY <1>6 DEF OpenTrade, OpenTradeLost
  <2>2. CASE sessions' = [sessions EXCEPT ![s].step = "created"]
    <3>1. /\ sessions'[s].step = "created" /\ sessions'[s].order = sessions[s].order
          /\ sessions'[s].copy = sessions[s].copy
          /\ \A r \in Sessions \ {s} : sessions'[r] = sessions[r]
      BY <1>0, <2>2 DEF SessionState
    <3> QED BY <1>0, <2>1, <3>1 DEF CopyInv
  <2>3. CASE sessions' = [sessions EXCEPT ![s] = Done]
    BY <1>0, <1>2, <2>1, <2>3
  <2> QED BY <2>1, <2>2, <2>3
<1>7. ASSUME NEW s \in Sessions, StoreTrade(s) PROVE CopyInv'
  <2> DEFINE o == sessions[s].order
  <2>1. CASE sessions[s].copy = "fresh"
    <3>1. /\ orders' = [orders EXCEPT ![o].status = "PENDING"]
          /\ sessions' = Touched(o, [sessions EXCEPT ![s] = Done])
      BY <1>7, <2>1 DEF StoreTrade, SetStatus
    <3>2. \A p \in Orders : orders'[p].status = "PAID" => orders[p].status = "PAID"
      BY <1>0, <3>1 DEF OrderRow
    <3>3. \A r \in Sessions : \/ sessions'[r] = sessions[r]
                               \/ sessions'[r] = [sessions[r] EXCEPT !.copy = "stale"]
                               \/ sessions'[r] = Done
      BY <1>0, <3>1 DEF Touched
    <3> QED BY <1>2, <3>2, <3>3
  <2>2. CASE sessions[s].copy # "fresh"
    <3>1. UNCHANGED orders /\ sessions' = [sessions EXCEPT ![s].step = "undo"]
          /\ sessions[s].step = "created"
      BY <1>7, <2>2 DEF StoreTrade
    <3>2. /\ sessions'[s].copy # "fresh" /\ sessions'[s].order = sessions[s].order
          /\ \A r \in Sessions \ {s} : sessions'[r] = sessions[r]
      BY <1>0, <2>2, <3>1 DEF SessionState
    <3> QED BY <1>0, <3>1, <3>2 DEF CopyInv
  <2> QED BY <2>1, <2>2
<1>8. ASSUME NEW s \in Sessions, UndoTrade(s) \/ Abandon(s) PROVE CopyInv'
  <2>1. UNCHANGED orders /\ sessions' = [sessions EXCEPT ![s] = Done]
    BY <1>8 DEF UndoTrade, Abandon
  <2> QED BY <1>0, <1>2, <2>1
<1>9. ASSUME NEW o \in Orders, Settle(o) PROVE CopyInv'
  <2>1. /\ orders' = [orders EXCEPT ![o].status = "PAID"]
        /\ sessions' = Touched(o, sessions)
    BY <1>9 DEF Settle, SetStatus
  <2>2. \A r \in Sessions : IF sessions[r].order = o
                             THEN sessions'[r] = [sessions[r] EXCEPT !.copy = "stale"]
                             ELSE sessions'[r] = sessions[r]
    BY <1>0, <2>1 DEF Touched
  <2>3. \A p \in Orders \ {o} : orders'[p] = orders[p]
    BY <1>0, <2>1
  <2>4. \A r \in Sessions : sessions[r].order = o =>
           /\ sessions'[r].step = sessions[r].step /\ sessions'[r].order = o
           /\ sessions'[r].copy = "stale"
    BY <1>0, <2>2 DEF SessionState
  <2>5. ASSUME NEW r \in Sessions
        PROVE  /\ sessions'[r].step \in {"found", "calling", "created", "undo"}
                    => orders'[sessions'[r].order].status # None
               /\ sessions'[r].copy = "fresh"
                    => /\ sessions'[r].step \in {"calling", "created"}
                       /\ orders'[sessions'[r].order].status # "PAID"
    <3>1. CASE sessions[r].order = o
      BY <1>0, <1>1, <2>4, <3>1 DEF CopyInv
    <3>2. CASE sessions[r].order # o
      <4>1. sessions'[r] = sessions[r]
        BY <2>2, <3>2
      <4> QED BY <1>0, <2>3, <3>2, <4>1 DEF CopyInv
    <3> QED BY <3>1, <3>2
  <2> QED BY <2>5 DEF CopyInv
<1>10. ASSUME NEW o \in Orders, CloseOrder(o) PROVE CopyInv'
  <2>1. CASE UNCHANGED <<orders, sessions>>
    BY <1>2, <2>1
  <2>2. CASE /\ orders' = [orders EXCEPT ![o].status = "CLOSED"]
             /\ sessions' = Touched(o, sessions)
    <3>1. \A p \in Orders : orders'[p].status = "PAID" => orders[p].status = "PAID"
      BY <1>0, <2>2 DEF OrderRow
    <3>2. \A r \in Sessions : \/ sessions'[r] = sessions[r]
                               \/ sessions'[r] = [sessions[r] EXCEPT !.copy = "stale"]
      BY <1>0, <2>2 DEF Touched
    <3> QED BY <1>2, <3>1, <3>2
  <2> QED BY <1>10, <2>1, <2>2 DEF CloseOrder, SetStatus
<1>11. ASSUME UNCHANGED <<orders, sessions>> PROVE CopyInv'
  BY <1>2, <1>11
<1>12. CASE \E s \in Sessions : Session(s)
  BY <1>3, <1>4, <1>5, <1>6, <1>7, <1>8, <1>12 DEF Session
<1>13. CASE \E o \in Orders : Pay(o) \/ Settlement(o)
  BY <1>9, <1>11, <1>13 DEF Pay, Settlement, Callback, SettleTimeout, SettleFails
<1>14. CASE Governance
  BY <1>10, <1>11, <1>14 DEF Governance, Begin, ListOrders, TransferTimeout, Conclude, CloseFails,
     RejectDispute, RecordDisputed, WriteOffPayment, WithoutClosing
<1> QED BY <1>11, <1>12, <1>13, <1>14 DEF Next, vars

LEMMA LegalNext ==
  ASSUME PInv, [Next]_vars
  PROVE  LegalInv'
<1> SUFFICES ASSUME governor'.kind = "legal", governor'.step # "idle"
             PROVE  (ActiveOrdersOf(governor.bill) \subseteq governor.seen \cup reopened)'
  BY DEF LegalInv
<1>0. governor \in Decision /\ reopened \subseteq reopened'
  BY OrderStep DEF PInv, TypeInv, TypeOK
<1>1. \/ UNCHANGED governor
      \/ /\ governor.kind = "legal" /\ governor.step # "idle"
         /\ governor'.bill = governor.bill /\ governor'.seen = governor.seen
      \/ \E b \in Governed : Begin("legal", b)
  <2>1. ASSUME NEW kind \in Kinds, NEW b \in Governed, Begin(kind, b)
        PROVE  kind = "legal"
    BY <2>1 DEF Begin
  <2>2. ASSUME NEW o \in Orders, CloseOrder(o)
        PROVE  /\ governor.kind = "legal" /\ governor.step # "idle"
               /\ governor'.bill = governor.bill /\ governor'.seen = governor.seen
    <3>1. governor' = [governor EXCEPT !.todo = @ \ {o}]
      BY <2>2 DEF CloseOrder, Decides
    <3> QED BY <1>0, <3>1 DEF Decision
  <2>3. ASSUME ListOrders
        PROVE  /\ governor.kind = "legal" /\ governor.step # "idle"
               /\ governor'.bill = governor.bill /\ governor'.seen = governor.seen
    <3>1. /\ governor' = [governor EXCEPT !.step = "closing", !.todo = ActiveOrdersOf(governor.bill)]
          /\ governor.step = "locked"
      BY <2>3 DEF ListOrders
    <3> QED BY <1>0, <3>1 DEF Decision
  <2>4. CASE \E s \in Sessions : Session(s)
    BY <2>4 DEF Session, Request, Start, ReadOrder, OpenTrade, OpenTradeLost, StoreTrade, UndoTrade,
       Abandon
  <2>5. CASE \E o \in Orders : Pay(o) \/ Settlement(o)
    BY <2>5 DEF Pay, Settlement, Callback, Settle, SettleTimeout, SettleFails
  <2>6. CASE Governance
    <3>1. CASE \E kind \in Kinds, b \in Governed : Begin(kind, b)
      BY <2>1, <3>1
    <3>2. CASE ListOrders
      BY <2>3, <3>2
    <3>3. CASE \E o \in Orders : CloseOrder(o)
      BY <2>2, <3>3
    <3> QED BY <2>6, <3>1, <3>2, <3>3 DEF Governance, TransferTimeout, Conclude, CloseFails, Decides,
       RejectDispute, RecordDisputed, WriteOffPayment, WithoutClosing
  <2> QED BY <2>4, <2>5, <2>6 DEF Next, vars
<1>2. ASSUME NEW b \in Bills, governor.kind = "legal", governor.step # "idle", governor.bill = b
      PROVE  ActiveOrdersOf(b)' \subseteq governor.seen \cup reopened'
  <2>1. ActiveOrdersOf(b) \subseteq governor.seen \cup reopened
    BY <1>2 DEF PInv, LegalInv
  <2>2. ASSUME NEW o \in Orders, NEW S \in SUBSET Bills, Written(o, S) PROVE b \notin S
    BY <1>2, <2>2 DEF Written, LockedBills
  <2> QED BY <1>0, <2>1, <2>2, OpenOrdersNext
<1>3. CASE UNCHANGED governor
  <2>1. governor.bill \in Bills
    BY <1>3 DEF PInv, TypeInv
  <2> QED BY <1>2, <1>3, <2>1
<1>4. CASE /\ governor.kind = "legal" /\ governor.step # "idle"
           /\ governor'.bill = governor.bill /\ governor'.seen = governor.seen
  <2>1. governor.bill \in Bills
    BY <1>4 DEF PInv, TypeInv
  <2> QED BY <1>2, <1>4, <2>1
<1>5. ASSUME NEW b \in Governed, Begin("legal", b)
      PROVE  (ActiveOrdersOf(governor.bill) \subseteq governor.seen \cup reopened)'
  <2>1. governor'.bill = b /\ governor'.seen = ActiveOrdersOf(b) /\ UNCHANGED <<orders, reopened>>
    BY <1>5 DEF Begin
  <2>2. ActiveOrdersOf(b)' = ActiveOrdersOf(b)
    BY <2>1 DEF ActiveOrdersOf, Items
  <2> QED BY <2>1, <2>2
<1> QED BY <1>1, <1>3, <1>4, <1>5

LEMMA BlockedNext ==
  ASSUME PInv, [Next]_vars
  PROVE  BlockedBillHasNoOrder'
<1> SUFFICES ASSUME NEW b \in Bills, PortalBlocked(b)'
             PROVE  ActiveOrdersOf(b)' \subseteq reopened'
  BY DEF BlockedBillHasNoOrder
<1>0. bills \in [Bills -> BillRow] /\ Governed \subseteq Bills /\ governor \in Decision
  BY DEF PInv, TypeInv, TypeOK
<1>1. CASE PortalBlocked(b)
  <2>1. ActiveOrdersOf(b) \subseteq reopened /\ reopened \subseteq reopened'
    BY <1>1, OrderStep DEF PInv, BlockedBillHasNoOrder
  <2>2. ASSUME NEW o \in Orders, NEW S \in SUBSET Bills, Written(o, S) PROVE b \notin S
    BY <1>1, <2>2 DEF Written
  <2> QED BY <2>1, <2>2, OpenOrdersNext
\* Only the conclusion of a decision puts a bill under dispute or collection.
<1>2. CASE ~PortalBlocked(b)
  <2>1. ASSUME bills'[b].dispute = bills[b].dispute, bills'[b].disposition = bills[b].disposition
        PROVE  FALSE
    BY <1>2, <2>1 DEF PortalBlocked
  <2>2. CASE UNCHANGED bills
    BY <2>1, <2>2
  <2>3. ASSUME NEW o \in Orders, Settle(o) PROVE FALSE
    <3>1. bills'[b] = [bills[b] EXCEPT !.remaining = @ - WriteOff(o, b)]
      BY <2>3 DEF Settle
    <3> QED BY <1>0, <2>1, <3>1 DEF BillRow
  <2>4. ASSUME NEW c \in Bills, NEW n \in 1..Amount, WriteOffPayment(c, n) PROVE FALSE
    <3>1. bills' = [bills EXCEPT ![c] = [bills[c] EXCEPT !.remaining = @ - n]]
      BY <2>4 DEF WriteOffPayment, WithoutClosing
    <3> QED BY <1>0, <2>1, <3>1 DEF BillRow
  <2>5. ASSUME NEW c \in Governed, RejectDispute(c) PROVE FALSE
    <3>1. /\ bills' = [bills EXCEPT ![c] = [bills[c] EXCEPT !.dispute = "REJECTED"]]
          /\ bills[c].dispute = "OPEN"
      BY <2>5 DEF RejectDispute, WithoutClosing
    <3>2. CASE b = c
      BY <1>2, <3>1, <3>2 DEF PortalBlocked
    <3>3. CASE b # c
      BY <1>0, <2>1, <3>1, <3>3
    <3> QED BY <3>2, <3>3
  <2>6. ASSUME NEW c \in Governed, RecordDisputed(c) PROVE FALSE
    <3>1. /\ bills' = [bills EXCEPT ![c] = [bills[c] EXCEPT !.disposition = "DISPUTED"]]
          /\ bills[c].dispute = "OPEN"
      BY <2>6 DEF RecordDisputed, WithoutClosing
    <3>2. CASE b = c
      BY <1>2, <3>1, <3>2 DEF PortalBlocked
    <3>3. CASE b # c
      BY <1>0, <2>1, <3>1, <3>3
    <3> QED BY <3>2, <3>3
  <2>7. CASE Conclude
    <3>1. CASE governor.bill # b \/ ~ClearOfOrders
      <4>1. bills'[b] = bills[b]
        BY <1>0, <2>7, <3>1 DEF Conclude
      <4> QED BY <2>1, <4>1
    <3>2. CASE governor.bill = b /\ ClearOfOrders
      <4>1. UNCHANGED <<orders, reopened>> /\ governor.step # "idle"
        BY <2>7 DEF Conclude
      <4>2. ActiveOrdersOf(b) \subseteq reopened
        BY <3>2, <4>1 DEF ClearOfOrders, PInv, LegalInv
      <4> QED BY <4>1, <4>2 DEF ActiveOrdersOf, Items
    <3> QED BY <3>1, <3>2
  <2>8. CASE \E s \in Sessions : Session(s)
    BY <2>2, <2>8 DEF Session, Request, Start, ReadOrder, OpenTrade, OpenTradeLost, StoreTrade,
       UndoTrade, Abandon
  <2>9. CASE \E o \in Orders : Pay(o) \/ Settlement(o)
    BY <2>2, <2>3, <2>9 DEF Pay, Settlement, Callback, SettleTimeout, SettleFails
  <2>10. CASE Governance
    BY <2>2, <2>4, <2>5, <2>6, <2>7, <2>10
       DEF Governance, Begin, ListOrders, TransferTimeout, CloseOrder, CloseFails
  <2>11. CASE UNCHANGED vars
    BY <2>2, <2>11 DEF vars
  <2> QED BY <2>8, <2>9, <2>10, <2>11 DEF Next
<1> QED BY <1>1, <1>2

LEMMA OwnerNext ==
  ASSUME PInv, [Next]_vars
  PROVE  OpenTradeHasOwner'
<1> SUFFICES ASSUME NEW o \in Orders, trades'[o] = "OPEN"
             PROVE  \/ orders'[o].status = "PENDING"
                    \/ o \in lost'
                    \/ \E s \in Sessions : Dealing(s, o)'
  BY DEF OpenTradeHasOwner
<1> DEFINE Goal == \/ orders'[o].status = "PENDING"
                   \/ o \in lost'
                   \/ \E s \in Sessions : Dealing(s, o)'
<1>0. /\ orders \in [Orders -> OrderRow] /\ sessions \in [Sessions -> SessionState]
      /\ trades \in [Orders -> {None, "OPEN", "CLOSED", "PAID"}]
      /\ \A s \in Sessions : sessions[s].step \in {"found", "calling", "created", "undo"}
                               => sessions[s].order \in Orders
  BY DEF PInv, TypeInv, TypeOK
<1>00. trades[o] = "OPEN" => \/ orders[o].status = "PENDING"
                            \/ o \in lost
                            \/ \E s \in Sessions : Dealing(s, o)
  BY DEF PInv, OpenTradeHasOwner
\* The owner of a trade that was open before stays unless the step concerns it.
<1>1. ASSUME trades[o] = "OPEN", lost \subseteq lost',
             orders[o].status = "PENDING" => orders'[o].status = "PENDING",
             \A s \in Sessions : sessions[s].step \in {"created", "undo"} =>
               \/ sessions'[s].step = sessions[s].step /\ sessions'[s].order = sessions[s].order
               \/ sessions[s].order # o
      PROVE  Goal
  BY <1>00, <1>1 DEF Dealing
<1>2. ASSUME NEW s \in Sessions, NEW S \in (SUBSET Bills) \ {{}}, Request(s, S) PROVE Goal
  <2>1. /\ trades[o] = "OPEN" /\ lost' = lost /\ sessions[s].step = "new"
        /\ \A r \in Sessions \ {s} : sessions'[r] = sessions[r]
    BY <1>0, <1>2 DEF Request
  <2>2. orders[o].status = "PENDING" => orders'[o].status = "PENDING"
    BY <1>0, <1>2 DEF Request
  <2> QED BY <1>1, <2>1, <2>2
<1>3. ASSUME NEW s \in Sessions, NEW p \in Orders, Start(s, p) PROVE Goal
  <2>1. /\ trades[o] = "OPEN" /\ lost' = lost /\ orders' = orders /\ sessions[s].step = "new"
        /\ \A r \in Sessions \ {s} : sessions'[r] = sessions[r]
    BY <1>0, <1>3 DEF Start
  <2> QED BY <1>1, <2>1
<1>4. ASSUME NEW s \in Sessions, ReadOrder(s) PROVE Goal
  <2>1. /\ trades[o] = "OPEN" /\ lost' = lost /\ orders' = orders /\ sessions[s].step = "found"
        /\ \A r \in Sessions \ {s} : sessions'[r] = sessions[r]
    BY <1>0, <1>4 DEF ReadOrder
  <2> QED BY <1>1, <2>1
<1>5. ASSUME NEW s \in Sessions, OpenTrade(s) PROVE Goal
  <2>1. /\ lost' = lost /\ orders' = orders /\ sessions[s].step = "calling"
        /\ \A r \in Sessions \ {s} : sessions'[r] = sessions[r]
    BY <1>0, <1>5 DEF OpenTrade
  <2>2. CASE trades[o] = "OPEN"
    BY <1>1, <2>1, <2>2
  <2>3. CASE trades[o] # "OPEN"
    <3>1. o = sessions[s].order /\ sessions' = [sessions EXCEPT ![s].step = "created"]
      BY <1>0, <1>5, <2>3 DEF OpenTrade
    <3>2. Dealing(s, o)'
      BY <1>0, <3>1 DEF Dealing, SessionState
    <3> QED BY <3>2
  <2> QED BY <2>2, <2>3
<1>6. ASSUME NEW s \in Sessions, OpenTradeLost(s) PROVE Goal
  <2>1. /\ lost \subseteq lost' /\ orders' = orders /\ sessions[s].step = "calling"
        /\ \A r \in Sessions \ {s} : sessions'[r] = sessions[r]
        /\ trades[o] = "OPEN" \/ o \in lost'
    BY <1>0, <1>6 DEF OpenTradeLost
  <2> QED BY <1>1, <2>1
<1>7. ASSUME NEW s \in Sessions, StoreTrade(s) PROVE Goal
  <2>1. trades[o] = "OPEN" /\ lost' = lost /\ sessions[s].order \in Orders
    BY <1>0, <1>7 DEF StoreTrade
  <2>2. CASE sessions[s].copy = "fresh"
    <3> DEFINE q == sessions[s].order
    <3>1. /\ orders' = [orders EXCEPT ![q].status = "PENDING"]
          /\ sessions' = Touched(q, [sessions EXCEPT ![s] = Done])
      BY <1>7, <2>2 DEF StoreTrade, SetStatus
    <3>2. orders'[q].status = "PENDING" /\ \A p \in Orders \ {q} : orders'[p] = orders[p]
      BY <1>0, <2>1, <3>1 DEF OrderRow
    <3>3. CASE o = q
      BY <3>2, <3>3
    <3>4. CASE o # q
      <4>1. \A r \in Sessions : sessions[r].order # q => sessions'[r] = sessions[r]
        BY <1>0, <3>1 DEF Touched
      <4> QED BY <1>1, <2>1, <3>2, <3>4, <4>1
    <3> QED BY <3>3, <3>4
  <2>3. CASE sessions[s].copy # "fresh"
    <3>1. orders' = orders /\ sessions' = [sessions EXCEPT ![s].step = "undo"]
      BY <1>7, <2>3 DEF StoreTrade
    <3>2. CASE o = sessions[s].order
      <4>1. Dealing(s, o)'
        BY <1>0, <3>1, <3>2 DEF Dealing, SessionState
      <4> QED BY <4>1
    <3>3. CASE o # sessions[s].order
      <4>1. \A r \in Sessions \ {s} : sessions'[r] = sessions[r]
        BY <1>0, <3>1
      <4> QED BY <1>1, <2>1, <3>1, <3>3, <4>1
    <3> QED BY <3>2, <3>3
  <2> QED BY <2>2, <2>3
<1>8. ASSUME NEW s \in Sessions, UndoTrade(s) PROVE Goal
  <2>1. /\ lost' = lost /\ orders' = orders /\ sessions[s].order # o /\ trades[o] = "OPEN"
        /\ \A r \in Sessions \ {s} : sessions'[r] = sessions[r]
    BY <1>0, <1>8 DEF UndoTrade
  <2> QED BY <1>1, <2>1
<1>9. ASSUME NEW s \in Sessions, Abandon(s) PROVE Goal
  <2>1. /\ lost \subseteq lost' /\ orders' = orders /\ trades[o] = "OPEN"
        /\ sessions[s].order \in lost'
        /\ \A r \in Sessions \ {s} : sessions'[r] = sessions[r]
    BY <1>0, <1>9 DEF Abandon
  <2> QED BY <1>1, <2>1
<1>10. ASSUME NEW p \in Orders, Settle(p) PROVE Goal
  <2>1. /\ orders' = [orders EXCEPT ![p].status = "PAID"] /\ trades' = trades /\ lost' = lost
        /\ sessions' = Touched(p, sessions) /\ trades[p] = "PAID"
    BY <1>10 DEF Settle, SetStatus, PInv, SettlingInv
  <2>2. o # p /\ orders'[o] = orders[o]
    BY <1>0, <2>1
  <2>3. \A r \in Sessions : /\ sessions'[r].step = sessions[r].step
                            /\ sessions'[r].order = sessions[r].order
    BY <1>0, <2>1 DEF Touched, SessionState
  <2> QED BY <1>1, <2>1, <2>2, <2>3
<1>11. ASSUME NEW p \in Orders, CloseOrder(p) PROVE Goal
  <2>1. /\ orders' = orders \/ orders' = [orders EXCEPT ![p].status = "CLOSED"]
        /\ sessions' = sessions \/ sessions' = Touched(p, sessions)
        /\ trades' = trades \/ trades' = [trades EXCEPT ![p] = "CLOSED"]
        /\ lost' = lost
    BY <1>11 DEF CloseOrder, SetStatus
  <2>2. trades[o] = "OPEN"
    BY <1>0, <2>1
  <2>3. \A r \in Sessions : /\ sessions'[r].step = sessions[r].step
                            /\ sessions'[r].order = sessions[r].order
    BY <1>0, <2>1 DEF Touched, SessionState
  <2>4. ASSUME orders[o].status = "PENDING" PROVE orders'[o].status = "PENDING"
    <3>1. CASE o # p
      BY <1>0, <2>1, <2>4, <3>1
    <3>2. CASE o = p
      <4>1. HasTrade(p) /\ trades[p] # "PAID" /\ orders[p].status # "PAID"
        BY <2>2, <2>4, <3>2 DEF HasTrade
      <4>2. trades' = [trades EXCEPT ![p] = "CLOSED"]
        BY <1>11, <4>1 DEF CloseOrder
      <4>3. trades'[o] = "CLOSED"
        BY <1>0, <3>2, <4>2
      <4> QED BY <4>3
    <3> QED BY <3>1, <3>2
  <2> QED BY <1>1, <2>1, <2>2, <2>3, <2>4
<1>12. ASSUME NEW p \in Orders, CloseFails(p) PROVE Goal
  <2>1. trades[o] = "OPEN" /\ UNCHANGED <<orders, sessions, lost>>
    BY <1>0, <1>12 DEF CloseFails
  <2> QED BY <1>1, <2>1
<1>13. ASSUME NEW p \in Orders, Pay(p) PROVE Goal
  <2>1. trades[o] = "OPEN" /\ UNCHANGED <<orders, sessions, lost>>
    BY <1>0, <1>13 DEF Pay
  <2> QED BY <1>1, <2>1
<1>14. ASSUME UNCHANGED <<orders, sessions, trades, lost>> PROVE Goal
  BY <1>1, <1>14
<1>15. CASE \E s \in Sessions : Session(s)
  BY <1>2, <1>3, <1>4, <1>5, <1>6, <1>7, <1>8, <1>9, <1>15 DEF Session
<1>16. CASE \E p \in Orders : Pay(p) \/ Settlement(p)
  BY <1>10, <1>13, <1>14, <1>16 DEF Settlement, Callback, SettleTimeout, SettleFails
<1>17. CASE Governance
  BY <1>11, <1>12, <1>14, <1>17 DEF Governance, Begin, ListOrders, TransferTimeout, Conclude,
     RejectDispute, RecordDisputed, WriteOffPayment, WithoutClosing
<1> QED BY <1>14, <1>15, <1>16, <1>17 DEF Next, vars

LEMMA InitSafe == Init => PInv
<1> SUFFICES ASSUME Init PROVE PInv
  OBVIOUS
<1>1. TypeInv
  BY TypeInit
<1>2. \A o \in Orders : orders[o].status = None /\ orders[o].items = Nothing /\ trades[o] = None
  BY DEF Init
<1>3. \A s \in Sessions : sessions[s].step = "new" /\ sessions[s].copy = "stale"
  BY DEF Init
<1>4. \A b \in Bills : ActiveOrdersOf(b) = {}
  BY <1>2 DEF ActiveOrdersOf
<1>5. settling = {} /\ governor.step = "idle"
  BY DEF Init
<1> QED BY <1>1, <1>2, <1>3, <1>4, <1>5
        DEF PInv, SettlingInv, RowsInv, CopyInv, LegalInv, OpenTradeHasOwner, OneOrderPerBills,
            BlockedBillHasNoOrder

LEMMA SafeStep == PInv /\ [Next]_vars => PInv'
BY TypeStep, SettlingNext, RowsNext, CopyNext, LegalNext, OwnerNext, OneOrderNext, BlockedNext
   DEF PInv

\* The inductive invariant of online payment: what a settlement, a request
\* and a transfer to legal collection rely on while they are under way.
THEOREM PaymentInvariance == Spec => []PInv
BY InitSafe, SafeStep, PTL DEF Spec

\* However requests, governance and faults interleave, a trade the customer
\* can still pay has an open order or a request that deals with it, unless a
\* fault left it behind.
THEOREM EveryOpenTradeHasOwner == Spec => []OpenTradeHasOwner
<1>1. PInv => OpenTradeHasOwner
  BY DEF PInv
<1> QED BY <1>1, PaymentInvariance, PTL

\* Any number of requests for the same bills share one payment order, unless a
\* late request reopens one that governance had closed.
THEOREM NoSecondOrder == Spec => []OneOrderPerBills
<1>1. PInv => OneOrderPerBills
  BY DEF PInv
<1> QED BY <1>1, PaymentInvariance, PTL

\* Once a dispute or a legal collection is recorded no payment order of the
\* bill is open, unless a late request reopens one.
THEOREM NoOrderOnBlockedBill == Spec => []BlockedBillHasNoOrder
<1>1. PInv => BlockedBillHasNoOrder
  BY DEF PInv
<1> QED BY <1>1, PaymentInvariance, PTL

(***************************************************************************)
(* Online payment implements BillAccount                                   *)
(***************************************************************************)

Asked == [o \in Orders |-> orders[o].items]
Paid == {o \in Orders : orders[o].status = "PAID"}
Remaining == [b \in Bills |-> bills[b].remaining]
Held == {b \in Bills : SettleBlocked(b)}

\* The abstract actions over the values they have here.
LEMMA AccountNext ==
  /\ \A o \in Orders : Asked[o] = [b \in Bills |-> 0] /\ o \notin Paid
       /\ (\E S \in SUBSET Bills :
            Asked' = [Asked EXCEPT ![o] = [b \in Bills |-> IF b \in S THEN Remaining[b] ELSE 0]])
       /\ UNCHANGED <<credited, Paid, Remaining, Held>>
         => Account!Next
  /\ \A o \in Orders : o \notin Paid /\ Paid' = Paid \cup {o}
       /\ credited' = [credited EXCEPT ![o] = [b \in Bills |-> Account!Share(o, b)]]
       /\ Remaining' = [b \in Bills |-> Remaining[b] - Account!Share(o, b)]
       /\ UNCHANGED <<Asked, Held>>
         => Account!Next
  /\ \A b \in Bills :
       (\E n \in 1..Remaining[b] : Remaining' = [Remaining EXCEPT ![b] = @ - n])
       /\ Held' \subseteq Held /\ UNCHANGED <<Asked, credited, Paid>>
         => Account!Next
  /\ Held' \in SUBSET Bills /\ UNCHANGED <<Asked, credited, Paid, Remaining>> => Account!Next
<1>1. /\ \A o \in Orders : Account!Ask(o) \/ Account!Book(o) => Account!Next
      /\ \A b \in Bills : Account!Lower(b) => Account!Next
      /\ Account!Govern => Account!Next
  BY DEF Account!Next
<1>2. ASSUME NEW o \in Orders, Asked[o] = [b \in Bills |-> 0], o \notin Paid,
             \E S \in SUBSET Bills :
               Asked' = [Asked EXCEPT ![o] = [b \in Bills |-> IF b \in S THEN Remaining[b] ELSE 0]],
             UNCHANGED <<credited, Paid, Remaining, Held>>
      PROVE  Account!Ask(o)
  BY <1>2 DEF Account!Ask, Account!Nothing, Asked, Paid, Remaining, Held
<1>3. ASSUME NEW o \in Orders, o \notin Paid, Paid' = Paid \cup {o},
             credited' = [credited EXCEPT ![o] = [b \in Bills |-> Account!Share(o, b)]],
             Remaining' = [b \in Bills |-> Remaining[b] - Account!Share(o, b)],
             UNCHANGED <<Asked, Held>>
      PROVE  Account!Book(o)
  BY <1>3 DEF Account!Book, Asked, Paid, Remaining, Held
<1>4. ASSUME NEW b \in Bills,
             \E n \in 1..Remaining[b] : Remaining' = [Remaining EXCEPT ![b] = @ - n],
             Held' \subseteq Held, UNCHANGED <<Asked, credited, Paid>>
      PROVE  Account!Lower(b)
  BY <1>4 DEF Account!Lower, Asked, Paid, Remaining, Held
<1>5. ASSUME Held' \in SUBSET Bills, UNCHANGED <<Asked, credited, Paid, Remaining>>
      PROVE  Account!Govern
  BY <1>5 DEF Account!Govern, Asked, Paid, Remaining, Held
<1> QED BY <1>1, <1>2, <1>3, <1>4, <1>5

LEMMA AccountInit == Init => Account!Init
<1> SUFFICES ASSUME Init PROVE Account!Init
  OBVIOUS
<1>1. PICK D \in SUBSET Governed :
         bills = [b \in Bills |-> [remaining |-> Amount, disposition |-> None,
                                   dispute |-> IF b \in D THEN "OPEN" ELSE None]]
  BY DEF Init
<1>2. [b \in Bills |-> bills[b].remaining] \in [Bills -> Nat]
  BY <1>1, PaymentAssumption
<1>3. [o \in Orders |-> orders[o].items] = [o \in Orders |-> Nothing]
      /\ {o \in Orders : orders[o].status = "PAID"} = {}
  BY DEF Init
<1>4. credited = [o \in Orders |-> Nothing]
  BY DEF Init
<1> QED BY <1>2, <1>3, <1>4 DEF Account!Init, Account!Nothing

LEMMA AccountStep ==
  ASSUME PInv, [Next]_vars
  PROVE  Account!Next \/ UNCHANGED <<Asked, credited, Paid, Remaining, Held>>
<1> DEFINE Goal == Account!Next \/ UNCHANGED <<Asked, credited, Paid, Remaining, Held>>
<1>0. /\ orders \in [Orders -> OrderRow] /\ bills \in [Bills -> BillRow]
      /\ sessions \in [Sessions -> SessionState] /\ credited \in [Orders -> [Bills -> 0..Amount]]
      /\ settling \subseteq Orders /\ governor \in Decision /\ Governed \subseteq Bills
  BY DEF PInv, TypeInv, TypeOK
\* Steps that neither write an order, nor book money, nor touch a bill.
<1>1. ASSUME UNCHANGED <<bills, credited>>,
             \A p \in Orders : /\ orders'[p].items = orders[p].items
                               /\ orders'[p].status = "PAID" <=> orders[p].status = "PAID"
      PROVE  Goal
  <2>1. Asked' = Asked /\ Paid' = Paid
    BY <1>1 DEF Asked, Paid
  <2>2. Remaining' = Remaining /\ Held' = Held
    BY <1>1 DEF Remaining, Held, SettleBlocked
  <2> QED BY <1>1, <2>1, <2>2
<1>2. ASSUME UNCHANGED <<orders, bills, credited>> PROVE Goal
  BY <1>1, <1>2
<1>3. ASSUME NEW s \in Sessions, NEW S \in (SUBSET Bills) \ {{}}, Request(s, S) PROVE Goal
  <2>1. CASE UNCHANGED orders
    BY <1>2, <1>3, <2>1 DEF Request
  <2>2. CASE ~UNCHANGED orders
    <3>1. PICK o \in Orders :
            /\ orders[o].status = None
            /\ orders' = [orders EXCEPT ![o] =
                 [status |-> "CREATED",
                  items |-> [b \in Bills |-> IF b \in S THEN bills[b].remaining ELSE 0]]]
      BY <1>3, <2>2 DEF Request
    <3>2. UNCHANGED <<bills, credited>>
      BY <1>3 DEF Request
    <3>3. orders[o].items = Nothing
      BY <3>1 DEF PInv, RowsInv
    <3>4. /\ orders'[o].status = "CREATED"
          /\ orders'[o].items = [b \in Bills |-> IF b \in S THEN bills[b].remaining ELSE 0]
          /\ \A p \in Orders \ {o} : orders'[p] = orders[p]
      BY <1>0, <3>1
    <3>5. Asked' = [Asked EXCEPT ![o] = [b \in Bills |-> IF b \in S THEN Remaining[b] ELSE 0]]
      BY <3>4 DEF Asked, Remaining
    <3>6. Paid' = Paid /\ o \notin Paid
      BY <3>1, <3>4 DEF Paid
    <3>7. Remaining' = Remaining /\ Held' = Held
      BY <3>2 DEF Remaining, Held, SettleBlocked
    <3>8. Asked[o] = [b \in Bills |-> 0]
      BY <3>3 DEF Asked
    <3>9. S \in SUBSET Bills
      OBVIOUS
    <3> QED BY <3>2, <3>5, <3>6, <3>7, <3>8, <3>9, AccountNext
  <2> QED BY <2>1, <2>2
<1>4. ASSUME NEW s \in Sessions, StoreTrade(s) PROVE Goal
  <2> DEFINE o == sessions[s].order
  <2>1. CASE sessions[s].copy = "fresh"
    <3>1. o \in Orders /\ orders[o].status # "PAID"
      BY <2>1 DEF PInv, CopyInv, TypeInv
    <3>2. orders' = [orders EXCEPT ![o].status = "PENDING"] /\ UNCHANGED <<bills, credited>>
      BY <1>4, <2>1 DEF StoreTrade, SetStatus
    <3> HIDE DEF o
    <3>3. orders'[o].items = orders[o].items /\ orders'[o].status = "PENDING"
          /\ \A p \in Orders \ {o} : orders'[p] = orders[p]
      BY <1>0, <3>1, <3>2 DEF OrderRow
    <3> QED BY <1>1, <3>1, <3>2, <3>3
  <2>2. CASE sessions[s].copy # "fresh"
    BY <1>2, <1>4, <2>2 DEF StoreTrade
  <2> QED BY <2>1, <2>2
<1>5. ASSUME NEW o \in Orders, Settle(o) PROVE Goal
  <2>1. /\ orders' = [orders EXCEPT ![o].status = "PAID"]
        /\ credited' = [credited EXCEPT ![o] = [b \in Bills |-> WriteOff(o, b)]]
        /\ bills' = [b \in Bills |-> [bills[b] EXCEPT !.remaining = @ - WriteOff(o, b)]]
        /\ orders[o].status # "PAID"
    BY <1>5 DEF Settle, SetStatus, PInv, SettlingInv
  <2>2. /\ orders'[o].items = orders[o].items /\ orders'[o].status = "PAID"
        /\ \A p \in Orders \ {o} : orders'[p] = orders[p]
    BY <1>0, <2>1 DEF OrderRow
  <2>3. Asked' = Asked /\ Paid' = Paid \cup {o} /\ o \notin Paid
    BY <2>1, <2>2 DEF Asked, Paid
  <2>4. \A b \in Bills : /\ bills'[b].remaining = bills[b].remaining - WriteOff(o, b)
                          /\ bills'[b].dispute = bills[b].dispute
                          /\ bills'[b].disposition = bills[b].disposition
    BY <1>0, <2>1 DEF BillRow
  <2>5. \A b \in Bills : WriteOff(o, b) = Account!Share(o, b)
    BY DEF WriteOff, Account!Share
  <2>6. Held' = Held
    BY <2>4 DEF Held, SettleBlocked
  <2>7. Remaining' = [b \in Bills |-> Remaining[b] - Account!Share(o, b)]
    BY <2>4, <2>5 DEF Remaining
  <2>8. credited' = [credited EXCEPT ![o] = [b \in Bills |-> Account!Share(o, b)]]
    BY <2>1, <2>5
  <2> QED BY <2>3, <2>6, <2>7, <2>8, AccountNext
<1>6. ASSUME NEW o \in Orders, CloseOrder(o) PROVE Goal
  <2>1. UNCHANGED <<bills, credited>>
    BY <1>6 DEF CloseOrder
  <2>2. CASE UNCHANGED orders
    BY <1>2, <2>1, <2>2
  <2>3. CASE ~UNCHANGED orders
    <3>1. orders' = [orders EXCEPT ![o].status = "CLOSED"] /\ orders[o].status \in Active
      BY <1>6, <2>3 DEF CloseOrder, SetStatus
    <3>2. orders'[o].items = orders[o].items /\ orders'[o].status = "CLOSED"
          /\ \A p \in Orders \ {o} : orders'[p] = orders[p]
      BY <1>0, <3>1 DEF OrderRow
    <3> QED BY <1>1, <2>1, <3>1, <3>2
  <2> QED BY <2>2, <2>3
\* Changes of one bill.
<1>7. ASSUME NEW b \in Bills, NEW n \in 1..bills[b].remaining,
             UNCHANGED <<orders, credited>>,
             \A c \in Bills \ {b} : bills'[c] = bills[c],
             bills'[b].remaining = bills[b].remaining - n, SettleBlocked(b)' => SettleBlocked(b)
      PROVE  Goal
  <2>1. Asked' = Asked /\ Paid' = Paid
    BY <1>7 DEF Asked, Paid
  <2>2. Remaining' = [Remaining EXCEPT ![b] = @ - n] /\ n \in 1..Remaining[b]
    BY <1>7 DEF Remaining
  <2>3. Held' \subseteq Held
    BY <1>7 DEF Held, SettleBlocked
  <2> QED BY <1>7, <2>1, <2>2, <2>3, AccountNext
<1>8. ASSUME UNCHANGED <<orders, credited>>,
             \A c \in Bills : bills'[c].remaining = bills[c].remaining
      PROVE  Goal
  <2>1. Asked' = Asked /\ Paid' = Paid /\ Remaining' = Remaining
    BY <1>8 DEF Asked, Paid, Remaining
  <2>2. Held' \in SUBSET Bills
    BY DEF Held
  <2> QED BY <1>8, <2>1, <2>2, AccountNext
<1>9. CASE Conclude
  <2>0. governor.bill \in Bills
    BY <1>9 DEF Conclude, PInv, TypeInv
  <2> PICK b \in Bills : b = governor.bill
    BY <2>0
  <2>1. governor.kind \in Kinds /\ UNCHANGED <<orders, credited>>
    BY <1>0, <1>9 DEF Conclude, Decision
  <2>2. CASE UNCHANGED bills
    BY <1>2, <2>1, <2>2
  <2>3. CASE ~UNCHANGED bills
    <3>1. /\ bills' = [bills EXCEPT ![b] = Decided(governor.kind, bills[b])]
          /\ MayDecide(governor.kind, bills[b])
      BY <1>9, <2>3 DEF Conclude
    <3>2. bills'[b] = Decided(governor.kind, bills[b]) /\ bills[b] \in BillRow
          /\ \A c \in Bills \ {b} : bills'[c] = bills[c]
      BY <1>0, <2>1, <3>1
    <3>3. CASE governor.kind = "dispose"
      <4>1. bills'[b] = [bills[b] EXCEPT !.remaining = 0, !.disposition = None]
            /\ bills[b].remaining > 0
        BY <3>1, <3>2, <3>3 DEF Decided, MayDecide
      <4>2. /\ bills'[b].remaining = 0 /\ bills'[b].dispute = bills[b].dispute
            /\ bills'[b].disposition = None /\ bills[b].remaining \in Nat
        BY <3>2, <4>1, PaymentAssumption DEF BillRow
      <4>3. SettleBlocked(b)' => SettleBlocked(b)
        BY <4>2 DEF SettleBlocked
      <4>4. bills[b].remaining \in 1..bills[b].remaining
            /\ bills'[b].remaining = bills[b].remaining - bills[b].remaining
        BY <4>1, <4>2
      <4> QED BY <1>7, <2>1, <3>2, <4>3, <4>4
    <3>4. CASE governor.kind = "accept"
      <4>1. bills'[b] = [bills[b] EXCEPT !.remaining = 0, !.dispute = "ACCEPTED"]
            /\ bills[b].remaining = Amount /\ bills[b].dispute = "OPEN"
        BY <3>1, <3>2, <3>4 DEF Decided, MayDecide
      <4>2. bills'[b].remaining = 0 /\ bills[b].remaining \in Nat \ {0}
        BY <3>2, <4>1, PaymentAssumption DEF BillRow
      <4>3. SettleBlocked(b)' => SettleBlocked(b)
        BY <4>1 DEF SettleBlocked
      <4>4. bills[b].remaining \in 1..bills[b].remaining
            /\ bills'[b].remaining = bills[b].remaining - bills[b].remaining
        BY <4>2
      <4> QED BY <1>7, <2>1, <3>2, <4>3, <4>4
    <3>5. CASE governor.kind \in {"dispute", "legal"}
      <4>1. bills'[b].remaining = bills[b].remaining
        BY <3>2, <3>5 DEF Decided, BillRow
      <4> QED BY <1>8, <2>1, <3>2, <4>1
    <3> QED BY <2>1, <3>3, <3>4, <3>5
  <2> QED BY <2>2, <2>3
<1>10. ASSUME NEW b \in Governed, RejectDispute(b) \/ RecordDisputed(b) PROVE Goal
  <2>1. /\ UNCHANGED <<orders, credited>>
        /\ \/ bills' = [bills EXCEPT ![b] = [bills[b] EXCEPT !.dispute = "REJECTED"]]
           \/ bills' = [bills EXCEPT ![b] = [bills[b] EXCEPT !.disposition = "DISPUTED"]]
    BY <1>10 DEF RejectDispute, RecordDisputed, WithoutClosing
  <2>2. \A c \in Bills : bills'[c].remaining = bills[c].remaining
    <3>1. /\ [bills[b] EXCEPT !.dispute = "REJECTED"].remaining = bills[b].remaining
          /\ [bills[b] EXCEPT !.disposition = "DISPUTED"].remaining = bills[b].remaining
      BY <1>0 DEF BillRow
    <3> QED BY <1>0, <2>1, <3>1
  <2> QED BY <1>8, <2>1, <2>2
<1>11. ASSUME NEW b \in Bills, NEW n \in 1..Amount, WriteOffPayment(b, n) PROVE Goal
  <2>1. /\ UNCHANGED <<orders, credited>> /\ n <= bills[b].remaining
        /\ bills' = [bills EXCEPT ![b] = [bills[b] EXCEPT !.remaining = @ - n]]
    BY <1>11 DEF WriteOffPayment, WithoutClosing
  <2>2. /\ bills'[b].remaining = bills[b].remaining - n
        /\ bills'[b].dispute = bills[b].dispute /\ bills'[b].disposition = bills[b].disposition
        /\ \A c \in Bills \ {b} : bills'[c] = bills[c]
    BY <1>0, <2>1 DEF BillRow
  <2>3. SettleBlocked(b)' => SettleBlocked(b)
    BY <2>2 DEF SettleBlocked
  <2>4. n \in 1..bills[b].remaining
    BY <1>0, <2>1, PaymentAssumption DEF BillRow
  <2> QED BY <1>7, <2>1, <2>2, <2>3, <2>4
<1>12. CASE \E s \in Sessions : Session(s)
  BY <1>2, <1>3, <1>4, <1>12
     DEF Session, Start, ReadOrder, OpenTrade, OpenTradeLost, UndoTrade, Abandon
<1>13. CASE \E o \in Orders : Pay(o) \/ Settlement(o)
  BY <1>2, <1>5, <1>13 DEF Pay, Settlement, Callback, SettleTimeout, SettleFails
<1>14. CASE Governance
  BY <1>2, <1>6, <1>9, <1>10, <1>11, <1>14
     DEF Governance, Begin, ListOrders, TransferTimeout, CloseFails
<1>15. CASE UNCHANGED vars
  BY <1>2, <1>15 DEF vars
<1> QED BY <1>12, <1>13, <1>14, <1>15 DEF Next

\* Online payment implements the account of the bills: whatever interleaving of
\* requests, callbacks, governance and faults, the money of an order is booked
\* at most once and no bill is credited more than is open on it.
THEOREM ImplementsAccount == Spec => FollowsAccount
<1>1. Init => Account!Init
  BY AccountInit
<1>2. PInv /\ [Next]_vars => [Account!Next]_<<Asked, credited, Paid, Remaining, Held>>
  BY AccountStep
<1>3. PInv /\ [Next]_vars =>
        [Account!Next]_<<[o \in Orders |-> orders[o].items], credited,
                         {o \in Orders : orders[o].status = "PAID"},
                         [b \in Bills |-> bills[b].remaining],
                         {b \in Bills : SettleBlocked(b)}>>
  BY <1>2 DEF Asked, Paid, Remaining, Held
<1> QED BY <1>1, <1>3, PaymentInvariance, PTL DEF Spec, FollowsAccount, Account!Spec
=============================================================================
