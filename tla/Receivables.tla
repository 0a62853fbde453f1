---------------------------- MODULE Receivables ----------------------------
(***************************************************************************)
(* The money and the collection of one order's bills (finance.service.ts): *)
(* payments are written off against bills, the deposit is deducted or      *)
(* refunded, bills that are past due are marked OVERDUE and collected in a *)
(* case, and the case is closed when they are settled.                     *)
(*                                                                         *)
(* Transactions run at READ COMMITTED: a row lock protects the bill, but   *)
(* what is read of the payment, the deposit and the collection case may be *)
(* out of date at the commit.  All bills of the model are past due.        *)
(***************************************************************************)
EXTENDS Integers, FiniteSets

CONSTANTS
  Bills,
  DepositBill, DamageBill,   \* two of the bills, by type
  Governed,                  \* the bills a closure may dispose of
  Payments,                  \* payments finance registers, of Amount each
  Clerks,                    \* transactions that run at the same time
  Amount,                    \* the amount of a bill
  MaxCases, MaxRequests      \* bounds

Own == "own"            \* the payment a settlement registers for itself

\* A closure finds the deposit bill PAID, because the activation needs it so.
ASSUME ReceivablesAssumption ==
  /\ {DepositBill, DamageBill} \cup Governed \subseteq Bills
  /\ DepositBill # DamageBill /\ DepositBill \notin Governed
  /\ IsFiniteSet(Bills) /\ Own \notin Payments
  /\ Amount \in Nat \ {0} /\ MaxCases \in Nat /\ MaxRequests \in Nat

VARIABLES
  bills,      \* receivable_bill rows
  credited,   \* sum of the write-offs of each bill
  allocated,  \* sum of the write-offs of each payment
  deposit,    \* sums of the deposit ledger's entries
  cases,      \* collection cases of the order with their bills
  clerks,     \* transactions under way
  marker,     \* the overdue marking under way: it holds the order's row
  closer,     \* a case a request is about to close
  requests,
  stale,      \* history: payments, and the deposit, spent on an outdated read
  raced       \* history: bills whose marking met the closing of the case

vars == <<bills, credited, allocated, deposit, cases, clerks, marker, closer,
          requests, stale, raced>>

Unpaid == {"PENDING", "PARTIALLY_PAID", "OVERDUE"}
TheDeposit == "deposit"

Cases == 1..MaxCases
NoCase == 0

BillRow == [remaining : 0..Amount, paid : 0..Amount, status : Unpaid \cup {"PAID", "CANCELLED"}]
NewBill == [remaining |-> Amount, paid |-> 0, status |-> "PENDING"]

\* A case that is about to be closed, and the bills it had when that was decided.
Closing == [case : Cases \cup {NoCase}, bills : SUBSET Bills]
NotClosing == [case |-> NoCase, bills |-> {}]

Clerk == [kind : {"idle", "writeOff", "settle", "deduct", "refund"},
          step : {"asked", "locked"},
          payment : Payments \cup {Own}, bills : SUBSET Bills, asked : 0..Amount,
          read : Int, settles : Closing, copy : [Bills -> BillRow]]
Idle == [kind |-> "idle", step |-> "asked", payment |-> Own, bills |-> {}, asked |-> 0,
         read |-> 0, settles |-> NotClosing, copy |-> [b \in Bills |-> NewBill]]
NotMarking == [step |-> "idle", bills |-> {}, case |-> NoCase]

TypeOK ==
  /\ bills \in [Bills -> BillRow]
  /\ credited \in [Bills -> 0..Amount]
  /\ allocated \in [Payments -> Nat]
  /\ deposit \in [collected : 0..Amount, deducted : 0..Amount, refunded : Nat]
  /\ cases \in [Cases -> [status : {"NONE", "ACTIVE", "CLOSED"}, bills : SUBSET Bills]]
  /\ clerks \in [Clerks -> Clerk]
  /\ marker \in [step : {"idle", "listed", "locked"}, bills : SUBSET Bills,
                 case : Cases \cup {NoCase}]
  /\ closer \in Closing
  /\ requests \in 0..MaxRequests
  /\ stale \subseteq Payments \cup {TheDeposit}
  /\ raced \subseteq Bills

Init ==
  /\ bills = [b \in Bills |-> NewBill]
  /\ credited = [b \in Bills |-> 0]
  /\ allocated = [p \in Payments |-> 0]
  /\ deposit = [collected |-> 0, deducted |-> 0, refunded |-> 0]
  /\ cases = [c \in Cases |-> [status |-> "NONE", bills |-> {}]]
  /\ clerks = [k \in Clerks |-> Idle]
  /\ marker = NotMarking
  /\ closer = NotClosing
  /\ requests = 0
  /\ stale = {} /\ raced = {}

Active(c) == cases[c].status = "ACTIVE"

\* The partial unique index on collection_case allows one.
ActiveCase == IF \E c \in Cases : Active(c) THEN CHOOSE c \in Cases : Active(c) ELSE NoCase

\* Mutant: nothing is locked.
LockedByNone(k) == {}

\* The bills whose rows a transaction holds.
LockedBy(k) == IF clerks[k].step = "locked" THEN clerks[k].bills ELSE {}

Marked == IF marker.step = "locked" THEN marker.bills ELSE {}
Free(S, others) == S \cap (Marked \cup UNION {LockedBy(k) : k \in others}) = {}

\* Mutants: what was spent before is not counted.
LeftAmount(p) == Amount
BalanceCollected == deposit.collected

\* What a payment, and the deposit, still has to give.
Left(p) == Amount - allocated[p]
Balance == deposit.collected - deposit.deducted - deposit.refunded

Ask(k, r) ==
  /\ clerks[k] = Idle
  /\ requests < MaxRequests
  /\ requests' = requests + 1
  /\ clerks' = [clerks EXCEPT ![k] = r]
  /\ UNCHANGED <<bills, credited, allocated, deposit, cases, marker, closer, stale, raced>>

Leave(k) == clerks' = [clerks EXCEPT ![k] = Idle]

-----------------------------------------------------------------------------
(* Write-off of a registered payment, and settlement of a payment order    *)

\* writeOffPayment reads the payment and its write-offs without a lock.
AskWriteOff(k, p, S, n) ==
  /\ Cardinality(S) * n <= Left(p)
  /\ Ask(k, [Idle EXCEPT !.kind = "writeOff", !.payment = p, !.bills = S, !.asked = n,
                         !.read = Left(p)])

\* Mutant: what is open on the bill is not looked at.
CreditAsked(k, b) == IF b \in clerks[k].bills THEN clerks[k].asked ELSE 0

\* What is credited to a bill, given what was read of it under the lock.
Credit(k, b) ==
  LET t == clerks[k] IN
  IF b \notin t.bills \/ (t.kind = "settle" /\ bills[b].status = "CANCELLED") THEN 0
  ELSE IF t.asked <= t.copy[b].remaining THEN t.asked ELSE t.copy[b].remaining

\* Mutant: the case is closed when the bills of this payment are settled.
OpenPaid(c, S, n) == {b \in cases[c].bills \cap S : bills[b].remaining > n}

\* The bills of a case that stay open when n is credited to S.
OpenBills(c, S, n) ==
  {b \in cases[c].bills : bills[b].remaining > (IF b \in S THEN n ELSE 0)}

\* The rows of the bills are locked and read, then the active case with the
\* bills it has at this moment (reconcileCollectionCasesAfterSettlement).
Locked(t) ==
  LET c == ActiveCase IN
  [t EXCEPT !.step = "locked", !.copy = bills,
            !.settles = IF /\ c # NoCase /\ cases[c].bills \cap t.bills # {}
                           /\ OpenBills(c, t.bills, t.asked) = {}
                        THEN [case |-> c, bills |-> cases[c].bills] ELSE NotClosing]

LockWriteOff(k) ==
  /\ clerks[k].kind = "writeOff" /\ clerks[k].step = "asked"
  /\ LET t == clerks[k] IN
       /\ Free(t.bills, Clerks \ {k})
       /\ IF \E b \in t.bills : bills[b].status = "CANCELLED" \/ t.asked > bills[b].remaining
          THEN Leave(k)
          ELSE clerks' = [clerks EXCEPT ![k] = Locked(t)]
  /\ UNCHANGED <<bills, credited, allocated, deposit, cases, marker, closer, requests, stale, raced>>

\* settlePaymentOrder registers the money as a payment of its own; all it
\* reads of the account it reads under the locks.
LockSettle(k, S, n) ==
  /\ Free(S, Clerks \ {k})
  /\ Ask(k, Locked([Idle EXCEPT !.kind = "settle", !.bills = S, !.asked = n]))

\* The row as it was read, with n credited to it.
Paid(bill, n) ==
  [remaining |-> bill.remaining - n, paid |-> bill.paid + n,
   status |-> IF bill.remaining = n THEN "PAID" ELSE "PARTIALLY_PAID"]

\* Close a case; the bills that came to it meanwhile are remembered.
Close(closing) ==
  /\ cases' = IF closing.case = NoCase THEN cases ELSE [cases EXCEPT ![closing.case].status = "CLOSED"]
  /\ raced' = IF closing.case = NoCase THEN raced ELSE raced \cup (cases[closing.case].bills \ closing.bills)

CommitCredit(k) ==
  /\ clerks[k].kind \in {"writeOff", "settle"} /\ clerks[k].step = "locked"
  /\ LET t == clerks[k] IN
       /\ bills' = [b \in Bills |->
            IF Credit(k, b) > 0 THEN Paid(t.copy[b], Credit(k, b)) ELSE bills[b]]
       /\ credited' = [b \in Bills |-> credited[b] + Credit(k, b)]
       /\ allocated' = [p \in Payments |->
            IF p = t.payment THEN allocated[p] + Cardinality(t.bills) * t.asked ELSE allocated[p]]
       /\ deposit' = IF bills'[DepositBill].status = "PAID" /\ deposit.collected = 0
                     THEN [deposit EXCEPT !.collected = bills'[DepositBill].paid] ELSE deposit
       /\ stale' = IF t.payment # Own /\ t.read # Left(t.payment)
                   THEN stale \cup {t.payment} ELSE stale
       /\ Close(t.settles)
  /\ Leave(k)
  /\ UNCHANGED <<marker, closer, requests>>

-----------------------------------------------------------------------------
(* The deposit *)

\* deductDeposit locks the damage bill and reads the ledger without a lock.
LockDeduct(k, n) ==
  /\ Free({DamageBill}, Clerks \ {k})
  /\ bills[DamageBill].status # "CANCELLED"
  /\ n <= Balance /\ n <= bills[DamageBill].remaining
  /\ Ask(k, [Idle EXCEPT !.kind = "deduct", !.step = "locked", !.bills = {DamageBill},
                         !.asked = n, !.read = Balance, !.copy = bills])

Outdated(k) == IF clerks[k].read # Balance THEN stale \cup {TheDeposit} ELSE stale

CommitDeduct(k) ==
  /\ clerks[k].kind = "deduct" /\ clerks[k].step = "locked"
  /\ deposit' = [deposit EXCEPT !.deducted = @ + clerks[k].asked]
  /\ bills' = [bills EXCEPT ![DamageBill] = Paid(clerks[k].copy[DamageBill], clerks[k].asked)]
  /\ stale' = Outdated(k)
  /\ Leave(k)
  /\ UNCHANGED <<credited, allocated, cases, marker, closer, requests, raced>>

\* refundDeposit locks nothing.
AskRefund(k, n) ==
  /\ n <= Balance
  /\ Ask(k, [Idle EXCEPT !.kind = "refund", !.asked = n, !.read = Balance])

CommitRefund(k) ==
  /\ clerks[k].kind = "refund"
  /\ deposit' = [deposit EXCEPT !.refunded = @ + clerks[k].asked]
  /\ stale' = Outdated(k)
  /\ Leave(k)
  /\ UNCHANGED <<bills, credited, allocated, cases, marker, closer, requests, raced>>

\* A transaction fails, or its process dies: nothing of it is kept.
Fail(k) ==
  /\ clerks[k] # Idle
  /\ Leave(k)
  /\ UNCHANGED <<bills, credited, allocated, deposit, cases, marker, closer, requests, stale, raced>>

-----------------------------------------------------------------------------
(* Overdue marking and collection *)

Open(b) == bills[b].remaining > 0 /\ bills[b].status \in Unpaid

\* refreshOverdueBills lists all open bills; the job of a bill knows it.
List(S) ==
  /\ marker = NotMarking
  /\ S = {b \in Bills : Open(b)} \/ \E b \in Bills : S = {b}
  /\ marker' = [step |-> "listed", bills |-> S, case |-> NoCase]
  /\ UNCHANGED <<bills, credited, allocated, deposit, cases, clerks, closer, requests, stale, raced>>

\* Mutant: the bills are not read again under the lock.
StillListed(S) == S

\* What is still open under the lock is marked.
StillOpen(S) == {b \in S : Open(b)}

\* The order's row and the bills are locked and read again, then the case.
LockOrder ==
  /\ marker.step = "listed"
  /\ Free(marker.bills, Clerks)
  /\ marker' = [step |-> "locked", bills |-> StillOpen(marker.bills), case |-> ActiveCase]
  /\ UNCHANGED <<bills, credited, allocated, deposit, cases, clerks, closer, requests, stale, raced>>

Unlinked == CHOOSE c \in Cases : cases[c].status = "NONE"

CommitMarks ==
  /\ marker.step = "locked"
  /\ LET S == marker.bills
         c == IF marker.case # NoCase \/ S = {} THEN marker.case ELSE Unlinked
     IN
       /\ S # {} /\ marker.case = NoCase => \E d \in Cases : cases[d].status = "NONE"
       /\ bills' = [b \in Bills |-> IF b \in S THEN [bills[b] EXCEPT !.status = "OVERDUE"] ELSE bills[b]]
       /\ cases' = IF S = {} THEN cases
                   ELSE [cases EXCEPT
                          ![c].status = IF @ = "NONE" THEN "ACTIVE" ELSE @,
                          ![c].bills = @ \cup S]
       /\ raced' = IF marker.case # NoCase /\ ~Active(marker.case) THEN raced \cup S ELSE raced
  /\ marker' = NotMarking
  /\ UNCHANGED <<credited, allocated, deposit, clerks, closer, requests, stale>>

\* closeCollectionCase checks the bills before its transaction.
CheckClose(c) ==
  /\ closer = NotClosing
  /\ Active(c)
  /\ \A b \in cases[c].bills : ~Open(b)
  /\ closer' = [case |-> c, bills |-> cases[c].bills]
  /\ UNCHANGED <<bills, credited, allocated, deposit, cases, clerks, marker, requests, stale, raced>>

CloseCase ==
  /\ closer # NotClosing
  /\ Close(closer)
  /\ closer' = NotClosing
  /\ UNCHANGED <<bills, credited, allocated, deposit, clerks, marker, requests, stale>>

Waived(bill) == [remaining |-> 0, paid |-> bill.paid, status |-> "CANCELLED"]

\* The governance of a closure confirms a payment for a bill, or waives it or
\* writes it off; the balance must be the one it read.
Dispose(b, status) ==
  /\ Open(b) /\ Free({b}, Clerks)
  /\ requests < MaxRequests
  /\ requests' = requests + 1
  /\ bills' = [bills EXCEPT ![b] =
       IF status = "PAID" THEN Paid(@, @.remaining)
       ELSE Waived(@)]
  /\ credited' = IF status = "PAID" THEN [credited EXCEPT ![b] = @ + bills[b].remaining] ELSE credited
  /\ UNCHANGED <<allocated, deposit, cases, clerks, marker, closer, stale, raced>>

-----------------------------------------------------------------------------

Finance(k) ==
  \/ \E S \in (SUBSET Bills) \ {{}}, n \in 1..Amount :
       LockSettle(k, S, n) \/ \E p \in Payments : AskWriteOff(k, p, S, n)
  \/ LockWriteOff(k) \/ CommitCredit(k)
  \/ \E n \in 1..Amount : LockDeduct(k, n) \/ AskRefund(k, n)
  \/ CommitDeduct(k) \/ CommitRefund(k) \/ Fail(k)

Collection ==
  \/ \E S \in SUBSET Bills : List(S)
  \/ LockOrder \/ CommitMarks \/ CloseCase
  \/ \E c \in Cases : CheckClose(c)

Next ==
  \/ \E k \in Clerks : Finance(k)
  \/ Collection
  \/ \E b \in Governed, status \in {"PAID", "CANCELLED"} : Dispose(b, status)

Spec == Init /\ [][Next]_vars

-----------------------------------------------------------------------------
(* Properties *)

\* The books balance: what a bill says was paid is what was written off and
\* deducted for it, nothing is lost between two transactions on one bill, and
\* the deposit is collected once, when its bill is paid (lockReceivableBills).
BooksBalance ==
  /\ \A b \in Bills :
       /\ bills[b].paid = credited[b] + (IF b = DamageBill THEN deposit.deducted ELSE 0)
       /\ bills[b].status = "CANCELLED" \/ bills[b].paid + bills[b].remaining = Amount
  /\ deposit.collected = IF bills[DepositBill].status = "PAID" THEN Amount ELSE 0

\* A payment is written off once: only a write-off that decided on what was
\* left before another one can exceed it (writeOffPayment).
PaymentNotExceeded == \A p \in Payments : allocated[p] <= Amount \/ p \in stale

\* No more of the deposit is deducted and refunded than was collected, except
\* on an outdated read (deductDeposit, refundDeposit).
DepositNotExceeded ==
  deposit.deducted + deposit.refunded <= deposit.collected \/ TheDeposit \in stale

\* An overdue bill is under collection: it is in the active case, unless its
\* marking met the closing of that case (markBillOverdueForAutomation against
\* reconcileCollectionCasesAfterSettlement and closeCollectionCase).
OverdueIsCollected ==
  \A b \in Bills :
    bills[b].status = "OVERDUE" =>
      b \in raced \/ \E c \in Cases : Active(c) /\ b \in cases[c].bills

\* A settlement wins over a marking that runs at the same time: a bill that
\* was settled is never marked, and its money is never given back.
SettledIsFinal ==
  [][\A b \in Bills :
       /\ ~Open(b) => bills'[b] = bills[b]
       /\ bills'[b].remaining <= bills[b].remaining
       /\ bills'[b].paid >= bills[b].paid]_vars
=============================================================================
