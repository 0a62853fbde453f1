------------------------- MODULE ReceivablesProofs -------------------------
(***************************************************************************)
(* Theorems about Receivables for any bills, payments, concurrent          *)
(* transactions and amount.                                                *)
(***************************************************************************)
EXTENDS Receivables, FiniteSetTheorems, TLAPS

(***************************************************************************)
(* The inductive invariant                                                 *)
(***************************************************************************)

\* A bill has an open balance exactly while its status says so.
Rows ==
  \A b \in Bills : IF bills[b].status \in Unpaid THEN bills[b].remaining > 0
                                                 ELSE bills[b].remaining = 0

\* A locked bill is as its transaction has read it, and nobody else has it.
Locks ==
  /\ \A k \in Clerks, b \in Bills :
       b \in LockedBy(k) => /\ clerks[k].copy[b] = bills[b]
                            /\ b \notin Marked
                            /\ \A j \in Clerks \ {k} : b \notin LockedBy(j)
  /\ \A b \in Marked : Open(b)

\* What a transaction wants fits what it has read.
Fits(t) ==
  /\ t.kind = "writeOff" => Cardinality(t.bills) * t.asked <= t.read
  /\ t.kind # "writeOff" => t.payment = Own
  /\ t.kind \in {"deduct", "refund"} => t.asked <= t.read
  /\ t.kind = "deduct" => /\ t.step = "locked" /\ t.bills = {DamageBill}
                          /\ 1 <= t.asked /\ t.asked <= t.copy[DamageBill].remaining
  /\ t.kind = "refund" => t.step = "asked"
Requests == \A k \in Clerks : Fits(clerks[k])

\* The bills of a case about to be closed are settled, or will be with it.
Settles(t) ==
  \A b \in t.settles.bills : bills[b].remaining <= (IF b \in t.bills THEN t.asked ELSE 0)
Closings ==
  /\ \A k \in Clerks : Settles(clerks[k])
  /\ \A b \in closer.bills : ~Open(b)

Inv ==
  /\ TypeOK /\ Rows /\ Locks /\ Requests /\ Closings
  /\ BooksBalance /\ PaymentNotExceeded /\ DepositNotExceeded /\ OverdueIsCollected

(***************************************************************************)
(* Lemmas about the operators                                              *)
(***************************************************************************)

LEMMA Amounts ==
  ASSUME NEW S \in SUBSET Bills, NEW n \in 0..Amount
  PROVE  Cardinality(S) * n \in Nat
<1>1. Cardinality(S) \in Nat
  BY FS_Subset, FS_CardinalityType, ReceivablesAssumption
<1> DEFINE c == Cardinality(S)
<1> HIDE DEF c
<1>2. c \in Nat /\ n \in Nat => c * n \in Nat
  OBVIOUS
<1> QED BY <1>1, <1>2, ReceivablesAssumption DEF c

LEMMA ActiveCaseType == ActiveCase \in Cases \cup {NoCase}
BY DEF ActiveCase

LEMMA ActiveCaseActive == ActiveCase # NoCase => Active(ActiveCase)
<1>1. CASE \E c \in Cases : Active(c)
  BY <1>1 DEF ActiveCase
<1>2. CASE ~\E c \in Cases : Active(c)
  BY <1>2 DEF ActiveCase
<1> QED BY <1>1, <1>2

LEMMA PaidRow ==
  ASSUME NEW r \in BillRow, NEW n \in 1..r.remaining, r.paid + r.remaining = Amount
  PROVE  /\ Paid(r, n) \in BillRow
         /\ Paid(r, n).remaining = r.remaining - n
         /\ Paid(r, n).paid = r.paid + n
         /\ Paid(r, n).status = IF r.remaining = n THEN "PAID" ELSE "PARTIALLY_PAID"
BY ReceivablesAssumption DEF Paid, BillRow, Unpaid

\* What a transaction credits to a bill is at most what is open on it.
LEMMA CreditBound ==
  ASSUME Inv, NEW k \in Clerks, clerks[k].step = "locked", NEW b \in Bills
  PROVE  /\ Credit(k, b) \in 0..bills[b].remaining
         /\ Credit(k, b) > 0 => /\ b \in clerks[k].bills /\ clerks[k].copy[b] = bills[b]
                                /\ Open(b)
         /\ b \in clerks[k].bills /\ bills[b].remaining <= clerks[k].asked
              => Credit(k, b) = bills[b].remaining
<1>1. b \in clerks[k].bills => clerks[k].copy[b] = bills[b]
  BY DEF Inv, Locks, LockedBy
<1>2. clerks[k].asked \in 0..Amount /\ bills[b] \in BillRow
  BY DEF Inv, TypeOK, Clerk
<1>3. bills[b].remaining > 0 => bills[b].status \in Unpaid
  BY DEF Inv, Rows
<1>4. bills[b].status = "CANCELLED" => bills[b].remaining = 0
  BY DEF Inv, Rows, Unpaid
<1>5. CASE b \notin clerks[k].bills \/ (clerks[k].kind = "settle" /\ bills[b].status = "CANCELLED")
  BY <1>2, <1>4, <1>5, ReceivablesAssumption DEF Credit, BillRow
<1>6. CASE ~(b \notin clerks[k].bills \/ (clerks[k].kind = "settle" /\ bills[b].status = "CANCELLED"))
  BY <1>1, <1>2, <1>3, <1>6, ReceivablesAssumption DEF Credit, BillRow, Open
<1> QED BY <1>5, <1>6

(***************************************************************************)
(* What a step does to a bill                                              *)
(***************************************************************************)

Moves(b) ==
  \/ bills'[b] = bills[b]
  \/ /\ Open(b)
     /\ \/ \E n \in 1..bills[b].remaining : bills'[b] = Paid(bills[b], n)
        \/ bills'[b] = Waived(bills[b])
        \/ bills'[b] = [bills[b] EXCEPT !.status = "OVERDUE"]

LEMMA BillBalance ==
  ASSUME Inv, NEW b \in Bills, Open(b)
  PROVE  bills[b].paid + bills[b].remaining = Amount /\ bills[b] \in BillRow
BY DEF Inv, BooksBalance, Open, Unpaid, TypeOK

LEMMA StepMoves ==
  ASSUME Inv, [Next]_vars
  PROVE  /\ bills' = [b \in Bills |-> bills'[b]]
         /\ \A b \in Bills : Moves(b)
<1>0. bills \in [Bills -> BillRow]
  BY DEF Inv, TypeOK
<1>1. CASE UNCHANGED bills
  BY <1>0, <1>1 DEF Moves
<1>2. ASSUME NEW k \in Clerks, CommitCredit(k)
      PROVE  /\ bills' = [b \in Bills |-> bills'[b]]
             /\ \A b \in Bills : Moves(b)
  <2>1. bills' = [b \in Bills |->
           IF Credit(k, b) > 0 THEN Paid(clerks[k].copy[b], Credit(k, b)) ELSE bills[b]]
    BY <1>2 DEF CommitCredit
  <2>2. ASSUME NEW b \in Bills PROVE Moves(b)
    <3>1. CASE Credit(k, b) > 0
      <4>1. Credit(k, b) \in 1..bills[b].remaining /\ Open(b) /\ clerks[k].copy[b] = bills[b]
        BY <1>2, <3>1, CreditBound, <1>0 DEF CommitCredit, BillRow
      <4> QED BY <2>1, <3>1, <4>1 DEF Moves
    <3>2. CASE ~(Credit(k, b) > 0)
      BY <2>1, <3>2 DEF Moves
    <3> QED BY <3>1, <3>2
  <2> QED BY <2>1, <2>2
<1>3. ASSUME NEW k \in Clerks, CommitDeduct(k)
      PROVE  /\ bills' = [b \in Bills |-> bills'[b]]
             /\ \A b \in Bills : Moves(b)
  <2>1. bills' = [bills EXCEPT ![DamageBill] = Paid(clerks[k].copy[DamageBill], clerks[k].asked)]
    BY <1>3 DEF CommitDeduct
  <2>2. DamageBill \in Bills
    BY ReceivablesAssumption
  <2>3. /\ clerks[k].bills = {DamageBill} /\ clerks[k].step = "locked"
        /\ 1 <= clerks[k].asked /\ clerks[k].asked <= clerks[k].copy[DamageBill].remaining
    BY <1>3 DEF CommitDeduct, Inv, Requests, Fits
  <2>4. clerks[k].copy[DamageBill] = bills[DamageBill]
    BY <2>2, <2>3 DEF Inv, Locks, LockedBy
  <2>5. clerks[k].asked \in 1..bills[DamageBill].remaining
    BY <2>2, <2>3, <2>4, <1>0, ReceivablesAssumption DEF Inv, TypeOK, Clerk, BillRow
  <2>6. Open(DamageBill)
    <3>1. bills[DamageBill].remaining > 0
      BY <2>2, <2>5, <1>0, ReceivablesAssumption DEF BillRow
    <3> QED BY <2>2, <3>1 DEF Inv, Rows, Open
  <2> QED BY <1>0, <2>1, <2>2, <2>4, <2>5, <2>6 DEF Moves
<1>4. ASSUME CommitMarks
      PROVE  /\ bills' = [b \in Bills |-> bills'[b]]
             /\ \A b \in Bills : Moves(b)
  <2>1. bills' = [b \in Bills |-> IF b \in marker.bills THEN [bills[b] EXCEPT !.status = "OVERDUE"] ELSE bills[b]]
    BY <1>4 DEF CommitMarks
  <2>2. \A b \in marker.bills : Open(b)
    BY <1>4 DEF CommitMarks, Inv, Locks, Marked
  <2> QED BY <2>1, <2>2 DEF Moves
<1>5. ASSUME NEW b \in Governed, NEW status \in {"PAID", "CANCELLED"}, Dispose(b, status)
      PROVE  /\ bills' = [c \in Bills |-> bills'[c]]
             /\ \A c \in Bills : Moves(c)
  <2>1. bills' = [bills EXCEPT ![b] =
            IF status = "PAID" THEN Paid(bills[b], bills[b].remaining)
            ELSE Waived(bills[b])]
    BY <1>5, <1>0 DEF Dispose
  <2>2. b \in Bills /\ Open(b) /\ bills[b].remaining \in 1..bills[b].remaining
    BY <1>5, <1>0, ReceivablesAssumption DEF Dispose, Open, BillRow
  <2>3. CASE status = "PAID"
    BY <1>0, <2>1, <2>2, <2>3 DEF Moves
  <2>4. CASE status # "PAID"
    BY <1>0, <2>1, <2>2, <2>4 DEF Moves
  <2> QED BY <2>3, <2>4
<1>6. ASSUME NEW k \in Clerks, Finance(k), ~CommitCredit(k), ~CommitDeduct(k)
      PROVE  UNCHANGED bills
  BY <1>6 DEF Finance, LockSettle, AskWriteOff, LockWriteOff, LockDeduct, AskRefund, Ask,
              CommitRefund, Fail
<1>7. ASSUME Collection, ~CommitMarks
      PROVE  UNCHANGED bills
  BY <1>7 DEF Collection, List, LockOrder, CloseCase, CheckClose
<1> QED BY <1>1, <1>2, <1>3, <1>4, <1>5, <1>6, <1>7 DEF Next, vars

\* Money is never given back, what is settled stays as it is and the rows
\* stay in order.
LEMMA MovesMean ==
  ASSUME Inv, NEW b \in Bills, Moves(b)
  PROVE  /\ bills'[b] \in BillRow
         /\ IF bills'[b].status \in Unpaid THEN bills'[b].remaining > 0
                                           ELSE bills'[b].remaining = 0
         /\ bills'[b].remaining <= bills[b].remaining
         /\ bills'[b].paid >= bills[b].paid
         /\ ~Open(b) => bills'[b] = bills[b]
         /\ bills'[b].status = "CANCELLED" \/ bills'[b].paid + bills'[b].remaining = Amount
<1>0. bills[b] \in BillRow
  BY DEF Inv, TypeOK
<1>1. CASE bills'[b] = bills[b]
  <2>1. IF bills[b].status \in Unpaid THEN bills[b].remaining > 0 ELSE bills[b].remaining = 0
    BY DEF Inv, Rows
  <2>2. bills[b].status = "CANCELLED" \/ bills[b].paid + bills[b].remaining = Amount
    BY DEF Inv, BooksBalance
  <2> QED BY <1>0, <1>1, <2>1, <2>2, ReceivablesAssumption DEF BillRow
<1>2. ASSUME Open(b), NEW n \in 1..bills[b].remaining, bills'[b] = Paid(bills[b], n)
      PROVE  /\ bills'[b] \in BillRow
             /\ IF bills'[b].status \in Unpaid THEN bills'[b].remaining > 0
                                               ELSE bills'[b].remaining = 0
             /\ bills'[b].remaining <= bills[b].remaining
             /\ bills'[b].paid >= bills[b].paid
             /\ bills'[b].paid + bills'[b].remaining = Amount
  BY <1>2, BillBalance, PaidRow, ReceivablesAssumption DEF BillRow, Unpaid
<1>3. CASE Open(b) /\ bills'[b] = Waived(bills[b])
  <2>1. /\ bills'[b].remaining = 0 /\ bills'[b].status = "CANCELLED"
        /\ bills'[b].paid = bills[b].paid /\ bills'[b] \in BillRow
    BY <1>0, <1>3, ReceivablesAssumption DEF BillRow, Waived
  <2>2. bills[b].remaining \in 0..Amount /\ bills[b].paid \in 0..Amount
    BY <1>0 DEF BillRow
  <2>3. bills'[b].status \notin Unpaid
    BY <2>1 DEF Unpaid
  <2> QED BY <1>3, <2>1, <2>2, <2>3, ReceivablesAssumption
<1>4. CASE Open(b) /\ bills'[b] = [bills[b] EXCEPT !.status = "OVERDUE"]
  BY <1>0, <1>4, BillBalance, ReceivablesAssumption DEF BillRow, Unpaid, Open
<1> QED BY <1>1, <1>2, <1>3, <1>4 DEF Moves

(***************************************************************************)
(* What a step does to the transactions                                    *)
(***************************************************************************)

LEMMA ClerkTypes ==
  /\ Idle \in Clerk /\ NotClosing \in Closing
  /\ \A n \in 0..Amount, i \in Int :
       TypeOK => 
            /\ \A p \in Payments, S \in SUBSET Bills :
                 [Idle EXCEPT !.kind = "writeOff", !.payment = p, !.bills = S, !.asked = n,
                              !.read = i] \in Clerk
            /\ \A S \in SUBSET Bills :
                 [Idle EXCEPT !.kind = "settle", !.bills = S, !.asked = n] \in Clerk
            /\ [Idle EXCEPT !.kind = "deduct", !.step = "locked", !.bills = {DamageBill},
                            !.asked = n, !.read = i, !.copy = bills] \in Clerk
            /\ [Idle EXCEPT !.kind = "refund", !.asked = n, !.read = i] \in Clerk
<1>1. Idle \in Clerk /\ NotClosing \in Closing
  BY ReceivablesAssumption DEF Idle, Clerk, NotClosing, Closing, NewBill, BillRow, NoCase, Unpaid
<1>2. ASSUME NEW n \in 0..Amount, NEW i \in Int, TypeOK, NEW p \in Payments, NEW S \in SUBSET Bills
      PROVE  [Idle EXCEPT !.kind = "writeOff", !.payment = p, !.bills = S, !.asked = n,
                              !.read = i] \in Clerk
  BY <1>1, <1>2 DEF Idle, Clerk
<1>3. ASSUME NEW n \in 0..Amount, NEW i \in Int, TypeOK, NEW S \in SUBSET Bills
      PROVE  [Idle EXCEPT !.kind = "settle", !.bills = S, !.asked = n] \in Clerk
  BY <1>1, <1>3 DEF Idle, Clerk
<1>4. ASSUME NEW n \in 0..Amount, NEW i \in Int, TypeOK
      PROVE  /\ [Idle EXCEPT !.kind = "deduct", !.step = "locked", !.bills = {DamageBill},
                            !.asked = n, !.read = i, !.copy = bills] \in Clerk
             /\ [Idle EXCEPT !.kind = "refund", !.asked = n, !.read = i] \in Clerk
  BY <1>1, <1>4, ReceivablesAssumption DEF Idle, Clerk, TypeOK
<1> QED BY <1>1, <1>2, <1>3, <1>4

\* The transaction that locks: its record, and what it settles.
LEMMA LockedTypes ==
  ASSUME TypeOK, NEW t \in Clerk
  PROVE  /\ Locked(t) \in Clerk
         /\ Locked(t).step = "locked" /\ Locked(t).copy = bills
         /\ Locked(t).kind = t.kind /\ Locked(t).bills = t.bills /\ Locked(t).asked = t.asked
         /\ Locked(t).read = t.read /\ Locked(t).payment = t.payment
         /\ Settles(Locked(t))
         /\ Locked(t).settles.case # NoCase => Locked(t).settles.bills \subseteq Bills
<1> DEFINE c == ActiveCase
           g == /\ c # NoCase /\ cases[c].bills \cap t.bills # {}
                /\ OpenBills(c, t.bills, t.asked) = {}
           z == IF g THEN [case |-> c, bills |-> cases[c].bills] ELSE NotClosing
<1>1. Locked(t) = [t EXCEPT !.step = "locked", !.copy = bills, !.settles = z]
  BY DEF Locked
<1>2. z \in Closing
  BY ActiveCaseType, ClerkTypes DEF Closing, TypeOK
<1>3. \A b \in z.bills : bills[b].remaining <= (IF b \in t.bills THEN t.asked ELSE 0)
  <2>1. CASE g
    <3>1. \A b \in cases[c].bills : ~(bills[b].remaining > (IF b \in t.bills THEN t.asked ELSE 0))
      BY <2>1 DEF OpenBills
    <3>2. \A b \in cases[c].bills : bills[b].remaining \in Int
      BY <2>1, ActiveCaseType, ReceivablesAssumption DEF TypeOK, BillRow
    <3>3. t.asked \in Int
      BY ReceivablesAssumption DEF Clerk
    <3> QED BY <2>1, <3>1, <3>2, <3>3
  <2>2. CASE ~g
    BY <2>2 DEF NotClosing
  <2> QED BY <2>1, <2>2
<1> HIDE DEF z
<1>4. bills \in [Bills -> BillRow]
  BY DEF TypeOK
<1>5. /\ Locked(t) \in Clerk
      /\ Locked(t).step = "locked" /\ Locked(t).copy = bills /\ Locked(t).settles = z
      /\ Locked(t).kind = t.kind /\ Locked(t).bills = t.bills /\ Locked(t).asked = t.asked
      /\ Locked(t).read = t.read /\ Locked(t).payment = t.payment
  BY <1>1, <1>2, <1>4 DEF Clerk
<1> QED BY <1>2, <1>3, <1>5 DEF Settles, Closing

\* In a step a transaction stays as it is, ends, or asks or locks.
LEMMA StepClerks ==
  ASSUME Inv, [Next]_vars, NEW j \in Clerks
  PROVE  /\ clerks' = [k \in Clerks |-> clerks'[k]]
         /\ \/ clerks'[j] = clerks[j]
            \/ /\ clerks'[j] \in Clerk /\ Fits(clerks'[j]) /\ Settles(clerks'[j])
               /\ clerks'[j].step = "locked" =>
                    /\ clerks'[j].copy = bills /\ UNCHANGED <<bills, marker>>
                    /\ \A k \in Clerks \ {j} : clerks'[k] = clerks[k]
                    /\ Free(clerks'[j].bills, Clerks \ {j})
<1> DEFINE New(t, k) ==
             /\ t \in Clerk /\ Fits(t) /\ Settles(t)
             /\ t.step = "locked" => /\ t.copy = bills /\ UNCHANGED <<bills, marker>>
                                     /\ Free(t.bills, Clerks \ {k})
           Goal == /\ clerks' = [k \in Clerks |-> clerks'[k]]
                   /\ \/ clerks'[j] = clerks[j]
                      \/ /\ clerks'[j] \in Clerk /\ Fits(clerks'[j]) /\ Settles(clerks'[j])
                         /\ clerks'[j].step = "locked" =>
                              /\ clerks'[j].copy = bills /\ UNCHANGED <<bills, marker>>
                              /\ \A k \in Clerks \ {j} : clerks'[k] = clerks[k]
                              /\ Free(clerks'[j].bills, Clerks \ {j})
<1>0. clerks \in [Clerks -> Clerk]
  BY DEF Inv, TypeOK
<1>1. ASSUME NEW k \in Clerks, NEW t, New(t, k), clerks' = [clerks EXCEPT ![k] = t]
      PROVE  Goal
  <2>1. clerks' = [i \in Clerks |-> IF i = k THEN t ELSE clerks[i]]
    BY <1>0, <1>1
  <2>2. CASE j # k
    BY <2>1, <2>2
  <2>3. CASE j = k
    BY <1>1, <2>1, <2>3
  <2> QED BY <2>2, <2>3
<1>2. CASE UNCHANGED clerks
  BY <1>0, <1>2
<1>3. \A k \in Clerks : New(Idle, k)
  BY ClerkTypes DEF Idle, Fits, Settles, NotClosing
<1>4. ASSUME NEW k \in Clerks, Leave(k) PROVE Goal
  BY <1>1, <1>3, <1>4 DEF Leave
<1>5. ASSUME NEW k \in Clerks, NEW p \in Payments, NEW S \in SUBSET Bills, NEW n \in 1..Amount,
             AskWriteOff(k, p, S, n)
      PROVE  Goal
  <2> DEFINE t == [Idle EXCEPT !.kind = "writeOff", !.payment = p, !.bills = S, !.asked = n,
                               !.read = Left(p)]
  <2>1. Left(p) \in Int
    BY ReceivablesAssumption DEF Left, Inv, TypeOK
  <2>2. t \in Clerk /\ t.step = "asked" /\ t.settles = NotClosing
    <3>1. n \in 0..Amount /\ TypeOK
      BY DEF Inv
    <3>2. t.step = "asked" /\ t.settles = NotClosing
      BY DEF Idle
    <3> QED BY <2>1, <3>1, <3>2, ClerkTypes
  <2>3. Fits(t)
    BY <1>5 DEF AskWriteOff, Fits, Idle
  <2>4. New(t, k)
    BY <2>2, <2>3 DEF Settles, NotClosing
  <2> QED BY <1>1, <1>5, <2>4 DEF AskWriteOff, Ask
<1>6. ASSUME NEW k \in Clerks, NEW S \in SUBSET Bills, NEW n \in 1..Amount, LockSettle(k, S, n)
      PROVE  Goal
  <2> DEFINE t == [Idle EXCEPT !.kind = "settle", !.bills = S, !.asked = n]
  <2>1. t \in Clerk /\ t.kind = "settle" /\ t.payment = Own /\ t.bills = S
    <3>1. n \in 0..Amount /\ TypeOK /\ 0 \in Int
      BY DEF Inv
    <3>2. t.kind = "settle" /\ t.payment = Own /\ t.bills = S
      BY DEF Idle
    <3> HIDE DEF t
    <3>3. t \in Clerk
      BY <3>1, ClerkTypes DEF t
    <3> QED BY <3>2, <3>3
  <2> HIDE DEF t
  <2>2. Locked(t) \in Clerk /\ Settles(Locked(t)) /\ Fits(Locked(t)) /\ Locked(t).copy = bills
        /\ Locked(t).bills = S
    BY <2>1, LockedTypes DEF Inv, Fits
  <2>3. New(Locked(t), k)
    BY <1>6, <2>2 DEF LockSettle, Ask
  <2> QED BY <1>1, <1>6, <2>3 DEF LockSettle, Ask, t
<1>7. ASSUME NEW k \in Clerks, LockWriteOff(k) PROVE Goal
  <2> DEFINE t == clerks[k]
  <2>1. t \in Clerk /\ Fits(t) /\ t.kind = "writeOff"
    BY <1>0, <1>7 DEF LockWriteOff, Inv, Requests
  <2>2. CASE Leave(k)
    BY <1>4, <2>2
  <2>3. CASE clerks' = [clerks EXCEPT ![k] = Locked(t)]
    <3>1. Locked(t) \in Clerk /\ Settles(Locked(t)) /\ Fits(Locked(t)) /\ Locked(t).copy = bills
          /\ Locked(t).bills = t.bills
      BY <2>1, LockedTypes DEF Inv, Fits
    <3>2. New(Locked(t), k)
      BY <1>7, <3>1 DEF LockWriteOff
    <3> QED BY <1>1, <2>3, <3>2
  <2> QED BY <1>7, <2>2, <2>3 DEF LockWriteOff
<1>8. ASSUME NEW k \in Clerks, NEW n \in 1..Amount, LockDeduct(k, n) PROVE Goal
  <2> DEFINE t == [Idle EXCEPT !.kind = "deduct", !.step = "locked", !.bills = {DamageBill},
                               !.asked = n, !.read = Balance, !.copy = bills]
  <2>1. Balance \in Int
    BY ReceivablesAssumption DEF Balance, Inv, TypeOK
  <2>2. t \in Clerk /\ t.settles = NotClosing /\ t.copy = bills /\ t.bills = {DamageBill}
    <3>1. n \in 0..Amount /\ TypeOK
      BY DEF Inv
    <3>2. t.settles = NotClosing /\ t.copy = bills /\ t.bills = {DamageBill}
      BY DEF Idle
    <3> QED BY <2>1, <3>1, <3>2, ClerkTypes
  <2>3. Fits(t)
    BY <1>8 DEF LockDeduct, Fits, Idle
  <2>4. New(t, k)
    BY <1>8, <2>2, <2>3 DEF Settles, NotClosing, LockDeduct, Ask
  <2> QED BY <1>1, <1>8, <2>4 DEF LockDeduct, Ask
<1>9. ASSUME NEW k \in Clerks, NEW n \in 1..Amount, AskRefund(k, n) PROVE Goal
  <2> DEFINE t == [Idle EXCEPT !.kind = "refund", !.asked = n, !.read = Balance]
  <2>1. Balance \in Int
    BY ReceivablesAssumption DEF Balance, Inv, TypeOK
  <2>2. t \in Clerk /\ t.settles = NotClosing /\ t.step = "asked"
    <3>1. n \in 0..Amount /\ TypeOK
      BY DEF Inv
    <3>2. t.settles = NotClosing /\ t.step = "asked"
      BY DEF Idle
    <3> QED BY <2>1, <3>1, <3>2, ClerkTypes
  <2>3. Fits(t)
    BY <1>9 DEF AskRefund, Fits, Idle
  <2>4. New(t, k)
    BY <2>2, <2>3 DEF Settles, NotClosing
  <2> QED BY <1>1, <1>9, <2>4 DEF AskRefund, Ask
<1>10. ASSUME NEW k \in Clerks, Finance(k) PROVE Goal
  BY <1>4, <1>5, <1>6, <1>7, <1>8, <1>9, <1>10
     DEF Finance, CommitCredit, CommitDeduct, CommitRefund, Fail
<1>11. ASSUME Collection PROVE UNCHANGED clerks
  BY <1>11 DEF Collection, List, LockOrder, CommitMarks, CloseCase, CheckClose
<1> QED BY <1>2, <1>10, <1>11 DEF Next, vars, Dispose

(***************************************************************************)
(* The parts of the invariant                                              *)
(***************************************************************************)

LEMMA InitInv == Init => Inv
<1> SUFFICES ASSUME Init PROVE Inv
  OBVIOUS
<1>1. NewBill \in BillRow /\ NewBill.remaining = Amount /\ NewBill.paid = 0
      /\ NewBill.status = "PENDING"
  BY ReceivablesAssumption DEF NewBill, BillRow, Unpaid
<1>2. /\ bills \in [Bills -> BillRow] /\ credited \in [Bills -> 0..Amount]
      /\ allocated \in [Payments -> Nat]
  BY <1>1, ReceivablesAssumption DEF Init
<1>3. deposit \in [collected : 0..Amount, deducted : 0..Amount, refunded : Nat]
  BY ReceivablesAssumption DEF Init
<1>4. cases \in [Cases -> [status : {"NONE", "ACTIVE", "CLOSED"}, bills : SUBSET Bills]]
  BY DEF Init
<1>5. /\ clerks \in [Clerks -> Clerk] /\ closer \in Closing
      /\ marker \in [step : {"idle", "listed", "locked"}, bills : SUBSET Bills,
                     case : Cases \cup {NoCase}]
  BY ClerkTypes DEF Init, NotMarking
<1>6. requests \in 0..MaxRequests /\ stale \subseteq Payments \cup {TheDeposit} /\ raced \subseteq Bills
  BY ReceivablesAssumption DEF Init
<1>7. TypeOK
  BY <1>2, <1>3, <1>4, <1>5, <1>6 DEF TypeOK
<1>8. Rows
  BY <1>1, ReceivablesAssumption DEF Rows, Init, Unpaid
<1>9. Locks
  BY DEF Locks, Init, LockedBy, Marked, Idle, NotMarking
<1>10. Requests /\ Closings
  BY DEF Requests, Closings, Init, Fits, Settles, Idle, NotClosing
<1>11. BooksBalance
  BY <1>1, ReceivablesAssumption DEF BooksBalance, Init
<1>12. PaymentNotExceeded /\ DepositNotExceeded
  BY ReceivablesAssumption DEF PaymentNotExceeded, DepositNotExceeded, Init
<1>13. OverdueIsCollected
  BY <1>1 DEF OverdueIsCollected, Init
<1> QED BY <1>7, <1>8, <1>9, <1>10, <1>11, <1>12, <1>13 DEF Inv

LEMMA RowsNext ==
  ASSUME Inv, [Next]_vars
  PROVE  bills' \in [Bills -> BillRow] /\ Rows'
<1>1. \A b \in Bills : Moves(b)
  BY StepMoves
<1>2. bills' = [b \in Bills |-> bills'[b]]
  BY StepMoves
<1>3. \A b \in Bills : bills'[b] \in BillRow
  BY <1>1, MovesMean
<1>4. \A b \in Bills : IF bills'[b].status \in Unpaid THEN bills'[b].remaining > 0
                                                     ELSE bills'[b].remaining = 0
  BY <1>1, MovesMean
<1> QED BY <1>2, <1>3, <1>4 DEF Rows

LEMMA ClerksNext ==
  ASSUME Inv, [Next]_vars
  PROVE  clerks' \in [Clerks -> Clerk] /\ Requests'
<1>0. \A k \in Clerks : clerks[k] \in Clerk /\ Fits(clerks[k])
  BY DEF Inv, TypeOK, Requests
<1>1. \A k \in Clerks : clerks'[k] \in Clerk /\ Fits(clerks'[k])
  BY <1>0, StepClerks
<1>2. Clerks # {} => clerks' = [k \in Clerks |-> clerks'[k]]
  BY StepClerks
<1>3. CASE Clerks = {}
  <2>1. UNCHANGED clerks
    BY <1>3 DEF Next, Collection, List, LockOrder, CommitMarks, CloseCase, CheckClose, Dispose, vars
  <2> QED BY <1>3, <2>1 DEF Inv, TypeOK, Requests
<1> QED BY <1>1, <1>2, <1>3 DEF Requests

\* A bill changes only in a step of the transaction that has it locked, of the
\* marking that has it locked, or when nobody has.
LEMMA WhoChanges ==
  ASSUME Inv, [Next]_vars, NEW b \in Bills, bills'[b] # bills[b]
  PROVE  /\ \A k \in Clerks : b \notin LockedBy(k) \/ clerks'[k] = Idle
         /\ b \notin Marked \/ marker' = NotMarking
<1>0. bills \in [Bills -> BillRow]
  BY DEF Inv, TypeOK
<1>1. ASSUME NEW k \in Clerks, CommitCredit(k) \/ CommitDeduct(k)
      PROVE  b \in LockedBy(k) /\ clerks'[k] = Idle
  <2>1. clerks'[k] = Idle
    BY <1>1 DEF CommitCredit, CommitDeduct, Leave, Inv, TypeOK
  <2>2. CASE CommitCredit(k)
    <3>1. Credit(k, b) > 0
      BY <2>2 DEF CommitCredit
    <3> QED BY <2>1, <2>2, <3>1, CreditBound DEF CommitCredit, LockedBy
  <2>3. CASE CommitDeduct(k)
    <3>1. b = DamageBill
      BY <2>3, <1>0 DEF CommitDeduct
    <3> QED BY <2>1, <2>3, <3>1 DEF CommitDeduct, LockedBy, Inv, Requests, Fits
  <2> QED BY <1>1, <2>2, <2>3
<1>2. ASSUME CommitMarks
      PROVE  b \in Marked /\ marker' = NotMarking
  BY <1>2 DEF CommitMarks, Marked
<1>3. ASSUME NEW c \in Governed, NEW status \in {"PAID", "CANCELLED"}, Dispose(c, status)
      PROVE  b \notin Marked /\ \A k \in Clerks : b \notin LockedBy(k)
  <2>1. b = c
    BY <1>3, <1>0 DEF Dispose
  <2> QED BY <1>3, <2>1 DEF Dispose, Free
<1>4. ASSUME NEW k \in Clerks, Finance(k), ~CommitCredit(k), ~CommitDeduct(k)
      PROVE  UNCHANGED bills
  BY <1>4 DEF Finance, LockSettle, AskWriteOff, LockWriteOff, LockDeduct, AskRefund, Ask,
              CommitRefund, Fail
<1>5. ASSUME Collection, ~CommitMarks
      PROVE  UNCHANGED bills
  BY <1>5 DEF Collection, List, LockOrder, CloseCase, CheckClose
<1>6. ASSUME NEW k \in Clerks, b \in LockedBy(k)
      PROVE  b \notin Marked /\ \A j \in Clerks \ {k} : b \notin LockedBy(j)
  BY <1>6 DEF Inv, Locks
<1> QED BY <1>1, <1>2, <1>3, <1>4, <1>5, <1>6 DEF Next, vars

LEMMA LocksNext ==
  ASSUME Inv, [Next]_vars
  PROVE  Locks'
<1>1. ASSUME NEW k \in Clerks, NEW b \in Bills, b \in LockedBy(k)'
      PROVE  \/ b \in LockedBy(k) /\ clerks'[k] = clerks[k] /\ bills'[b] = bills[b]
             \/ /\ clerks'[k].copy[b] = bills'[b] /\ marker' = marker
                /\ b \notin Marked /\ \A j \in Clerks \ {k} : b \notin LockedBy(j)'
  <2>1. clerks'[k].step = "locked" /\ b \in clerks'[k].bills
    BY <1>1 DEF LockedBy
  <2>2. CASE clerks'[k] = clerks[k]
    <3>1. b \in LockedBy(k) /\ clerks'[k] # Idle
      BY <2>1, <2>2 DEF LockedBy, Idle
    <3> QED BY <2>2, <3>1, WhoChanges
  <2>3. CASE clerks'[k] # clerks[k]
    <3>1. /\ clerks'[k].copy = bills /\ UNCHANGED <<bills, marker>>
          /\ \A j \in Clerks \ {k} : clerks'[j] = clerks[j]
          /\ Free(clerks'[k].bills, Clerks \ {k})
      BY <2>1, <2>3, StepClerks
    <3>2. b \notin Marked /\ \A j \in Clerks \ {k} : b \notin LockedBy(j)
      BY <2>1, <3>1 DEF Free
    <3> QED BY <3>1, <3>2 DEF LockedBy
  <2> QED BY <2>2, <2>3
<1>2. Marked' # {} => \/ marker' = marker
                      \/ LockOrder
  <2>1. ASSUME NEW k \in Clerks, Finance(k) PROVE UNCHANGED marker
    BY <2>1 DEF Finance, LockSettle, AskWriteOff, LockWriteOff, LockDeduct, AskRefund, Ask,
                CommitRefund, CommitCredit, CommitDeduct, Fail
  <2>2. ASSUME Collection, ~LockOrder PROVE UNCHANGED marker \/ Marked' = {}
    BY <2>2 DEF Collection, List, CommitMarks, CloseCase, CheckClose, Marked, NotMarking
  <2> QED BY <2>1, <2>2 DEF Next, Dispose, vars
<1>3. ASSUME NEW b \in Marked', marker' = marker
      PROVE  b \in Marked /\ bills'[b] = bills[b] /\ Open(b)'
  <2>1. b \in Marked /\ marker' # NotMarking /\ b \in Bills
    BY <1>3 DEF Marked, NotMarking, Inv, TypeOK
  <2>2. bills'[b] = bills[b] /\ Open(b)
    BY <2>1, WhoChanges DEF Inv, Locks
  <2> QED BY <2>1, <2>2 DEF Open
<1>4. CASE LockOrder
  <2>1. /\ Marked' = StillOpen(marker.bills) /\ UNCHANGED <<bills, clerks>>
        /\ \A k \in Clerks : marker.bills \cap LockedBy(k) = {}
    BY <1>4 DEF LockOrder, Marked, Free
  <2>2. \A b \in Marked' : Open(b)' /\ \A k \in Clerks : b \notin LockedBy(k)'
    BY <2>1 DEF StillOpen, Open, LockedBy
  <2>3. \A k \in Clerks, b \in Bills : b \in LockedBy(k)' =>
            b \in LockedBy(k) /\ clerks'[k].copy[b] = bills'[b]
            /\ \A j \in Clerks \ {k} : b \notin LockedBy(j)'
    BY <2>1 DEF Inv, Locks, LockedBy
  <2> QED BY <2>2, <2>3 DEF Locks
<1>5. CASE ~LockOrder
  <2>1. \A b \in Marked' : b \in Marked /\ bills'[b] = bills[b] /\ Open(b)'
    BY <1>2, <1>3, <1>5
  <2>2. ASSUME NEW k \in Clerks, NEW b \in Bills, b \in LockedBy(k)'
        PROVE  /\ clerks'[k].copy[b] = bills'[b]
               /\ b \notin Marked'
               /\ \A j \in Clerks \ {k} : b \notin LockedBy(j)'
    <3>1. CASE b \in LockedBy(k) /\ clerks'[k] = clerks[k] /\ bills'[b] = bills[b]
      <4>1. clerks'[k].copy[b] = bills'[b] /\ b \notin Marked
        BY <3>1 DEF Inv, Locks
      <4>2. ASSUME NEW j \in Clerks \ {k}, b \in LockedBy(j)' PROVE FALSE
        <5>1. b \notin LockedBy(j)
          BY <3>1 DEF Inv, Locks
        <5>2. b \notin LockedBy(k)'
          BY <1>1, <4>2, <5>1
        <5> QED BY <2>2, <5>2
      <4> QED BY <2>1, <4>1, <4>2
    <3>2. CASE /\ clerks'[k].copy[b] = bills'[b] /\ marker' = marker
               /\ b \notin Marked /\ \A j \in Clerks \ {k} : b \notin LockedBy(j)'
      BY <2>1, <3>2
    <3> QED BY <1>1, <2>2, <3>1, <3>2
  <2> QED BY <2>1, <2>2 DEF Locks
<1> QED BY <1>4, <1>5

\* The money of a step: what it credits, what it does to the deposit.
LEMMA MoneyNext ==
  ASSUME Inv, [Next]_vars
  PROVE  /\ BooksBalance'
         /\ credited' \in [Bills -> 0..Amount]
         /\ deposit' \in [collected : 0..Amount, deducted : 0..Amount, refunded : Nat]
<1> DEFINE Deducted(b, d) == IF b = DamageBill THEN d.deducted ELSE 0
<1>0. /\ bills \in [Bills -> BillRow] /\ credited \in [Bills -> 0..Amount]
      /\ deposit \in [collected : 0..Amount, deducted : 0..Amount, refunded : Nat]
      /\ Amount \in Nat \ {0} /\ DepositBill \in Bills /\ DamageBill \in Bills
      /\ DepositBill # DamageBill
  BY ReceivablesAssumption DEF Inv, TypeOK
<1>1. \A b \in Bills : /\ bills'[b] \in BillRow
                       /\ bills'[b].paid >= bills[b].paid
                       /\ ~Open(b) => bills'[b] = bills[b]
                       /\ bills'[b].status = "CANCELLED" \/ bills'[b].paid + bills'[b].remaining = Amount
  BY StepMoves, MovesMean
<1>2. \A b \in Bills : bills[b].paid = credited[b] + Deducted(b, deposit)
  BY DEF Inv, BooksBalance
<1>3. deposit.collected = IF bills[DepositBill].status = "PAID" THEN Amount ELSE 0
  BY DEF Inv, BooksBalance
<1>4. bills[DepositBill].status = "PAID" => bills'[DepositBill] = bills[DepositBill]
  BY <1>0, <1>1 DEF Open, Unpaid
<1>5. bills'[DepositBill].status = "PAID" => bills'[DepositBill].paid = Amount
  <2>1. ASSUME bills'[DepositBill].status = "PAID" PROVE bills'[DepositBill].remaining = 0
    BY <1>0, <2>1, RowsNext DEF Rows, Unpaid
  <2> QED BY <1>0, <1>1, <2>1 DEF BillRow
\* It is enough that the new books balance and no sum shrinks.
<1>6. ASSUME /\ credited' = [b \in Bills |-> credited'[b]]
             /\ \A b \in Bills : /\ credited'[b] \in Nat
                                 /\ bills'[b].paid = credited'[b] + Deducted(b, deposit')
             /\ deposit' \in [collected : 0..Amount, deducted : Nat, refunded : Nat]
             /\ deposit'.collected = IF bills'[DepositBill].status = "PAID" THEN Amount ELSE 0
      PROVE  /\ BooksBalance'
             /\ credited' \in [Bills -> 0..Amount]
             /\ deposit' \in [collected : 0..Amount, deducted : 0..Amount, refunded : Nat]
  <2>1. \A b \in Bills : bills'[b].paid \in 0..Amount
    BY <1>1 DEF BillRow
  <2>2. deposit'.deducted \in Nat
    BY <1>6
  <2>3. \A b \in Bills : credited'[b] \in 0..Amount
    BY <1>0, <1>6, <2>1, <2>2
  <2>4. deposit'.deducted \in 0..Amount
    BY <1>0, <1>6, <2>1, <2>2
  <2>5. BooksBalance'
    BY <1>1, <1>6 DEF BooksBalance
  <2> QED BY <1>6, <2>3, <2>4, <2>5
<1>7. ASSUME NEW k \in Clerks, CommitCredit(k)
      PROVE  /\ credited' = [b \in Bills |-> credited'[b]]
             /\ \A b \in Bills : /\ credited'[b] \in Nat
                                 /\ bills'[b].paid = credited'[b] + Deducted(b, deposit')
             /\ deposit' \in [collected : 0..Amount, deducted : Nat, refunded : Nat]
             /\ deposit'.collected = IF bills'[DepositBill].status = "PAID" THEN Amount ELSE 0
  <2>1. /\ clerks[k].step = "locked"
        /\ bills' = [b \in Bills |->
             IF Credit(k, b) > 0 THEN Paid(clerks[k].copy[b], Credit(k, b)) ELSE bills[b]]
        /\ credited' = [b \in Bills |-> credited[b] + Credit(k, b)]
        /\ deposit' = IF bills'[DepositBill].status = "PAID" /\ deposit.collected = 0
                      THEN [deposit EXCEPT !.collected = bills'[DepositBill].paid] ELSE deposit
    BY <1>7 DEF CommitCredit
  <2>2. deposit'.deducted = deposit.deducted
    BY <1>0, <2>1
  <2>3. ASSUME NEW b \in Bills
        PROVE  credited'[b] \in Nat /\ bills'[b].paid = credited'[b] + Deducted(b, deposit')
    <3>1. Credit(k, b) \in Nat /\ credited'[b] = credited[b] + Credit(k, b)
      BY <1>0, <2>1, CreditBound DEF BillRow
    <3>2. bills'[b].paid = bills[b].paid + Credit(k, b)
      <4>1. CASE Credit(k, b) > 0
        <5>1. bills'[b] = Paid(bills[b], Credit(k, b)) /\ Credit(k, b) \in 1..bills[b].remaining
              /\ bills[b].paid + bills[b].remaining = Amount
          BY <1>0, <2>1, <4>1, CreditBound, BillBalance DEF BillRow
        <5> QED BY <1>0, <5>1, PaidRow
      <4>2. CASE ~(Credit(k, b) > 0)
        BY <1>0, <2>1, <3>1, <4>2 DEF BillRow
      <4> QED BY <4>1, <4>2
    <3>3. bills[b].paid \in Nat /\ credited[b] \in Nat /\ deposit.deducted \in Nat
      BY <1>0 DEF BillRow
    <3> QED BY <1>2, <2>2, <3>1, <3>2, <3>3
  <2>4. CASE bills'[DepositBill].status = "PAID" /\ deposit.collected = 0
    BY <1>0, <1>5, <2>1, <2>3, <2>4
  <2>5. CASE ~(bills'[DepositBill].status = "PAID" /\ deposit.collected = 0)
    <3>1. deposit' = deposit
      BY <2>1, <2>5
    <3>2. deposit.collected = IF bills'[DepositBill].status = "PAID" THEN Amount ELSE 0
      BY <1>0, <1>3, <1>4, <2>5
    <3> QED BY <1>0, <2>1, <2>3, <3>1, <3>2
  <2> QED BY <2>4, <2>5
<1>8. ASSUME NEW k \in Clerks, CommitDeduct(k)
      PROVE  /\ credited' = [b \in Bills |-> credited'[b]]
             /\ \A b \in Bills : /\ credited'[b] \in Nat
                                 /\ bills'[b].paid = credited'[b] + Deducted(b, deposit')
             /\ deposit' \in [collected : 0..Amount, deducted : Nat, refunded : Nat]
             /\ deposit'.collected = IF bills'[DepositBill].status = "PAID" THEN Amount ELSE 0
  <2>1. /\ clerks[k].kind = "deduct" /\ credited' = credited
        /\ deposit' = [deposit EXCEPT !.deducted = deposit.deducted + clerks[k].asked]
        /\ bills' = [bills EXCEPT ![DamageBill] = Paid(clerks[k].copy[DamageBill], clerks[k].asked)]
    BY <1>8 DEF CommitDeduct
  <2>2. /\ clerks[k].bills = {DamageBill} /\ clerks[k].step = "locked"
        /\ 1 <= clerks[k].asked /\ clerks[k].asked <= clerks[k].copy[DamageBill].remaining
        /\ clerks[k].asked \in 0..Amount
    BY <2>1 DEF Inv, Requests, Fits, TypeOK, Clerk
  <2>3. clerks[k].copy[DamageBill] = bills[DamageBill]
    BY <1>0, <2>2 DEF Inv, Locks, LockedBy
  <2>4. clerks[k].asked \in 1..bills[DamageBill].remaining
    BY <1>0, <2>2, <2>3 DEF BillRow
  <2>5. Open(DamageBill)
    <3>1. bills[DamageBill].remaining > 0
      BY <1>0, <2>4 DEF BillRow
    <3> QED BY <1>0, <3>1 DEF Inv, Rows, Open
  <2>6. bills'[DamageBill].paid = bills[DamageBill].paid + clerks[k].asked
    BY <1>0, <2>1, <2>3, <2>4, <2>5, BillBalance, PaidRow
  <2>7. \A b \in Bills \ {DamageBill} : bills'[b] = bills[b]
    BY <1>0, <2>1
  <2>8. /\ deposit'.deducted = deposit.deducted + clerks[k].asked
        /\ deposit'.collected = deposit.collected
        /\ deposit' \in [collected : 0..Amount, deducted : Nat, refunded : Nat]
    BY <1>0, <2>1, <2>2
  <2>9. \A b \in Bills : bills[b].paid \in Nat /\ credited[b] \in Nat
    BY <1>0 DEF BillRow
  <2> QED BY <1>0, <1>2, <1>3, <2>1, <2>2, <2>6, <2>7, <2>8, <2>9
<1>9. ASSUME UNCHANGED credited, UNCHANGED <<deposit.collected, deposit.deducted>>,
             deposit' \in [collected : 0..Amount, deducted : Nat, refunded : Nat],
             \A b \in Bills : bills'[b].paid = bills[b].paid,
             bills'[DepositBill].status = "PAID" => bills[DepositBill].status = "PAID"
      PROVE  /\ credited' = [b \in Bills |-> credited'[b]]
             /\ \A b \in Bills : /\ credited'[b] \in Nat
                                 /\ bills'[b].paid = credited'[b] + Deducted(b, deposit')
             /\ deposit' \in [collected : 0..Amount, deducted : Nat, refunded : Nat]
             /\ deposit'.collected = IF bills'[DepositBill].status = "PAID" THEN Amount ELSE 0
  <2>1. \A b \in Bills : credited[b] \in Nat
    BY <1>0
  <2> QED BY <1>0, <1>2, <1>3, <1>4, <1>9, <2>1
<1>10. CASE UNCHANGED <<bills, credited, deposit>>
  <2>1. \A b \in Bills : credited[b] \in Nat
    BY <1>0
  <2>2. deposit' \in [collected : 0..Amount, deducted : Nat, refunded : Nat]
    BY <1>0, <1>10
  <2> QED BY <1>6, <1>9, <1>10, <2>1, <2>2
<1>11. ASSUME NEW k \in Clerks, CommitRefund(k)
       PROVE  /\ UNCHANGED <<bills, credited, deposit.collected, deposit.deducted>>
              /\ deposit' \in [collected : 0..Amount, deducted : Nat, refunded : Nat]
  <2>1. clerks[k].asked \in Nat
    BY <1>0 DEF Inv, TypeOK, Clerk
  <2> QED BY <1>0, <1>11, <2>1 DEF CommitRefund
<1>12. ASSUME CommitMarks
       PROVE  /\ UNCHANGED <<credited, deposit>>
              /\ \A b \in Bills : bills'[b].paid = bills[b].paid
              /\ bills'[DepositBill].status = "PAID" => bills[DepositBill].status = "PAID"
  <2>1. /\ UNCHANGED <<credited, deposit>>
        /\ bills' = [b \in Bills |-> IF b \in marker.bills THEN [bills[b] EXCEPT !.status = "OVERDUE"] ELSE bills[b]]
    BY <1>12 DEF CommitMarks
  <2>2. \A b \in Bills : bills[b].paid = [bills[b] EXCEPT !.status = "OVERDUE"].paid
                         /\ [bills[b] EXCEPT !.status = "OVERDUE"].status = "OVERDUE"
    BY <1>0 DEF BillRow
  <2> QED BY <1>0, <2>1, <2>2
<1>13. ASSUME NEW c \in Governed, NEW status \in {"PAID", "CANCELLED"}, Dispose(c, status)
       PROVE  /\ credited' = [b \in Bills |-> credited'[b]]
              /\ \A b \in Bills : /\ credited'[b] \in Nat
                                  /\ bills'[b].paid = credited'[b] + Deducted(b, deposit')
              /\ deposit' \in [collected : 0..Amount, deducted : Nat, refunded : Nat]
              /\ deposit'.collected = IF bills'[DepositBill].status = "PAID" THEN Amount ELSE 0
  <2>1. /\ Open(c) /\ UNCHANGED deposit /\ c \in Bills /\ c # DepositBill
        /\ bills' = [bills EXCEPT ![c] =
             IF status = "PAID" THEN Paid(bills[c], bills[c].remaining) ELSE Waived(bills[c])]
        /\ credited' = IF status = "PAID" THEN [credited EXCEPT ![c] = credited[c] + bills[c].remaining]
                                          ELSE credited
    BY <1>0, <1>13, ReceivablesAssumption DEF Dispose
  <2>2. bills[c].remaining \in 1..bills[c].remaining /\ bills[c].remaining \in Nat
    BY <1>0, <2>1 DEF BillRow, Open
  <2>3. Paid(bills[c], bills[c].remaining).paid = bills[c].paid + bills[c].remaining
        /\ Waived(bills[c]).paid = bills[c].paid
    BY <2>1, <2>2, BillBalance, PaidRow DEF Waived
  <2>4. \A b \in Bills \ {c} : bills'[b] = bills[b] /\ credited'[b] = credited[b]
    BY <1>0, <2>1
  <2>5. \A b \in Bills : bills[b].paid \in Nat /\ credited[b] \in Nat
    BY <1>0 DEF BillRow
  <2>6. bills'[c].paid - bills[c].paid = credited'[c] - credited[c] /\ credited'[c] \in Nat
    <3>1. CASE status = "PAID"
      BY <1>0, <2>1, <2>2, <2>3, <2>5, <3>1
    <3>2. CASE status # "PAID"
      BY <1>0, <2>1, <2>2, <2>3, <2>5, <3>2
    <3> QED BY <3>1, <3>2
  <2>7. deposit.deducted \in Nat /\ bills'[c].paid \in Nat
    BY <1>0, <1>1, <2>1 DEF BillRow
  <2>8. \A b \in Bills : /\ credited'[b] \in Nat
                         /\ bills'[b].paid = credited'[b] + Deducted(b, deposit')
    <3>1. ASSUME NEW b \in Bills \ {c}
          PROVE  credited'[b] \in Nat /\ bills'[b].paid = credited'[b] + Deducted(b, deposit')
      BY <1>2, <2>1, <2>4, <2>5
    <3>2. Deducted(c, deposit') = Deducted(c, deposit) /\ Deducted(c, deposit) \in Nat
      BY <2>1, <2>7
    <3>3. bills[c].paid = credited[c] + Deducted(c, deposit)
      BY <1>2, <2>1
    <3> HIDE DEF Deducted
    <3>4. bills'[c].paid = credited'[c] + Deducted(c, deposit')
      BY <2>1, <2>5, <2>6, <2>7, <3>2, <3>3
    <3> QED BY <2>6, <3>1, <3>4
  <2>9. credited' = [b \in Bills |-> credited'[b]]
    BY <1>0, <2>1
  <2>10. bills'[DepositBill] = bills[DepositBill]
    BY <1>0, <2>1, <2>4
  <2> QED BY <1>0, <1>3, <2>1, <2>8, <2>9, <2>10
<1>14. ASSUME NEW k \in Clerks, Finance(k), ~CommitCredit(k), ~CommitDeduct(k), ~CommitRefund(k)
       PROVE  UNCHANGED <<bills, credited, deposit>>
  BY <1>14 DEF Finance, LockSettle, AskWriteOff, LockWriteOff, LockDeduct, AskRefund, Ask, Fail
<1>15. ASSUME Collection, ~CommitMarks
       PROVE  UNCHANGED <<bills, credited, deposit>>
  BY <1>15 DEF Collection, List, LockOrder, CloseCase, CheckClose
<1>16. ASSUME NEW k \in Clerks, CommitRefund(k)
       PROVE  /\ BooksBalance'
              /\ credited' \in [Bills -> 0..Amount]
              /\ deposit' \in [collected : 0..Amount, deducted : 0..Amount, refunded : Nat]
  BY <1>6, <1>9, <1>11, <1>16
<1>17. ASSUME CommitMarks
       PROVE  /\ BooksBalance'
              /\ credited' \in [Bills -> 0..Amount]
              /\ deposit' \in [collected : 0..Amount, deducted : 0..Amount, refunded : Nat]
  <2>1. deposit' \in [collected : 0..Amount, deducted : Nat, refunded : Nat]
    BY <1>0, <1>12, <1>17
  <2>2. UNCHANGED <<deposit.collected, deposit.deducted>>
    BY <1>12, <1>17
  <2> QED BY <1>6, <1>9, <1>12, <1>17, <2>1, <2>2
<1>18. ASSUME NEW k \in Clerks, Finance(k)
       PROVE  /\ BooksBalance'
              /\ credited' \in [Bills -> 0..Amount]
              /\ deposit' \in [collected : 0..Amount, deducted : 0..Amount, refunded : Nat]
  BY <1>6, <1>7, <1>8, <1>10, <1>14, <1>16, <1>18
<1> QED BY <1>6, <1>10, <1>13, <1>15, <1>17, <1>18 DEF Next, vars

LEMMA ClosingsNext ==
  ASSUME Inv, [Next]_vars
  PROVE  closer' \in Closing /\ Closings'
<1>1. \A b \in Bills : /\ bills'[b].remaining <= bills[b].remaining
                       /\ bills'[b].remaining \in Int /\ bills[b].remaining \in Int
                       /\ ~Open(b) => bills'[b] = bills[b]
  <2>1. \A b \in Bills : bills'[b] \in BillRow /\ bills[b] \in BillRow
    BY StepMoves, MovesMean DEF Inv, TypeOK
  <2> QED BY <2>1, StepMoves, MovesMean DEF BillRow
<1>2. \A k \in Clerks : clerks'[k] \in Clerk
  BY ClerksNext
<1>3. ASSUME NEW k \in Clerks PROVE Settles(clerks[k])'
  <2>1. Settles(clerks'[k])
    <3>1. CASE clerks'[k] = clerks[k]
      BY <3>1 DEF Inv, Closings
    <3>2. CASE clerks'[k] # clerks[k]
      BY <3>2, StepClerks
    <3> QED BY <3>1, <3>2
  <2>2. clerks'[k].settles.bills \subseteq Bills /\ clerks'[k].asked \in Int
    BY <1>2, ReceivablesAssumption DEF Clerk, Closing
  <2>3. \A b \in clerks'[k].settles.bills :
           bills'[b].remaining <= (IF b \in clerks'[k].bills THEN clerks'[k].asked ELSE 0)
    BY <1>1, <2>1, <2>2 DEF Settles
  <2> QED BY <2>3 DEF Settles
<1>4. closer' \in Closing /\ \A b \in closer'.bills : ~Open(b)'
  <2>1. CASE closer' = closer \/ closer' = NotClosing
    <3>1. \A b \in closer.bills : b \in Bills /\ ~Open(b)
      BY DEF Inv, Closings, TypeOK, Closing
    <3>2. \A b \in closer.bills : ~Open(b)'
      BY <1>1, <3>1 DEF Open
    <3>3. CASE closer' = closer
      BY <3>2, <3>3 DEF Inv, TypeOK
    <3>4. CASE closer' = NotClosing
      BY <3>4, ClerkTypes DEF NotClosing
    <3> QED BY <2>1, <3>3, <3>4
  <2>2. ASSUME NEW c \in Cases, CheckClose(c)
        PROVE  closer' \in Closing /\ \A b \in closer'.bills : ~Open(b)'
    <3>1. /\ closer' = [case |-> c, bills |-> cases[c].bills] /\ UNCHANGED bills
          /\ \A b \in cases[c].bills : ~Open(b)
      BY <2>2 DEF CheckClose
    <3>2. closer' \in Closing
      BY <3>1 DEF Closing, Inv, TypeOK
    <3> QED BY <3>1, <3>2 DEF Open
  <2>3. ASSUME NEW k \in Clerks, Finance(k) PROVE UNCHANGED closer
    BY <2>3 DEF Finance, LockSettle, AskWriteOff, LockWriteOff, LockDeduct, AskRefund, Ask,
                CommitRefund, CommitCredit, CommitDeduct, Fail
  <2>4. ASSUME Collection, \A c \in Cases : ~CheckClose(c)
        PROVE  closer' = closer \/ closer' = NotClosing
    BY <2>4 DEF Collection, List, LockOrder, CommitMarks, CloseCase
  <2> QED BY <2>1, <2>2, <2>3, <2>4 DEF Next, Dispose, vars
<1> QED BY <1>3, <1>4 DEF Closings

\* What is spent of a payment and of the deposit.
LEMMA SpentNext ==
  ASSUME Inv, [Next]_vars
  PROVE  /\ allocated' \in [Payments -> Nat]
         /\ stale' \subseteq Payments \cup {TheDeposit}
         /\ PaymentNotExceeded'
<1>0. /\ allocated \in [Payments -> Nat] /\ stale \subseteq Payments \cup {TheDeposit}
      /\ \A p \in Payments : allocated[p] <= Amount \/ p \in stale
      /\ Amount \in Nat /\ Own \notin Payments
  BY ReceivablesAssumption DEF Inv, TypeOK, PaymentNotExceeded
<1>1. CASE UNCHANGED allocated /\ stale \subseteq stale' /\ stale' \subseteq Payments \cup {TheDeposit}
  BY <1>0, <1>1 DEF PaymentNotExceeded
<1>2. ASSUME NEW k \in Clerks, CommitCredit(k)
      PROVE  /\ allocated' \in [Payments -> Nat]
             /\ stale' \subseteq Payments \cup {TheDeposit}
             /\ PaymentNotExceeded'
  <2> DEFINE t == clerks[k]
             c == Cardinality(t.bills) * t.asked
  <2>1. /\ allocated' = [p \in Payments |-> IF p = t.payment THEN allocated[p] + c ELSE allocated[p]]
        /\ stale' = IF t.payment # Own /\ t.read # Left(t.payment)
                      THEN stale \cup {t.payment} ELSE stale
        /\ t.kind \in {"writeOff", "settle"}
    BY <1>2 DEF CommitCredit
  <2>2. t \in Clerk /\ Fits(t)
    BY DEF Inv, TypeOK, Requests
  <2>3. c \in Nat
    <3>1. t.bills \in SUBSET Bills /\ t.asked \in 0..Amount
      BY <2>2 DEF Clerk
    <3> QED BY <3>1, Amounts
  <2>4. t.payment \in Payments => t.kind = "writeOff" /\ c <= t.read
    BY <1>0, <2>1, <2>2 DEF Fits
  <2>5. t.payment \in Payments \cup {Own} /\ t.read \in Int
    BY <2>2 DEF Clerk
  <2> HIDE DEF c
  <2>6. allocated' \in [Payments -> Nat]
    BY <1>0, <2>1, <2>3
  <2>7. stale' \subseteq Payments \cup {TheDeposit} /\ stale \subseteq stale'
    BY <1>0, <2>1, <2>5
  <2>8. ASSUME NEW p \in Payments PROVE allocated'[p] <= Amount \/ p \in stale'
    <3>1. CASE p # t.payment
      BY <1>0, <2>1, <2>7, <3>1
    <3>2. CASE p = t.payment /\ t.read # Left(p)
      BY <1>0, <2>1, <3>2
    <3>3. CASE p = t.payment /\ t.read = Left(p)
      <4>1. allocated'[p] = allocated[p] + c /\ c <= Amount - allocated[p]
        BY <2>1, <2>4, <3>3 DEF Left
      <4> QED BY <1>0, <2>3, <4>1
    <3> QED BY <3>1, <3>2, <3>3
  <2> QED BY <2>6, <2>7, <2>8 DEF PaymentNotExceeded
<1>3. ASSUME NEW k \in Clerks, Finance(k), ~CommitCredit(k)
      PROVE  UNCHANGED allocated /\ stale \subseteq stale' /\ stale' \subseteq Payments \cup {TheDeposit}
  <2>1. CASE CommitDeduct(k) \/ CommitRefund(k)
    BY <1>0, <2>1 DEF CommitDeduct, CommitRefund, Outdated
  <2>2. CASE UNCHANGED <<allocated, stale>>
    BY <1>0, <2>2
  <2> QED BY <1>3, <2>1, <2>2 DEF Finance, LockSettle, AskWriteOff, LockWriteOff, LockDeduct, AskRefund, Ask, Fail
<1>4. ASSUME Collection PROVE UNCHANGED <<allocated, stale>>
  BY <1>4 DEF Collection, List, LockOrder, CommitMarks, CloseCase, CheckClose
<1> QED BY <1>0, <1>1, <1>2, <1>3, <1>4 DEF Next, Dispose, vars

LEMMA DepositNext ==
  ASSUME Inv, [Next]_vars
  PROVE  DepositNotExceeded'
<1>0. deposit \in [collected : 0..Amount, deducted : 0..Amount, refunded : Nat]
  BY DEF Inv, TypeOK
<1>00. deposit.deducted + deposit.refunded <= deposit.collected \/ TheDeposit \in stale
  BY DEF Inv, DepositNotExceeded
<1>1. ASSUME NEW k \in Clerks, CommitCredit(k) PROVE DepositNotExceeded'
  <2>1. /\ deposit' = IF bills'[DepositBill].status = "PAID" /\ deposit.collected = 0
                      THEN [deposit EXCEPT !.collected = bills'[DepositBill].paid] ELSE deposit
        /\ stale \subseteq stale'
    BY <1>1 DEF CommitCredit
  <2>2. bills'[DepositBill].paid \in 0..Amount
    BY RowsNext, ReceivablesAssumption DEF BillRow
  <2>3. /\ deposit'.deducted = deposit.deducted /\ deposit'.refunded = deposit.refunded
        /\ deposit'.collected >= deposit.collected /\ deposit'.collected \in Int
    BY <1>0, <2>1, <2>2, ReceivablesAssumption
  <2> QED BY <1>0, <1>00, <2>1, <2>3, ReceivablesAssumption DEF DepositNotExceeded
<1>2. ASSUME NEW k \in Clerks, CommitDeduct(k) \/ CommitRefund(k) PROVE DepositNotExceeded'
  <2>1. /\ stale' = IF clerks[k].read # Balance THEN stale \cup {TheDeposit} ELSE stale
        /\ clerks[k].asked <= clerks[k].read /\ clerks[k].asked \in Int /\ clerks[k].read \in Int
    BY <1>2, ReceivablesAssumption
       DEF CommitDeduct, CommitRefund, Outdated, Inv, Requests, Fits, TypeOK, Clerk
  <2>2. CASE clerks[k].read # Balance
    BY <2>1, <2>2 DEF DepositNotExceeded
  <2>3. CASE clerks[k].read = Balance
    <3>1. /\ deposit'.deducted + deposit'.refunded
               = deposit.deducted + deposit.refunded + clerks[k].asked
          /\ deposit'.collected = deposit.collected
      <4>1. CASE CommitDeduct(k)
        BY <1>0, <2>1, <4>1, ReceivablesAssumption DEF CommitDeduct
      <4>2. CASE CommitRefund(k)
        BY <1>0, <2>1, <4>2, ReceivablesAssumption DEF CommitRefund
      <4> QED BY <1>2, <4>1, <4>2
    <3>2. clerks[k].asked <= deposit.collected - deposit.deducted - deposit.refunded
      BY <2>1, <2>3 DEF Balance
    <3> QED BY <1>0, <1>00, <2>1, <3>1, <3>2, ReceivablesAssumption DEF DepositNotExceeded
  <2> QED BY <2>2, <2>3
<1>3. ASSUME UNCHANGED <<deposit, stale>> PROVE DepositNotExceeded'
  BY <1>00, <1>3 DEF DepositNotExceeded
<1>4. ASSUME NEW k \in Clerks, Finance(k), ~CommitCredit(k), ~CommitDeduct(k), ~CommitRefund(k)
      PROVE  UNCHANGED <<deposit, stale>>
  BY <1>4 DEF Finance, LockSettle, AskWriteOff, LockWriteOff, LockDeduct, AskRefund, Ask, Fail
<1>5. ASSUME Collection PROVE UNCHANGED <<deposit, stale>>
  BY <1>5 DEF Collection, List, LockOrder, CommitMarks, CloseCase, CheckClose
<1> QED BY <1>1, <1>2, <1>3, <1>4, <1>5 DEF Next, Dispose, vars

\* The collection cases: the step that marks and the steps that close.
LEMMA CasesNext ==
  ASSUME Inv, [Next]_vars
  PROVE  /\ cases' \in [Cases -> [status : {"NONE", "ACTIVE", "CLOSED"}, bills : SUBSET Bills]]
         /\ raced' \subseteq Bills
         /\ OverdueIsCollected'
<1> DEFINE Goal == /\ cases' \in [Cases -> [status : {"NONE", "ACTIVE", "CLOSED"}, bills : SUBSET Bills]]
                   /\ raced' \subseteq Bills
                   /\ OverdueIsCollected'
           Overdue(b) == bills[b].status = "OVERDUE"
           Collected(b) == b \in raced \/ \E c \in Cases : Active(c) /\ b \in cases[c].bills
<1>0. /\ cases \in [Cases -> [status : {"NONE", "ACTIVE", "CLOSED"}, bills : SUBSET Bills]]
      /\ raced \subseteq Bills
      /\ bills \in [Bills -> BillRow]
      /\ \A b \in Bills : Overdue(b) => Collected(b)
  BY DEF Inv, TypeOK, OverdueIsCollected
<1>1. \A b \in Bills : Overdue(b) => bills[b].remaining > 0 /\ Open(b) /\ bills[b].remaining \in Int
  <2>1. \A b \in Bills : bills[b].remaining \in Int
    BY <1>0, ReceivablesAssumption DEF BillRow
  <2>2. \A b \in Bills : Overdue(b) => bills[b].remaining > 0 /\ Open(b)
    BY DEF Inv, Rows, Open, Unpaid
  <2> QED BY <2>1, <2>2
\* A step that leaves the cases alone makes no bill overdue.
<1>2. ASSUME UNCHANGED <<cases, raced>>, \A b \in Bills : Overdue(b)' => Overdue(b)
      PROVE  Goal
  BY <1>0, <1>2 DEF OverdueIsCollected, Active
\* A step that closes a case.
<1>3. ASSUME NEW z \in Closing, Close(z), \A b \in Bills : Overdue(b)' => Overdue(b),
             z.case # NoCase => \A b \in z.bills : ~Overdue(b)'
      PROVE  Goal
  <2>1. CASE z.case = NoCase
    BY <1>2, <1>3, <2>1 DEF Close
  <2>2. CASE z.case # NoCase
    <3>1. /\ z.case \in Cases
          /\ cases' = [cases EXCEPT ![z.case].status = "CLOSED"]
          /\ raced' = raced \cup (cases[z.case].bills \ z.bills)
      BY <1>3, <2>2 DEF Close, Closing
    <3>2. /\ cases' \in [Cases -> [status : {"NONE", "ACTIVE", "CLOSED"}, bills : SUBSET Bills]]
          /\ raced' \subseteq Bills
      BY <1>0, <3>1
    <3>3. ASSUME NEW b \in Bills, Overdue(b)' PROVE Collected(b)'
      <4>1. CASE b \in raced
        BY <3>1, <4>1
      <4>2. ASSUME NEW c \in Cases, Active(c), b \in cases[c].bills, c # z.case
            PROVE  Collected(b)'
        <5>1. cases'[c] = cases[c]
          BY <1>0, <3>1, <4>2
        <5> QED BY <4>2, <5>1 DEF Active
      <4>3. CASE b \in cases[z.case].bills
        BY <1>3, <2>2, <3>1, <3>3, <4>3
      <4> QED BY <1>0, <1>3, <3>3, <4>1, <4>2, <4>3
    <3> QED BY <3>2, <3>3 DEF OverdueIsCollected
  <2> QED BY <2>1, <2>2
<1>4. ASSUME NEW k \in Clerks, CommitCredit(k) PROVE Goal
  <2> DEFINE t == clerks[k]
  <2>1. /\ t.step = "locked" /\ Close(t.settles)
        /\ bills' = [b \in Bills |->
             IF Credit(k, b) > 0 THEN Paid(t.copy[b], Credit(k, b)) ELSE bills[b]]
    BY <1>4 DEF CommitCredit
  <2>2. t \in Clerk /\ t.settles \in Closing
    BY DEF Inv, TypeOK, Clerk
  <2>3. \A b \in Bills : Credit(k, b) > 0 => ~Overdue(b)'
    BY <2>1 DEF Paid
  <2>4. \A b \in Bills : Overdue(b)' => Overdue(b)
    BY <2>1, <2>3
  <2>5. ASSUME NEW b \in t.settles.bills, Overdue(b)' PROVE FALSE
    <3>1. b \in Bills
      BY <2>2 DEF Closing
    <3>2. bills[b].remaining > 0 /\ bills[b].remaining \in Int
      BY <1>1, <2>4, <2>5, <3>1
    <3>3. b \in t.bills /\ bills[b].remaining <= t.asked
      <4>1. bills[b].remaining <= (IF b \in t.bills THEN t.asked ELSE 0)
        BY DEF Inv, Closings, Settles
      <4> QED BY <3>2, <4>1
    <3>4. Credit(k, b) = bills[b].remaining
      BY <2>1, <3>1, <3>3, CreditBound
    <3> QED BY <2>3, <2>5, <3>1, <3>2, <3>4
  <2> QED BY <1>3, <2>1, <2>2, <2>4, <2>5
<1>5. ASSUME CloseCase PROVE Goal
  <2>1. /\ closer \in Closing /\ Close(closer) /\ UNCHANGED bills
        /\ \A b \in closer.bills : ~Open(b) /\ b \in Bills
    BY <1>5 DEF CloseCase, Inv, TypeOK, Closings, Closing
  <2>2. \A b \in closer.bills : ~Overdue(b)'
    BY <1>1, <2>1
  <2> QED BY <1>3, <2>1, <2>2
<1>6. ASSUME CommitMarks PROVE Goal
  <2> DEFINE S == marker.bills
             c == IF marker.case # NoCase \/ S = {} THEN marker.case ELSE Unlinked
  <2>1. /\ S # {} /\ marker.case = NoCase => \E d \in Cases : cases[d].status = "NONE"
        /\ bills' = [b \in Bills |-> IF b \in S THEN [bills[b] EXCEPT !.status = "OVERDUE"] ELSE bills[b]]
        /\ cases' = IF S = {} THEN cases
                    ELSE [cases EXCEPT
                           ![c].status = IF @ = "NONE" THEN "ACTIVE" ELSE @,
                           ![c].bills = @ \cup S]
        /\ raced' = IF marker.case # NoCase /\ ~Active(marker.case) THEN raced \cup S ELSE raced
    BY <1>6 DEF CommitMarks
  <2>2. S \subseteq Bills /\ marker.case \in Cases \cup {NoCase}
    BY DEF Inv, TypeOK
  <2>3. raced' \subseteq Bills /\ raced \subseteq raced'
    BY <1>0, <2>1, <2>2
  <2>4. \A b \in Bills : Overdue(b)' => b \in S \/ Overdue(b)
    BY <2>1
  <2>5. CASE S = {}
    <3>1. cases' = cases
      BY <2>1, <2>5
    <3>2. \A b \in Bills : Overdue(b)' => Collected(b)
      BY <1>0, <2>4, <2>5
    <3> QED BY <1>0, <2>3, <3>1, <3>2 DEF OverdueIsCollected, Active
  <2>6. CASE S # {}
    <3>1. c \in Cases /\ (marker.case = NoCase => cases[c].status = "NONE")
          /\ (marker.case # NoCase => c = marker.case)
      BY <2>1, <2>2, <2>6 DEF Unlinked
    <3> HIDE DEF c
    <3>2. cases' = [cases EXCEPT ![c].status = IF @ = "NONE" THEN "ACTIVE" ELSE @,
                                 ![c].bills = @ \cup S]
      BY <2>1, <2>6
    <3>3. /\ cases'[c].bills = cases[c].bills \cup S
          /\ cases'[c].status = IF cases[c].status = "NONE" THEN "ACTIVE" ELSE cases[c].status
          /\ \A d \in Cases \ {c} : cases'[d] = cases[d]
      BY <1>0, <3>1, <3>2
    <3>4. cases' \in [Cases -> [status : {"NONE", "ACTIVE", "CLOSED"}, bills : SUBSET Bills]]
      <4>1. (IF cases[c].status = "NONE" THEN "ACTIVE" ELSE cases[c].status)
               \in {"NONE", "ACTIVE", "CLOSED"}
        BY <1>0, <3>1
      <4> QED BY <1>0, <2>2, <3>1, <3>2, <4>1
    <3>5. \A d \in Cases : Active(d) => cases'[d].status = "ACTIVE" /\ cases[d].bills \subseteq cases'[d].bills
      BY <1>0, <3>3 DEF Active
    <3>6. ASSUME NEW b \in Bills, Overdue(b)' PROVE Collected(b)'
      <4>1. CASE b \notin S
        <5>1. Collected(b)
          BY <1>0, <2>4, <3>6, <4>1
        <5> QED BY <2>3, <3>5, <5>1 DEF Active
      <4>2. CASE b \in S /\ marker.case # NoCase /\ ~Active(marker.case)
        BY <2>1, <4>2
      <4>3. CASE b \in S /\ ~(marker.case # NoCase /\ ~Active(marker.case))
        <5>1. cases'[c].status = "ACTIVE" /\ b \in cases'[c].bills
          BY <3>1, <3>3, <4>3 DEF Active
        <5> QED BY <3>1, <5>1 DEF Active
      <4> QED BY <4>1, <4>2, <4>3
    <3> QED BY <2>3, <3>4, <3>6 DEF OverdueIsCollected
  <2> QED BY <2>5, <2>6
<1>7. ASSUME NEW k \in Clerks, CommitDeduct(k) PROVE Goal
  <2>1. /\ UNCHANGED <<cases, raced>>
        /\ bills' = [bills EXCEPT ![DamageBill] = Paid(clerks[k].copy[DamageBill], clerks[k].asked)]
    BY <1>7 DEF CommitDeduct
  <2>2. \A b \in Bills : Overdue(b)' => Overdue(b)
    BY <1>0, <2>1 DEF Paid
  <2> QED BY <1>2, <2>1, <2>2
<1>8. ASSUME NEW b \in Governed, NEW status \in {"PAID", "CANCELLED"}, Dispose(b, status) PROVE Goal
  <2>1. /\ UNCHANGED <<cases, raced>>
        /\ bills' = [bills EXCEPT ![b] =
             IF status = "PAID" THEN Paid(bills[b], bills[b].remaining) ELSE Waived(bills[b])]
    BY <1>0, <1>8, ReceivablesAssumption DEF Dispose
  <2>2. \A c \in Bills : Overdue(c)' => Overdue(c)
    BY <1>0, <2>1 DEF Paid, Waived
  <2> QED BY <1>2, <2>1, <2>2
<1>9. ASSUME UNCHANGED <<bills, cases, raced>> PROVE Goal
  BY <1>2, <1>9
<1>10. ASSUME NEW k \in Clerks, Finance(k), ~CommitCredit(k), ~CommitDeduct(k) PROVE Goal
  BY <1>9, <1>10 DEF Finance, LockSettle, AskWriteOff, LockWriteOff, LockDeduct, AskRefund, Ask,
                     CommitRefund, Fail
<1>11. ASSUME Collection, ~CommitMarks, ~CloseCase PROVE Goal
  BY <1>9, <1>11 DEF Collection, List, LockOrder, CheckClose
<1> QED BY <1>4, <1>5, <1>6, <1>7, <1>8, <1>9, <1>10, <1>11 DEF Next, vars

LEMMA RestNext ==
  ASSUME Inv, [Next]_vars
  PROVE  /\ marker' \in [step : {"idle", "listed", "locked"}, bills : SUBSET Bills,
                         case : Cases \cup {NoCase}]
         /\ requests' \in 0..MaxRequests
<1>0. /\ marker \in [step : {"idle", "listed", "locked"}, bills : SUBSET Bills,
                     case : Cases \cup {NoCase}]
      /\ requests \in 0..MaxRequests /\ MaxRequests \in Nat
  BY ReceivablesAssumption DEF Inv, TypeOK
<1>1. requests' = requests \/ (requests < MaxRequests /\ requests' = requests + 1)
  <2>1. ASSUME NEW k \in Clerks, Finance(k)
        PROVE  requests' = requests \/ (requests < MaxRequests /\ requests' = requests + 1)
    BY <2>1 DEF Finance, LockSettle, AskWriteOff, LockWriteOff, LockDeduct, AskRefund, Ask,
                CommitRefund, CommitCredit, CommitDeduct, Fail
  <2>2. ASSUME Collection PROVE UNCHANGED requests
    BY <2>2 DEF Collection, List, LockOrder, CommitMarks, CloseCase, CheckClose
  <2> QED BY <2>1, <2>2 DEF Next, Dispose, vars
<1>2. marker' \in [step : {"idle", "listed", "locked"}, bills : SUBSET Bills,
                   case : Cases \cup {NoCase}]
  <2>1. CASE UNCHANGED marker
    BY <1>0, <2>1
  <2>2. ASSUME NEW S \in SUBSET Bills, List(S) PROVE marker'
          \in [step : {"idle", "listed", "locked"}, bills : SUBSET Bills, case : Cases \cup {NoCase}]
    BY <2>2 DEF List
  <2>3. CASE LockOrder
    <3>1. marker' = [step |-> "locked", bills |-> StillOpen(marker.bills), case |-> ActiveCase]
      BY <2>3 DEF LockOrder
    <3>2. StillOpen(marker.bills) \subseteq Bills
      BY <1>0 DEF StillOpen
    <3> QED BY <3>1, <3>2, ActiveCaseType
  <2>4. CASE CommitMarks
    BY <2>4 DEF CommitMarks, NotMarking
  <2>5. ASSUME NEW k \in Clerks, Finance(k) PROVE UNCHANGED marker
    BY <2>5 DEF Finance, LockSettle, AskWriteOff, LockWriteOff, LockDeduct, AskRefund, Ask,
                CommitRefund, CommitCredit, CommitDeduct, Fail
  <2>6. ASSUME Collection, ~LockOrder, ~CommitMarks, \A S \in SUBSET Bills : ~List(S)
        PROVE  UNCHANGED marker
    BY <2>6 DEF Collection, CloseCase, CheckClose
  <2> QED BY <2>1, <2>2, <2>3, <2>4, <2>5, <2>6 DEF Next, Dispose, vars
<1> QED BY <1>0, <1>1, <1>2

(***************************************************************************)
(* Theorems                                                                *)
(***************************************************************************)

LEMMA Inductive == Inv /\ [Next]_vars => Inv'
<1> SUFFICES ASSUME Inv, [Next]_vars PROVE Inv'
  OBVIOUS
<1>1. TypeOK'
  BY RowsNext, ClerksNext, MoneyNext, SpentNext, CasesNext, ClosingsNext, RestNext DEF TypeOK
<1>2. Rows' /\ Locks' /\ Requests' /\ Closings'
  BY RowsNext, LocksNext, ClerksNext, ClosingsNext
<1>3. BooksBalance' /\ PaymentNotExceeded' /\ DepositNotExceeded' /\ OverdueIsCollected'
  BY MoneyNext, SpentNext, DepositNext, CasesNext
<1> QED BY <1>1, <1>2, <1>3 DEF Inv

\* The inductive invariant: the rows, the locks on them, the requests under way
\* and the cases that are about to be closed, together with the four safety
\* invariants, hold in every state (finance.service.ts).
THEOREM Invariance == Spec => []Inv
<1>1. Inv /\ UNCHANGED vars => Inv'
  BY Inductive
<1> QED BY InitInv, Inductive, <1>1, PTL DEF Spec

\* Every variable keeps its type: no row, ledger or transaction leaves its
\* range, whatever transactions meet (finance.service.ts).
THEOREM ReceivablesTypeCorrect == Spec => []TypeOK
<1>1. Inv => TypeOK
  BY DEF Inv
<1> QED BY Invariance, <1>1, PTL

\* No amount is lost or counted twice between concurrent write-offs,
\* settlements, deductions and dispositions (lockReceivableBills).
THEOREM BooksAlwaysBalance == Spec => []BooksBalance
<1>1. Inv => BooksBalance
  BY DEF Inv
<1> QED BY Invariance, <1>1, PTL

\* A payment is written off beyond its amount only on an outdated read
\* (writeOffPayment).
THEOREM PaymentsWithinAmount == Spec => []PaymentNotExceeded
<1>1. Inv => PaymentNotExceeded
  BY DEF Inv
<1> QED BY Invariance, <1>1, PTL

\* More of the deposit is spent than was collected only on an outdated read
\* (deductDeposit, refundDeposit).
THEOREM DepositWithinCollected == Spec => []DepositNotExceeded
<1>1. Inv => DepositNotExceeded
  BY DEF Inv
<1> QED BY Invariance, <1>1, PTL

\* An overdue bill is in an active case, unless its marking met the closing of
\* that case (markBillOverdueForAutomation).
THEOREM OverdueAlwaysCollected == Spec => []OverdueIsCollected
<1>1. Inv => OverdueIsCollected
  BY DEF Inv
<1> QED BY Invariance, <1>1, PTL

\* A settled bill is never marked or credited again and no balance grows
\* (refreshOverdueBills reads the bills again under the lock).
THEOREM SettledStaysFinal == Spec => SettledIsFinal
<1>1. Inv /\ [Next]_vars => [\A b \in Bills :
                                /\ ~Open(b) => bills'[b] = bills[b]
                                /\ bills'[b].remaining <= bills[b].remaining
                                /\ bills'[b].paid >= bills[b].paid]_vars
  BY StepMoves, MovesMean
<1> QED BY Invariance, <1>1, PTL DEF Spec, SettledIsFinal
=============================================================================
