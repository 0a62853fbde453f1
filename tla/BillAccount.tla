---------------------------- MODULE BillAccount ----------------------------
(***************************************************************************)
(* What online payment promises about the money of a customer's bills,     *)
(* whatever the provider, the portal and the governance of a closure do:   *)
(* a payment order is credited at most once, every bill of it with what    *)
(* was asked for it or what is still open, whichever is less, and a bill   *)
(* that is on hold with nothing.                                           *)
(***************************************************************************)
EXTENDS Naturals

CONSTANTS Orders, Bills

VARIABLES
  asked,      \* what each order asks for each bill
  credited,   \* what the payment of each order took off each bill
  paid,       \* the orders whose money was booked
  remaining,  \* what is open on each bill
  held        \* the bills that take no online payment

Nothing == [b \in Bills |-> 0]

Share(o, b) ==
  IF b \in held THEN 0
  ELSE IF asked[o][b] <= remaining[b] THEN asked[o][b] ELSE remaining[b]

\* An order is written for the open amounts of some bills.
Ask(o) ==
  /\ asked[o] = Nothing
  /\ o \notin paid
  /\ \E S \in SUBSET Bills :
       asked' = [asked EXCEPT ![o] = [b \in Bills |-> IF b \in S THEN remaining[b] ELSE 0]]
  /\ UNCHANGED <<credited, paid, remaining, held>>

\* The money of an order is booked.
Book(o) ==
  /\ o \notin paid
  /\ paid' = paid \cup {o}
  /\ credited' = [credited EXCEPT ![o] = [b \in Bills |-> Share(o, b)]]
  /\ remaining' = [b \in Bills |-> remaining[b] - Share(o, b)]
  /\ UNCHANGED <<asked, held>>

\* A bill is paid, waived or written off by other means.
Lower(b) ==
  /\ \E n \in 1..remaining[b] : remaining' = [remaining EXCEPT ![b] = @ - n]
  /\ held' \subseteq held
  /\ UNCHANGED <<asked, credited, paid>>

\* A dispute or a legal collection opens or ends.
Govern ==
  /\ held' \in SUBSET Bills
  /\ UNCHANGED <<asked, credited, paid, remaining>>

Next ==
  \/ \E o \in Orders : Ask(o) \/ Book(o)
  \/ \E b \in Bills : Lower(b)
  \/ Govern

Init ==
  /\ asked = [o \in Orders |-> Nothing]
  /\ credited = [o \in Orders |-> Nothing]
  /\ paid = {}
  /\ remaining \in [Bills -> Nat]
  /\ held \in SUBSET Bills

Spec == Init /\ [][Next]_<<asked, credited, paid, remaining, held>>
=============================================================================
