----------------------------- MODULE RentLedger -----------------------------
(***************************************************************************)
(* What recurring billing promises about the rent bills of one order,      *)
(* whoever creates them and however often the work is retried: every       *)
(* period is billed at most once and in order, a bill becomes overdue only *)
(* while it is unpaid, and a paid bill never changes again.                *)
(***************************************************************************)
EXTENDS Naturals

CONSTANT MaxCycle

VARIABLE bills

Cycles == 1..MaxCycle

Init == bills = [c \in Cycles |-> "NONE"]

Issue(c) ==
  /\ bills[c] = "NONE"
  /\ \A d \in 1..(c - 1) : bills[d] # "NONE"
  /\ bills' = [bills EXCEPT ![c] = "PENDING"]

MarkOverdue(c) ==
  /\ bills[c] = "PENDING"
  /\ bills' = [bills EXCEPT ![c] = "OVERDUE"]

Pay(c) ==
  /\ bills[c] \in {"PENDING", "OVERDUE"}
  /\ bills' = [bills EXCEPT ![c] = "PAID"]

Next == \E c \in Cycles : Issue(c) \/ MarkOverdue(c) \/ Pay(c)

Spec == Init /\ [][Next]_bills
=============================================================================
