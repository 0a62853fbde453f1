----------------------- MODULE ContractExtensionProofs -----------------------
(***************************************************************************)
(* Theorems about ContractExtension, for any set of workers and of         *)
(* entitlements, any number of attempts and any number of faults.          *)
(***************************************************************************)
EXTENDS ContractExtension, AutomationJobTableProofs

-----------------------------------------------------------------------------
(* Type correctness.                                                       *)

JobsOK == jobs \in [Keys -> SoundJob]
SlotsOK == pc \in [Workers -> Slot]
RowsOK == change \in Change /\ JobsOK /\ SlotsOK
OthersOK ==
  /\ late \in BOOLEAN /\ noticed \in BOOLEAN /\ billed \in BOOLEAN
  /\ order \in {"ACTIVE", "PENDING_RETURN"}
  /\ source \in {"ACTIVE", "COMPLETED"}
  /\ target \in {"NONE", "SCHEDULED", "ACTIVE"}
  /\ consideration \in {"PENDING_DECISION", "EXTENSION_IN_PROGRESS", "EXPIRY_CONFIRMED",
                        "EXTENDED", "EXPIRED"}
  /\ billing \in {"RUNNING", "PAUSED", "STOPPED"}
  /\ grants \in [Grants -> Nat]
  /\ archive \in {"none", "writing"}
  /\ faults \in 0..MaxFaults
TypeInv == RowsOK /\ OthersOK

LEMMA TypeInvImplies == TypeInv => TypeOK
<1>1. SoundJob \subseteq Job
  BY DEF SoundJob
<1>2. [Keys -> SoundJob] \subseteq [Keys -> Job]
  BY <1>1
<1> QED
  BY <1>2 DEF TypeInv, RowsOK, JobsOK, SlotsOK, OthersOK, TypeOK

\* The bulk updates of the table keep every row sound.
LEMMA TableUpdates ==
  ASSUME NEW table \in [Keys -> SoundJob], NEW keys \in SUBSET Keys, NEW k \in Keys
  PROVE  /\ Enqueue(table, keys) \in [Keys -> SoundJob]
         /\ CancelOpen(table, keys) \in [Keys -> SoundJob]
         /\ RetryDeadLetter(table, k) \in [Keys -> SoundJob]
<1>1. FreshJob \in SoundJob
  BY MaxAttemptsAssumption DEF FreshJob, Row, SoundJob, Job, JobStatus
<1>2. \A job \in SoundJob : job.status \in {"PENDING", "PROCESSING"} =>
        Row("CANCELLED", job.attempts) \in SoundJob
  BY MaxAttemptsAssumption DEF Row, SoundJob, Job, JobStatus
<1>3. DOMAIN table = Keys
  OBVIOUS
<1>4. Enqueue(table, keys) \in [Keys -> SoundJob]
  BY <1>1, <1>3 DEF Enqueue
<1>5. CancelOpen(table, keys) \in [Keys -> SoundJob]
  BY <1>2, <1>3 DEF CancelOpen
<1>6. RetryDeadLetter(table, k) \in [Keys -> SoundJob]
  BY <1>1, <1>3 DEF RetryDeadLetter
<1> QED
  BY <1>4, <1>5, <1>6

\* What a worker writes into its slot.
LEMMA SlotUpdates ==
  ASSUME SlotsOK, NEW w \in Workers,
         \/ \E k \in Keys : pc' = [pc EXCEPT ![w] = [at |-> "claimed", key |-> k, outcome |-> "ok"]]
         \/ \E outcome \in {"ok", "retry"} : Done(w, outcome)
         \/ pc' = [pc EXCEPT ![w].at = "checked"]
         \/ pc' = [pc EXCEPT ![w] = Idle]
         \/ \E at \in {"idle", "after", "mark"} : pc' = [pc EXCEPT ![w] = [Idle EXCEPT !.at = at]]
  PROVE  SlotsOK'
<1>1. Idle \in Slot
  BY DEF Idle, Slot, Keys
<1>2. \A at \in {"idle", "after", "mark"} : [Idle EXCEPT !.at = at] \in Slot
  BY DEF Idle, Slot, Keys
<1>3. \A k \in Keys : [at |-> "claimed", key |-> k, outcome |-> "ok"] \in Slot
  BY DEF Slot
<1>4. \A o \in {"ok", "retry"} : [pc[w] EXCEPT !.at = "done", !.outcome = o] \in Slot
  BY DEF Slot, SlotsOK
<1>5. [pc[w] EXCEPT !.at = "checked"] \in Slot
  BY DEF Slot, SlotsOK
<1> QED
  BY <1>1, <1>2, <1>3, <1>4, <1>5 DEF SlotsOK, Done

LEMMA TypeInit == Init => TypeInv
<1> SUFFICES ASSUME Init PROVE TypeInv
  OBVIOUS
<1>1. FreshJob \in SoundJob /\ NoJob \in SoundJob
  BY MaxAttemptsAssumption DEF FreshJob, NoJob, Row, SoundJob, Job, JobStatus
<1>2. JobsOK
  BY <1>1 DEF Init, JobsOK
<1>3. SlotsOK
  BY DEF Init, SlotsOK, Idle, Slot, Keys
<1>4. change \in Change
  BY DEF Init, Change, ChangeStatus
<1>5. OthersOK
  <2>1. grants \in [Grants -> Nat] /\ faults \in 0..MaxFaults
    BY MaxFaultsAssumption DEF Init
  <2>2. consideration \in {"PENDING_DECISION", "EXTENSION_IN_PROGRESS"}
    BY DEF Init
  <2>3. late \in BOOLEAN /\ noticed \in BOOLEAN /\ billed \in BOOLEAN
    BY Zenon DEF Init
  <2> QED
    BY <2>1, <2>2, <2>3 DEF Init, OthersOK
<1> QED
  BY <1>2, <1>3, <1>4, <1>5 DEF TypeInv, RowsOK

LEMMA AnswerType ==
  ASSUME TypeInv, NEW w \in Workers, Answer(w)
  PROVE  SlotsOK' /\ faults' \in 0..MaxFaults
<1>1. \E outcome \in {"ok", "retry"} : Done(w, outcome)
  BY DEF Answer
<1>2. faults' \in 0..MaxFaults
  BY MaxFaultsAssumption DEF Answer, TypeInv, OthersOK
<1> QED
  BY <1>1, <1>2, SlotUpdates DEF TypeInv, RowsOK

LEMMA RefuseType ==
  ASSUME TypeInv, NEW w \in Workers, Refuse(w)
  PROVE  TypeInv'
<1>1. SlotsOK'
  BY SlotUpdates DEF Refuse, TypeInv, RowsOK
<1> QED
  BY <1>1 DEF Refuse, TypeInv, RowsOK, JobsOK, OthersOK, terms, effects

LEMMA HandleType ==
  ASSUME TypeInv, NEW w \in Workers, Handle(w)
  PROVE  TypeInv'
<1> USE DEF terms, effects
<1>1. CASE Activate(w)
  <2>1. SlotsOK' /\ faults' \in 0..MaxFaults
    BY <1>1, AnswerType DEF Activate
  <2>2. JobsOK'
    BY <1>1, TableUpdates DEF Activate, TypeInv, RowsOK, JobsOK, Keys, ExtensionKeys
  <2>3. change' \in Change
    BY <1>1 DEF Activate, TypeInv, RowsOK, Change, ChangeStatus
  <2>4. source' \in {"ACTIVE", "COMPLETED"} /\ target' \in {"NONE", "SCHEDULED", "ACTIVE"}
    BY <1>1 DEF Activate, TypeInv, OthersOK
  <2>5. UNCHANGED <<late, order, billed, consideration, billing, grants, noticed, archive>>
    BY <1>1 DEF Activate
  <2> QED
    BY <2>1, <2>2, <2>3, <2>4, <2>5 DEF TypeInv, RowsOK, OthersOK
<1>2. CASE ActivateRefused(w)
  BY <1>2, RefuseType DEF ActivateRefused
<1>3. CASE ResumeBilling(w)
  <2>1. CASE Refuse(w)
    BY <2>1, RefuseType
  <2>2. CASE ~Refuse(w)
    BY <1>3, <2>2, AnswerType DEF ResumeBilling, TypeInv, RowsOK, JobsOK, OthersOK
  <2> QED
    BY <2>1, <2>2
<1>4. CASE SendNotice(w)
  <2>1. SlotsOK' /\ faults' \in 0..MaxFaults
    BY <1>4, AnswerType DEF SendNotice
  <2>2. noticed' \in BOOLEAN
    BY <1>4, Zenon DEF SendNotice
  <2>3. UNCHANGED <<late, terms, change, consideration, billing, grants, jobs, archive>>
    BY <1>4 DEF SendNotice
  <2> QED
    BY <2>1, <2>2, <2>3 DEF TypeInv, RowsOK, JobsOK, OthersOK
<1>5. ASSUME NEW g \in Grants, RenewEntitlement(w, g) PROVE TypeInv'
  <2>1. CASE Refuse(w)
    BY <2>1, RefuseType
  <2>2. CASE ~Refuse(w)
    <3>1. grants' \in [Grants -> Nat]
      BY <1>5, <2>2 DEF RenewEntitlement, Granted, TypeInv, OthersOK
    <3>2. SlotsOK' /\ faults' \in 0..MaxFaults
      BY <1>5, <2>2, AnswerType DEF RenewEntitlement
    <3>3. UNCHANGED <<late, terms, change, consideration, billing, noticed, jobs, archive>>
      BY <1>5, <2>2 DEF RenewEntitlement
    <3> QED
      BY <3>1, <3>2, <3>3 DEF TypeInv, RowsOK, JobsOK, OthersOK
  <2> QED
    BY <2>1, <2>2
<1>6. CASE ExpireChecks(w)
  <2>1. SlotsOK'
    BY <1>6, SlotUpdates DEF ExpireChecks, TypeInv, RowsOK
  <2> QED
    BY <1>6, <2>1 DEF ExpireChecks, TypeInv, RowsOK, JobsOK, OthersOK
<1>7. CASE Expire(w)
  <2>1. SlotsOK' /\ faults' \in 0..MaxFaults
    BY <1>7, AnswerType DEF Expire
  <2>2. change' \in Change
    BY <1>7 DEF Expire, FailChange, TypeInv, RowsOK, Change, ChangeStatus
  <2>3. UNCHANGED <<late, target, billed, billing, grants, noticed, jobs, archive>>
    BY <1>7 DEF Expire
  <2>4. order' = "PENDING_RETURN" /\ source' = "COMPLETED" /\ consideration' = "EXPIRED"
    BY <1>7 DEF Expire
  <2> QED
    BY <2>1, <2>2, <2>3, <2>4 DEF TypeInv, RowsOK, JobsOK, OthersOK
<1>8. CASE ExpireOther(w)
  <2>1. SlotsOK'
    BY <1>8, SlotUpdates DEF ExpireOther, TypeInv, RowsOK
  <2> QED
    BY <1>8, <2>1 DEF ExpireOther, TypeInv, RowsOK, JobsOK, OthersOK
<1> QED
  BY <1>1, <1>2, <1>3, <1>4, <1>5, <1>6, <1>7, <1>8 DEF Handle

\* The actions that leave the segments, the effects and the other rows alone
\* change one thing each.
LEMMA TypeNext == TypeInv /\ [Next]_vars => TypeInv'
<1> SUFFICES ASSUME TypeInv, [Next]_vars PROVE TypeInv'
  OBVIOUS
<1> USE DEF terms, effects
<1>1. CASE UNCHANGED vars
  BY <1>1 DEF vars, TypeInv, RowsOK, JobsOK, SlotsOK, OthersOK
<1>2. CASE ArchiveDecides
  BY <1>2 DEF ArchiveDecides, TypeInv, RowsOK, JobsOK, SlotsOK, OthersOK
<1>3. CASE ArchiveCommits
  <2>1. change' \in Change
    BY <1>3 DEF ArchiveCommits, TypeInv, RowsOK, Change, ChangeStatus
  <2>2. JobsOK'
    <3>1. Enqueue(jobs, {"ACTIVATE"}) \in [Keys -> SoundJob]
      BY TableUpdates DEF TypeInv, RowsOK, JobsOK, Keys, ExtensionKeys
    <3>2. (IF change.linked THEN {"EXPIRE"} ELSE {}) \in SUBSET Keys
      BY DEF Keys
    <3>3. jobs' = CancelOpen(Enqueue(jobs, {"ACTIVATE"}), IF change.linked THEN {"EXPIRE"} ELSE {})
      BY <1>3 DEF ArchiveCommits
    <3> QED
      BY <3>1, <3>2, <3>3, TableUpdates DEF JobsOK, Keys
  <2>3. consideration' \in {"PENDING_DECISION", "EXTENSION_IN_PROGRESS", "EXPIRY_CONFIRMED",
                            "EXTENDED", "EXPIRED"}
    BY <1>3 DEF ArchiveCommits, TypeInv, OthersOK
  <2>4. target' = "SCHEDULED" /\ archive' = "none"
    BY <1>3 DEF ArchiveCommits
  <2>5. UNCHANGED <<late, order, source, billed, effects, pc, faults>>
    BY <1>3 DEF ArchiveCommits
  <2> QED
    BY <2>1, <2>2, <2>3, <2>4, <2>5 DEF TypeInv, RowsOK, SlotsOK, OthersOK
<1>4. CASE ArchiveAborts
  BY <1>4 DEF ArchiveAborts, TypeInv, RowsOK, JobsOK, SlotsOK, OthersOK
<1>5. CASE DeadlinePasses
  BY <1>5 DEF DeadlinePasses, TypeInv, RowsOK, JobsOK, SlotsOK, OthersOK
<1>6. ASSUME CompleteIfReady PROVE change' \in Change
  BY <1>6 DEF CompleteIfReady, TypeInv, RowsOK, Change, ChangeStatus
<1>7. CASE Reconcile
  BY <1>6, <1>7 DEF Reconcile, TypeInv, RowsOK, JobsOK, SlotsOK, OthersOK
<1>8. ASSUME NEW w \in Workers, NEW k \in Keys, Claim(w, k) PROVE TypeInv'
  <2>1. SlotsOK'
    BY <1>8, SlotUpdates DEF Claim, TypeInv, RowsOK
  <2>2. JobsOK'
    BY <1>8, JobUpdates DEF Claim, TypeInv, RowsOK, JobsOK
  <2> QED
    BY <1>8, <2>1, <2>2 DEF Claim, TypeInv, RowsOK, OthersOK
<1>9. ASSUME NEW w \in Workers, Settle(w) PROVE TypeInv'
  <2> DEFINE row == Settled(jobs[pc[w].key], pc[w].outcome)
  <2>1. pc[w].key \in Keys
    BY DEF TypeInv, RowsOK, SlotsOK, Slot
  <2>2. HoldsLease(jobs[pc[w].key], w) => row \in SoundJob
    BY <2>1, JobUpdates DEF TypeInv, RowsOK, JobsOK
  <2>3. JobsOK'
    BY <1>9, <2>1, <2>2 DEF Settle, TypeInv, RowsOK, JobsOK
  <2>4. Rest(pc[w].key, row) \in {"idle", "after", "mark"}
    BY DEF Rest
  <2>5. SlotsOK'
    BY <1>9, <2>4, SlotUpdates DEF Settle, TypeInv, RowsOK
  <2> QED
    BY <1>9, <2>3, <2>5 DEF Settle, TypeInv, RowsOK, OthersOK
<1>10. ASSUME NEW w \in Workers, AfterComplete(w) PROVE TypeInv'
  <2>1. SlotsOK'
    BY <1>10, SlotUpdates DEF AfterComplete, TypeInv, RowsOK
  <2> QED
    BY <1>6, <1>10, <2>1 DEF AfterComplete, TypeInv, RowsOK, JobsOK, OthersOK
<1>11. ASSUME NEW w \in Workers, MarkManualTakeover(w) PROVE TypeInv'
  <2>1. SlotsOK'
    BY <1>11, SlotUpdates DEF MarkManualTakeover, TypeInv, RowsOK
  <2>2. change' \in Change
    BY <1>11 DEF MarkManualTakeover, TypeInv, RowsOK, Change, ChangeStatus
  <2> QED
    BY <1>11, <2>1, <2>2 DEF MarkManualTakeover, TypeInv, RowsOK, JobsOK, OthersOK
<1>12. ASSUME NEW w \in Workers, HandlerFails(w) \/ Crash(w) PROVE TypeInv'
  <2>1. SlotsOK'
    BY <1>12, SlotUpdates DEF HandlerFails, Crash, TypeInv, RowsOK
  <2>2. faults' \in 0..MaxFaults
    BY <1>12, MaxFaultsAssumption DEF HandlerFails, Crash, TypeInv, OthersOK
  <2> QED
    BY <1>12, <2>1, <2>2 DEF HandlerFails, Crash, TypeInv, RowsOK, JobsOK, OthersOK
<1>13. ASSUME NEW k \in Keys, LeaseEnds(k) PROVE TypeInv'
  <2>1. JobsOK'
    <3>1. [jobs[k] EXCEPT !.live = FALSE] \in SoundJob
      BY <1>13 DEF LeaseEnds, TypeInv, RowsOK, JobsOK, SoundJob, Job
    <3>2. jobs' = [jobs EXCEPT ![k] = [jobs[k] EXCEPT !.live = FALSE]]
      BY <1>13 DEF LeaseEnds, TypeInv, RowsOK, JobsOK
    <3> QED
      BY <3>1, <3>2 DEF TypeInv, RowsOK, JobsOK
  <2>2. faults' \in 0..MaxFaults
    BY <1>13, MaxFaultsAssumption DEF LeaseEnds, TypeInv, OthersOK
  <2> QED
    BY <1>13, <2>1, <2>2 DEF LeaseEnds, TypeInv, RowsOK, SlotsOK, OthersOK
<1>14. ASSUME NEW k \in ExtensionKeys, RetryAutomationJob(k) PROVE TypeInv'
  <2>1. JobsOK'
    BY <1>14, TableUpdates DEF RetryAutomationJob, TypeInv, RowsOK, JobsOK, Keys
  <2>2. change' \in Change
    BY <1>14 DEF RetryAutomationJob, TypeInv, RowsOK, Change, ChangeStatus
  <2> QED
    BY <1>14, <2>1, <2>2 DEF RetryAutomationJob, TypeInv, RowsOK, SlotsOK, OthersOK
<1>15. CASE ManualTakeover \/ Cancel
  <2>1. change' \in Change
    BY <1>15 DEF ManualTakeover, Cancel, TypeInv, RowsOK, Change, ChangeStatus
  <2> QED
    BY <1>15, <2>1 DEF ManualTakeover, Cancel, TypeInv, RowsOK, JobsOK, SlotsOK, OthersOK
<1>16. CASE ConfirmExpiry \/ BillingPauses
  BY <1>16 DEF ConfirmExpiry, BillingPauses, TypeInv, RowsOK, JobsOK, SlotsOK, OthersOK
<1>17. CASE BillingEnds
  <2>1. billed' \in BOOLEAN
    BY <1>17, Zenon DEF BillingEnds
  <2> QED
    BY <1>17, <2>1 DEF BillingEnds, TypeInv, RowsOK, JobsOK, SlotsOK, OthersOK
<1>18. CASE BillingTakesOver
  <2>1. change' \in Change
    BY <1>18 DEF BillingTakesOver, TypeInv, RowsOK, Change, ChangeStatus
  <2> QED
    BY <1>18, <2>1 DEF BillingTakesOver, TypeInv, RowsOK, JobsOK, SlotsOK, OthersOK
<1> QED
  BY <1>1, <1>2, <1>3, <1>4, <1>5, <1>7, <1>8, <1>9, <1>10, <1>11, <1>12, <1>13, <1>14, <1>15,
     <1>16, <1>17, <1>18, HandleType DEF Next, ArchiveEnds, ClaimSome, Work

\* Every reachable state is well typed; the attempts of a job are counted up
\* to the limit and no further (handleClaimedJob).
THEOREM TypeCorrect == Spec => []TypeOK
<1>1. Spec => []TypeInv
  BY TypeInit, TypeNext, PTL DEF Spec
<1> QED
  BY <1>1, TypeInvImplies, PTL

-----------------------------------------------------------------------------
(* One term.                                                               *)

\* While an archiving holds its locks nobody moves the change or expires the
\* order; a change that is not archived has no segment; and whatever gives the
\* order back comes after the deadline, when no archiving can begin.
TermOK ==
  /\ OneTerm
  /\ archive = "writing" => change.status = "SIGNING_OR_PAYMENT" /\ order = "ACTIVE"
  /\ change.status = "SIGNING_OR_PAYMENT" => target = "NONE"
  /\ order = "PENDING_RETURN" \/ change.status = "FAILED" => late
ExpiryIsDue == \A w \in Workers :
  /\ pc[w].at = "checked" => pc[w].key = "EXPIRE"
  /\ pc[w].at = "checked" \/ Has(w, "EXPIRE") => late
TermInv == TypeInv /\ TermOK /\ ExpiryIsDue

LEMMA TermInit == Init => TermInv
BY TypeInit DEF Init, TermInv, TermOK, OneTerm, ExpiryIsDue, Has, Idle

\* Most steps of a worker leave the terms alone.
LEMMA TermKept ==
  ASSUME TermOK, UNCHANGED <<late, order, source, target, change, archive>>
  PROVE  TermOK'
BY DEF TermOK, OneTerm

\* A slot is at an expiry only after a claim or a check of an expiry job, and
\* that job waits for the deadline.
LEMMA ExpiryStaysDue ==
  ASSUME TypeInv, ExpiryIsDue, late => late', NEW w \in Workers,
         \/ \E k \in Keys : Due(k) /\ pc' = [pc EXCEPT ![w] = [at |-> "claimed", key |-> k, outcome |-> "ok"]]
         \/ \E outcome \in {"ok", "retry"} : Done(w, outcome)
         \/ Has(w, "EXPIRE") /\ pc' = [pc EXCEPT ![w].at = "checked"]
         \/ pc' = [pc EXCEPT ![w] = Idle]
         \/ \E at \in {"idle", "after", "mark"} : pc' = [pc EXCEPT ![w] = [Idle EXCEPT !.at = at]]
  PROVE  ExpiryIsDue'
<1> USE DEF TypeInv, RowsOK, SlotsOK, Slot
<1>1. ASSUME NEW v \in Workers, v # w PROVE pc'[v] = pc[v]
  BY <1>1 DEF Done
<1> DEFINE Late == /\ pc'[w].at = "checked" => pc'[w].key = "EXPIRE"
                   /\ pc'[w].at = "checked" \/ (pc'[w].at = "claimed" /\ pc'[w].key = "EXPIRE") => late'
<1>2. Late
  <2>1. ASSUME NEW k \in Keys, Due(k),
               pc' = [pc EXCEPT ![w] = [at |-> "claimed", key |-> k, outcome |-> "ok"]]
        PROVE  Late
    <3>1. pc'[w] = [at |-> "claimed", key |-> k, outcome |-> "ok"]
      BY <2>1
    <3> QED
      BY <2>1, <3>1 DEF Due
  <2>2. ASSUME NEW outcome \in {"ok", "retry"}, Done(w, outcome) PROVE Late
    <3>1. pc'[w].at = "done"
      BY <2>2 DEF Done
    <3> QED
      BY <3>1
  <2>3. CASE Has(w, "EXPIRE") /\ pc' = [pc EXCEPT ![w].at = "checked"]
    BY <2>3 DEF ExpiryIsDue, Has
  <2>4. CASE pc' = [pc EXCEPT ![w] = Idle]
    <3>1. pc'[w].at = "idle"
      BY <2>4 DEF Idle
    <3> QED
      BY <3>1
  <2>5. ASSUME NEW at \in {"idle", "after", "mark"}, pc' = [pc EXCEPT ![w] = [Idle EXCEPT !.at = at]]
        PROVE  Late
    <3>1. pc'[w].at = at
      BY <2>5 DEF Idle
    <3> QED
      BY <3>1
  <2> QED
    BY <2>1, <2>2, <2>3, <2>4, <2>5
<1> QED
  BY <1>1, <1>2 DEF ExpiryIsDue, Has

LEMMA TermHandle ==
  ASSUME TermInv, NEW w \in Workers, Handle(w)
  PROVE  TermOK' /\ ExpiryIsDue'
<1> USE DEF TermInv
<1>1. CASE Activate(w)
  <2>1. \E outcome \in {"ok", "retry"} : Done(w, outcome)
    BY <1>1 DEF Activate, Answer
  <2>2. TermOK'
    BY <1>1 DEF Activate, TermOK, OneTerm, TypeInv, RowsOK, Change
  <2> QED
    BY <1>1, <2>1, <2>2, ExpiryStaysDue DEF Activate
<1>2. CASE Expire(w)
  <2>1. \E outcome \in {"ok", "retry"} : Done(w, outcome)
    BY <1>2 DEF Expire, Answer
  <2>2. late
    BY <1>2 DEF Expire, ExpiryIsDue
  <2>3. target = "NONE" /\ archive = "none"
    BY <1>2 DEF Expire, ExpiryStands, Continued, TypeInv, OthersOK
  <2>4. TermOK'
    BY <1>2, <2>2, <2>3 DEF Expire, TermOK, OneTerm
  <2> QED
    BY <1>2, <2>1, <2>4, ExpiryStaysDue DEF Expire
<1>3. CASE ExpireChecks(w)
  <2>1. TermOK'
    BY <1>3, TermKept DEF ExpireChecks, terms
  <2> QED
    BY <1>3, <2>1, ExpiryStaysDue DEF ExpireChecks
<1>4. ASSUME UNCHANGED <<late, terms, change, archive>>,
             Answer(w) \/ Done(w, "retry") \/ Done(w, "ok")
      PROVE  TermOK' /\ ExpiryIsDue'
  <2>1. \E outcome \in {"ok", "retry"} : Done(w, outcome)
    BY <1>4 DEF Answer
  <2> QED
    BY <1>4, <2>1, TermKept, ExpiryStaysDue DEF terms
<1>5. CASE ActivateRefused(w) \/ ResumeBilling(w) \/ SendNotice(w) \/ ExpireOther(w)
  BY <1>4, <1>5 DEF ActivateRefused, ResumeBilling, SendNotice, ExpireOther, Refuse
<1>6. ASSUME NEW g \in Grants, RenewEntitlement(w, g) PROVE TermOK' /\ ExpiryIsDue'
  BY <1>4, <1>6 DEF RenewEntitlement, Refuse
<1> QED
  BY <1>1, <1>2, <1>3, <1>5, <1>6 DEF Handle

LEMMA TermNext == TermInv /\ [Next]_vars => TermInv'
<1> SUFFICES ASSUME TermInv, [Next]_vars PROVE TermOK' /\ ExpiryIsDue'
  BY TypeNext DEF TermInv
<1> USE DEF TermInv, terms
<1>1. CASE UNCHANGED vars
  BY <1>1 DEF vars, TermOK, OneTerm, ExpiryIsDue, Has
<1>2. ASSUME UNCHANGED <<late, pc>> PROVE ExpiryIsDue'
  BY <1>2 DEF ExpiryIsDue, Has
<1>3. CASE ArchiveDecides
  <2>1. order = "ACTIVE"
    BY <1>3 DEF ArchiveDecides, ExpiryWins, TermOK, TypeInv, OthersOK
  <2> QED
    BY <1>2, <1>3, <2>1 DEF ArchiveDecides, TermOK, OneTerm
<1>4. CASE ArchiveCommits
  <2>1. change'.status = "SCHEDULED"
    BY <1>4 DEF ArchiveCommits, TypeInv, RowsOK, Change
  <2>2. TermOK'
    BY <1>4, <2>1 DEF ArchiveCommits, TermOK, OneTerm
  <2> QED
    BY <1>2, <1>4, <2>2 DEF ArchiveCommits
<1>5. CASE ArchiveAborts
  BY <1>2, <1>5 DEF ArchiveAborts, TermOK, OneTerm
<1>6. CASE DeadlinePasses
  BY <1>6 DEF DeadlinePasses, TermOK, OneTerm, ExpiryIsDue, Has
<1>7. ASSUME change'.status \in ChangeStatus \ {"SIGNING_OR_PAYMENT", "FAILED"},
             archive = "none" \/ change' = change, UNCHANGED <<late, terms, archive>>
      PROVE  TermOK'
  BY <1>7 DEF TermOK, OneTerm
<1>8. ASSUME CompleteIfReady, UNCHANGED <<late, terms, archive>> PROVE TermOK'
  <2>1. CASE change.status = "EXECUTING" /\ Ready
    <3>1. change'.status = "COMPLETED" /\ archive # "writing"
      BY <1>8, <2>1 DEF CompleteIfReady, TypeInv, RowsOK, Change, TermOK
    <3> QED
      BY <1>8, <3>1 DEF TermOK, OneTerm
  <2>2. CASE ~(change.status = "EXECUTING" /\ Ready)
    BY <1>8, <2>2, TermKept DEF CompleteIfReady
  <2> QED
    BY <2>1, <2>2
<1>9. CASE Reconcile
  BY <1>2, <1>8, <1>9 DEF Reconcile
<1>10. ASSUME NEW w \in Workers, NEW k \in Keys, Claim(w, k) PROVE TermOK' /\ ExpiryIsDue'
  BY <1>10, TermKept, ExpiryStaysDue DEF Claim
<1>11. ASSUME NEW w \in Workers, Settle(w) PROVE TermOK' /\ ExpiryIsDue'
  <2>1. \A row : Rest(pc[w].key, row) \in {"idle", "after", "mark"}
    BY DEF Rest
  <2>2. ExpiryIsDue'
    BY <1>11, <2>1, ExpiryStaysDue DEF Settle
  <2> QED
    BY <1>11, <2>2, TermKept DEF Settle
<1>12. ASSUME NEW w \in Workers, AfterComplete(w) PROVE TermOK' /\ ExpiryIsDue'
  BY <1>8, <1>12, ExpiryStaysDue DEF AfterComplete
<1>13. ASSUME NEW w \in Workers, MarkManualTakeover(w) PROVE TermOK' /\ ExpiryIsDue'
  <2>1. TermOK'
    <3>1. CASE Markable
      <4>1. change'.status = "MANUAL_TAKEOVER" /\ archive # "writing"
        BY <1>13, <3>1 DEF MarkManualTakeover, Markable, TypeInv, RowsOK, Change, TermOK
      <4> QED
        BY <1>13, <4>1 DEF MarkManualTakeover, TermOK, OneTerm
    <3>2. CASE ~Markable
      BY <1>13, <3>2, TermKept DEF MarkManualTakeover
    <3> QED
      BY <3>1, <3>2
  <2> QED
    BY <1>13, <2>1, ExpiryStaysDue DEF MarkManualTakeover
<1>14. ASSUME NEW w \in Workers, HandlerFails(w) \/ Crash(w) PROVE TermOK' /\ ExpiryIsDue'
  BY <1>14, TermKept, ExpiryStaysDue DEF HandlerFails, Crash
<1>15. ASSUME NEW k \in Keys, LeaseEnds(k) PROVE TermOK' /\ ExpiryIsDue'
  BY <1>2, <1>15, TermKept DEF LeaseEnds
<1>16. ASSUME NEW k \in ExtensionKeys, RetryAutomationJob(k) PROVE TermOK' /\ ExpiryIsDue'
  <2>1. change'.status \in {"SCHEDULED", "EXECUTING"}
    BY <1>16 DEF RetryAutomationJob, TypeInv, RowsOK, Change
  <2> QED
    BY <1>2, <1>7, <1>16, <2>1 DEF RetryAutomationJob, ChangeStatus
<1>17. CASE ManualTakeover \/ Cancel
  <2>1. change'.status \in {"MANUAL_TAKEOVER", "CANCELLED"}
    BY <1>17 DEF ManualTakeover, Cancel, TypeInv, RowsOK, Change
  <2> QED
    BY <1>2, <1>7, <1>17, <2>1 DEF ManualTakeover, Cancel, MayCommand, ChangeStatus
<1>18. CASE ConfirmExpiry \/ BillingEnds \/ BillingPauses
  BY <1>2, <1>18, TermKept DEF ConfirmExpiry, BillingEnds, BillingPauses
<1>19. CASE BillingTakesOver
  <2>1. CASE Seizable
    <3>1. change'.status = "MANUAL_TAKEOVER" /\ archive # "writing"
      BY <1>19, <2>1 DEF BillingTakesOver, Seizable, TypeInv, RowsOK, Change, TermOK
    <3> QED
      BY <1>2, <1>19, <3>1 DEF BillingTakesOver, TermOK, OneTerm
  <2>2. CASE ~Seizable
    BY <1>2, <1>19, <2>2, TermKept DEF BillingTakesOver
  <2> QED
    BY <2>1, <2>2
<1> QED
  BY <1>1, <1>3, <1>4, <1>5, <1>6, <1>9, <1>10, <1>11, <1>12, <1>13, <1>14, <1>15, <1>16, <1>17,
     <1>18, <1>19, TermHandle DEF Next, ArchiveEnds, ClaimSome, Work

\* An order that is to be returned has no extension and one that goes on has
\* exactly one running segment, however the archiving and the expiry meet
\* (finalizeArchivedContract, expireSegment, activate).
THEOREM TermsAgree == Spec => []OneTerm
<1>1. Spec => []TermInv
  BY TermInit, TermNext, PTL DEF Spec
<1>2. TermInv => OneTerm
  BY DEF TermInv, TermOK
<1> QED
  BY <1>1, <1>2, PTL

\* Only billing takes a final change back.
LEMMA FinalKept == TermInv /\ [Next]_vars => (Final => StaysFinal)
<1> SUFFICES ASSUME TermInv, [Next]_vars, Final PROVE StaysFinal
  OBVIOUS
<1> USE DEF TermInv, Final
<1>1. ASSUME NEW w \in Workers, Work(w) PROVE change' = change
  <2>1. CASE Handle(w)
    BY <2>1 DEF Handle, Activate, ActivateRefused, ResumeBilling, SendNotice, RenewEntitlement,
       ExpireChecks, Expire, ExpireOther, Refuse, FailChange, Expirable
  <2>2. CASE Settle(w) \/ AfterComplete(w) \/ MarkManualTakeover(w)
    BY <2>2 DEF Settle, AfterComplete, CompleteIfReady, MarkManualTakeover, Markable
  <2> QED
    BY <1>1, <2>1, <2>2 DEF Work
<1>2. CASE ArchiveDecides \/ ArchiveEnds \/ DeadlinePasses \/ Reconcile
  <2>1. change'.status = change.status
    BY <1>2 DEF ArchiveDecides, ArchiveEnds, ArchiveCommits, ArchiveAborts, DeadlinePasses,
       Reconcile, CompleteIfReady, TermOK
  <2> QED
    BY <2>1 DEF StaysFinal
<1>3. CASE ManualTakeover \/ Cancel
  <2>1. change'.status = change.status
    BY <1>3 DEF ManualTakeover, Cancel, MayCommand, TermOK
  <2> QED
    BY <2>1 DEF StaysFinal
<1>4. CASE ConfirmExpiry \/ BillingEnds \/ BillingPauses
  BY <1>4 DEF ConfirmExpiry, BillingEnds, BillingPauses, StaysFinal
<1>5. CASE BillingTakesOver
  <2>1. CASE change.status = "COMPLETED"
    <3>1. Seized'
      BY <1>5, <2>1 DEF BillingTakesOver, Seizable, Seized, TypeInv, RowsOK, Change
    <3> QED
      BY <1>5, <2>1, <3>1 DEF BillingTakesOver, StaysFinal
  <2>2. CASE change.status # "COMPLETED"
    BY <1>5, <2>2 DEF BillingTakesOver, Seizable, StaysFinal
  <2> QED
    BY <2>1, <2>2
<1>6. ASSUME NEW w \in Workers, ClaimSome(w) \/ HandlerFails(w) \/ Crash(w) PROVE change' = change
  BY <1>6 DEF ClaimSome, Claim, HandlerFails, Crash
<1>7. ASSUME NEW k \in Keys, LeaseEnds(k) PROVE change' = change
  BY <1>7 DEF LeaseEnds
<1>8. ASSUME NEW k \in ExtensionKeys PROVE ~RetryAutomationJob(k)
  BY DEF RetryAutomationJob, MayRetry
<1>9. CASE UNCHANGED vars
  BY <1>9 DEF vars, StaysFinal
<1> QED
  BY <1>1, <1>2, <1>3, <1>4, <1>5, <1>6, <1>7, <1>8, <1>9 DEF Next, StaysFinal

\* A change that billing took over is not set going again: what activates,
\* completes or retries a change asks for another status or another failure.
LEMMA SeizedKept ==
  TermInv /\ [Next]_vars =>
    (Seized => change'.status \notin {"SCHEDULED", "EXECUTING", "COMPLETED"})
<1> SUFFICES ASSUME TermInv, [Next]_vars, Seized
             PROVE  change'.status \notin {"SCHEDULED", "EXECUTING", "COMPLETED"}
  OBVIOUS
<1> USE DEF TermInv, TypeInv, RowsOK, Change, Seized
<1>1. ASSUME NEW w \in Workers, Work(w) PROVE change' = change \/ change'.status = "FAILED"
  <2>1. CASE Handle(w)
    BY <2>1 DEF Handle, Activate, ActivateRefused, ResumeBilling, SendNotice, RenewEntitlement,
       ExpireChecks, Expire, ExpireOther, Refuse, FailChange
  <2>2. CASE Settle(w) \/ AfterComplete(w) \/ MarkManualTakeover(w)
    BY <2>2 DEF Settle, AfterComplete, CompleteIfReady, MarkManualTakeover, Markable
  <2> QED
    BY <1>1, <2>1, <2>2 DEF Work
<1>2. CASE ArchiveDecides \/ ArchiveEnds \/ DeadlinePasses \/ Reconcile
  BY <1>2 DEF ArchiveDecides, ArchiveEnds, ArchiveCommits, ArchiveAborts, DeadlinePasses,
     Reconcile, CompleteIfReady, TermOK
<1>3. CASE ManualTakeover \/ Cancel
  BY <1>3 DEF ManualTakeover, Cancel
<1>4. CASE ConfirmExpiry \/ BillingEnds \/ BillingPauses \/ BillingTakesOver
  BY <1>4 DEF ConfirmExpiry, BillingEnds, BillingPauses, BillingTakesOver
<1>5. ASSUME NEW w \in Workers, ClaimSome(w) \/ HandlerFails(w) \/ Crash(w) PROVE change' = change
  BY <1>5 DEF ClaimSome, Claim, HandlerFails, Crash
<1>6. ASSUME NEW k \in Keys, LeaseEnds(k) PROVE change' = change
  BY <1>6 DEF LeaseEnds
<1>7. ASSUME NEW k \in ExtensionKeys PROVE ~RetryAutomationJob(k)
  BY DEF RetryAutomationJob, MayRetry
<1>8. CASE UNCHANGED vars
  BY <1>8 DEF vars
<1> QED
  BY <1>1, <1>2, <1>3, <1>4, <1>5, <1>6, <1>7, <1>8 DEF Next

\* A cancelled or failed change stays so, and a completed one unless billing
\* takes it back, whatever agreement, dead letter, command or expiry comes
\* afterwards; and what billing took over no job and no retry sets going again.
THEOREM FinalChangesStay == Spec => FinalIsFinal
<1>1. Spec => []TermInv
  BY TermInit, TermNext, PTL DEF Spec
<1>2. TermInv /\ [Next]_vars =>
        [/\ Final => StaysFinal
         /\ Seized => change'.status \notin {"SCHEDULED", "EXECUTING", "COMPLETED"}]_vars
  BY FinalKept, SeizedKept
<1> QED
  BY <1>1, <1>2, PTL DEF Spec, FinalIsFinal

-----------------------------------------------------------------------------
(* A completed change has done its work.                                   *)

\* What a job of the extension stands for.
Effect(k) ==
  CASE k = "BILLING" -> target # "NONE" /\ billing # "STOPPED"
    [] k = "NOTICE"  -> noticed
    [] OTHER         -> grants[k] = 1

DoneOk(w, k) == pc[w].at = "done" /\ pc[w].outcome = "ok" /\ pc[w].key = k
Open(k) == jobs[k].status # "ABSENT"
GrantedOnce == \A g \in Grants : grants[g] \in {0, 1}

\* The jobs are enqueued together by the activation; a job is completed, or
\* about to be, only with its effect; and a completed change had them all.
EffectOK ==
  /\ GrantedOnce
  /\ \A k \in Continuations : Open(k) => target = "ACTIVE"
  /\ \A k \in Continuations : Open("BILLING") => Open(k)
  /\ \A k \in Continuations : jobs[k].status = "COMPLETED" => Effect(k)
  /\ \A w \in Workers, k \in Continuations : DoneOk(w, k) => Effect(k)
  /\ change.status = "COMPLETED" => target = "ACTIVE" /\ \A k \in Continuations : Effect(k)
EffectInv == TermInv /\ EffectOK

LEMMA EffectImplies == EffectOK => CompletedMeansContinued
<1> SUFFICES ASSUME EffectOK, change.status = "COMPLETED"
             PROVE  /\ target = "ACTIVE" /\ noticed /\ billing # "STOPPED"
                    /\ \A g \in Grants : grants[g] = 1
  BY DEF CompletedMeansContinued
<1>1. "BILLING" \in Continuations /\ "NOTICE" \in Continuations
  BY DEF Continuations
<1>2. Effect("BILLING") /\ Effect("NOTICE")
  BY <1>1 DEF EffectOK
<1>3. ASSUME NEW g \in Grants PROVE grants[g] = 1
  <2>1. g \in Continuations /\ g # "BILLING" /\ g # "NOTICE"
    BY GrantsAssumption DEF Continuations, BaseKeys
  <2> QED
    BY <2>1 DEF EffectOK, Effect
<1> QED
  BY <1>2, <1>3 DEF EffectOK, Effect

LEMMA EffectInit == Init => EffectInv
<1> SUFFICES ASSUME Init PROVE EffectOK
  BY TermInit DEF EffectInv
<1>1. \A k \in Continuations : k \in Keys /\ k # "EXPIRE"
  BY GrantsAssumption DEF Continuations, Keys, ExtensionKeys, BaseKeys
<1>2. \A k \in Continuations : jobs[k].status = "ABSENT"
  BY <1>1 DEF Init, NoJob, Row
<1>3. "BILLING" \in Continuations
  BY DEF Continuations
<1>4. change.status # "COMPLETED"
  BY DEF Init
<1>5. \A w \in Workers, k \in Continuations : ~DoneOk(w, k)
  BY DEF Init, Idle, DoneOk
<1>6. GrantedOnce
  BY DEF Init, GrantedOnce
<1> QED
  BY <1>2, <1>3, <1>4, <1>5, <1>6 DEF EffectOK, Open

\* Effects come and never go: the segment and the grants stay, billing stops
\* only where nothing follows.
LEMMA EffectsStay ==
  ASSUME EffectInv, [Next]_vars
  PROVE  /\ GrantedOnce'
         /\ target = "ACTIVE" => target' = "ACTIVE"
         /\ \A k \in Continuations : Effect(k) => Effect(k)'
<1> USE DEF EffectInv
<1> DEFINE Keeps == /\ GrantedOnce'
                    /\ target = "ACTIVE" => target' = "ACTIVE"
                    /\ \A k \in Continuations : Effect(k) => Effect(k)'
<1> SUFFICES Keeps
  OBVIOUS
<1>1. ASSUME UNCHANGED effects, target' = target \/ (target' # "NONE" /\ target # "ACTIVE")
                                                 \/ target' = "ACTIVE" PROVE Keeps
  BY <1>1 DEF effects, Effect, EffectOK, GrantedOnce
<1>2. ASSUME NEW w \in Workers, ResumeBilling(w) PROVE Keeps
  <2>1. UNCHANGED <<target, grants, noticed>> /\ (billing' = "RUNNING" \/ billing' = billing)
    BY <1>2 DEF ResumeBilling, Refuse, terms, effects
  <2> QED
    BY <2>1 DEF Effect, EffectOK, GrantedOnce
<1>3. ASSUME NEW w \in Workers, SendNotice(w) PROVE Keeps
  <2>1. UNCHANGED <<target, grants, billing>> /\ noticed' = TRUE
    BY <1>3 DEF SendNotice, terms
  <2> QED
    BY <2>1 DEF Effect, EffectOK, GrantedOnce
<1>4. ASSUME NEW w \in Workers, NEW g \in Grants, RenewEntitlement(w, g) PROVE Keeps
  <2>1. CASE target = "ACTIVE"
    <3>1. UNCHANGED <<target, noticed, billing>> /\ grants' = Granted(g)
      BY <1>4, <2>1 DEF RenewEntitlement, terms
    <3>2. \A h \in Grants : grants'[h] \in {0, 1} /\ (grants[h] = 1 => grants'[h] = 1)
      BY <3>1 DEF Granted, EffectOK, GrantedOnce, TermInv, TypeInv, OthersOK
    <3>3. \A k \in Continuations : k = "BILLING" \/ k = "NOTICE" \/ k \in Grants
      BY DEF Continuations
    <3> QED
      BY <3>1, <3>2, <3>3 DEF Effect, GrantedOnce
  <2>2. CASE target # "ACTIVE"
    BY <1>1, <1>4, <2>2 DEF RenewEntitlement, Refuse, terms
  <2> QED
    BY <2>1, <2>2
<1>5. ASSUME NEW w \in Workers, Activate(w) PROVE Keeps
  BY <1>1, <1>5 DEF Activate
<1>6. CASE ArchiveCommits
  BY <1>1, <1>6 DEF ArchiveCommits, TermInv, TermOK
<1>7. CASE BillingEnds \/ BillingPauses \/ BillingTakesOver
  BY <1>7 DEF BillingEnds, BillingPauses, BillingTakesOver, Continued, terms, Effect, EffectOK,
     GrantedOnce, TermInv, TypeInv, OthersOK
<1>8. ASSUME NEW w \in Workers,
             \/ ActivateRefused(w) \/ ExpireChecks(w) \/ Expire(w) \/ ExpireOther(w)
             \/ Settle(w) \/ AfterComplete(w) \/ MarkManualTakeover(w)
             \/ ClaimSome(w) \/ HandlerFails(w) \/ Crash(w)
      PROVE  Keeps
  BY <1>1, <1>8 DEF ActivateRefused, Refuse, ExpireChecks, Expire, ExpireOther, Settle,
     AfterComplete, MarkManualTakeover, ClaimSome, Claim, HandlerFails, Crash, terms
<1>9. ASSUME NEW k \in Keys, LeaseEnds(k) \/ (k \in ExtensionKeys /\ RetryAutomationJob(k))
      PROVE  Keeps
  BY <1>1, <1>9 DEF LeaseEnds, RetryAutomationJob, terms
<1>10. CASE \/ ArchiveDecides \/ ArchiveAborts \/ DeadlinePasses \/ Reconcile
            \/ ManualTakeover \/ Cancel \/ ConfirmExpiry \/ UNCHANGED vars
  BY <1>1, <1>10 DEF ArchiveDecides, ArchiveAborts, DeadlinePasses, Reconcile, ManualTakeover,
     Cancel, ConfirmExpiry, vars, terms
<1>11. \A k \in ExtensionKeys : k \in Keys
  BY DEF Keys
<1> QED
  BY <1>2, <1>3, <1>4, <1>5, <1>6, <1>7, <1>8, <1>9, <1>10, <1>11
     DEF Next, ArchiveEnds, Work, Handle

\* A slot that reports success has just made the effect, or had it before.
LEMMA ReportsAreTrue ==
  ASSUME EffectInv, [Next]_vars, NEW v \in Workers, NEW j \in Continuations, DoneOk(v, j)'
  PROVE  Effect(j)'
<1> USE DEF EffectInv, TermInv, TypeInv, RowsOK, SlotsOK, Slot
<1>0. DoneOk(v, j) => Effect(j)'
  BY EffectsStay DEF EffectOK
<1>1. ASSUME NEW w \in Workers, Has(w, j), \E o \in {"ok", "retry"} : Done(w, o), Effect(j)'
      PROVE  Effect(j)'
  BY <1>1
<1>2. ASSUME pc'[v] = pc[v] PROVE Effect(j)'
  BY <1>0, <1>2 DEF DoneOk
<1>3. ASSUME pc'[v].at # "done" \/ pc'[v].outcome # "ok" \/ pc'[v].key # j PROVE Effect(j)'
  BY <1>3 DEF DoneOk
<1>4. ASSUME NEW w \in Workers, NEW k \in Keys, k # j, pc[w].key = k,
             \E o \in {"ok", "retry"} : Done(w, o)
      PROVE  Effect(j)'
  <2>1. v # w => pc'[v] = pc[v]
    BY <1>4 DEF Done
  <2>2. pc'[w].key = k
    BY <1>4 DEF Done
  <2> QED
    BY <1>2, <1>3, <1>4, <2>1, <2>2
<1>5. ASSUME NEW w \in Workers, Done(w, "retry") PROVE Effect(j)'
  <2>1. v # w => pc'[v] = pc[v]
    BY <1>5 DEF Done
  <2>2. pc'[w].outcome = "retry"
    BY <1>5 DEF Done
  <2> QED
    BY <1>2, <1>3, <2>1, <2>2
<1>6. ASSUME NEW w \in Workers, \E e : pc' = [pc EXCEPT ![w] = e] /\ e.at # "done" PROVE Effect(j)'
  <2>1. v # w => pc'[v] = pc[v]
    BY <1>6
  <2>2. pc'[w].at # "done"
    BY <1>6
  <2> QED
    BY <1>2, <1>3, <2>1, <2>2
<1>7. j \in Keys /\ j # "ACTIVATE" /\ j # "EXPIRE"
  BY GrantsAssumption DEF Continuations, Keys, ExtensionKeys, BaseKeys
<1>8. ASSUME NEW w \in Workers, Handle(w) PROVE Effect(j)'
  <2>1. CASE Activate(w)
    BY <1>4, <1>7, <2>1 DEF Activate, Has, Answer, Keys, ExtensionKeys
  <2>2. CASE ActivateRefused(w)
    BY <1>5, <2>2 DEF ActivateRefused, Refuse
  <2>3. CASE ResumeBilling(w)
    <3>1. CASE target # "NONE" /\ billing # "PAUSED"
      <4>1. target' # "NONE" /\ billing' = "RUNNING"
        BY <2>3, <3>1 DEF ResumeBilling, terms
      <4>2. j = "BILLING" => Effect(j)'
        BY <4>1 DEF Effect
      <4>3. "BILLING" \in Keys
        BY DEF Keys, ExtensionKeys, Continuations
      <4> QED
        BY <1>4, <2>3, <3>1, <4>2, <4>3 DEF ResumeBilling, Has, Answer
    <3>2. CASE ~(target # "NONE" /\ billing # "PAUSED")
      BY <1>5, <2>3, <3>2 DEF ResumeBilling, Refuse
    <3> QED
      BY <3>1, <3>2
  <2>4. CASE SendNotice(w)
    <3>1. j = "NOTICE" => Effect(j)'
      BY <2>4 DEF SendNotice, Effect
    <3>2. "NOTICE" \in Keys
      BY DEF Keys, ExtensionKeys, Continuations
    <3> QED
      BY <1>4, <2>4, <3>1, <3>2 DEF SendNotice, Has, Answer
  <2>5. ASSUME NEW g \in Grants, RenewEntitlement(w, g) PROVE Effect(j)'
    <3>1. CASE target = "ACTIVE"
      <4>1. grants' = Granted(g)
        BY <2>5, <3>1 DEF RenewEntitlement
      <4>2. grants'[g] = 1
        BY <4>1 DEF Granted, EffectOK, GrantedOnce, OthersOK
      <4>3. g \in Keys /\ g # "BILLING" /\ g # "NOTICE"
        BY GrantsAssumption DEF BaseKeys, Keys, ExtensionKeys, Continuations
      <4>4. j = g => Effect(j)'
        BY <4>2, <4>3 DEF Effect
      <4> QED
        BY <1>4, <2>5, <3>1, <4>3, <4>4 DEF RenewEntitlement, Has, Answer
    <3>2. CASE target # "ACTIVE"
      BY <1>5, <2>5, <3>2 DEF RenewEntitlement, Refuse
    <3> QED
      BY <3>1, <3>2
  <2>6. ASSUME pc[w].key = "EXPIRE", \E o \in {"ok", "retry"} : Done(w, o) PROVE Effect(j)'
    BY <1>4, <1>7, <2>6 DEF Keys
  <2>7. ASSUME pc[w].key # j, \E o \in {"ok", "retry"} : Done(w, o) PROVE Effect(j)'
    BY <1>4, <2>7
  <2>8. CASE ExpireChecks(w)
    <3>1. CASE Continued
      BY <2>6, <2>8, <3>1 DEF ExpireChecks, Has
    <3>2. CASE ~Continued
      <4>1. pc' = [pc EXCEPT ![w].at = "checked"]
        BY <2>8, <3>2 DEF ExpireChecks
      <4>2. pc' = [pc EXCEPT ![w] = [pc[w] EXCEPT !.at = "checked"]]
        BY <4>1
      <4>3. [pc[w] EXCEPT !.at = "checked"].at # "done"
        OBVIOUS
      <4> QED
        BY <1>6, <4>2, <4>3
    <3> QED
      BY <3>1, <3>2
  <2>9. CASE Expire(w) \/ ExpireOther(w)
    <3>1. \E o \in {"ok", "retry"} : Done(w, o)
      BY <2>9 DEF Expire, ExpireOther, Answer
    <3>2. pc[w].at = "checked"
      BY <2>9 DEF Expire, ExpireOther
    <3>3. pc[w].key = "EXPIRE"
      BY <3>2 DEF ExpiryIsDue
    <3> QED
      BY <2>6, <3>1, <3>3
  <2> QED
    BY <1>8, <2>1, <2>2, <2>3, <2>4, <2>5, <2>8, <2>9 DEF Handle
<1>9. ASSUME NEW w \in Workers, NEW k \in Keys, Claim(w, k) PROVE Effect(j)'
  <2>1. [at |-> "claimed", key |-> k, outcome |-> "ok"].at # "done"
    OBVIOUS
  <2> QED
    BY <1>6, <1>9, <2>1 DEF Claim
<1>10. ASSUME NEW w \in Workers, pc' = [pc EXCEPT ![w] = Idle] PROVE Effect(j)'
  <2>1. Idle.at # "done"
    BY DEF Idle
  <2> QED
    BY <1>6, <1>10, <2>1
<1>11. ASSUME NEW w \in Workers, Settle(w) PROVE Effect(j)'
  <2>1. \A row : [Idle EXCEPT !.at = Rest(pc[w].key, row)].at # "done"
    BY DEF Idle, Rest
  <2> QED
    BY <1>6, <1>10, <1>11, <2>1 DEF Settle
<1>12. ASSUME NEW w \in Workers,
              AfterComplete(w) \/ MarkManualTakeover(w) \/ HandlerFails(w) \/ Crash(w)
       PROVE  Effect(j)'
  BY <1>5, <1>10, <1>12 DEF AfterComplete, MarkManualTakeover, HandlerFails, Crash
<1>13. CASE pc' = pc
  BY <1>2, <1>13
<1>14. CASE \/ ArchiveDecides \/ ArchiveEnds \/ DeadlinePasses \/ Reconcile
            \/ ManualTakeover \/ Cancel \/ ConfirmExpiry
            \/ BillingEnds \/ BillingPauses \/ BillingTakesOver
            \/ \E k \in Keys : LeaseEnds(k)
            \/ \E k \in ExtensionKeys : RetryAutomationJob(k)
            \/ UNCHANGED vars
  BY <1>13, <1>14 DEF ArchiveDecides, ArchiveEnds, ArchiveCommits, ArchiveAborts, DeadlinePasses,
     Reconcile, ManualTakeover, Cancel, ConfirmExpiry, BillingEnds, BillingPauses,
     BillingTakesOver, LeaseEnds, RetryAutomationJob, vars
<1> QED
  BY <1>8, <1>9, <1>11, <1>12, <1>14 DEF Next, ClaimSome, Work

\* Outside the activation no job of the extension comes into being, and one
\* becomes COMPLETED only under a worker that reports success.
LEMMA RowsMove ==
  ASSUME EffectInv, [Next]_vars, \A w \in Workers : ~Activate(w), NEW j \in Continuations
  PROVE  /\ Open(j)' <=> Open(j)
         /\ jobs'[j].status = "COMPLETED" =>
              jobs[j].status = "COMPLETED" \/ \E w \in Workers : DoneOk(w, j)
<1> USE DEF EffectInv, TermInv, TypeInv, RowsOK, JobsOK, Open
<1> DEFINE Moves ==
      /\ Open(j)' <=> Open(j)
      /\ jobs'[j].status = "COMPLETED" =>
           jobs[j].status = "COMPLETED" \/ \E w \in Workers : DoneOk(w, j)
<1> SUFFICES Moves
  OBVIOUS
<1>0. j \in Keys /\ j # "ACTIVATE" /\ j # "EXPIRE"
  BY GrantsAssumption DEF Continuations, Keys, ExtensionKeys, BaseKeys
<1>1. ASSUME jobs'[j] = jobs[j] PROVE Moves
  BY <1>1
<1>2. CASE ArchiveCommits
  <2>1. jobs'[j] = jobs[j]
    BY <1>0, <1>2 DEF ArchiveCommits, Enqueue, CancelOpen
  <2> QED
    BY <1>1, <2>1
<1>3. ASSUME NEW w \in Workers, NEW k \in Keys, Claim(w, k) PROVE Moves
  <2>1. jobs' = [jobs EXCEPT ![k] = Claimed(jobs[k], w)]
    BY <1>3 DEF Claim
  <2>2. jobs[k].status # "ABSENT"
    BY <1>3 DEF Claim, Claimable
  <2>3. Claimed(jobs[k], w).status = "PROCESSING"
    BY DEF Claimed
  <2>4. CASE k = j
    BY <1>0, <2>1, <2>2, <2>3, <2>4
  <2>5. CASE k # j
    BY <1>0, <1>1, <2>1, <2>5
  <2> QED
    BY <2>4, <2>5
<1>4. ASSUME NEW w \in Workers, Settle(w) PROVE Moves
  <2>1. CASE HoldsLease(jobs[pc[w].key], w) /\ pc[w].key = j
    <3>1. jobs'[j] = Settled(jobs[j], pc[w].outcome)
      BY <1>0, <1>4, <2>1 DEF Settle
    <3>2. pc[w].outcome \in {"ok", "retry"}
      BY DEF SlotsOK, Slot
    <3>3. Settled(jobs[j], pc[w].outcome).status # "ABSENT"
      BY <3>2 DEF Settled, Complete, DeadLetter, Reschedule, Row
    <3>4. pc[w].outcome # "ok" => Settled(jobs[j], pc[w].outcome).status # "COMPLETED"
      BY <3>2 DEF Settled, DeadLetter, Reschedule, Row
    <3>5. jobs[j].status # "ABSENT"
      BY <2>1 DEF HoldsLease
    <3>6. pc[w].outcome = "ok" => DoneOk(w, j)
      BY <1>4, <2>1 DEF Settle, DoneOk
    <3> QED
      BY <3>1, <3>3, <3>4, <3>5, <3>6
  <2>2. CASE ~(HoldsLease(jobs[pc[w].key], w) /\ pc[w].key = j)
    BY <1>0, <1>1, <1>4, <2>2 DEF Settle
  <2> QED
    BY <2>1, <2>2
<1>5. ASSUME NEW k \in Keys, LeaseEnds(k) PROVE Moves
  <2>1. jobs'[j].status = jobs[j].status
    BY <1>0, <1>5 DEF LeaseEnds, SoundJob, Job
  <2> QED
    BY <2>1
<1>6. ASSUME NEW k \in ExtensionKeys, RetryAutomationJob(k) PROVE Moves
  <2>1. jobs' = RetryDeadLetter(jobs, k)
    BY <1>6 DEF RetryAutomationJob
  <2>2. FreshJob.status = "PENDING"
    BY DEF FreshJob, Row
  <2> QED
    BY <1>0, <2>1, <2>2 DEF RetryDeadLetter
<1>7. CASE jobs' = jobs
  BY <1>1, <1>7
<1>8. ASSUME NEW w \in Workers, Work(w) \/ HandlerFails(w) \/ Crash(w), ~Settle(w)
      PROVE  jobs' = jobs
  <2>1. ASSUME Handle(w) PROVE jobs' = jobs
    BY <2>1 DEF Handle, ActivateRefused, ResumeBilling, SendNotice, RenewEntitlement,
       ExpireChecks, Expire, ExpireOther, Refuse
  <2> QED
    BY <1>8, <2>1 DEF Work, AfterComplete, MarkManualTakeover, HandlerFails, Crash
<1>9. CASE \/ ArchiveDecides \/ ArchiveAborts \/ DeadlinePasses \/ Reconcile
           \/ ManualTakeover \/ Cancel \/ ConfirmExpiry
           \/ BillingEnds \/ BillingPauses \/ BillingTakesOver \/ UNCHANGED vars
  BY <1>7, <1>9 DEF ArchiveDecides, ArchiveAborts, DeadlinePasses, Reconcile, ManualTakeover,
     Cancel, ConfirmExpiry, BillingEnds, BillingPauses, BillingTakesOver, vars
<1> QED
  BY <1>2, <1>3, <1>4, <1>5, <1>6, <1>7, <1>8, <1>9 DEF Next, ArchiveEnds, ClaimSome

LEMMA EffectNext == EffectInv /\ [Next]_vars => EffectInv'
<1> SUFFICES ASSUME EffectInv, [Next]_vars PROVE EffectOK'
  BY TermNext DEF EffectInv
<1> USE DEF EffectOK
<1>1. EffectOK
  BY DEF EffectInv
<1>2. GrantedOnce' /\ (target = "ACTIVE" => target' = "ACTIVE")
  BY EffectsStay
<1>3. \A k \in Continuations : Effect(k) => Effect(k)'
  BY EffectsStay
<1>4. \A w \in Workers, k \in Continuations : DoneOk(w, k)' => Effect(k)'
  BY ReportsAreTrue
<1>5. "BILLING" \in Continuations
  BY DEF Continuations
<1>6. /\ \A k \in Continuations : Open(k)' => target' = "ACTIVE"
      /\ \A k \in Continuations : Open("BILLING")' => Open(k)'
      /\ \A k \in Continuations : (jobs[k].status = "COMPLETED")' => Effect(k)'
  <2>1. ASSUME NEW w \in Workers, Activate(w) PROVE <1>6!:
    <3>1. target' = "ACTIVE" /\ jobs' = Enqueue(jobs, Continuations)
      BY <2>1 DEF Activate
    <3>2. FreshJob.status = "PENDING"
      BY DEF FreshJob, Row
    <3>3. \A k \in Continuations : k \in Keys /\ jobs \in [Keys -> SoundJob]
      BY DEF Keys, ExtensionKeys, EffectInv, TermInv, TypeInv, RowsOK, JobsOK
    <3>4. \A k \in Continuations :
            Open(k)' /\ (jobs'[k].status = "COMPLETED" => jobs[k].status = "COMPLETED")
      BY <3>1, <3>2, <3>3 DEF Enqueue, Open
    <3> QED
      BY <1>1, <1>3, <3>1, <3>4
  <2>2. CASE \A w \in Workers : ~Activate(w)
    BY <1>1, <1>2, <1>3, <1>5, <2>2, RowsMove
  <2> QED
    BY <2>1, <2>2
<1>7. ASSUME change'.status = "COMPLETED"
      PROVE  target' = "ACTIVE" /\ \A k \in Continuations : Effect(k)'
  <2>1. change.status = "COMPLETED" \/ Ready
    <3>1. change' = change \/ CompleteIfReady \/ change'.status # "COMPLETED"
      <4>1. ASSUME NEW w \in Workers, Work(w) PROVE <3>1!:
        <5>1. CASE Activate(w)
          BY <5>1 DEF Activate, EffectInv, TermInv, TypeInv, RowsOK, Change
        <5>2. CASE Expire(w)
          BY <5>2 DEF Expire, FailChange, EffectInv, TermInv, TypeInv, RowsOK, Change
        <5>3. CASE MarkManualTakeover(w)
          BY <5>3 DEF MarkManualTakeover, EffectInv, TermInv, TypeInv, RowsOK, Change
        <5> QED
          BY <4>1, <5>1, <5>2, <5>3 DEF Work, Handle, ActivateRefused, ResumeBilling, SendNotice,
             RenewEntitlement, ExpireChecks, ExpireOther, Refuse, Settle, AfterComplete
      <4>2. ASSUME NEW k \in ExtensionKeys, RetryAutomationJob(k) PROVE <3>1!:
        BY <4>2 DEF RetryAutomationJob, EffectInv, TermInv, TypeInv, RowsOK, Change
      <4>3. CASE ManualTakeover \/ Cancel \/ ArchiveCommits
        BY <4>3 DEF ManualTakeover, Cancel, ArchiveCommits, EffectInv, TermInv, TypeInv, RowsOK, Change
      <4>4. CASE \/ ArchiveDecides \/ ArchiveAborts \/ DeadlinePasses \/ Reconcile
                 \/ ConfirmExpiry \/ BillingEnds \/ BillingPauses \/ UNCHANGED vars
        BY <4>4 DEF ArchiveDecides, ArchiveAborts, DeadlinePasses, Reconcile, ConfirmExpiry,
           BillingEnds, BillingPauses, vars
      <4>5. ASSUME NEW w \in Workers, ClaimSome(w) \/ HandlerFails(w) \/ Crash(w) PROVE <3>1!:
        BY <4>5 DEF ClaimSome, Claim, HandlerFails, Crash
      <4>6. ASSUME NEW k \in Keys, LeaseEnds(k) PROVE <3>1!:
        BY <4>6 DEF LeaseEnds
      <4>7. CASE BillingTakesOver
        BY <4>7 DEF BillingTakesOver, EffectInv, TermInv, TypeInv, RowsOK, Change
      <4> QED
        BY <4>1, <4>2, <4>3, <4>4, <4>5, <4>6, <4>7 DEF Next, ArchiveEnds
    <3> QED
      BY <1>7, <3>1 DEF CompleteIfReady
  <2>2. CASE change.status = "COMPLETED"
    BY <1>1, <1>2, <1>3, <2>2
  <2>3. CASE Ready
    <3>1. jobs["BILLING"].status = "COMPLETED" /\ Open("BILLING")
      BY <2>3 DEF Ready, Open
    <3>2. target = "ACTIVE"
      BY <1>1, <1>5, <3>1
    <3>3. \A k \in Continuations : jobs[k].status = "COMPLETED"
      BY <1>1, <2>3, <3>1 DEF Ready, Open
    <3> QED
      BY <1>1, <1>2, <1>3, <3>2, <3>3
  <2> QED
    BY <2>1, <2>2, <2>3
<1> QED
  BY <1>2, <1>4, <1>6, <1>7

\* A completed change has done what it stands for: the new segment runs,
\* billing goes on, each entitlement was granted once and the customer was
\* told (completeIfReady).
THEOREM CompletionIsEarned == Spec => []CompletedMeansContinued
<1>1. Spec => []EffectInv
  BY EffectInit, EffectNext, PTL DEF Spec
<1>2. EffectInv => CompletedMeansContinued
  BY EffectImplies DEF EffectInv
<1> QED
  BY <1>1, <1>2, PTL

-----------------------------------------------------------------------------
(* A takeover by the worker leaves a job to be retried.                    *)

\* Each m in M has a d in D of its own, and with "spare" one of D is left.
Assigned(M, D, spare) ==
  \E f \in [M -> D] :
    /\ \A m, n \in M : f[m] = f[n] => m = n
    /\ spare => \E d \in D : \A m \in M : f[m] # d

LEMMA AssignedLess ==
  ASSUME NEW M, NEW D, NEW s, Assigned(M, D, s), NEW N \in SUBSET M, NEW E, D \subseteq E,
         NEW t, t => s
  PROVE  Assigned(N, E, t)
<1>1. PICK f \in [M -> D] : /\ \A m, n \in M : f[m] = f[n] => m = n
                            /\ s => \E d \in D : \A m \in M : f[m] # d
  BY DEF Assigned
<1> DEFINE g == [m \in N |-> f[m]]
<1>2. g \in [N -> E] /\ \A m \in N : g[m] = f[m] /\ m \in M
  OBVIOUS
<1> HIDE DEF g
<1>3. \A m, n \in N : g[m] = g[n] => m = n
  BY <1>1, <1>2
<1>4. t => \E d \in E : \A m \in N : g[m] # d
  BY <1>1, <1>2
<1> QED
  BY <1>2, <1>3, <1>4 DEF Assigned

LEMMA AssignedFreesOne ==
  ASSUME NEW M, NEW D, NEW s, Assigned(M, D, s), NEW m \in M
  PROVE  Assigned(M \ {m}, D, TRUE)
<1>1. PICK f \in [M -> D] : \A x, y \in M : f[x] = f[y] => x = y
  BY DEF Assigned
<1> DEFINE g == [x \in M \ {m} |-> f[x]]
<1>2. g \in [M \ {m} -> D] /\ \A x \in M \ {m} : g[x] = f[x] /\ x \in M
  OBVIOUS
<1> HIDE DEF g
<1>3. \A x, y \in M \ {m} : g[x] = g[y] => x = y
  BY <1>1, <1>2
<1>4. f[m] \in D /\ \A x \in M \ {m} : g[x] # f[m]
  BY <1>1, <1>2
<1> QED
  BY <1>2, <1>3, <1>4 DEF Assigned

LEMMA AssignedPair ==
  ASSUME NEW M, NEW D, NEW s, Assigned(M, D, s), NEW m, m \notin M, NEW d, d \notin D
  PROVE  Assigned(M \cup {m}, D \cup {d}, s)
<1>1. PICK f \in [M -> D] : /\ \A x, y \in M : f[x] = f[y] => x = y
                            /\ s => \E e \in D : \A x \in M : f[x] # e
  BY DEF Assigned
<1> DEFINE g == [x \in M \cup {m} |-> IF x = m THEN d ELSE f[x]]
<1>2. /\ g \in [M \cup {m} -> D \cup {d}] /\ g[m] = d
      /\ \A x \in M : g[x] = f[x] /\ f[x] \in D
  OBVIOUS
<1> HIDE DEF g
<1>3. \A x, y \in M \cup {m} : g[x] = g[y] => x = y
  BY <1>1, <1>2
<1>4. s => \E e \in D \cup {d} : \A x \in M \cup {m} : g[x] # e
  BY <1>1, <1>2
<1> QED
  BY <1>2, <1>3, <1>4 DEF Assigned

LEMMA AssignedLosesOne ==
  ASSUME NEW M, NEW D, Assigned(M, D, TRUE), NEW d \in D
  PROVE  Assigned(M, D \ {d}, FALSE)
<1>1. PICK f \in [M -> D], e \in D : /\ \A x, y \in M : f[x] = f[y] => x = y
                                     /\ \A x \in M : f[x] # e
  BY DEF Assigned
<1> DEFINE g == [x \in M |-> IF f[x] = d THEN e ELSE f[x]]
<1>2. \A x \in M : g[x] = IF f[x] = d THEN e ELSE f[x]
  OBVIOUS
<1>3. \A x \in M : g[x] \in D \ {d}
  BY <1>1, <1>2
<1>4. g \in [M -> D \ {d}]
  BY <1>3
<1> HIDE DEF g
<1>5. \A x, y \in M : g[x] = g[y] => x = y
  BY <1>1, <1>2
<1> QED
  BY <1>4, <1>5 DEF Assigned

\* Every worker about to take the change over has a dead letter of its own,
\* because it has just written one and a retry needs the takeover of another;
\* once the change is taken over there is one more.
Marking == {w \in Workers : pc[w].at = "mark"}
DeadJobs == {k \in ExtensionKeys : jobs[k].status = "DEAD_LETTER"}
TakenOver == change.status = "MANUAL_TAKEOVER" /\ change.failure = "job"
FailureOK == change.failure = "job" => change.status \in {"MANUAL_TAKEOVER", "CANCELLED"}
TakeoverOK == Assigned(Marking, DeadJobs, TakenOver) /\ FailureOK
TakeoverInv == TermInv /\ TakeoverOK

LEMMA TakeoverImplies == TakeoverOK => TakeoverIsRetryable
BY DEF TakeoverOK, Assigned, TakenOver, DeadJobs, TakeoverIsRetryable

LEMMA TakeoverInit == Init => TakeoverInv
<1> SUFFICES ASSUME Init PROVE TakeoverOK
  BY TermInit DEF TakeoverInv
<1>1. Marking = {}
  BY DEF Init, Marking, Idle
<1>2. change.failure = "none"
  BY DEF Init
<1>3. Assigned({}, DeadJobs, FALSE)
  <2>1. [m \in {} |-> m] \in [{} -> DeadJobs]
    OBVIOUS
  <2> QED
    BY <2>1 DEF Assigned
<1>4. ~TakenOver
  BY <1>2 DEF TakenOver
<1> QED
  BY <1>1, <1>2, <1>3, <1>4, AssignedLess DEF TakeoverOK, FailureOK

\* Most steps begin no takeover and take no dead letter away.
LEMMA TakeoverStays ==
  ASSUME TakeoverOK, Marking' \subseteq Marking, DeadJobs \subseteq DeadJobs',
         TakenOver' => TakenOver
  PROVE  Assigned(Marking, DeadJobs, TakenOver)'
BY AssignedLess DEF TakeoverOK

\* The bulk updates of the table leave dead letters alone.
LEMMA TableKeepsDeadLetters ==
  ASSUME NEW table \in [Keys -> SoundJob], NEW keys, NEW k \in Keys,
         table[k].status = "DEAD_LETTER"
  PROVE  /\ Enqueue(table, keys)[k] = table[k]
         /\ CancelOpen(table, keys)[k] = table[k]
BY DEF Enqueue, CancelOpen

LEMMA TakeoverWorker ==
  ASSUME TakeoverInv, NEW w \in Workers, Work(w)
  PROVE  Assigned(Marking, DeadJobs, TakenOver)'
<1> USE DEF TakeoverInv, TermInv, TypeInv, RowsOK, JobsOK, SlotsOK, Slot
<1>0. DeadJobs \subseteq Keys
  BY DEF DeadJobs, Keys
<1>1. ASSUME NEW e, pc' = [pc EXCEPT ![w] = e], e.at # "mark"
      PROVE  Marking' \subseteq Marking
  BY <1>1 DEF Marking
<1>2. ASSUME NEW o \in {"ok", "retry"}, Done(w, o) PROVE Marking' \subseteq Marking
  BY <1>2 DEF Done, Marking
<1>3. CASE Handle(w)
  <2>1. Marking' \subseteq Marking
    <3>1. (\E o \in {"ok", "retry"} : Done(w, o)) \/ pc' = [pc EXCEPT ![w].at = "checked"]
      BY <1>3 DEF Handle, Activate, ActivateRefused, ResumeBilling, SendNotice, RenewEntitlement,
         ExpireChecks, Expire, ExpireOther, Refuse, Answer
    <3>2. pc' = [pc EXCEPT ![w].at = "checked"] => Marking' \subseteq Marking
      BY DEF Marking
    <3> QED
      BY <1>2, <3>1, <3>2
  <2>2. DeadJobs \subseteq DeadJobs'
    <3>1. jobs' = jobs \/ jobs' = Enqueue(jobs, Continuations)
      BY <1>3 DEF Handle, Activate, ActivateRefused, ResumeBilling, SendNotice, RenewEntitlement,
         ExpireChecks, Expire, ExpireOther, Refuse
    <3> QED
      BY <1>0, <3>1, TableKeepsDeadLetters DEF DeadJobs
  <2>3. TakenOver' => TakenOver
    BY <1>3 DEF Handle, Activate, ActivateRefused, ResumeBilling, SendNotice, RenewEntitlement,
       ExpireChecks, Expire, ExpireOther, Refuse, FailChange, TakenOver, Change
  <2> QED
    BY <2>1, <2>2, <2>3, TakeoverStays
<1>4. CASE Settle(w)
  <2> DEFINE k == pc[w].key
             row == Settled(jobs[k], pc[w].outcome)
  <2>0. k \in Keys /\ w \notin Marking /\ TakenOver' = TakenOver
    BY <1>4 DEF Settle, Marking, TakenOver
  <2>1. CASE HoldsLease(jobs[k], w) /\ row.status = "DEAD_LETTER" /\ k \in ExtensionKeys
    <3>1. jobs' = [jobs EXCEPT ![k] = row] /\ pc' = [pc EXCEPT ![w] = [Idle EXCEPT !.at = "mark"]]
      BY <1>4, <2>1 DEF Settle, Rest
    <3>2. Marking' = Marking \cup {w}
      BY <3>1 DEF Marking, Idle
    <3>3. DeadJobs' = DeadJobs \cup {k} /\ k \notin DeadJobs
      BY <2>1, <3>1, <2>0 DEF DeadJobs, HoldsLease, Keys
    <3> QED
      BY <2>0, <3>2, <3>3, AssignedPair DEF TakeoverOK
  <2>2. CASE ~(HoldsLease(jobs[k], w) /\ row.status = "DEAD_LETTER" /\ k \in ExtensionKeys)
    <3>1. Marking' \subseteq Marking
      <4>1. CASE HoldsLease(jobs[k], w)
        <5>1. Rest(k, row) # "mark"
          BY <2>2, <4>1 DEF Rest
        <5>2. [Idle EXCEPT !.at = Rest(k, row)].at # "mark"
          BY <5>1 DEF Idle
        <5> QED
          BY <1>1, <1>4, <4>1, <5>2 DEF Settle
      <4>2. CASE ~HoldsLease(jobs[k], w)
        BY <1>1, <1>4, <4>2 DEF Settle, Idle
      <4> QED
        BY <4>1, <4>2
    <3>2. DeadJobs \subseteq DeadJobs'
      BY <1>4, <1>0 DEF Settle, HoldsLease, DeadJobs
    <3> QED
      BY <2>0, <3>1, <3>2, TakeoverStays
  <2> QED
    BY <2>1, <2>2
<1>5. CASE AfterComplete(w)
  <2>1. Marking' \subseteq Marking /\ DeadJobs' = DeadJobs
    BY <1>5 DEF AfterComplete, Marking, DeadJobs, Idle
  <2>2. TakenOver' => TakenOver
    BY <1>5 DEF AfterComplete, CompleteIfReady, TakenOver, Change
  <2> QED
    BY <2>1, <2>2, TakeoverStays
<1>6. CASE MarkManualTakeover(w)
  <2>1. w \in Marking /\ Marking' = Marking \ {w} /\ DeadJobs' = DeadJobs
    BY <1>6 DEF MarkManualTakeover, Marking, DeadJobs, Idle
  <2>2. CASE Markable
    <3>1. Assigned(Marking \ {w}, DeadJobs, TRUE)
      BY <2>1, AssignedFreesOne DEF TakeoverOK
    <3>2. TakenOver' => TRUE
      OBVIOUS
    <3> QED
      BY <2>1, <3>1, <3>2, AssignedLess
  <2>3. CASE ~Markable
    <3>1. change' = change
      BY <1>6, <2>3 DEF MarkManualTakeover
    <3> QED
      BY <2>1, <3>1, TakeoverStays DEF TakenOver
  <2> QED
    BY <2>2, <2>3
<1> QED
  BY <1>3, <1>4, <1>5, <1>6 DEF Work

LEMMA FailureNext == TakeoverInv /\ [Next]_vars => FailureOK'
<1> SUFFICES ASSUME TakeoverInv, [Next]_vars PROVE FailureOK'
  OBVIOUS
<1> USE DEF TakeoverInv, TermInv, TypeInv, RowsOK, TakeoverOK, FailureOK, Change
<1>1. ASSUME NEW w \in Workers, Handle(w) PROVE FailureOK'
  BY <1>1 DEF Handle, Activate, ActivateRefused, ResumeBilling, SendNotice, RenewEntitlement,
     ExpireChecks, Expire, ExpireOther, Refuse, FailChange
<1>2. ASSUME NEW w \in Workers, Settle(w) \/ AfterComplete(w) \/ MarkManualTakeover(w)
      PROVE  FailureOK'
  BY <1>2 DEF Settle, AfterComplete, CompleteIfReady, MarkManualTakeover
<1>3. CASE ArchiveDecides \/ ArchiveEnds \/ DeadlinePasses \/ Reconcile
  BY <1>3 DEF ArchiveDecides, ArchiveEnds, ArchiveCommits, ArchiveAborts, DeadlinePasses,
     Reconcile, CompleteIfReady, TermOK
<1>4. CASE \/ ManualTakeover \/ Cancel \/ ConfirmExpiry
           \/ BillingEnds \/ BillingPauses \/ BillingTakesOver
  BY <1>4 DEF ManualTakeover, Cancel, ConfirmExpiry, BillingEnds, BillingPauses, BillingTakesOver
<1>5. ASSUME NEW w \in Workers, ClaimSome(w) \/ HandlerFails(w) \/ Crash(w) PROVE FailureOK'
  BY <1>5 DEF ClaimSome, Claim, HandlerFails, Crash
<1>6. ASSUME NEW k \in Keys, LeaseEnds(k) PROVE FailureOK'
  BY <1>6 DEF LeaseEnds
<1>7. ASSUME NEW k \in ExtensionKeys, RetryAutomationJob(k) PROVE FailureOK'
  BY <1>7 DEF RetryAutomationJob
<1>8. CASE UNCHANGED vars
  BY <1>8 DEF vars
<1> QED
  BY <1>1, <1>2, <1>3, <1>4, <1>5, <1>6, <1>7, <1>8 DEF Next, Work

LEMMA TakeoverNext == TakeoverInv /\ [Next]_vars => TakeoverInv'
<1> SUFFICES ASSUME TakeoverInv, [Next]_vars PROVE Assigned(Marking, DeadJobs, TakenOver)'
  BY TermNext, FailureNext DEF TakeoverInv, TakeoverOK
<1> USE DEF TakeoverInv, TermInv, TypeInv, RowsOK, JobsOK, SlotsOK, Slot
<1> DEFINE Goal == Assigned(Marking, DeadJobs, TakenOver)'
<1>0. DeadJobs \subseteq Keys
  BY DEF DeadJobs, Keys
<1>1. ASSUME UNCHANGED <<pc, change>>, DeadJobs \subseteq DeadJobs' PROVE Goal
  BY <1>1, TakeoverStays DEF Marking, TakenOver
<1>2. ASSUME UNCHANGED <<pc, jobs>>, TakenOver' => TakenOver PROVE Goal
  BY <1>2, TakeoverStays DEF Marking, DeadJobs
<1>3. CASE ArchiveCommits
  <2>1. DeadJobs \subseteq DeadJobs'
    <3>1. Enqueue(jobs, {"ACTIVATE"}) \in [Keys -> SoundJob]
      BY TableUpdates DEF Keys, ExtensionKeys
    <3> QED
      BY <1>0, <1>3, <3>1, TableKeepsDeadLetters DEF ArchiveCommits, DeadJobs
  <2>2. ~TakenOver' /\ Marking' = Marking
    BY <1>3 DEF ArchiveCommits, TakenOver, Change, Marking
  <2> QED
    BY <2>1, <2>2, TakeoverStays
<1>4. CASE Reconcile
  <2>1. TakenOver' => TakenOver
    BY <1>4 DEF Reconcile, CompleteIfReady, TakenOver, Change
  <2> QED
    BY <1>2, <1>4, <2>1 DEF Reconcile
<1>5. CASE ManualTakeover \/ Cancel
  <2>1. TakenOver' => TakenOver
    BY <1>5 DEF ManualTakeover, Cancel, TakenOver, Change, TakeoverOK, FailureOK
  <2> QED
    BY <1>2, <1>5, <2>1 DEF ManualTakeover, Cancel
<1>6. ASSUME NEW w \in Workers, ClaimSome(w) PROVE Goal
  <2>1. PICK k \in Keys : Claim(w, k)
    BY <1>6 DEF ClaimSome
  <2>2. Marking' \subseteq Marking
    BY <2>1 DEF Claim, Marking
  <2>3. DeadJobs \subseteq DeadJobs'
    BY <1>0, <2>1 DEF Claim, Claimable, DeadJobs
  <2>4. TakenOver' = TakenOver
    BY <2>1 DEF Claim, TakenOver
  <2> QED
    BY <2>2, <2>3, <2>4, TakeoverStays
<1>7. ASSUME NEW w \in Workers, HandlerFails(w) \/ Crash(w) PROVE Goal
  <2>1. Marking' \subseteq Marking
    <3>1. ASSUME HandlerFails(w) PROVE Marking' \subseteq Marking
      BY <3>1 DEF HandlerFails, Done, Marking
    <3>2. ASSUME Crash(w) PROVE Marking' \subseteq Marking
      BY <3>2 DEF Crash, Marking, Idle
    <3> QED
      BY <1>7, <3>1, <3>2
  <2> QED
    BY <1>7, <2>1, TakeoverStays DEF HandlerFails, Crash, DeadJobs, TakenOver
<1>8. ASSUME NEW k \in Keys, LeaseEnds(k) PROVE Goal
  <2>1. DeadJobs \subseteq DeadJobs'
    BY <1>0, <1>8 DEF LeaseEnds, DeadJobs
  <2> QED
    BY <1>1, <1>8, <2>1 DEF LeaseEnds
<1>9. ASSUME NEW k \in ExtensionKeys, RetryAutomationJob(k) PROVE Goal
  <2>1. k \in DeadJobs /\ TakenOver /\ Marking' = Marking
    BY <1>9 DEF RetryAutomationJob, MayRetry, DeadJobs, TakenOver, Marking
  <2>2. jobs' = RetryDeadLetter(jobs, k)
    BY <1>9 DEF RetryAutomationJob
  <2>3. DeadJobs' = DeadJobs \ {k}
    BY <1>0, <2>1, <2>2 DEF RetryDeadLetter, FreshJob, Row, DeadJobs, Keys
  <2>4. ~TakenOver'
    BY <1>9 DEF RetryAutomationJob, TakenOver, Change
  <2>5. Assigned(Marking, DeadJobs, TRUE)
    BY <2>1 DEF TakeoverOK
  <2>6. Assigned(Marking', DeadJobs', FALSE)
    BY <2>1, <2>3, <2>5, AssignedLosesOne
  <2> QED
    BY <2>4, <2>6, AssignedLess
<1>10. CASE \/ ArchiveDecides \/ ArchiveAborts \/ DeadlinePasses
            \/ ConfirmExpiry \/ BillingEnds \/ BillingPauses \/ UNCHANGED vars
  BY <1>2, <1>10 DEF ArchiveDecides, ArchiveAborts, DeadlinePasses, ConfirmExpiry,
     BillingEnds, BillingPauses, vars, TakenOver
<1>11. CASE BillingTakesOver
  <2>1. TakenOver' => TakenOver
    BY <1>11 DEF BillingTakesOver, TakenOver, Change
  <2> QED
    BY <1>2, <1>11, <2>1 DEF BillingTakesOver
<1> QED
  BY <1>3, <1>4, <1>5, <1>6, <1>7, <1>8, <1>9, <1>10, <1>11, TakeoverWorker DEF Next, ArchiveEnds

\* When a worker has taken the change over, one of its jobs is a dead letter
\* that can be retried, although other workers may still be between their
\* dead letter and the takeover, and retries come in between
\* (handleClaimedJob, markManualTakeover, retryAutomationJob).
THEOREM TakeoverCanBeAnswered == Spec => []TakeoverIsRetryable
<1>1. Spec => []TakeoverInv
  BY TakeoverInit, TakeoverNext, PTL DEF Spec
<1>2. TakeoverInv => TakeoverIsRetryable
  BY TakeoverImplies DEF TakeoverInv
<1> QED
  BY <1>1, <1>2, PTL
=============================================================================
