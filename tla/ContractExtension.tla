------------------------- MODULE ContractExtension -------------------------
(***************************************************************************)
(* One order whose contract segment ends, and one extension of it from the *)
(* signing of the agreement on: the archiving of the signed agreement, the *)
(* expiry of the segment, the jobs of SubscriptionChangeWorker and what    *)
(* the staff, the customer and billing do meanwhile.                       *)
(*                                                                         *)
(* The completion deadline, the start of the target segment and the due    *)
(* time of the expiry job are one instant (renewalSchedule and             *)
(* createExtension compute it from the end of the source segment): "late"  *)
(* says that it has passed.                                                *)
(***************************************************************************)
EXTENDS AutomationJobTable

CONSTANTS Grants,     \* entitlements of the plan that the extension renews
          MaxFaults   \* bounds crashes, slow workers, errors and lost answers

\* The jobs of the order's extension by their idempotency keys, and the job
\* that expires the source segment.
BaseKeys == {"ACTIVATE", "BILLING", "NOTICE"}
ASSUME GrantsAssumption == Grants \cap (BaseKeys \cup {"EXPIRE"}) = {}
ASSUME MaxFaultsAssumption == MaxFaults \in Nat

Continuations == {"BILLING", "NOTICE"} \cup Grants
ExtensionKeys == {"ACTIVATE"} \cup Continuations
Keys == ExtensionKeys \cup {"EXPIRE"}

VARIABLES
  late,           \* the deadline has passed
  order,          \* status of the order
  source,         \* status of the segment that ends
  target,         \* status of the extension's segment, NONE before it exists
  billed,         \* the source segment was billed to its end, and no period crossed it
  change,         \* the change order
  consideration,  \* status of the renewal consideration
  billing,        \* the billing schedule: RUNNING, PAUSED, or STOPPED at the end
  grants,         \* how often an entitlement has been granted
  noticed,        \* the customer was told
  jobs,           \* rows of subscription_automation_job
  archive,        \* an archiving transaction that holds its locks
  pc,             \* worker slots
  faults

terms == <<order, source, target, billed>>
effects == <<billing, grants, noticed>>
vars == <<late, terms, change, consideration, effects, jobs, archive, pc, faults>>

ChangeStatus == {"SIGNING_OR_PAYMENT", "SCHEDULED", "EXECUTING", "COMPLETED",
                 "MANUAL_TAKEOVER", "CANCELLED", "FAILED"}
Change == [status  : ChangeStatus,
           failure : {"none", "job", "deadline", "billing"},
           linked  : BOOLEAN]   \* renewalConsiderationId is set

Slot == [at      : {"idle", "claimed", "checked", "done", "after", "mark"},
         key     : Keys,
         outcome : {"ok", "retry"}]
Idle == [at |-> "idle", key |-> "EXPIRE", outcome |-> "ok"]

TypeOK ==
  /\ late \in BOOLEAN /\ noticed \in BOOLEAN /\ billed \in BOOLEAN
  /\ order \in {"ACTIVE", "PENDING_RETURN"}
  /\ source \in {"ACTIVE", "COMPLETED"}
  /\ target \in {"NONE", "SCHEDULED", "ACTIVE"}
  /\ change \in Change
  /\ consideration \in {"PENDING_DECISION", "EXTENSION_IN_PROGRESS", "EXPIRY_CONFIRMED",
                        "EXTENDED", "EXPIRED"}
  /\ billing \in {"RUNNING", "PAUSED", "STOPPED"}
  /\ grants \in [Grants -> Nat]
  /\ jobs \in [Keys -> Job]
  /\ archive \in {"none", "writing"}
  /\ pc \in [Workers -> Slot]
  /\ faults \in 0..MaxFaults

\* The agreement is out for signature.  A change that the customer asked for
\* is linked to the consideration and has moved it on; a change made by the
\* staff leaves it as it is, linked or not.  The consideration was enrolled
\* earlier, with its expiry job.
Init ==
  /\ late = FALSE
  /\ order = "ACTIVE" /\ source = "ACTIVE" /\ target = "NONE"
  /\ billed = FALSE
  /\ \E linked \in BOOLEAN :
       change = [status |-> "SIGNING_OR_PAYMENT", failure |-> "none", linked |-> linked]
  /\ consideration \in IF change.linked THEN {"PENDING_DECISION", "EXTENSION_IN_PROGRESS"}
                                        ELSE {"PENDING_DECISION"}
  /\ billing = "RUNNING"
  /\ grants = [g \in Grants |-> 0]
  /\ noticed = FALSE
  /\ jobs = [k \in Keys |-> IF k = "EXPIRE" THEN FreshJob ELSE NoJob]
  /\ archive = "none"
  /\ pc = [w \in Workers |-> Idle]
  /\ faults = 0

\* findEffectiveNextSegment: the order goes on after the source segment.
Continued == target \in {"SCHEDULED", "ACTIVE"}

-----------------------------------------------------------------------------
(* The archiving of the signed agreement.                                  *)

\* expiryWins.
ExpiryWins ==
  \/ late
  \/ change.status \in {"CANCELLED", "FAILED", "MANUAL_TAKEOVER"}
  \/ change.linked /\ consideration \in {"EXPIRED", "EXPIRY_CONFIRMED"}

\* finalizeArchivedContract, first half: take the locks, then read the clock
\* and decide.  Evidence that is late, and a state that assertScheduleSource
\* refuses, leave everything modelled here as it is.
ArchiveDecides ==
  /\ archive = "none"
  /\ ~ExpiryWins
  /\ change.status = "SIGNING_OR_PAYMENT"
  /\ change.linked => consideration = "EXTENSION_IN_PROGRESS"
  /\ archive' = "writing"
  /\ UNCHANGED <<late, terms, change, consideration, effects, jobs, pc, faults>>

\* Second half: the segment, its activation job, and the end of the renewal
\* process; only jobs of the linked consideration are cancelled.
ArchiveCommits ==
  /\ archive = "writing"
  /\ archive' = "none"
  /\ target' = "SCHEDULED"
  /\ change' = [change EXCEPT !.status = "SCHEDULED"]
  /\ consideration' = IF change.linked THEN "EXTENDED" ELSE consideration
  /\ jobs' = CancelOpen(Enqueue(jobs, {"ACTIVATE"}), IF change.linked THEN {"EXPIRE"} ELSE {})
  /\ UNCHANGED <<late, order, source, billed, effects, pc, faults>>

\* The transaction is aborted: a lost connection, a serialization failure.
ArchiveAborts ==
  /\ archive = "writing"
  /\ archive' = "none"
  /\ UNCHANGED <<late, terms, change, consideration, effects, jobs, pc, faults>>

-----------------------------------------------------------------------------
(* What a worker does with a job.                                          *)

\* available_at of the two jobs that wait for the deadline.
Due(k) == k \in {"ACTIVATE", "EXPIRE"} => late

Claim(w, k) ==
  /\ pc[w].at = "idle"
  /\ Due(k) /\ Claimable(jobs[k])
  /\ jobs' = [jobs EXCEPT ![k] = Claimed(@, w)]
  /\ pc' = [pc EXCEPT ![w] = [at |-> "claimed", key |-> k, outcome |-> "ok"]]
  /\ UNCHANGED <<late, terms, change, consideration, effects, archive, faults>>

Has(w, k) == pc[w].at = "claimed" /\ pc[w].key = k
Done(w, outcome) == pc' = [pc EXCEPT ![w] = [@ EXCEPT !.at = "done", !.outcome = outcome]]

\* A handler's transaction has committed; what follows it (the notice of the
\* expiry, the way back of the commit) may still fail.
Answer(w) ==
  \/ Done(w, "ok") /\ UNCHANGED faults
  \/ faults < MaxFaults /\ Done(w, "retry") /\ faults' = faults + 1

\* A handler refuses: every error of a handler is retryable.
Refuse(w) ==
  /\ Done(w, "retry")
  /\ UNCHANGED <<late, terms, change, consideration, effects, jobs, archive, faults>>

\* A transient error before the commit; a lock that another transaction of
\* the order holds is one of them for the expiry.
HandlerFails(w) ==
  /\ pc[w].at \in {"claimed", "checked"}
  /\ faults < MaxFaults
  /\ faults' = faults + 1
  /\ Done(w, "retry")
  /\ UNCHANGED <<late, terms, change, consideration, effects, jobs, archive>>

\* activate: the source segment ends, the target begins and the jobs that
\* carry the extension out are enqueued, at every run of the job.
Activate(w) ==
  /\ Has(w, "ACTIVATE")
  /\ \/ /\ target = "SCHEDULED" /\ change.status = "SCHEDULED" /\ source = "ACTIVE"
        /\ source' = "COMPLETED"
        /\ target' = "ACTIVE"
        /\ change' = [change EXCEPT !.status = "EXECUTING", !.failure = "none"]
     \/ /\ target = "ACTIVE" /\ change.status \in {"EXECUTING", "COMPLETED"}
        /\ UNCHANGED <<source, target, change>>
  /\ jobs' = Enqueue(jobs, Continuations)
  /\ Answer(w)
  /\ UNCHANGED <<late, order, billed, consideration, effects, archive>>

ActivateRefused(w) ==
  /\ Has(w, "ACTIVATE")
  /\ ~(target = "SCHEDULED" /\ change.status = "SCHEDULED" /\ source = "ACTIVE")
  /\ ~(target = "ACTIVE" /\ change.status \in {"EXECUTING", "COMPLETED"})
  /\ Refuse(w)

\* resumeForExtension: a running schedule goes on, one that has come to its
\* end starts again, a paused one is refused.
ResumeBilling(w) ==
  /\ Has(w, "BILLING")
  /\ IF target # "NONE" /\ billing # "PAUSED"
     THEN /\ billing' = "RUNNING"
          /\ Answer(w)
          /\ UNCHANGED <<late, terms, change, consideration, grants, noticed, jobs, archive>>
     ELSE Refuse(w)

\* renewEntitlements under the lock of the account: a grant with the key of
\* this one is left alone.
Granted(g) == [grants EXCEPT ![g] = IF @ = 0 THEN 1 ELSE @]

RenewEntitlement(w, g) ==
  /\ Has(w, g)
  /\ IF target = "ACTIVE"
     THEN /\ grants' = Granted(g)
          /\ Answer(w)
          /\ UNCHANGED <<late, terms, change, consideration, billing, noticed, jobs, archive>>
     ELSE Refuse(w)

\* sendEffectiveNotice.
SendNotice(w) ==
  /\ Has(w, "NOTICE")
  /\ noticed' = TRUE
  /\ Answer(w)
  /\ UNCHANGED <<late, terms, change, consideration, billing, grants, jobs, archive>>

\* expireSegment, up to its first look for a next segment, without locks.
ExpireChecks(w) ==
  /\ Has(w, "EXPIRE")
  /\ IF Continued THEN Done(w, "ok") ELSE pc' = [pc EXCEPT ![w].at = "checked"]
  /\ UNCHANGED <<late, terms, change, consideration, effects, jobs, archive, faults>>

\* Mutant: the next segment is not looked for again, and nobody is waited for.
ExpiryGoesOn == order = "ACTIVE"

\* Under the locks the order is still there to expire.
ExpiryStands == archive = "none" /\ ~Continued /\ order = "ACTIVE"

Expirable ==
  change.status \in {"SIGNING_OR_PAYMENT", "SCHEDULED", "EXECUTING", "MANUAL_TAKEOVER"}

\* The change is looked up by the source segment in its own row: the rows of
\* the first release name it there and fail, those of today name it in their
\* detail only and are not found.
FailChange ==
  \/ UNCHANGED change
  \/ Expirable /\ change' = [change EXCEPT !.status = "FAILED", !.failure = "deadline"]

\* The rest of expireSegment, from prepareNormalExpiry on.
Expire(w) ==
  /\ pc[w].at = "checked"
  /\ ExpiryStands
  /\ source' = "COMPLETED"
  /\ order' = "PENDING_RETURN"
  /\ consideration' = "EXPIRED"
  /\ FailChange
  /\ Answer(w)
  /\ UNCHANGED <<late, target, billed, effects, jobs, archive>>

\* It was extended or expired meanwhile; or its locks are held, which
\* prepareNormalExpiry makes an error.
ExpireOther(w) ==
  /\ pc[w].at = "checked"
  /\ ~ExpiryStands
  /\ Done(w, IF archive = "writing" THEN "retry" ELSE "ok")
  /\ UNCHANGED <<late, terms, change, consideration, effects, jobs, archive, faults>>

Handle(w) ==
  \/ Activate(w) \/ ActivateRefused(w) \/ ResumeBilling(w) \/ SendNotice(w)
  \/ \E g \in Grants : RenewEntitlement(w, g)
  \/ ExpireChecks(w) \/ Expire(w) \/ ExpireOther(w)

-----------------------------------------------------------------------------
(* How a job ends, and what the worker then does to the change.            *)

\* What handleClaimedJob has left to do after its job has become this row.
Rest(k, row) ==
  CASE k \in ExtensionKeys /\ row.status = "COMPLETED" -> "after"
    [] k \in ExtensionKeys /\ row.status = "DEAD_LETTER" -> "mark"
    [] OTHER -> "idle"

\* complete, reschedule or deadLetter, each under the lease.
Settle(w) ==
  LET k == pc[w].key
      row == Settled(jobs[k], pc[w].outcome)
  IN /\ pc[w].at = "done"
     /\ IF HoldsLease(jobs[k], w)
        THEN /\ jobs' = [jobs EXCEPT ![k] = row]
             /\ pc' = [pc EXCEPT ![w] = [Idle EXCEPT !.at = Rest(k, row)]]
        ELSE pc' = [pc EXCEPT ![w] = Idle] /\ UNCHANGED jobs
     /\ UNCHANGED <<late, terms, change, consideration, effects, archive, faults>>

\* Mutant: jobs that are still open are not looked at.
ReadyByType == \A k \in {"BILLING", "NOTICE"} : jobs[k].status = "COMPLETED"

\* completeIfReady: the two jobs every extension has are done, and no job of
\* the change is anything else.
Ready ==
  /\ \A k \in {"BILLING", "NOTICE"} : jobs[k].status = "COMPLETED"
  /\ \A k \in Continuations : jobs[k].status \in {"ABSENT", "COMPLETED"}

CompleteIfReady ==
  change' = IF change.status = "EXECUTING" /\ Ready
            THEN [change EXCEPT !.status = "COMPLETED", !.failure = "none"] ELSE change

AfterComplete(w) ==
  /\ pc[w].at = "after"
  /\ CompleteIfReady
  /\ pc' = [pc EXCEPT ![w] = Idle]
  /\ UNCHANGED <<late, terms, consideration, effects, jobs, archive, faults>>

\* Mutant: a change is taken over whatever its status.
MarkableAlways == change.status \in ChangeStatus

\* markManualTakeover.
Markable == change.status \in {"SCHEDULED", "EXECUTING"}

MarkManualTakeover(w) ==
  /\ pc[w].at = "mark"
  /\ change' = IF Markable THEN [change EXCEPT !.status = "MANUAL_TAKEOVER", !.failure = "job"]
                           ELSE change
  /\ pc' = [pc EXCEPT ![w] = Idle]
  /\ UNCHANGED <<late, terms, consideration, effects, jobs, archive, faults>>

\* Mutant: the maintenance looks for changes that are still scheduled.
ReconciledScheduled == change.status = "SCHEDULED"

\* reconcileActiveChanges.
Reconciled == change.status = "EXECUTING"

Reconcile ==
  /\ Reconciled
  /\ CompleteIfReady
  /\ UNCHANGED <<late, terms, consideration, effects, jobs, archive, pc, faults>>

-----------------------------------------------------------------------------
(* Workers that die or are slow.                                           *)

Crash(w) ==
  /\ pc[w].at # "idle"
  /\ faults < MaxFaults
  /\ faults' = faults + 1
  /\ pc' = [pc EXCEPT ![w] = Idle]
  /\ UNCHANGED <<late, terms, change, consideration, effects, jobs, archive>>

Works(w, k) == pc[w].at \in {"claimed", "checked", "done"} /\ pc[w].key = k

\* The lease of a dead worker runs out; that of a slow one counts as a fault.
LeaseEnds(k) ==
  /\ jobs[k].status = "PROCESSING" /\ jobs[k].live
  /\ IF Works(jobs[k].holder, k) THEN faults < MaxFaults /\ faults' = faults + 1
                                 ELSE UNCHANGED faults
  /\ jobs' = [jobs EXCEPT ![k].live = FALSE]
  /\ UNCHANGED <<late, terms, change, consideration, effects, archive, pc>>

-----------------------------------------------------------------------------
(* Staff, customer and billing.                                            *)

\* runChangeCommand: the row is not locked and the deadline not reached.
MayCommand == archive = "none" /\ ~late

ManualTakeover ==
  /\ MayCommand
  /\ change.status \notin {"COMPLETED", "CANCELLED"}
  /\ change' = [change EXCEPT !.status = "MANUAL_TAKEOVER"]
  /\ UNCHANGED <<late, terms, consideration, effects, jobs, archive, pc, faults>>

\* cancel leaves the segment and the jobs of the change alone.
Cancel ==
  /\ MayCommand
  /\ change.status \in {"SIGNING_OR_PAYMENT", "MANUAL_TAKEOVER"}
  /\ change' = [change EXCEPT !.status = "CANCELLED"]
  /\ UNCHANGED <<late, terms, consideration, effects, jobs, archive, pc, faults>>

\* Mutant: any dead-lettered job may be retried.
MayRetryAny(k) == jobs[k].status = "DEAD_LETTER"

\* The takeover is the worker's, and the job one that has failed so.
MayRetry(k) ==
  /\ jobs[k].status = "DEAD_LETTER"
  /\ change.status = "MANUAL_TAKEOVER" /\ change.failure = "job"

RetryAutomationJob(k) ==
  /\ archive = "none"
  /\ MayRetry(k)
  /\ jobs' = RetryDeadLetter(jobs, k)
  /\ change' = [change EXCEPT !.status = IF k = "ACTIVATE" THEN "SCHEDULED" ELSE "EXECUTING",
                              !.failure = "none"]
  /\ UNCHANGED <<late, terms, consideration, effects, archive, pc, faults>>

\* decide: the customer lets the contract expire; nothing was decided before.
\* Without the link nothing modelled here reads the decision: it is left out.
ConfirmExpiry ==
  /\ ~late /\ change.linked
  /\ consideration = "PENDING_DECISION"
  /\ consideration' = "EXPIRY_CONFIRMED"
  /\ UNCHANGED <<late, terms, change, effects, jobs, archive, pc, faults>>

\* Billing comes to the end of the last segment it knows of.
BillingEnds ==
  /\ billing = "RUNNING" /\ ~Continued
  /\ billing' = "STOPPED"
  /\ billed' = TRUE
  /\ UNCHANGED <<late, order, source, target, change, consideration, grants, noticed, jobs,
                 archive, pc, faults>>

\* An administrator pauses the schedule and resumes it; generation and
\* reconciliation pause it at a blocker of their own.
BillingPauses ==
  /\ billing \in {"RUNNING", "PAUSED"}
  /\ billing' = IF billing = "RUNNING" THEN "PAUSED" ELSE "RUNNING"
  /\ UNCHANGED <<late, terms, change, consideration, grants, noticed, jobs, archive, pc, faults>>

\* The changes that billing takes over: the completed ones, too.
Seizable == change.status \in {"SCHEDULED", "EXECUTING", "COMPLETED"}

\* moveSourceFactBlockerToPaused: a period that reaches into the extension's
\* segment is not billed; the schedule is paused and the change that made the
\* segment is handed to the staff, with a failure that no job has.
BillingTakesOver ==
  /\ billing = "RUNNING" /\ ~billed /\ Continued
  /\ billing' = "PAUSED"
  /\ change' = IF Seizable THEN [change EXCEPT !.status = "MANUAL_TAKEOVER", !.failure = "billing"]
                           ELSE change
  /\ UNCHANGED <<late, terms, consideration, grants, noticed, jobs, archive, pc, faults>>

DeadlinePasses ==
  /\ ~late
  /\ late' = TRUE
  /\ UNCHANGED <<terms, change, consideration, effects, jobs, archive, pc, faults>>

-----------------------------------------------------------------------------
ClaimSome(w) == \E k \in Keys : Claim(w, k)
Work(w) == Handle(w) \/ Settle(w) \/ AfterComplete(w) \/ MarkManualTakeover(w)
ArchiveEnds == ArchiveCommits \/ ArchiveAborts

Next ==
  \/ ArchiveDecides \/ ArchiveEnds \/ DeadlinePasses \/ Reconcile
  \/ \E w \in Workers : ClaimSome(w) \/ Work(w) \/ HandlerFails(w) \/ Crash(w)
  \/ \E k \in Keys : LeaseEnds(k)
  \/ \E k \in ExtensionKeys : RetryAutomationJob(k)
  \/ ManualTakeover \/ Cancel \/ ConfirmExpiry
  \/ BillingEnds \/ BillingPauses \/ BillingTakesOver

Spec == Init /\ [][Next]_vars

\* Time passes, transactions end, the worker polls and its maintenance runs
\* every minute; a lease that nobody works under runs out.
FairSpec ==
  /\ Spec
  /\ WF_vars(DeadlinePasses) /\ WF_vars(ArchiveEnds) /\ WF_vars(Reconcile)
  /\ WF_vars(\E w \in Workers : ClaimSome(w))
  /\ \A w \in Workers : WF_vars(Work(w))
  /\ WF_vars(\E k \in Keys : LeaseEnds(k))

-----------------------------------------------------------------------------
(* Properties.                                                             *)

\* The segments of the order and its status tell one story, however archiving
\* and expiry meet at the deadline: an order that is to be returned has no
\* extension, and an order that goes on has exactly one running segment
\* (finalizeArchivedContract, expireSegment and activate).
OneTerm ==
  /\ order = "PENDING_RETURN" => source = "COMPLETED" /\ target = "NONE"
  /\ order = "ACTIVE" => (source = "ACTIVE") # (target = "ACTIVE")

\* A COMPLETED change has done what it stands for, whatever its jobs went
\* through: the new segment runs, billing goes on beyond the old one, every
\* entitlement was granted once and the customer was told (completeIfReady).
CompletedMeansContinued ==
  change.status = "COMPLETED" =>
    /\ target = "ACTIVE" /\ noticed
    /\ billing # "STOPPED"
    /\ \A g \in Grants : grants[g] = 1

\* A takeover by the worker can be answered: one of the change's jobs is there
\* to be retried, although a dead letter and the takeover are two transactions
\* and a retry may come between them (handleClaimedJob, retryAutomationJob).
TakeoverIsRetryable ==
  change.status = "MANUAL_TAKEOVER" /\ change.failure = "job" =>
    \E k \in ExtensionKeys : jobs[k].status = "DEAD_LETTER"

\* A change that was completed, cancelled or failed stays so, also when a
\* signed agreement, a dead letter or the expiry comes afterwards; only billing
\* takes a completed one back, when it stops before a period that reaches over
\* the end of the old segment.  And what billing has taken over is not set
\* going again, neither by jobs that still run nor by a retry
\* (finalizeArchivedContract, markManualTakeover, expireSegment,
\* moveSourceFactBlockerToPaused, retryAutomationJob).
Final == change.status \in {"COMPLETED", "CANCELLED", "FAILED"}
Seized == change.status = "MANUAL_TAKEOVER" /\ change.failure = "billing"

StaysFinal ==
  \/ change'.status = change.status
  \/ /\ change.status = "COMPLETED" /\ Seized'
     /\ ~billed /\ billing = "RUNNING" /\ billing' = "PAUSED"

FinalIsFinal ==
  [][/\ Final => StaysFinal
     /\ Seized => change'.status \notin {"SCHEDULED", "EXECUTING", "COMPLETED"}]_vars

\* After the deadline the order comes to its end or goes on, or somebody is
\* called: without an extension it is returned, also when the expiry met the
\* archiving; with one the change is completed, also when a worker dies
\* between the end of its job and the completion, or it is in the hands of the
\* staff or has a dead letter (expireSegment, reconcileActiveChanges).
Called ==
  \/ Continued /\ change.status \in {"MANUAL_TAKEOVER", "CANCELLED"}
  \/ \E k \in Keys : jobs[k].status = "DEAD_LETTER"

TermIsSettled == late ~> order = "PENDING_RETURN" \/ change.status = "COMPLETED" \/ Called
=============================================================================
