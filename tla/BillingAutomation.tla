------------------------- MODULE BillingAutomation -------------------------
(***************************************************************************)
(* Recurring rent billing of one subscription order: its billing_schedule  *)
(* row, the rent bills, the automation jobs that carry the work, the       *)
(* workers that lease those jobs, the maintenance reconciliation, the      *)
(* administrator, and the contract events that reach the schedule.         *)
(* Schedules, bills and job keys of different orders are disjoint, so one  *)
(* order is the whole of the interaction.                                  *)
(*                                                                         *)
(* Every database transaction that locks or compares-and-swaps what it     *)
(* writes is one action.  Reads that a later statement relies on without a *)
(* lock (the administrator's checks, the reconciliation's snapshot) are    *)
(* actions of their own.                                                   *)
(***************************************************************************)
EXTENDS AutomationJobTable, Integers, FiniteSets

CONSTANTS MaxCycle,     \* bound: the longest contract, in monthly cycles
          FirstEnd,     \* the last cycle of the contract as signed
          Reconcilers,  \* concurrent runs of reconcileSchedules
          Admin,        \* the administrator, as a reader of the schedule row
          Supported,    \* the job types the workers claim (supportedJobTypes)
          Events,       \* the administrator and contract events that happen
          Faults,       \* the kinds of fault that happen
          MaxFaults,    \* bound: crashes, handler failures and slow leases
          MaxOps        \* bound: how many administrator and contract events

ASSUME CyclesAssumption == /\ MaxCycle \in Nat \ {0}
                           /\ FirstEnd \in 1..MaxCycle
ASSUME BoundsAssumption == MaxFaults \in Nat /\ MaxOps \in Nat
ASSUME EventsAssumption == Supported \subseteq {"GENERATE", "DUE", "MARK", "OVERDUE_NOTICE"}
ASSUME ReadersAssumption == Admin \notin Reconcilers

VARIABLES
  clock,     \* business time; see GenerateAt and OverdueAt
  sched,     \* the billing_schedule row
  tickets,   \* readers whose remembered version is still the row's version
  bills,     \* rent bill of each cycle
  notices,   \* customer notifications sent
  jobs,      \* subscription_automation_job, by idempotency key
  workers,   \* what each worker slot is doing
  recon,     \* what each reconciliation run remembers
  admin,     \* the administrator's operation between its check and its write
  contract,  \* segment facts, service boundary and order status
  faults,    \* faults injected so far
  ops        \* administrator and contract events so far

vars == <<clock, sched, tickets, bills, notices, jobs, workers, recon, admin,
          contract, faults, ops>>

-----------------------------------------------------------------------------
(* Keys, times and records.                                                *)

Cycles == 1..MaxCycle

\* billingSourceKey, dueNoticeJobKey, overdueJobKey and overdueNoticeJobKey.
JobTypes == {"GENERATE", "DUE", "MARK", "OVERDUE_NOTICE"}
Keys == JobTypes \X Cycles
NoKey == <<"NONE", 0>>
GenerateKey(c) == <<"GENERATE", c>>
DueKey(c) == <<"DUE", c>>
MarkKey(c) == <<"MARK", c>>
OverdueNoticeKey(c) == <<"OVERDUE_NOTICE", c>>

\* Jobs that cancelPendingBillAutomationJobs cancels when a bill is settled,
\* and jobs that carry the schedule's id (the overdue notice does not).
BillJobs(c) == {DueKey(c), MarkKey(c), OverdueNoticeKey(c)}
ScheduleJobs == {"GENERATE", "DUE", "MARK"} \X Cycles

\* A cycle's bill is generated 3 days before its period starts and checked
\* for overdue 5 days after; months are longer than 8 days, so these
\* instants alternate.
GenerateAt(c) == 2 * c - 1
OverdueAt(c) == 2 * c
MaxClock == OverdueAt(MaxCycle)
AvailableAt(k) ==
  CASE k[1] = "GENERATE" -> GenerateAt(k[2])
    [] k[1] = "MARK" -> OverdueAt(k[2])
    [] OTHER -> 0

Schedule == [status : {"ACTIVE", "PAUSED", "COMPLETED"},
             reason : {"none", "blocker", "manual"},
             next   : Cycles]
BillStatus == {"NONE", "PENDING", "OVERDUE", "PAID"}
Worker == [pc : {"idle", "claimed", "notify", "done"}, job : Keys \cup {NoKey},
           outcome : {"none", "ok", "paused", "retry", "config"}]
Recon == [pc : {"idle", "read", "blocked", "clear"},
          status : {"ACTIVE", "PAUSED", "COMPLETED"},
          reason : {"none", "blocker", "manual"}, next : Cycles]
Contract == [end : Cycles, boundary : 0..MaxCycle, orderActive : BOOLEAN,
             blocked : BOOLEAN, extending : BOOLEAN]

IdleWorker == [pc |-> "idle", job |-> NoKey, outcome |-> "none"]
IdleRecon == [pc |-> "idle", status |-> "ACTIVE", reason |-> "none", next |-> 1]

Issued(c) == bills[c] # "NONE"
IssuedCycles == {c \in Cycles : Issued(c)}

\* earliestServiceEndDate: the last cycle that starts within both the signed
\* segments and the service boundary, as a cycle number.
ServiceEnd == IF contract.end <= contract.boundary THEN contract.end ELSE contract.boundary

\* The type invariant.
TypeOK ==
  /\ clock \in 0..MaxClock
  /\ sched \in Schedule
  /\ tickets \subseteq Reconcilers \cup {Admin}
  /\ bills \in [Cycles -> BillStatus]
  /\ notices \subseteq {"DUE", "OVERDUE_NOTICE"} \X Cycles
  /\ jobs \in [Keys -> Job]
  /\ workers \in [Workers -> Worker]
  /\ recon \in [Reconcilers -> Recon]
  /\ admin \in {"idle", "pause", "resume"}
  /\ contract \in Contract
  /\ faults \in 0..MaxFaults
  /\ ops \in 0..MaxOps

\* ensureActiveSchedule has just run: the order is delivered and its
\* schedule waits for cycle 1.
Init ==
  /\ clock = 0
  /\ sched = [status |-> "ACTIVE", reason |-> "none", next |-> 1]
  /\ tickets = {}
  /\ bills = [c \in Cycles |-> "NONE"]
  /\ notices = {}
  /\ jobs = [k \in Keys |-> NoJob]
  /\ workers = [w \in Workers |-> IdleWorker]
  /\ recon = [r \in Reconcilers |-> IdleRecon]
  /\ admin = "idle"
  /\ contract = [end |-> FirstEnd, boundary |-> MaxCycle, orderActive |-> TRUE,
                 blocked |-> FALSE, extending |-> FALSE]
  /\ faults = 0
  /\ ops = 0

-----------------------------------------------------------------------------
(* Maintenance: enqueueDueSchedules and reconcileSchedules.                *)

\* enqueueDueSchedules, for the order's schedule: under the row lock the
\* status and the due time are read again, a cancelled generation job of the
\* next period is brought back and a missing one is created.
EnqueueDue ==
  /\ sched.status = "ACTIVE"
  /\ GenerateAt(sched.next) <= clock
  /\ jobs' = Enqueue(Reactivate(jobs, GenerateKey(sched.next)), {GenerateKey(sched.next)})
  /\ UNCHANGED <<clock, sched, tickets, bills, notices, workers, recon, admin,
                 contract, faults, ops>>

\* reconcileSchedules first loads every active order with its schedule.
ReconRead(r) ==
  /\ recon[r].pc = "idle"
  /\ contract.orderActive
  /\ recon' = [recon EXCEPT ![r] = [pc |-> "read", status |-> sched.status,
                                    reason |-> sched.reason, next |-> sched.next]]
  /\ tickets' = tickets \cup {r}
  /\ UNCHANGED <<clock, sched, bills, notices, jobs, workers, admin, contract,
                 faults, ops>>

\* Then it resolves the contract segment of the remembered next period,
\* unless that period starts after the contract's end.
ReconDecide(r) ==
  /\ recon[r].pc = "read"
  /\ LET ended == recon[r].next > contract.end
     IN recon' = [recon EXCEPT ![r].pc =
                    IF contract.blocked /\ ~ended THEN "blocked" ELSE "clear"]
  /\ UNCHANGED <<clock, sched, tickets, bills, notices, jobs, workers, admin,
                 contract, faults, ops>>

\* pauseReconciliationBlockedSchedule: compare-and-swap on the version and on
\* ACTIVE, or on PAUSED when the row was not ACTIVE; when that loses, the
\* pending jobs are still cancelled if the row is paused by a blocker.
ReconPause(r) ==
  LET expected == IF recon[r].status = "ACTIVE" THEN "ACTIVE" ELSE "PAUSED"
      won == sched.status = expected /\ r \in tickets
      blockerPaused == sched.status = "PAUSED" /\ sched.reason = "blocker"
  IN /\ recon[r].pc = "blocked"
     /\ recon' = [recon EXCEPT ![r] = IdleRecon]
     /\ sched' = IF won THEN [sched EXCEPT !.status = "PAUSED", !.reason = "blocker"] ELSE sched
     /\ tickets' = IF won THEN {} ELSE tickets \ {r}
     /\ jobs' = IF won \/ blockerPaused THEN CancelPending(jobs, ScheduleJobs) ELSE jobs
     /\ UNCHANGED <<clock, bills, notices, workers, admin, contract, faults, ops>>

\* resumeReconciledSchedule, called only for a snapshot that was paused by a
\* blocker: compare-and-swap on status, reason and version.
ReconResume(r) ==
  LET won == /\ recon[r].status = "PAUSED" /\ recon[r].reason = "blocker"
             /\ sched.status = "PAUSED" /\ sched.reason = "blocker"
             /\ r \in tickets
  IN /\ recon[r].pc = "clear"
     /\ recon' = [recon EXCEPT ![r] = IdleRecon]
     /\ sched' = IF won THEN [sched EXCEPT !.status = "ACTIVE", !.reason = "none"] ELSE sched
     /\ tickets' = IF won THEN {} ELSE tickets \ {r}
     /\ jobs' = IF won THEN Reactivate(jobs, GenerateKey(recon[r].next)) ELSE jobs
     /\ UNCHANGED <<clock, bills, notices, workers, admin, contract, faults, ops>>

-----------------------------------------------------------------------------
(* The worker: claim, handle, finish.                                      *)

\* claimDue: generation jobs are claimed only while the schedule is ACTIVE.
Claim(w, k) ==
  /\ workers[w].pc = "idle"
  /\ k[1] \in Supported
  /\ Claimable(jobs[k])
  /\ AvailableAt(k) <= clock
  /\ k[1] = "GENERATE" => sched.status = "ACTIVE"
  /\ jobs' = [jobs EXCEPT ![k] = Claimed(@, w)]
  /\ workers' = [workers EXCEPT ![w] = [pc |-> "claimed", job |-> k, outcome |-> "none"]]
  /\ UNCHANGED <<clock, sched, tickets, bills, notices, recon, admin, contract,
                 faults, ops>>

\* The worker's handler is running job k of type t.
Handling(w, t) == workers[w].pc = "claimed" /\ workers[w].job[1] = t
Cycle(w) == workers[w].job[2]
Outcome(w, o) == workers' = [workers EXCEPT ![w] = [pc |-> "done", job |-> @.job, outcome |-> o]]

\* Mutant: the transaction trusts the claim and does not read the status again.
NextPeriodClaimed(w) == Cycle(w) = sched.next

\* The job is the one of the next period of an ACTIVE schedule.
AtNextPeriod(w) == sched.status = "ACTIVE" /\ Cycle(w) = sched.next

\* Mutant: a bill that manual generation made first gets no follow-up jobs.
FollowUpsOfNewBill(c) == IF Issued(c) THEN {} ELSE {DueKey(c), MarkKey(c)}

FollowUps(c) == {DueKey(c), MarkKey(c)}

\* generateScheduledMonthlyRent, its early exits in order.
GeneratePaused(w) ==
  /\ Handling(w, "GENERATE")
  /\ sched.status = "PAUSED"
  /\ Outcome(w, "paused")
  /\ UNCHANGED <<clock, sched, tickets, bills, notices, jobs, recon, admin,
                 contract, faults, ops>>

\* The schedule has ended, or the job is not the one of the next period.
GenerateRejected(w) ==
  /\ Handling(w, "GENERATE")
  /\ \/ sched.status = "COMPLETED"
     \/ sched.status = "ACTIVE" /\ Cycle(w) # sched.next
  /\ Outcome(w, "config")
  /\ UNCHANGED <<clock, sched, tickets, bills, notices, jobs, recon, admin,
                 contract, faults, ops>>

\* The next period starts after the service end: the schedule completes.
GenerateEnded(w) ==
  /\ Handling(w, "GENERATE")
  /\ AtNextPeriod(w)
  /\ sched.next > ServiceEnd
  /\ sched' = [sched EXCEPT !.status = "COMPLETED"]
  /\ tickets' = {}
  /\ Outcome(w, "ok")
  /\ UNCHANGED <<clock, bills, notices, jobs, recon, admin, contract, faults, ops>>

\* Mutant: the schedule advances although the bill was refused.
GenerateBlockedAdvances(w) ==
  /\ Handling(w, "GENERATE")
  /\ AtNextPeriod(w)
  /\ sched.next < ServiceEnd
  /\ contract.blocked
  /\ sched' = [status |-> "PAUSED", reason |-> "blocker", next |-> sched.next + 1]
  /\ tickets' = {}
  /\ Outcome(w, "paused")
  /\ UNCHANGED <<clock, bills, notices, jobs, recon, admin, contract, faults, ops>>

\* moveSourceFactBlockerToPaused: the pause is committed and the job deferred.
\* When the period crosses a segment, the transaction also hands the change
\* order to the staff; nothing here reads that order, so this half of it is an
\* action of ContractExtension (BillingTakesOver).
GenerateBlocked(w) ==
  /\ Handling(w, "GENERATE")
  /\ AtNextPeriod(w)
  /\ sched.next <= ServiceEnd
  /\ contract.blocked
  /\ sched' = [sched EXCEPT !.status = "PAUSED", !.reason = "blocker"]
  /\ tickets' = {}
  /\ Outcome(w, "paused")
  /\ UNCHANGED <<clock, bills, notices, jobs, recon, admin, contract, faults, ops>>

\* The bill is created unless the period already has one, the schedule
\* advances or completes, and the follow-up jobs are enqueued, in one
\* transaction.
GenerateIssue(w) ==
  /\ Handling(w, "GENERATE")
  /\ AtNextPeriod(w)
  /\ sched.next <= ServiceEnd
  /\ ~contract.blocked
  /\ bills' = IF Issued(sched.next) THEN bills ELSE [bills EXCEPT ![sched.next] = "PENDING"]
  /\ sched' = IF sched.next + 1 > ServiceEnd
              THEN [sched EXCEPT !.status = "COMPLETED"]
              ELSE [sched EXCEPT !.next = @ + 1]
  /\ tickets' = {}
  /\ jobs' = Enqueue(jobs, FollowUps(sched.next))
  /\ Outcome(w, "ok")
  /\ UNCHANGED <<clock, notices, recon, admin, contract, faults, ops>>

\* Mutant: the bill is not read again under its lock.
OverdueTargetClaimed(c) == Issued(c)

\* markBillOverdueForAutomation skips a settled bill.
OverdueTarget(c) == bills[c] \in {"PENDING", "OVERDUE"}
OverdueNotices(c) == IF OverdueTarget(c) THEN {OverdueNoticeKey(c)} ELSE {}

\* markScheduledBillOverdue: a settled bill is left alone; otherwise the bill
\* is overdue and the overdue notice is enqueued in the same transaction.
MarkOverdue(w) ==
  LET c == Cycle(w)
  IN /\ Handling(w, "MARK")
     /\ bills' = IF OverdueTarget(c) THEN [bills EXCEPT ![c] = "OVERDUE"] ELSE bills
     /\ jobs' = Enqueue(jobs, OverdueNotices(c))
     /\ Outcome(w, "ok")
     /\ UNCHANGED <<clock, sched, tickets, notices, recon, admin, contract, faults, ops>>

\* sendBillNotice reads the bill without a lock and skips a bill that is
\* settled, or not overdue when the notice is about overdue.
NoticeRead(w) ==
  LET c == Cycle(w)
      wanted == \/ Handling(w, "DUE") /\ bills[c] \in {"PENDING", "OVERDUE"}
                \/ Handling(w, "OVERDUE_NOTICE") /\ bills[c] = "OVERDUE"
  IN /\ Handling(w, "DUE") \/ Handling(w, "OVERDUE_NOTICE")
     /\ \/ wanted /\ workers' = [workers EXCEPT ![w] = [pc |-> "notify", job |-> @.job,
                                                       outcome |-> "none"]]
        \/ ~wanted /\ Outcome(w, "ok")
     /\ UNCHANGED <<clock, sched, tickets, bills, notices, jobs, recon, admin,
                    contract, faults, ops>>

\* notifyBillLifecycle keeps one portal notification per job key; it then
\* fails when another channel stays incomplete.
NoticeSend(w) ==
  /\ workers[w].pc = "notify"
  /\ notices' = notices \cup {workers[w].job}
  /\ \/ Outcome(w, "ok") /\ faults' = faults
     \/ /\ "retry" \in Faults /\ faults < MaxFaults
        /\ Outcome(w, "retry") /\ faults' = faults + 1
  /\ UNCHANGED <<clock, sched, tickets, bills, jobs, recon, admin, contract, ops>>

\* A handler that fails rolls its transaction back; the update that completes
\* the job may also fail, after the handler committed.  A transient failure of
\* a generation whose schedule is paused by then is reported as paused.
HandlerFails(w, o) ==
  /\ \/ workers[w].pc \in {"claimed", "notify"}
     \/ workers[w].pc = "done" /\ workers[w].outcome = "ok" /\ o = "retry"
  /\ o \in Faults /\ faults < MaxFaults
  /\ faults' = faults + 1
  /\ Outcome(w, IF o = "retry" /\ Handling(w, "GENERATE") /\ sched.status = "PAUSED"
                THEN "paused" ELSE o)
  /\ UNCHANGED <<clock, sched, tickets, bills, notices, jobs, recon, admin, contract, ops>>

\* handleClaimedJob's last update, which finds no row when the lease is lost.
Finish(w) ==
  LET k == workers[w].job
  IN /\ workers[w].pc = "done"
     /\ jobs' = IF HoldsLease(jobs[k], w)
                THEN [jobs EXCEPT ![k] = Settled(@, workers[w].outcome)] ELSE jobs
     /\ workers' = [workers EXCEPT ![w] = IdleWorker]
     /\ UNCHANGED <<clock, sched, tickets, bills, notices, recon, admin, contract,
                    faults, ops>>

\* The worker's process dies: the job stays PROCESSING under its lease.
Crash(w) ==
  /\ workers[w].pc # "idle"
  /\ "crash" \in Faults /\ faults < MaxFaults
  /\ faults' = faults + 1
  /\ workers' = [workers EXCEPT ![w] = IdleWorker]
  /\ UNCHANGED <<clock, sched, tickets, bills, notices, jobs, recon, admin,
                 contract, ops>>

\* Nobody is left to work on job k under its current lease.
Abandoned(k) ==
  /\ jobs[k].status = "PROCESSING"
  /\ \A w \in Workers : workers[w].job = k => jobs[k].holder # w

\* lease_expires_at passes: for a job whose worker died, or for one whose
\* worker is slow (leases are never renewed).
LeaseExpires(k) ==
  /\ jobs[k].status = "PROCESSING" /\ jobs[k].live
  /\ Abandoned(k) \/ ("slow" \in Faults /\ faults < MaxFaults)
  /\ faults' = IF Abandoned(k) THEN faults ELSE faults + 1
  /\ jobs' = [jobs EXCEPT ![k].live = FALSE]
  /\ UNCHANGED <<clock, sched, tickets, bills, notices, workers, recon, admin,
                 contract, ops>>

-----------------------------------------------------------------------------
(* The administrator.  Pause and resume read the row first and write it    *)
(* in a later statement.                                                   *)

Operate(event) == event \in Events /\ ops < MaxOps /\ ops' = ops + 1

PauseCheck ==
  /\ admin = "idle" /\ Operate("pause")
  /\ sched.status # "COMPLETED"
  /\ admin' = "pause"
  /\ UNCHANGED <<clock, sched, tickets, bills, notices, jobs, workers, recon,
                 contract, faults>>

\* pauseSchedule writes without a condition and leaves the version alone.
PauseWrite ==
  /\ admin = "pause"
  /\ sched' = [sched EXCEPT !.status = "PAUSED", !.reason = "manual"]
  /\ admin' = "idle"
  /\ UNCHANGED <<clock, tickets, bills, notices, jobs, workers, recon, contract,
                 faults, ops>>

\* resumeSchedule refuses a pause made by a source-fact blocker.
ResumeCheck ==
  /\ admin = "idle" /\ Operate("resume")
  /\ sched.status = "PAUSED" /\ sched.reason # "blocker"
  /\ admin' = "resume"
  /\ tickets' = tickets \cup {Admin}
  /\ UNCHANGED <<clock, sched, bills, notices, jobs, workers, recon, contract, faults>>

\* The write compares status and version, not the reason.
ResumeWrite ==
  LET won == sched.status = "PAUSED" /\ Admin \in tickets
  IN /\ admin = "resume"
     /\ sched' = IF won THEN [sched EXCEPT !.status = "ACTIVE", !.reason = "none"] ELSE sched
     /\ tickets' = IF won THEN {} ELSE tickets \ {Admin}
     /\ admin' = "idle"
     /\ UNCHANGED <<clock, bills, notices, jobs, workers, recon, contract, faults, ops>>

\* retryJob.
RetryJob(k) ==
  /\ Operate("retry")
  /\ jobs[k].status = "DEAD_LETTER"
  /\ ~(k[1] = "GENERATE" /\ sched.status = "PAUSED")
  /\ jobs' = RetryDeadLetter(jobs, k)
  /\ UNCHANGED <<clock, sched, tickets, bills, notices, workers, recon, admin,
                 contract, faults>>

\* generateNextMonthlyRentBill and generateMonthlyRentBills: the next cycle
\* is the number of rent bills plus one, and the schedule is not consulted.
ManualGenerate ==
  LET c == Cardinality(IssuedCycles) + 1
  IN /\ Operate("generate")
     /\ contract.orderActive
     /\ c \in Cycles
     /\ bills' = IF Issued(c) THEN bills ELSE [bills EXCEPT ![c] = "PENDING"]
     /\ UNCHANGED <<clock, sched, tickets, notices, jobs, workers, recon, admin,
                    contract, faults>>

-----------------------------------------------------------------------------
(* Payments, time and the contract.                                        *)

\* Settling a bill cancels its pending jobs in the same transaction.
PayBill(c) ==
  /\ bills[c] \in {"PENDING", "OVERDUE"}
  /\ Operate("pay")
  /\ bills' = [bills EXCEPT ![c] = "PAID"]
  /\ jobs' = CancelPending(jobs, BillJobs(c))
  /\ UNCHANGED <<clock, sched, tickets, notices, workers, recon, admin, contract, faults>>

Tick ==
  /\ clock < MaxClock
  /\ clock' = clock + 1
  /\ UNCHANGED <<sched, tickets, bills, notices, jobs, workers, recon, admin,
                 contract, faults, ops>>

\* The segment facts of the next period become unresolvable (no segment, a
\* period crossing two segments, an invalid range) and are repaired again.
FactsBreak ==
  /\ Operate("facts")
  /\ ~contract.blocked
  /\ contract' = [contract EXCEPT !.blocked = TRUE]
  /\ UNCHANGED <<clock, sched, tickets, bills, notices, jobs, workers, recon,
                 admin, faults>>

FactsRepaired ==
  /\ contract.blocked
  /\ contract' = [contract EXCEPT !.blocked = FALSE]
  /\ UNCHANGED <<clock, sched, tickets, bills, notices, jobs, workers, recon,
                 admin, faults, ops>>

\* An extension is archived: a later segment ends the contract, and an
\* EXTENSION_BILLING_RESUME job is due.
Extend ==
  /\ Operate("extend")
  /\ contract.orderActive /\ contract.end < MaxCycle
  /\ contract' = [contract EXCEPT !.end = @ + 1, !.extending = TRUE]
  /\ UNCHANGED <<clock, sched, tickets, bills, notices, jobs, workers, recon,
                 admin, faults>>

\* resumeForExtension: an ACTIVE schedule goes on, a COMPLETED one becomes
\* ACTIVE at the cycle it stopped at, a PAUSED one is refused.
ResumeForExtension ==
  /\ contract.extending
  /\ sched.next <= contract.end
  /\ sched.status # "PAUSED"
  /\ sched' = [sched EXCEPT !.status = "ACTIVE",
                            !.reason = IF sched.status = "COMPLETED" THEN "none" ELSE @]
  /\ tickets' = IF sched.status = "COMPLETED" THEN {} ELSE tickets
  /\ contract' = [contract EXCEPT !.extending = FALSE]
  /\ UNCHANGED <<clock, bills, notices, jobs, workers, recon, admin, faults, ops>>

\* SubscriptionEffectiveBoundaryOwner.applyPreparedInTransaction, when the
\* order ends at service boundary b (cycles after b are not served): earned
\* cycles keep the schedule running, otherwise it completes; the generation
\* jobs of later periods are cancelled, also when a worker holds them.
EffectiveBoundary(b) ==
  LET open == sched.status \in {"ACTIVE", "PAUSED"}
  IN /\ Operate("boundary")
     /\ contract.orderActive
     /\ contract' = [contract EXCEPT !.orderActive = FALSE, !.extending = FALSE,
                                     !.boundary = IF open THEN b ELSE @]
     /\ sched' = IF open
                 THEN [sched EXCEPT !.status = IF sched.next <= b THEN "ACTIVE" ELSE "COMPLETED",
                                    !.reason = "none"]
                 ELSE sched
     /\ tickets' = IF open THEN {} ELSE tickets
     /\ jobs' = CancelOpen(jobs, {GenerateKey(c) : c \in {d \in Cycles : d > b}})
     /\ UNCHANGED <<clock, bills, notices, workers, recon, admin, faults>>

-----------------------------------------------------------------------------
Generate(w) ==
  \/ GeneratePaused(w) \/ GenerateRejected(w) \/ GenerateEnded(w)
  \/ GenerateBlocked(w) \/ GenerateIssue(w)
Handle(w) == Generate(w) \/ MarkOverdue(w) \/ NoticeRead(w) \/ NoticeSend(w)
Reconcile(r) == ReconRead(r) \/ ReconDecide(r) \/ ReconPause(r) \/ ReconResume(r)

Next ==
  \/ EnqueueDue
  \/ \E r \in Reconcilers : Reconcile(r)
  \/ \E w \in Workers, k \in Keys : Claim(w, k)
  \/ \E w \in Workers : Handle(w)
  \/ \E w \in Workers, o \in {"retry", "config"} : HandlerFails(w, o)
  \/ \E w \in Workers : Finish(w) \/ Crash(w)
  \/ \E k \in Keys : LeaseExpires(k)
  \/ PauseCheck \/ PauseWrite \/ ResumeCheck \/ ResumeWrite
  \/ \E k \in Keys : RetryJob(k)
  \/ ManualGenerate
  \/ \E c \in Cycles : PayBill(c)
  \/ Tick
  \/ FactsBreak \/ FactsRepaired \/ Extend \/ ResumeForExtension
  \/ \E b \in 0..MaxCycle : EffectiveBoundary(b)

Spec == Init /\ [][Next]_vars

\* The worker polls for ever and claims the oldest available job first, the
\* maintenance pass runs with every poll, a lease runs out with the clock,
\* and a request that has passed its check goes on to its write.  Nothing is
\* assumed about the administrator, the contract or the customer.
Fairness ==
  /\ WF_vars(Tick) /\ WF_vars(EnqueueDue)
  /\ WF_vars(PauseWrite) /\ WF_vars(ResumeWrite) /\ WF_vars(ResumeForExtension)
  /\ \A r \in Reconcilers : WF_vars(Reconcile(r))
  /\ \A k \in Keys : /\ SF_vars(\E w \in Workers : Claim(w, k))
                     /\ WF_vars(Abandoned(k) /\ LeaseExpires(k))
  /\ \A w \in Workers : WF_vars(Handle(w)) /\ WF_vars(Finish(w))

FairSpec == Spec /\ Fairness

-----------------------------------------------------------------------------
(* Safety.                                                                 *)

\* The schedule never steps over a period: every cycle before its next one
\* has a bill, and no bill is issued before that of an earlier cycle, however
\* automation, manual generation, retries and takeovers interleave
\* (generateScheduledMonthlyRent, generateNextMonthlyRentBill).
NoPeriodSkipped ==
  /\ \A c \in Cycles : c < sched.next => Issued(c)
  /\ \A c, d \in Cycles : d < c /\ Issued(c) => Issued(d)

\* A cycle that the schedule has left behind has its due notice and its
\* overdue check on record, and no follow-up job refers to a missing bill:
\* bill, schedule and follow-up jobs are written in one transaction.
FollowUpsWithBill ==
  \A c \in Cycles :
    /\ c < sched.next => /\ jobs[DueKey(c)].status # "ABSENT"
                         /\ jobs[MarkKey(c)].status # "ABSENT"
    /\ (\E k \in BillJobs(c) : jobs[k].status # "ABSENT") => Issued(c)

\* A generation job is recorded as completed only when its period has a bill
\* or is not served: no refused, rolled back or lost handler run completes a
\* job, and no stale worker does (handleClaimedJob, processingLease).
CompletedMeansDone ==
  \A c \in Cycles :
    jobs[GenerateKey(c)].status = "COMPLETED" =>
      Issued(c) \/ c > FirstEnd \/ c > contract.boundary

-----------------------------------------------------------------------------
(* Action properties.                                                      *)

\* A claimed job leaves PROCESSING only by the hand of the worker that holds
\* its lease, after its handler ended, or by the service boundary
\* (processingLease).
LeaseProtectsJob ==
  [][\A k \in Keys :
       jobs[k].status = "PROCESSING" /\ jobs'[k].status # "PROCESSING" =>
         \/ contract.orderActive /\ ~contract'.orderActive
         \/ \E w \in Workers : /\ jobs[k].holder = w /\ workers[w].job = k
                               /\ workers[w].pc = "done"]_vars

\* A completed job is never touched again, and of the cancelled ones only the
\* generation job of the schedule's next period comes back (enqueue,
\* reactivateCancelledScheduleGeneration).
JobsNotResurrected ==
  [][\A k \in Keys :
       /\ jobs[k].status = "COMPLETED" => jobs'[k] = jobs[k]
       /\ jobs[k].status = "CANCELLED" /\ jobs'[k] # jobs[k] => k = GenerateKey(sched.next)]_vars

\* Automation issues a bill only for a served period of an ACTIVE schedule
\* whose segment facts resolve; only a person (ManualGenerate, an operation)
\* can issue another one.
AutomationObeysSchedule ==
  [][ops' = ops =>
       \A c \in Cycles : ~Issued(c) /\ Issued(c)' =>
         sched.status = "ACTIVE" /\ c <= ServiceEnd /\ ~contract.blocked]_vars

\* The bills follow RentLedger: each period billed once and in order, a paid
\* bill never becomes unpaid again.
Ledger == INSTANCE RentLedger WITH MaxCycle <- MaxCycle, bills <- bills
FollowsLedger == Ledger!Spec

-----------------------------------------------------------------------------
(* Liveness.                                                               *)

\* While crashes, slow leases and transient failures are finite, every period
\* of the contract as signed is billed once it is due, provided the segment
\* facts are not broken for ever.
DuePeriodBilled ==
  (<>[]~contract.blocked) =>
    \A c \in 1..FirstEnd : (GenerateAt(c) <= clock) ~> Issued(c)

\* Every due notice of an unpaid bill is sent: the job is never lost between
\* claim, crash and takeover (SEND_BILL_DUE_NOTICE).
DueNoticeSent ==
  \A c \in Cycles : (jobs[DueKey(c)].status = "PENDING") ~>
                      (DueKey(c) \in notices \/ bills[c] = "PAID")
=============================================================================
