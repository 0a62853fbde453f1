---------------------- MODULE BillingAutomationProofs ----------------------
(***************************************************************************)
(* Theorems about BillingAutomation, for every number of workers, cycles,  *)
(* reconciliation runs, faults and events.                                 *)
(***************************************************************************)
EXTENDS BillingAutomation, AutomationJobTableProofs, FiniteSetTheorems, TLAPS

-----------------------------------------------------------------------------
(* The job table.                                                          *)

\* Every update of the repository keeps every row sound.
LEMMA TableUpdates ==
  ASSUME NEW table \in [Keys -> SoundJob], NEW keys, NEW key
  PROVE  /\ Enqueue(table, keys) \in [Keys -> SoundJob]
         /\ CancelPending(table, keys) \in [Keys -> SoundJob]
         /\ CancelOpen(table, keys) \in [Keys -> SoundJob]
         /\ Reactivate(table, key) \in [Keys -> SoundJob]
         /\ RetryDeadLetter(table, key) \in [Keys -> SoundJob]
<1> USE MaxAttemptsAssumption
    DEF SoundJob, Job, JobStatus, Row, FreshJob
<1>1. FreshJob \in SoundJob
  OBVIOUS
<1>2. ASSUME NEW k \in Keys, table[k].status \in {"PENDING", "PROCESSING"}
      PROVE  Row("CANCELLED", table[k].attempts) \in SoundJob
  BY <1>2
<1>3. Enqueue(table, keys) \in [Keys -> SoundJob]
  BY <1>1 DEF Enqueue
<1>4. CancelPending(table, keys) \in [Keys -> SoundJob]
  BY <1>2 DEF CancelPending
<1>5. CancelOpen(table, keys) \in [Keys -> SoundJob]
  BY <1>2 DEF CancelOpen
<1>6. Reactivate(table, key) \in [Keys -> SoundJob]
  BY <1>1 DEF Reactivate
<1>7. RetryDeadLetter(table, key) \in [Keys -> SoundJob]
  BY <1>1 DEF RetryDeadLetter
<1> QED
  BY <1>3, <1>4, <1>5, <1>6, <1>7

-----------------------------------------------------------------------------
(* Type correctness.                                                       *)

\* A worker that is not idle works on a job, and only the two notice jobs
\* send notifications.
WorkersHaveJobs ==
  \A w \in Workers :
    /\ workers[w].pc # "idle" => workers[w].job \in Keys
    /\ workers[w].pc = "notify" => workers[w].job \in {"DUE", "OVERDUE_NOTICE"} \X Cycles

TypeInv == TypeOK /\ jobs \in [Keys -> SoundJob] /\ WorkersHaveJobs

LEMMA TypeInit == Init => TypeInv
<1> SUFFICES ASSUME Init PROVE TypeInv
  OBVIOUS
<1> USE CyclesAssumption, BoundsAssumption, MaxAttemptsAssumption DEF Init, Cycles
<1>1. jobs \in [Keys -> SoundJob]
  BY DEF SoundJob, Job, JobStatus, NoJob, Row
<1>2. TypeOK
  BY <1>1 DEF TypeOK, SoundJob, MaxClock, OverdueAt, Schedule, BillStatus, IdleWorker, Worker,
              NoKey, IdleRecon, Recon, Contract
<1>3. WorkersHaveJobs
  BY DEF WorkersHaveJobs, IdleWorker
<1> QED
  BY <1>1, <1>2, <1>3 DEF TypeInv

LEMMA SoundJobsAreJobs == [Keys -> SoundJob] \subseteq [Keys -> Job]
BY DEF SoundJob

LEMMA KeysOfJobs ==
  /\ \A c \in Cycles : /\ GenerateKey(c) \in Keys /\ DueKey(c) \in Keys
                       /\ MarkKey(c) \in Keys /\ OverdueNoticeKey(c) \in Keys
  /\ NoKey \notin Keys
BY DEF Keys, JobTypes, GenerateKey, DueKey, MarkKey, OverdueNoticeKey, NoKey

\* Maintenance.
LEMMA TypeMaintenance ==
  TypeInv /\ (EnqueueDue \/ \E r \in Reconcilers : Reconcile(r)) => TypeInv'
<1> SUFFICES ASSUME TypeInv, EnqueueDue \/ \E r \in Reconcilers : Reconcile(r)
             PROVE  TypeInv'
  OBVIOUS
<1> USE SoundJobsAreJobs DEF TypeInv, TypeOK, WorkersHaveJobs
<1>1. CASE EnqueueDue
  <2>1. jobs' \in [Keys -> SoundJob]
    BY <1>1, TableUpdates DEF EnqueueDue
  <2> QED
    BY <1>1, <2>1 DEF EnqueueDue
<1>2. ASSUME NEW r \in Reconcilers, ReconRead(r) PROVE TypeInv'
  BY <1>2 DEF ReconRead, Recon, Schedule
<1>3. ASSUME NEW r \in Reconcilers, ReconDecide(r) PROVE TypeInv'
  BY <1>3 DEF ReconDecide, Recon
<1>4. ASSUME NEW r \in Reconcilers, ReconPause(r) PROVE TypeInv'
  <2>1. jobs' \in [Keys -> SoundJob]
    BY <1>4, TableUpdates DEF ReconPause
  <2>2. sched' \in Schedule
    BY <1>4 DEF ReconPause, Schedule
  <2>3. recon' \in [Reconcilers -> Recon] /\ tickets' \subseteq Reconcilers \cup {Admin}
    BY <1>4, CyclesAssumption DEF ReconPause, Recon, IdleRecon, Cycles
  <2> QED
    BY <1>4, <2>1, <2>2, <2>3 DEF ReconPause
<1>5. ASSUME NEW r \in Reconcilers, ReconResume(r) PROVE TypeInv'
  <2>1. jobs' \in [Keys -> SoundJob]
    BY <1>5, TableUpdates DEF ReconResume
  <2>2. sched' \in Schedule
    BY <1>5 DEF ReconResume, Schedule
  <2> QED
    BY <1>5, <2>1, <2>2, CyclesAssumption DEF ReconResume, Recon, IdleRecon, Cycles
<1> QED
  BY <1>1, <1>2, <1>3, <1>4, <1>5 DEF Reconcile
\* The worker.
LEMMA TypeWorker ==
  ASSUME TypeInv, NEW w \in Workers,
         \/ \E k \in Keys : Claim(w, k)
         \/ Handle(w) \/ Finish(w) \/ Crash(w)
         \/ \E o \in {"retry", "config"} : HandlerFails(w, o)
  PROVE  TypeInv'
<1> USE SoundJobsAreJobs, KeysOfJobs DEF TypeInv, TypeOK, WorkersHaveJobs
<1> DEFINE Outcomes == {"ok", "paused", "retry", "config"}
<1>1. ASSUME NEW k \in Keys, Claim(w, k) PROVE TypeInv'
  <2>1. jobs' \in [Keys -> SoundJob]
    BY <1>1, JobUpdates DEF Claim
  <2> QED
    BY <1>1, <2>1 DEF Claim, Worker
<1>2. ASSUME NEW t, Handling(w, t), t # "NONE" PROVE workers[w].job \in Keys /\ Cycle(w) \in Cycles
  BY <1>2 DEF Handling, Cycle, Keys, JobTypes
<1>3. ASSUME NEW o \in Outcomes, Outcome(w, o), workers[w].pc # "idle"
      PROVE  workers' \in [Workers -> Worker] /\ WorkersHaveJobs'
  BY <1>3 DEF Outcome, Worker
<1>4. CASE Generate(w)
  <2>1. workers[w].pc # "idle" /\ workers[w].job \in Keys
    BY <1>4, <1>2 DEF Generate, GeneratePaused, GenerateRejected, GenerateEnded, GenerateBlocked,
                      GenerateIssue, Handling
  <2>2. \E o \in Outcomes : Outcome(w, o)
    BY <1>4 DEF Generate, GeneratePaused, GenerateRejected, GenerateEnded, GenerateBlocked,
                GenerateIssue
  <2>3. workers' \in [Workers -> Worker] /\ WorkersHaveJobs'
    BY <2>1, <2>2, <1>3
  <2>4. CASE GeneratePaused(w) \/ GenerateRejected(w)
    BY <2>3, <2>4 DEF GeneratePaused, GenerateRejected
  <2>5. CASE GenerateEnded(w) \/ GenerateBlocked(w)
    <3>1. sched' \in Schedule
      BY <2>5 DEF GenerateEnded, GenerateBlocked, Schedule
    <3> QED
      BY <2>3, <2>5, <3>1 DEF GenerateEnded, GenerateBlocked
  <2>6. CASE GenerateIssue(w)
    <3>1. sched' \in Schedule
      BY <2>6, CyclesAssumption DEF GenerateIssue, Schedule, Contract, Cycles, ServiceEnd
    <3>2. jobs' \in [Keys -> SoundJob]
      BY <2>6, TableUpdates DEF GenerateIssue
    <3>3. bills' \in [Cycles -> BillStatus]
      BY <2>6 DEF GenerateIssue, BillStatus, Schedule
    <3> QED
      BY <2>3, <2>6, <3>1, <3>2, <3>3 DEF GenerateIssue
  <2> QED
    BY <1>4, <2>4, <2>5, <2>6 DEF Generate
<1>5. CASE MarkOverdue(w)
  <2>1. jobs' \in [Keys -> SoundJob]
    BY <1>5, TableUpdates DEF MarkOverdue
  <2>2. workers' \in [Workers -> Worker] /\ WorkersHaveJobs'
    BY <1>5, <1>3 DEF MarkOverdue, Handling
  <2> QED
    BY <1>5, <2>1, <2>2 DEF MarkOverdue, BillStatus
<1>6. CASE NoticeRead(w)
  <2>1. workers[w].job \in {"DUE", "OVERDUE_NOTICE"} \X Cycles /\ workers[w].pc # "idle"
    BY <1>6, <1>2 DEF NoticeRead, Handling, Keys, JobTypes
  <2>2. workers' \in [Workers -> Worker] /\ WorkersHaveJobs'
    <3>1. CASE Outcome(w, "ok")
      BY <1>3, <2>1, <3>1
    <3>2. CASE workers' = [workers EXCEPT ![w] = [pc |-> "notify", job |-> @.job, outcome |-> "none"]]
      BY <2>1, <3>2 DEF Worker, Keys, JobTypes
    <3> QED
      BY <1>6, <3>1, <3>2 DEF NoticeRead
  <2> QED
    BY <1>6, <2>2 DEF NoticeRead
<1>7. CASE NoticeSend(w)
  <2>1. workers' \in [Workers -> Worker] /\ WorkersHaveJobs'
    BY <1>7, <1>3 DEF NoticeSend
  <2>2. faults' \in 0..MaxFaults
    BY <1>7, BoundsAssumption DEF NoticeSend
  <2> QED
    BY <1>7, <2>1, <2>2 DEF NoticeSend
<1>8. ASSUME NEW o \in {"retry", "config"}, HandlerFails(w, o) PROVE TypeInv'
  <2>1. workers' \in [Workers -> Worker] /\ WorkersHaveJobs'
    BY <1>8, <1>3 DEF HandlerFails
  <2>2. faults' \in 0..MaxFaults
    BY <1>8, BoundsAssumption DEF HandlerFails
  <2> QED
    BY <1>8, <2>1, <2>2 DEF HandlerFails
<1>9. CASE Finish(w)
  <2>1. jobs' \in [Keys -> SoundJob]
    BY <1>9, JobUpdates DEF Finish
  <2> QED
    BY <1>9, <2>1 DEF Finish, IdleWorker, Worker
<1>10. CASE Crash(w)
  <2>1. faults' \in 0..MaxFaults
    BY <1>10, BoundsAssumption DEF Crash
  <2> QED
    BY <1>10, <2>1 DEF Crash, IdleWorker, Worker
<1> QED
  BY <1>1, <1>4, <1>5, <1>6, <1>7, <1>8, <1>9, <1>10 DEF Handle
\* Leases, the administrator, the customer and the clock.
LEMMA TypeOthers ==
  ASSUME TypeInv,
         \/ \E k \in Keys : LeaseExpires(k) \/ RetryJob(k)
         \/ PauseCheck \/ PauseWrite \/ ResumeCheck \/ ResumeWrite
         \/ ManualGenerate \/ \E c \in Cycles : PayBill(c)
         \/ Tick
  PROVE  TypeInv'
<1> USE SoundJobsAreJobs DEF TypeInv, TypeOK, WorkersHaveJobs
<1>0. ASSUME NEW event, Operate(event) PROVE ops' \in 0..MaxOps
  BY <1>0, BoundsAssumption DEF Operate
<1>1. ASSUME NEW k \in Keys, LeaseExpires(k) PROVE TypeInv'
  <2>1. jobs' \in [Keys -> SoundJob]
    <3>1. [jobs[k] EXCEPT !.live = FALSE] \in SoundJob
      BY <1>1 DEF LeaseExpires, SoundJob, Job
    <3> QED
      BY <1>1, <3>1 DEF LeaseExpires
  <2>2. faults' \in 0..MaxFaults
    BY <1>1, BoundsAssumption DEF LeaseExpires
  <2> QED
    BY <1>1, <2>1, <2>2 DEF LeaseExpires
<1>2. ASSUME NEW k \in Keys, RetryJob(k) PROVE TypeInv'
  <2>1. jobs' \in [Keys -> SoundJob] /\ ops' \in 0..MaxOps
    BY <1>0, <1>2, TableUpdates DEF RetryJob
  <2> QED
    BY <1>2, <2>1 DEF RetryJob
<1>3. CASE PauseCheck \/ PauseWrite
  <2>1. sched' \in Schedule
    BY <1>3 DEF PauseCheck, PauseWrite, Schedule
  <2>2. ops' \in 0..MaxOps
    BY <1>0, <1>3 DEF PauseCheck, PauseWrite
  <2> QED
    BY <1>3, <2>1, <2>2 DEF PauseCheck, PauseWrite
<1>4. CASE ResumeCheck \/ ResumeWrite
  <2>1. sched' \in Schedule
    BY <1>4 DEF ResumeCheck, ResumeWrite, Schedule
  <2>2. ops' \in 0..MaxOps
    BY <1>0, <1>4 DEF ResumeCheck, ResumeWrite
  <2>3. tickets' \subseteq Reconcilers \cup {Admin}
    BY <1>4 DEF ResumeCheck, ResumeWrite
  <2> QED
    BY <1>4, <2>1, <2>2, <2>3 DEF ResumeCheck, ResumeWrite
<1>5. CASE ManualGenerate
  <2>1. bills' \in [Cycles -> BillStatus] /\ ops' \in 0..MaxOps
    BY <1>0, <1>5 DEF ManualGenerate, BillStatus
  <2> QED
    BY <1>5, <2>1 DEF ManualGenerate
<1>6. ASSUME NEW c \in Cycles, PayBill(c) PROVE TypeInv'
  <2>1. jobs' \in [Keys -> SoundJob] /\ ops' \in 0..MaxOps
    BY <1>0, <1>6, TableUpdates DEF PayBill
  <2> QED
    BY <1>6, <2>1 DEF PayBill, BillStatus
<1>7. CASE Tick
  BY <1>7, CyclesAssumption DEF Tick, MaxClock, OverdueAt
<1> QED
  BY <1>1, <1>2, <1>3, <1>4, <1>5, <1>6, <1>7

\* The contract.
LEMMA TypeContract ==
  ASSUME TypeInv,
         \/ FactsBreak \/ FactsRepaired \/ Extend \/ ResumeForExtension
         \/ \E b \in 0..MaxCycle : EffectiveBoundary(b)
  PROVE  TypeInv'
<1> USE SoundJobsAreJobs DEF TypeInv, TypeOK, WorkersHaveJobs
<1>0. ASSUME NEW event, Operate(event) PROVE ops' \in 0..MaxOps
  BY <1>0, BoundsAssumption DEF Operate
<1>1. CASE FactsBreak \/ FactsRepaired
  <2>1. contract' \in Contract /\ ops' \in 0..MaxOps
    BY <1>0, <1>1 DEF FactsBreak, FactsRepaired, Contract
  <2> QED
    BY <1>1, <2>1 DEF FactsBreak, FactsRepaired
<1>2. CASE Extend
  <2>1. contract.end + 1 \in Cycles
    BY <1>2, CyclesAssumption DEF Extend, Contract, Cycles
  <2>2. contract' \in Contract
    BY <1>2, <2>1 DEF Extend, Contract
  <2>3. ops' \in 0..MaxOps
    BY <1>0, <1>2 DEF Extend
  <2> QED
    BY <1>2, <2>2, <2>3 DEF Extend
<1>3. CASE ResumeForExtension
  <2>1. sched' \in Schedule
    BY <1>3 DEF ResumeForExtension, Schedule
  <2>2. contract' \in Contract
    BY <1>3 DEF ResumeForExtension, Contract
  <2>3. tickets' \subseteq Reconcilers \cup {Admin}
    BY <1>3 DEF ResumeForExtension
  <2> QED
    BY <1>3, <2>1, <2>2, <2>3 DEF ResumeForExtension
<1>4. ASSUME NEW b \in 0..MaxCycle, EffectiveBoundary(b) PROVE TypeInv'
  <2>1. sched' \in Schedule
    BY <1>4 DEF EffectiveBoundary, Schedule
  <2>2. contract' \in Contract
    BY <1>4 DEF EffectiveBoundary, Contract
  <2>3. jobs' \in [Keys -> SoundJob] /\ ops' \in 0..MaxOps
    BY <1>0, <1>4, TableUpdates DEF EffectiveBoundary
  <2>4. tickets' \subseteq Reconcilers \cup {Admin}
    BY <1>4 DEF EffectiveBoundary
  <2> QED
    BY <1>4, <2>1, <2>2, <2>3, <2>4 DEF EffectiveBoundary
<1> QED
  BY <1>1, <1>2, <1>3, <1>4

\* Every action keeps the types.
LEMMA TypeStep == TypeInv /\ [Next]_vars => TypeInv'
<1> SUFFICES ASSUME TypeInv, [Next]_vars PROVE TypeInv'
  OBVIOUS
<1>1. CASE UNCHANGED vars
  BY <1>1 DEF vars, TypeInv, TypeOK, WorkersHaveJobs
<1>2. CASE Next
  BY <1>2, TypeMaintenance, TypeWorker, TypeOthers, TypeContract DEF Next
<1> QED
  BY <1>1, <1>2

\* All variables keep their types; in particular no job ever counts more
\* failures than its max_attempts (handleClaimedJob, retryDeadLetter).
THEOREM TypeCorrect == Spec => []TypeOK
<1>1. TypeInv => TypeOK
  BY DEF TypeInv
<1> QED
  BY <1>1, TypeInit, TypeStep, PTL DEF Spec
-----------------------------------------------------------------------------
(* Bills and the schedule.                                                 *)

\* The actions that change bills, and the one that moves the schedule on.
LEMMA WhoChangesBills ==
  ASSUME TypeInv, [Next]_vars
  PROVE  /\ \/ bills' = bills
            \/ \E w \in Workers : GenerateIssue(w) \/ MarkOverdue(w)
            \/ ManualGenerate
            \/ \E c \in Cycles : PayBill(c)
         /\ \/ sched'.next = sched.next
            \/ \E w \in Workers : GenerateIssue(w)
<1>1. CASE UNCHANGED vars
  BY <1>1 DEF vars
<1>2. CASE EnqueueDue \/ \E r \in Reconcilers : Reconcile(r)
  BY <1>2 DEF EnqueueDue, Reconcile, ReconRead, ReconDecide, ReconPause, ReconResume, TypeInv,
              TypeOK, Schedule
<1>3. ASSUME NEW w \in Workers, Handle(w) \/ Finish(w) \/ Crash(w)
      PROVE  \/ bills' = bills /\ sched'.next = sched.next
             \/ GenerateIssue(w)
             \/ MarkOverdue(w) /\ sched' = sched
  BY <1>3 DEF Handle, Generate, GeneratePaused, GenerateRejected, GenerateEnded, GenerateBlocked,
              MarkOverdue, NoticeRead, NoticeSend, Finish, Crash, TypeInv, TypeOK, Schedule
<1>4. ASSUME NEW w \in Workers,
             \/ \E k \in Keys : Claim(w, k)
             \/ \E o \in {"retry", "config"} : HandlerFails(w, o)
      PROVE  bills' = bills /\ sched' = sched
  BY <1>4 DEF Claim, HandlerFails
<1>5. CASE \/ \E k \in Keys : LeaseExpires(k) \/ RetryJob(k)
           \/ PauseCheck \/ PauseWrite \/ ResumeCheck \/ ResumeWrite \/ Tick
           \/ FactsBreak \/ FactsRepaired \/ Extend \/ ResumeForExtension
           \/ \E b \in 0..MaxCycle : EffectiveBoundary(b)
  BY <1>5 DEF LeaseExpires, RetryJob, PauseCheck, PauseWrite, ResumeCheck, ResumeWrite, Tick,
              FactsBreak, FactsRepaired, Extend, ResumeForExtension, EffectiveBoundary,
              TypeInv, TypeOK, Schedule
<1>6. CASE ManualGenerate \/ \E c \in Cycles : PayBill(c)
  BY <1>6 DEF ManualGenerate, PayBill
<1> QED
  BY <1>1, <1>2, <1>3, <1>4, <1>5, <1>6 DEF Next

\* When the bills are those of the first periods, as many as there are, the
\* number of bills names the last of them: what manual generation relies on.
LEMMA PrefixCardinality ==
  ASSUME TypeOK, NoPeriodSkipped
  PROVE  /\ Cardinality(IssuedCycles) \in Nat
         /\ \A d \in 1..Cardinality(IssuedCycles) : d \in Cycles /\ Issued(d)
<1> DEFINE n == Cardinality(IssuedCycles)
<1> USE CyclesAssumption DEF Cycles
<1>1. IsFiniteSet(Cycles) /\ Cardinality(Cycles) = MaxCycle
  BY FS_Interval
<1>2. IssuedCycles \in SUBSET Cycles
  BY DEF IssuedCycles
<1>3. IsFiniteSet(IssuedCycles) /\ n <= MaxCycle
  BY <1>1, <1>2, FS_Subset
<1>4. n \in Nat
  BY <1>3, FS_CardinalityType
<1>5. ASSUME NEW d \in 1..n, ~Issued(d) PROVE FALSE
  <2>1. d \in Cycles
    BY <1>3, <1>4
  <2>2. \A c \in IssuedCycles : c \in 1..(d - 1)
    BY <1>5, <2>1 DEF NoPeriodSkipped, IssuedCycles
  <2>3. IsFiniteSet(1..(d - 1)) /\ Cardinality(1..(d - 1)) = d - 1
    BY <2>1, FS_Interval
  <2>4. n <= d - 1
    BY <2>2, <2>3, FS_Subset
  <2> QED
    BY <1>4, <2>1, <2>4
<1> QED
  BY <1>3, <1>4, <1>5

\* A bill that exists stays, whatever the step.
LEMMA BillsStay ==
  ASSUME TypeInv, [Next]_vars, NEW c \in Cycles, Issued(c)
  PROVE  Issued(c)'
<1>1. ASSUME NEW w \in Workers, GenerateIssue(w) \/ MarkOverdue(w) PROVE Issued(c)'
  BY <1>1 DEF GenerateIssue, MarkOverdue, Issued, TypeInv, TypeOK
<1>2. CASE ManualGenerate \/ \E d \in Cycles : PayBill(d)
  BY <1>2 DEF ManualGenerate, PayBill, Issued, TypeInv, TypeOK
<1>3. CASE bills' = bills
  BY <1>3 DEF Issued
<1> QED
  BY <1>1, <1>2, <1>3, WhoChangesBills

LEMMA NoPeriodSkippedStep ==
  TypeInv /\ NoPeriodSkipped /\ [Next]_vars => NoPeriodSkipped'
<1> SUFFICES ASSUME TypeInv, NoPeriodSkipped, [Next]_vars PROVE NoPeriodSkipped'
  OBVIOUS
<1> USE CyclesAssumption DEF TypeInv, TypeOK, Schedule, Cycles
<1>1. ASSUME NEW c \in Cycles, NEW d \in Cycles, d < c, Issued(c)' PROVE Issued(d)'
  <2>1. CASE Issued(c)
    BY <1>1, <2>1, BillsStay DEF NoPeriodSkipped
  <2>2. CASE ~Issued(c)
    <3>1. ASSUME NEW w \in Workers, GenerateIssue(w) PROVE Issued(d)
      <4>1. c = sched.next
        BY <1>1, <2>2, <3>1 DEF GenerateIssue, Issued
      <4> QED
        BY <1>1, <4>1 DEF NoPeriodSkipped
    <3>2. CASE ManualGenerate
      <4>1. c = Cardinality(IssuedCycles) + 1
        BY <1>1, <2>2, <3>2 DEF ManualGenerate, Issued
      <4>2. d \in 1..Cardinality(IssuedCycles)
        BY <1>1, <4>1, PrefixCardinality
      <4> QED
        BY <4>2, PrefixCardinality, BillsStay
    <3>3. ~ \E w \in Workers : MarkOverdue(w)
      BY <1>1, <2>2 DEF MarkOverdue, OverdueTarget, Issued
    <3>4. ~ \E e \in Cycles : PayBill(e)
      BY <1>1, <2>2 DEF PayBill, Issued
    <3>5. bills' # bills
      BY <1>1, <2>2 DEF Issued
    <3> QED
      BY <3>1, <3>2, <3>3, <3>4, <3>5, WhoChangesBills, BillsStay
  <2> QED
    BY <2>1, <2>2
<1>2. ASSUME NEW c \in Cycles, c < sched'.next PROVE Issued(c)'
  <2>1. CASE sched'.next = sched.next
    BY <1>2, <2>1, BillsStay DEF NoPeriodSkipped
  <2>2. ASSUME NEW w \in Workers, GenerateIssue(w) PROVE Issued(c)'
    <3>1. c < sched.next \/ c = sched.next
      BY <1>2, <2>2 DEF GenerateIssue
    <3>2. CASE c < sched.next
      BY <3>2, BillsStay DEF NoPeriodSkipped
    <3>3. CASE c = sched.next
      BY <2>2, <3>3 DEF GenerateIssue, Issued
    <3> QED
      BY <3>1, <3>2, <3>3
  <2> QED
    BY <2>1, <2>2, WhoChangesBills
<1> QED
  BY <1>1, <1>2 DEF NoPeriodSkipped

\* The schedule never leaves a period without a bill behind and bills are
\* issued in order (generateScheduledMonthlyRent, generateNextMonthlyRentBill).
THEOREM SpecNoPeriodSkipped == Spec => []NoPeriodSkipped
<1>1. Init => NoPeriodSkipped
  BY DEF Init, NoPeriodSkipped, Issued, Cycles
<1> QED
  BY <1>1, TypeInit, TypeStep, NoPeriodSkippedStep, PTL DEF Spec
-----------------------------------------------------------------------------
(* The ledger that billing implements.                                     *)

\* Every step is a step of the ledger or leaves the bills alone.
LEMMA LedgerStep ==
  ASSUME TypeInv, NoPeriodSkipped, [Next]_vars
  PROVE  [Ledger!Next]_bills
<1> USE DEF TypeInv, TypeOK, Schedule, Cycles, Ledger!Cycles, Ledger!Next
<1>1. ASSUME NEW w \in Workers, GenerateIssue(w) PROVE [Ledger!Next]_bills
  <2>1. CASE Issued(sched.next)
    BY <1>1, <2>1 DEF GenerateIssue
  <2>2. CASE ~Issued(sched.next)
    <3>1. Ledger!Issue(sched.next)
      BY <1>1, <2>2, CyclesAssumption DEF GenerateIssue, Ledger!Issue, Issued, NoPeriodSkipped
    <3> QED
      BY <3>1
  <2> QED
    BY <2>1, <2>2
<1>2. ASSUME NEW w \in Workers, MarkOverdue(w) PROVE [Ledger!Next]_bills
  <2>1. Cycle(w) \in Cycles
    BY <1>2 DEF MarkOverdue, Handling, Cycle, WorkersHaveJobs, Keys
  <2>2. CASE bills[Cycle(w)] = "PENDING"
    <3>1. Ledger!MarkOverdue(Cycle(w))
      BY <1>2, <2>1, <2>2 DEF MarkOverdue, OverdueTarget, Ledger!MarkOverdue
    <3> QED
      BY <2>1, <3>1
  <2>3. CASE bills[Cycle(w)] # "PENDING"
    BY <1>2, <2>1, <2>3 DEF MarkOverdue, OverdueTarget
  <2> QED
    BY <2>2, <2>3
<1>3. CASE ManualGenerate
  <2> DEFINE c == Cardinality(IssuedCycles) + 1
  <2>1. c \in Cycles
    BY <1>3 DEF ManualGenerate
  <2>2. \A d \in 1..(c - 1) : Issued(d)
    BY PrefixCardinality
  <2>3. CASE Issued(c)
    BY <1>3, <2>3 DEF ManualGenerate
  <2>4. CASE ~Issued(c)
    <3>1. bills' = [bills EXCEPT ![c] = "PENDING"]
      BY <1>3, <2>4 DEF ManualGenerate
    <3> HIDE DEF c
    <3>2. Ledger!Issue(c)
      BY <2>2, <2>4, <3>1 DEF Ledger!Issue, Issued
    <3> QED
      BY <2>1, <3>2
  <2> QED
    BY <2>3, <2>4
<1>4. ASSUME NEW c \in Cycles, PayBill(c) PROVE [Ledger!Next]_bills
  <2>1. Ledger!Pay(c)
    BY <1>4 DEF PayBill, Ledger!Pay
  <2> QED
    BY <2>1
<1>5. CASE bills' = bills
  BY <1>5
<1> QED
  BY <1>1, <1>2, <1>3, <1>4, <1>5, WhoChangesBills

\* Billing implements RentLedger: one bill per period, in order, overdue only
\* while unpaid and never unpaid again, whoever creates the bills and however
\* workers, retries and takeovers interleave.
THEOREM BillingFollowsLedger == Spec => FollowsLedger
<1>1. Init => Ledger!Init
  BY DEF Init, Ledger!Init, Cycles, Ledger!Cycles
<1>2. Init => NoPeriodSkipped
  BY DEF Init, NoPeriodSkipped, Issued, Cycles
<1>3. TypeInv /\ NoPeriodSkipped /\ [Next]_vars => [Ledger!Next]_bills
  BY LedgerStep
<1> QED
  BY <1>1, <1>2, <1>3, TypeInit, TypeStep, NoPeriodSkippedStep, PTL
     DEF Spec, FollowsLedger, Ledger!Spec
\* A step that no person makes and that issues a bill is the generation job
\* of the next period.
LEMMA AutomationStep ==
  ASSUME TypeInv, [Next]_vars, ops' = ops, NEW c \in Cycles, ~Issued(c), Issued(c)'
  PROVE  sched.status = "ACTIVE" /\ c <= ServiceEnd /\ ~contract.blocked
<1> USE DEF TypeInv, TypeOK, Schedule
<1>1. ASSUME NEW w \in Workers, GenerateIssue(w)
      PROVE  sched.status = "ACTIVE" /\ c <= ServiceEnd /\ ~contract.blocked
  <2>1. c = sched.next
    BY <1>1 DEF GenerateIssue, Issued
  <2> QED
    BY <1>1, <2>1 DEF GenerateIssue, AtNextPeriod
<1>2. ~ \E w \in Workers : MarkOverdue(w)
  BY DEF MarkOverdue, OverdueTarget, Issued
<1>3. ~ ManualGenerate /\ ~ \E d \in Cycles : PayBill(d)
  <2>1. \A event : Operate(event) => ops' # ops
    BY BoundsAssumption DEF Operate
  <2> QED
    BY <2>1 DEF ManualGenerate, PayBill
<1>4. bills' # bills
  BY DEF Issued
<1> QED
  BY <1>1, <1>2, <1>3, <1>4, WhoChangesBills

\* Automation bills only served periods of an ACTIVE schedule whose segment
\* facts resolve, whatever happened between the claim of the job and its
\* transaction (generateScheduledMonthlyRent).
THEOREM SpecAutomationObeysSchedule == Spec => AutomationObeysSchedule
<1>1. TypeInv /\ [Next]_vars =>
        [ops' = ops =>
           \A c \in Cycles : ~Issued(c) /\ Issued(c)' =>
             sched.status = "ACTIVE" /\ c <= ServiceEnd /\ ~contract.blocked]_vars
  BY AutomationStep
<1> QED
  BY <1>1, TypeInit, TypeStep, PTL DEF Spec, AutomationObeysSchedule

-----------------------------------------------------------------------------
(* Leases.                                                                 *)

\* The steps that write job rows.
JobWriters ==
  \/ jobs' = jobs
  \/ EnqueueDue
  \/ \E r \in Reconcilers : ReconPause(r) \/ ReconResume(r)
  \/ \E c \in Cycles : PayBill(c)
  \/ \E j \in Keys : RetryJob(j) \/ LeaseExpires(j)
  \/ \E w \in Workers : \/ GenerateIssue(w) \/ MarkOverdue(w) \/ Finish(w)
                        \/ \E j \in Keys : Claim(w, j)
  \/ \E b \in 0..MaxCycle : EffectiveBoundary(b)

LEMMA JobWritersStep == [Next]_vars => JobWriters
BY DEF JobWriters, Next, vars, Reconcile, ReconRead, ReconDecide, Handle, Generate,
       GeneratePaused, GenerateRejected, GenerateEnded, GenerateBlocked, NoticeRead, NoticeSend,
       HandlerFails, Crash, PauseCheck, PauseWrite, ResumeCheck, ResumeWrite, ManualGenerate,
       Tick, FactsBreak, FactsRepaired, Extend, ResumeForExtension

\* The bulk updates of the job table leave a claimed row alone.
LEMMA BulkUpdatesSpareClaims ==
  ASSUME NEW table \in [Keys -> SoundJob], NEW keys, NEW key, NEW k \in Keys,
         table[k].status = "PROCESSING"
  PROVE  /\ Enqueue(table, keys)[k].status = "PROCESSING"
         /\ CancelPending(table, keys)[k].status = "PROCESSING"
         /\ Reactivate(table, key)[k].status = "PROCESSING"
         /\ RetryDeadLetter(table, key)[k].status = "PROCESSING"
BY DEF Enqueue, CancelPending, Reactivate, RetryDeadLetter

\* A claimed job is released by its holder or by the service boundary.
LEMMA LeaseStep ==
  ASSUME TypeInv, [Next]_vars, NEW k \in Keys, jobs[k].status = "PROCESSING"
  PROVE  \/ jobs'[k].status = "PROCESSING"
         \/ contract.orderActive /\ ~contract'.orderActive
         \/ \E w \in Workers : jobs[k].holder = w /\ workers[w].job = k /\ workers[w].pc = "done"
<1> USE DEF TypeInv
<1>1. CASE jobs' = jobs
  BY <1>1
<1>2. CASE EnqueueDue \/ \E r \in Reconcilers : ReconPause(r) \/ ReconResume(r)
  <2> DEFINE revived == Reactivate(jobs, GenerateKey(sched.next))
  <2>1. revived \in [Keys -> SoundJob] /\ revived[k].status = "PROCESSING"
    BY TableUpdates, BulkUpdatesSpareClaims
  <2>2. CASE EnqueueDue
    <3>1. jobs' = Enqueue(revived, {GenerateKey(sched.next)})
      BY <2>2 DEF EnqueueDue
    <3> HIDE DEF revived
    <3> QED
      BY <2>1, <3>1, BulkUpdatesSpareClaims
  <2>3. ASSUME NEW r \in Reconcilers, ReconPause(r) \/ ReconResume(r)
        PROVE  jobs'[k].status = "PROCESSING"
    BY <2>3, BulkUpdatesSpareClaims DEF ReconPause, ReconResume
  <2> QED
    BY <1>2, <2>2, <2>3
<1>3. ASSUME \/ \E c \in Cycles : PayBill(c)
             \/ \E j \in Keys : RetryJob(j)
      PROVE  jobs'[k].status = "PROCESSING"
  BY <1>3, BulkUpdatesSpareClaims DEF PayBill, RetryJob
<1>4. ASSUME NEW w \in Workers, GenerateIssue(w) \/ MarkOverdue(w)
      PROVE  jobs'[k].status = "PROCESSING"
  BY <1>4, BulkUpdatesSpareClaims DEF GenerateIssue, MarkOverdue
<1>5. ASSUME NEW w \in Workers, NEW j \in Keys, Claim(w, j) PROVE jobs'[k].status = "PROCESSING"
  BY <1>5 DEF Claim, Claimed
<1>6. ASSUME NEW j \in Keys, LeaseExpires(j) PROVE jobs'[k].status = "PROCESSING"
  BY <1>6 DEF LeaseExpires, SoundJob, Job
<1>7. ASSUME NEW w \in Workers, Finish(w)
      PROVE  \/ jobs'[k].status = "PROCESSING"
             \/ jobs[k].holder = w /\ workers[w].job = k /\ workers[w].pc = "done"
  BY <1>7 DEF Finish, HoldsLease
<1>8. ASSUME NEW b \in 0..MaxCycle, EffectiveBoundary(b)
      PROVE  contract.orderActive /\ ~contract'.orderActive
  BY <1>8 DEF EffectiveBoundary, TypeOK, Contract
<1>9. JobWriters
  BY JobWritersStep
<1> QED
  BY <1>1, <1>2, <1>4, <1>5, <1>6, <1>7, <1>8, <1>9, <1>3 DEF JobWriters

\* No worker, cancellation or retry takes a claimed job from its holder: only
\* the holder's last update and the service boundary end a claim
\* (processingLease).
THEOREM SpecLeaseProtectsJob == Spec => LeaseProtectsJob
<1>1. TypeInv /\ [Next]_vars =>
        [\A k \in Keys :
           jobs[k].status = "PROCESSING" /\ jobs'[k].status # "PROCESSING" =>
             \/ contract.orderActive /\ ~contract'.orderActive
             \/ \E w \in Workers : /\ jobs[k].holder = w /\ workers[w].job = k
                                   /\ workers[w].pc = "done"]_vars
  BY LeaseStep
<1> QED
  BY <1>1, TypeInit, TypeStep, PTL DEF Spec, LeaseProtectsJob

-----------------------------------------------------------------------------
(* Jobs and bills.                                                         *)

\* What an update of a row leaves as it is: the row exists on, and it is not
\* completed by it; a quiet update creates no row either.
Spares(old, new) ==
  /\ old.status # "ABSENT" => new.status # "ABSENT"
  /\ new.status = "COMPLETED" => old.status = "COMPLETED"
Quiet(old, new) == Spares(old, new) /\ (old.status = "ABSENT" => new.status = "ABSENT")

\* Bulk updates of the job table delete no row and complete none, and only
\* enqueue creates rows, those it is asked for.
LEMMA BulkUpdatesKeepRows ==
  ASSUME NEW table \in [Keys -> SoundJob], NEW keys, NEW key, NEW k \in Keys
  PROVE  /\ Spares(table[k], Enqueue(table, keys)[k])
         /\ k \notin keys => Quiet(table[k], Enqueue(table, keys)[k])
         /\ Quiet(table[k], CancelPending(table, keys)[k])
         /\ Quiet(table[k], CancelOpen(table, keys)[k])
         /\ Quiet(table[k], Reactivate(table, key)[k])
         /\ Quiet(table[k], RetryDeadLetter(table, key)[k])
BY DEF Enqueue, CancelPending, CancelOpen, Reactivate, RetryDeadLetter, FreshJob, Row, Spares, Quiet

\* The actions that create a job row or complete a job.
LEMMA WhoChangesJobs ==
  ASSUME TypeInv, [Next]_vars, NEW k \in Keys
  PROVE  /\ jobs[k].status # "ABSENT" => jobs'[k].status # "ABSENT"
         /\ jobs[k].status = "ABSENT" /\ jobs'[k].status # "ABSENT" =>
              \/ k[1] = "GENERATE"
              \/ \E w \in Workers : GenerateIssue(w) /\ k \in FollowUps(sched.next)
              \/ \E w \in Workers : MarkOverdue(w) /\ k \in OverdueNotices(Cycle(w))
         /\ jobs[k].status # "COMPLETED" /\ jobs'[k].status = "COMPLETED" =>
              \E w \in Workers : /\ workers[w].job = k /\ workers[w].pc = "done"
                                 /\ workers[w].outcome = "ok" /\ Finish(w)
<1> USE DEF TypeInv
<1>1. CASE jobs' = jobs
  BY <1>1
<1>2. CASE EnqueueDue
  <2> DEFINE revived == Reactivate(jobs, GenerateKey(sched.next))
  <2>1. revived \in [Keys -> SoundJob] /\ Quiet(jobs[k], revived[k])
    BY TableUpdates, BulkUpdatesKeepRows
  <2>2. jobs' = Enqueue(revived, {GenerateKey(sched.next)})
    BY <1>2 DEF EnqueueDue
  <2> HIDE DEF revived
  <2>3. /\ Spares(revived[k], jobs'[k])
        /\ k # GenerateKey(sched.next) => Quiet(revived[k], jobs'[k])
    BY <2>1, <2>2, BulkUpdatesKeepRows
  <2> QED
    BY <2>1, <2>3 DEF GenerateKey, Spares, Quiet
<1>3. ASSUME \/ \E r \in Reconcilers : ReconPause(r) \/ ReconResume(r)
             \/ \E c \in Cycles : PayBill(c)
             \/ \E j \in Keys : RetryJob(j)
             \/ \E b \in 0..MaxCycle : EffectiveBoundary(b)
      PROVE  Quiet(jobs[k], jobs'[k])
  <2>1. ASSUME NEW r \in Reconcilers, ReconPause(r) \/ ReconResume(r) PROVE Quiet(jobs[k], jobs'[k])
    <3>1. \/ jobs' = jobs
          \/ jobs' = CancelPending(jobs, ScheduleJobs)
          \/ jobs' = Reactivate(jobs, GenerateKey(recon[r].next))
      BY <2>1 DEF ReconPause, ReconResume
    <3>2. Quiet(jobs[k], jobs[k])
      BY DEF Quiet, Spares
    <3> QED
      BY <3>1, <3>2, BulkUpdatesKeepRows
  <2>2. ASSUME NEW c \in Cycles, PayBill(c) PROVE Quiet(jobs[k], jobs'[k])
    BY <2>2, BulkUpdatesKeepRows DEF PayBill
  <2>3. ASSUME NEW j \in Keys, RetryJob(j) PROVE Quiet(jobs[k], jobs'[k])
    BY <2>3, BulkUpdatesKeepRows DEF RetryJob
  <2>4. ASSUME NEW b \in 0..MaxCycle, EffectiveBoundary(b) PROVE Quiet(jobs[k], jobs'[k])
    <3>1. PICK keys : jobs' = CancelOpen(jobs, keys)
      BY <2>4 DEF EffectiveBoundary
    <3> QED
      BY <3>1, BulkUpdatesKeepRows
  <2> QED
    BY <1>3, <2>1, <2>2, <2>3, <2>4
<1>4. ASSUME NEW w \in Workers, GenerateIssue(w)
      PROVE  /\ Spares(jobs[k], jobs'[k])
             /\ k \notin FollowUps(sched.next) => Quiet(jobs[k], jobs'[k])
  BY <1>4, BulkUpdatesKeepRows DEF GenerateIssue
<1>5. ASSUME NEW w \in Workers, MarkOverdue(w)
      PROVE  /\ Spares(jobs[k], jobs'[k])
             /\ k \notin OverdueNotices(Cycle(w)) => Quiet(jobs[k], jobs'[k])
  BY <1>5, BulkUpdatesKeepRows DEF MarkOverdue
<1>6. ASSUME NEW w \in Workers, NEW j \in Keys, Claim(w, j) PROVE Quiet(jobs[k], jobs'[k])
  BY <1>6 DEF Claim, Claimed, Claimable, Quiet, Spares
<1>7. ASSUME NEW j \in Keys, LeaseExpires(j) PROVE Quiet(jobs[k], jobs'[k])
  BY <1>7 DEF LeaseExpires, SoundJob, Job, Quiet, Spares
<1>8. ASSUME NEW w \in Workers, Finish(w)
      PROVE  /\ jobs[k].status # "ABSENT" => jobs'[k].status # "ABSENT"
             /\ jobs[k].status = "ABSENT" => jobs'[k].status = "ABSENT"
             /\ jobs[k].status # "COMPLETED" /\ jobs'[k].status = "COMPLETED" =>
                  workers[w].job = k /\ workers[w].pc = "done" /\ workers[w].outcome = "ok"
  <2>2. /\ workers[w].pc = "done"
        /\ \/ jobs' = jobs
           \/ /\ jobs[workers[w].job].status = "PROCESSING"
              /\ jobs' = [jobs EXCEPT ![workers[w].job] =
                              Settled(jobs[workers[w].job], workers[w].outcome)]
    BY <1>8 DEF Finish, HoldsLease
  <2>3. workers[w].job \in Keys
    BY <2>2 DEF WorkersHaveJobs
  <2>4. \/ jobs'[k] = jobs[k]
        \/ /\ workers[w].job = k /\ jobs[k].status = "PROCESSING"
           /\ jobs'[k] = Settled(jobs[k], workers[w].outcome)
    BY <2>2, <2>3
  <2>5. CASE jobs'[k] = jobs[k]
    BY <2>5
  <2>6. CASE /\ workers[w].job = k /\ jobs[k].status = "PROCESSING"
             /\ jobs'[k] = Settled(jobs[k], workers[w].outcome)
    <3> DEFINE new == Settled(jobs[k], workers[w].outcome)
    <3>1. new.status # "ABSENT" /\ (new.status = "COMPLETED" => workers[w].outcome = "ok")
      BY DEF Settled, Complete, Reschedule, Defer, DeadLetter, Row
    <3>2. jobs'[k] = new
      BY <2>6
    <3> HIDE DEF new
    <3> QED
      BY <2>2, <2>6, <3>1, <3>2
  <2> QED
    BY <2>4, <2>5, <2>6
<1>9. JobWriters
  BY JobWritersStep
<1> QED
  BY <1>1, <1>2, <1>3, <1>4, <1>5, <1>6, <1>7, <1>8, <1>9 DEF JobWriters, Quiet, Spares

LEMMA FollowUpsStep ==
  TypeInv /\ FollowUpsWithBill /\ [Next]_vars => FollowUpsWithBill'
<1> SUFFICES ASSUME TypeInv, FollowUpsWithBill, [Next]_vars PROVE FollowUpsWithBill'
  OBVIOUS
<1>1. ASSUME NEW c \in Cycles, NEW k \in {DueKey(c), MarkKey(c)}, c < sched'.next
      PROVE  jobs'[k].status # "ABSENT"
  <2>1. k \in Keys
    BY KeysOfJobs
  <2>2. CASE sched'.next = sched.next
    BY <1>1, <2>1, <2>2, WhoChangesJobs DEF FollowUpsWithBill
  <2>3. ASSUME NEW w \in Workers, GenerateIssue(w) PROVE jobs'[k].status # "ABSENT"
    <3>1. c < sched.next \/ c = sched.next
      BY <1>1, <2>3 DEF GenerateIssue, TypeInv, TypeOK, Schedule, Cycles
    <3>2. CASE c < sched.next
      BY <2>1, <3>2, WhoChangesJobs DEF FollowUpsWithBill
    <3>3. CASE c = sched.next
      BY <2>1, <2>3, <3>3 DEF GenerateIssue, Enqueue, FollowUps, FreshJob, Row, TypeInv
    <3> QED
      BY <3>1, <3>2, <3>3
  <2> QED
    BY <2>2, <2>3, WhoChangesBills
<1>2. ASSUME NEW c \in Cycles, NEW k \in BillJobs(c), jobs'[k].status # "ABSENT"
      PROVE  Issued(c)'
  <2>0. k = DueKey(c) \/ k = MarkKey(c) \/ k = OverdueNoticeKey(c)
    BY DEF BillJobs
  <2>1. k \in Keys /\ k[1] # "GENERATE" /\ k[2] = c
    <3>1. k \in Keys
      BY <2>0, KeysOfJobs
    <3>2. k[1] # "GENERATE" /\ k[2] = c
      BY <2>0 DEF DueKey, MarkKey, OverdueNoticeKey
    <3> QED
      BY <3>1, <3>2
  <2>2. CASE jobs[k].status # "ABSENT"
    BY <2>2, BillsStay DEF FollowUpsWithBill
  <2>3. ASSUME NEW w \in Workers, GenerateIssue(w), k \in FollowUps(sched.next) PROVE Issued(c)'
    <3>1. c = sched.next
      BY <2>1, <2>3 DEF FollowUps, DueKey, MarkKey
    <3> QED
      BY <2>3, <3>1 DEF GenerateIssue, Issued, TypeInv, TypeOK
  <2>4. ASSUME NEW w \in Workers, MarkOverdue(w), k \in OverdueNotices(Cycle(w)) PROVE Issued(c)'
    <3>1. c = Cycle(w) /\ OverdueTarget(c)
      BY <2>1, <2>4 DEF OverdueNotices, OverdueNoticeKey
    <3> QED
      BY <2>4, <3>1 DEF MarkOverdue, Issued, TypeInv, TypeOK
  <2> QED
    BY <1>2, <2>1, <2>2, <2>3, <2>4, WhoChangesJobs
<1> QED
  BY <1>1, <1>2 DEF FollowUpsWithBill

\* Bill, schedule and follow-up jobs are written together: a period left
\* behind has its due notice and overdue check on record, and no such job
\* refers to a missing bill (generateScheduledMonthlyRent).
THEOREM SpecFollowUpsWithBill == Spec => []FollowUpsWithBill
<1>1. Init => FollowUpsWithBill
  BY KeysOfJobs DEF Init, FollowUpsWithBill, BillJobs, NoJob, Row, Cycles
<1> QED
  BY <1>1, TypeInit, TypeStep, FollowUpsStep, PTL DEF Spec

-----------------------------------------------------------------------------
(* Completed generation jobs.                                              *)

\* The period of a generation job has a bill, or is not served.
Settlable(c) == Issued(c) \/ c > FirstEnd \/ c > contract.boundary

\* What a completed job relies on: the contract only grows until its
\* boundary is set, and a worker that reports success has done the work.
DoneInv ==
  /\ contract.end >= FirstEnd
  /\ contract.orderActive => contract.boundary = MaxCycle
  /\ \A w \in Workers, c \in Cycles :
       workers[w].pc = "done" /\ workers[w].outcome = "ok" /\ workers[w].job = GenerateKey(c)
         => Settlable(c)
  /\ CompletedMeansDone

LEMMA SettlableStays ==
  ASSUME TypeInv, DoneInv, [Next]_vars, NEW c \in Cycles, Settlable(c)
  PROVE  Settlable(c)'
<1>1. CASE Issued(c)
  BY <1>1, BillsStay DEF Settlable
<1>2. CASE c > FirstEnd
  BY <1>2 DEF Settlable
<1>3. CASE c > contract.boundary
  <2>1. ~contract.orderActive
    BY <1>3, CyclesAssumption DEF DoneInv, Cycles
  <2>2. contract'.boundary = contract.boundary
    BY <2>1 DEF Next, vars, EnqueueDue, Reconcile, ReconRead, ReconDecide, ReconPause, ReconResume,
         Claim, Handle, Generate, GeneratePaused, GenerateIssue, MarkOverdue, LeaseExpires,
         GenerateRejected, GenerateEnded, GenerateBlocked, NoticeRead, NoticeSend, HandlerFails,
         Finish, Crash, PauseCheck, PauseWrite, ResumeCheck, ResumeWrite, ManualGenerate, Tick,
         RetryJob, PayBill, FactsBreak, FactsRepaired, Extend, ResumeForExtension,
         EffectiveBoundary, TypeInv, TypeOK, Contract
  <2> QED
    BY <1>3, <2>2 DEF Settlable
<1> QED
  BY <1>1, <1>2, <1>3 DEF Settlable

LEMMA DoneStep == TypeInv /\ DoneInv /\ [Next]_vars => DoneInv'
<1> SUFFICES ASSUME TypeInv, DoneInv, [Next]_vars PROVE DoneInv'
  OBVIOUS
<1>1. contract'.end >= FirstEnd /\ (contract'.orderActive => contract'.boundary = MaxCycle)
  <2>1. \/ contract' = contract
        \/ FactsBreak \/ FactsRepaired \/ Extend \/ ResumeForExtension
        \/ \E b \in 0..MaxCycle : EffectiveBoundary(b)
    BY DEF Next, vars, EnqueueDue, Reconcile, ReconRead, ReconDecide, ReconPause, ReconResume,
         Claim, Handle, Generate, GeneratePaused, GenerateIssue, MarkOverdue, LeaseExpires,
         GenerateRejected, GenerateEnded, GenerateBlocked, NoticeRead, NoticeSend, HandlerFails,
         Finish, Crash, PauseCheck, PauseWrite, ResumeCheck, ResumeWrite, ManualGenerate, Tick,
         RetryJob, PayBill
  <2>2. CASE FactsBreak \/ FactsRepaired \/ Extend \/ ResumeForExtension
    <3>1. /\ contract.end \in Cycles /\ contract.end >= FirstEnd
          /\ contract.orderActive => contract.boundary = MaxCycle
      BY DEF DoneInv, TypeInv, TypeOK, Contract
    <3>2. /\ contract'.end \in {contract.end, contract.end + 1}
          /\ contract'.orderActive = contract.orderActive
          /\ contract'.boundary = contract.boundary
      BY <2>2 DEF FactsBreak, FactsRepaired, Extend, ResumeForExtension, TypeInv, TypeOK, Contract
    <3>3. contract'.end >= FirstEnd
      BY <3>1, <3>2, CyclesAssumption DEF Cycles
    <3> QED
      BY <3>1, <3>2, <3>3
  <2>3. ASSUME NEW b \in 0..MaxCycle, EffectiveBoundary(b)
        PROVE  contract'.end = contract.end /\ ~contract'.orderActive
    BY <2>3 DEF EffectiveBoundary, TypeInv, TypeOK, Contract
  <2> QED
    BY <2>1, <2>2, <2>3 DEF DoneInv
<1>2. ASSUME NEW w \in Workers, NEW c \in Cycles, workers'[w].pc = "done",
             workers'[w].outcome = "ok", workers'[w].job = GenerateKey(c)
      PROVE  Settlable(c)'
  <2>1. CASE workers'[w] = workers[w]
    BY <1>2, <2>1, SettlableStays DEF DoneInv
  <2>2. CASE workers'[w] # workers[w]
    <3>1. \E v \in Workers : \/ \E k \in Keys : Claim(v, k)
                             \/ Handle(v) \/ Finish(v) \/ Crash(v)
                             \/ \E o \in {"retry", "config"} : HandlerFails(v, o)
      BY <2>2 DEF Next, vars, EnqueueDue, Reconcile, ReconRead, ReconDecide, ReconPause, ReconResume,
         LeaseExpires, PauseCheck, PauseWrite, ResumeCheck, ResumeWrite, ManualGenerate, Tick,
         RetryJob, PayBill, FactsBreak, FactsRepaired, Extend, ResumeForExtension, EffectiveBoundary
    <3>2. PICK v \in Workers : \/ \E k \in Keys : Claim(v, k)
                             \/ Handle(v) \/ Finish(v) \/ Crash(v)
                             \/ \E o \in {"retry", "config"} : HandlerFails(v, o)
      BY <3>1
    <3>3. CASE \/ \E k \in Keys : Claim(v, k)
               \/ Finish(v) \/ Crash(v)
               \/ \E o \in {"retry", "config"} : HandlerFails(v, o)
      BY <1>2, <2>2, <3>3 DEF Claim, Finish, Crash, HandlerFails, Outcome, IdleWorker, TypeInv, TypeOK
    <3>4. ASSUME NEW o, Outcome(v, o) PROVE v = w /\ o = "ok" /\ workers[w].job = GenerateKey(c)
      BY <1>2, <2>2, <3>4 DEF Outcome, TypeInv, TypeOK
    <3>5. CASE GeneratePaused(v) \/ GenerateRejected(v) \/ GenerateBlocked(v)
      BY <3>4, <3>5 DEF GeneratePaused, GenerateRejected, GenerateBlocked
    <3>6. CASE GenerateIssue(v)
      <4>1. c = sched.next
        BY <3>4, <3>6 DEF GenerateIssue, AtNextPeriod, Cycle, GenerateKey
      <4>2. Issued(c)'
        BY <3>6, <4>1 DEF GenerateIssue, Issued, TypeInv, TypeOK
      <4> QED
        BY <4>2 DEF Settlable
    <3>7. CASE GenerateEnded(v)
      <4>1. c = sched.next /\ sched.next > ServiceEnd /\ contract' = contract
        BY <3>4, <3>7 DEF GenerateEnded, AtNextPeriod, Cycle, GenerateKey
      <4>2. c > FirstEnd \/ c > contract.boundary
        BY <4>1, CyclesAssumption DEF ServiceEnd, DoneInv, TypeInv, TypeOK, Contract, Cycles
      <4> QED
        BY <4>1, <4>2 DEF Settlable
    <3>8. CASE MarkOverdue(v) \/ NoticeRead(v) \/ NoticeSend(v)
      <4>1. workers[v].job[1] # "GENERATE"
        BY <3>8 DEF MarkOverdue, NoticeRead, NoticeSend, Handling, TypeInv, WorkersHaveJobs
      <4>2. CASE workers'[v].pc = "notify"
        BY <1>2, <2>2, <3>8, <4>2 DEF MarkOverdue, NoticeRead, NoticeSend, Outcome, TypeInv, TypeOK
      <4>3. CASE \E o : Outcome(v, o)
        BY <3>4, <4>1, <4>3 DEF GenerateKey
      <4>4. \/ \E o : Outcome(v, o)
            \/ workers'[v].pc = "notify"
        BY <3>8 DEF MarkOverdue, NoticeRead, NoticeSend, TypeInv, TypeOK
      <4> QED
        BY <4>2, <4>3, <4>4
    <3> QED
      BY <3>2, <3>3, <3>5, <3>6, <3>7, <3>8 DEF Handle, Generate
  <2> QED
    BY <2>1, <2>2
<1>3. ASSUME NEW c \in Cycles, jobs'[GenerateKey(c)].status = "COMPLETED" PROVE Settlable(c)'
  <2>1. CASE jobs[GenerateKey(c)].status = "COMPLETED"
    BY <2>1, SettlableStays DEF DoneInv, CompletedMeansDone, Settlable
  <2>2. CASE jobs[GenerateKey(c)].status # "COMPLETED"
    <3>1. PICK w \in Workers : /\ workers[w].job = GenerateKey(c) /\ workers[w].pc = "done"
                               /\ workers[w].outcome = "ok"
      BY <1>3, <2>2, WhoChangesJobs, KeysOfJobs
    <3> QED
      BY <3>1, SettlableStays DEF DoneInv
  <2> QED
    BY <2>1, <2>2
<1> QED
  BY <1>1, <1>2, <1>3 DEF DoneInv, CompletedMeansDone, Settlable

\* A generation job counts as completed only when its period has a bill or is
\* not served, whatever was refused, retried, lost or taken over before
\* (handleClaimedJob, processingLease).
THEOREM SpecCompletedMeansDone == Spec => []CompletedMeansDone
<1>1. Init => DoneInv
  BY CyclesAssumption, KeysOfJobs
     DEF Init, DoneInv, CompletedMeansDone, IdleWorker, NoJob, Row, Cycles
<1>2. DoneInv => CompletedMeansDone
  BY DEF DoneInv
<1> QED
  BY <1>1, <1>2, TypeInit, TypeStep, DoneStep, PTL DEF Spec

-----------------------------------------------------------------------------
(* Jobs that have ended.                                                   *)

\* While no write has passed it, a reconciliation remembers the period the
\* schedule waits for, although nothing locks the row between its read and
\* its write.
SnapshotInv == \A r \in Reconcilers : r \in tickets => recon[r].next = sched.next

LEMMA SnapshotStep ==
  TypeInv /\ SnapshotInv /\ [Next]_vars => SnapshotInv'
<1> SUFFICES ASSUME TypeInv, SnapshotInv, [Next]_vars, NEW r \in Reconcilers, r \in tickets'
             PROVE  recon'[r].next = sched'.next
  BY DEF SnapshotInv
<1> USE DEF TypeInv, TypeOK
<1>1. ASSUME tickets' \subseteq tickets, recon' = recon, sched'.next = sched.next
      PROVE  recon'[r].next = sched'.next
  BY <1>1 DEF SnapshotInv
<1>2. CASE tickets' = {}
  BY <1>2
<1>3. ASSUME NEW q \in Reconcilers, ReconRead(q) PROVE recon'[r].next = sched'.next
  BY <1>3 DEF ReconRead, SnapshotInv
<1>4. ASSUME NEW q \in Reconcilers, ReconDecide(q) PROVE recon'[r].next = sched'.next
  BY <1>4 DEF ReconDecide, SnapshotInv, Recon
<1>5. ASSUME NEW q \in Reconcilers, ReconPause(q) \/ ReconResume(q)
      PROVE  recon'[r].next = sched'.next
  <2>1. /\ \/ tickets' = {}
           \/ tickets' = tickets \ {q} /\ sched' = sched
        /\ recon' = [recon EXCEPT ![q] = IdleRecon]
    BY <1>5 DEF ReconPause, ReconResume
  <2> QED
    BY <2>1 DEF SnapshotInv
<1>6. CASE ResumeCheck
  BY <1>6, ReadersAssumption DEF ResumeCheck, Operate, SnapshotInv
<1>7. CASE PauseWrite \/ ResumeWrite
  BY <1>1, <1>2, <1>7 DEF PauseWrite, ResumeWrite, Schedule
<1>8. CASE ResumeForExtension \/ \E b \in 0..MaxCycle : EffectiveBoundary(b)
  <2>1. CASE ResumeForExtension
    BY <1>1, <1>2, <2>1 DEF ResumeForExtension, Schedule
  <2>2. ASSUME NEW b \in 0..MaxCycle, EffectiveBoundary(b) PROVE recon'[r].next = sched'.next
    BY <1>1, <1>2, <2>2 DEF EffectiveBoundary
  <2> QED
    BY <1>8, <2>1, <2>2
<1>9. \/ tickets' = tickets /\ recon' = recon /\ sched' = sched
      \/ tickets' = {}
      \/ \E q \in Reconcilers : ReconRead(q) \/ ReconDecide(q) \/ ReconPause(q) \/ ReconResume(q)
      \/ ResumeCheck \/ PauseWrite \/ ResumeWrite \/ ResumeForExtension
      \/ \E b \in 0..MaxCycle : EffectiveBoundary(b)
  BY DEF Next, vars, EnqueueDue, Reconcile, Claim, Handle, Generate, GeneratePaused,
         GenerateRejected, GenerateEnded, GenerateBlocked, GenerateIssue, MarkOverdue,
         NoticeRead, NoticeSend, HandlerFails, Finish, Crash, LeaseExpires, PauseCheck,
         RetryJob, ManualGenerate, PayBill, Tick, FactsBreak, FactsRepaired, Extend
<1> QED
  BY <1>1, <1>2, <1>3, <1>4, <1>5, <1>6, <1>7, <1>8, <1>9

\* No bulk update touches a completed row, and of the cancelled rows only
\* reactivation touches one: the row it is asked for.
LEMMA BulkUpdatesSpareEnded ==
  ASSUME NEW table \in [Keys -> SoundJob], NEW keys, NEW key, NEW k \in Keys,
         table[k].status \in {"COMPLETED", "CANCELLED"}
  PROVE  /\ Enqueue(table, keys)[k] = table[k]
         /\ CancelPending(table, keys)[k] = table[k]
         /\ CancelOpen(table, keys)[k] = table[k]
         /\ RetryDeadLetter(table, key)[k] = table[k]
         /\ table[k].status = "COMPLETED" \/ k # key => Reactivate(table, key)[k] = table[k]
BY DEF Enqueue, CancelPending, CancelOpen, RetryDeadLetter, Reactivate

\* A job that has ended keeps its row, except that the cancelled generation
\* job of the schedule's next period comes back.
LEMMA EndedJobStep ==
  ASSUME TypeInv, SnapshotInv, [Next]_vars, NEW k \in Keys,
         jobs[k].status \in {"COMPLETED", "CANCELLED"}
  PROVE  \/ jobs'[k] = jobs[k]
         \/ jobs[k].status = "CANCELLED" /\ k = GenerateKey(sched.next)
<1> USE DEF TypeInv
<1>1. CASE jobs' = jobs
  BY <1>1
<1>2. CASE EnqueueDue
  <2> DEFINE revived == Reactivate(jobs, GenerateKey(sched.next))
  <2>1. CASE jobs[k].status = "CANCELLED" /\ k = GenerateKey(sched.next)
    BY <2>1
  <2>2. CASE jobs[k].status = "COMPLETED" \/ k # GenerateKey(sched.next)
    <3>1. revived \in [Keys -> SoundJob] /\ revived[k] = jobs[k]
      BY <2>2, TableUpdates, BulkUpdatesSpareEnded
    <3>2. jobs' = Enqueue(revived, {GenerateKey(sched.next)})
      BY <1>2 DEF EnqueueDue
    <3> HIDE DEF revived
    <3> QED
      BY <3>1, <3>2, BulkUpdatesSpareEnded
  <2> QED
    BY <2>1, <2>2
<1>3. ASSUME NEW r \in Reconcilers, ReconPause(r) PROVE jobs'[k] = jobs[k]
  BY <1>3, BulkUpdatesSpareEnded DEF ReconPause
<1>4. ASSUME NEW r \in Reconcilers, ReconResume(r)
      PROVE  \/ jobs'[k] = jobs[k]
             \/ jobs[k].status = "CANCELLED" /\ k = GenerateKey(sched.next)
  <2>1. \/ jobs' = jobs
        \/ r \in tickets /\ jobs' = Reactivate(jobs, GenerateKey(recon[r].next))
    BY <1>4 DEF ReconResume
  <2>2. CASE r \in tickets /\ jobs' = Reactivate(jobs, GenerateKey(sched.next))
    BY <2>2, BulkUpdatesSpareEnded
  <2> QED
    BY <2>1, <2>2 DEF SnapshotInv
<1>5. ASSUME \/ \E c \in Cycles : PayBill(c)
             \/ \E j \in Keys : RetryJob(j)
             \/ \E w \in Workers : GenerateIssue(w) \/ MarkOverdue(w)
      PROVE  jobs'[k] = jobs[k]
  BY <1>5, BulkUpdatesSpareEnded DEF PayBill, RetryJob, GenerateIssue, MarkOverdue
<1>6. ASSUME NEW b \in 0..MaxCycle, EffectiveBoundary(b) PROVE jobs'[k] = jobs[k]
  <2>1. PICK keys : jobs' = CancelOpen(jobs, keys)
    BY <1>6 DEF EffectiveBoundary
  <2> QED
    BY <2>1, BulkUpdatesSpareEnded
<1>7. ASSUME NEW w \in Workers, NEW j \in Keys, Claim(w, j) PROVE jobs'[k] = jobs[k]
  BY <1>7 DEF Claim, Claimable
<1>8. ASSUME NEW j \in Keys, LeaseExpires(j) PROVE jobs'[k] = jobs[k]
  BY <1>8 DEF LeaseExpires
<1>9. ASSUME NEW w \in Workers, Finish(w) PROVE jobs'[k] = jobs[k]
  BY <1>9 DEF Finish, HoldsLease
<1>10. JobWriters
  BY JobWritersStep
<1> QED
  BY <1>1, <1>2, <1>3, <1>4, <1>5, <1>6, <1>7, <1>8, <1>9, <1>10 DEF JobWriters

\* A completed job stays as it is and only the generation job of the next
\* period is brought back from a cancellation, also by a reconciliation that
\* names the period it read earlier (reactivateCancelledScheduleGeneration).
THEOREM SpecJobsNotResurrected == Spec => JobsNotResurrected
<1>1. Init => SnapshotInv
  BY DEF Init, SnapshotInv
<1>2. TypeInv /\ SnapshotInv /\ [Next]_vars =>
        [\A k \in Keys :
           /\ jobs[k].status = "COMPLETED" => jobs'[k] = jobs[k]
           /\ jobs[k].status = "CANCELLED" /\ jobs'[k] # jobs[k] =>
                k = GenerateKey(sched.next)]_vars
  BY EndedJobStep
<1> QED
  BY <1>1, <1>2, TypeInit, TypeStep, SnapshotStep, PTL DEF Spec, JobsNotResurrected
=============================================================================
