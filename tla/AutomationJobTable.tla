------------------------- MODULE AutomationJobTable -------------------------
(***************************************************************************)
(* The rows of subscription_automation_job and the row updates that        *)
(* BillingAutomationRepository makes.  A row is found by its unique        *)
(* idempotency key; a key that was never enqueued has an ABSENT row.       *)
(*                                                                         *)
(* A claim writes a random lease token.  A token names one live claim, and *)
(* one worker slot holds one claim at a time, so the slot that claimed the *)
(* row stands for the token.  "live" says that lease_expires_at is still   *)
(* in the future.                                                          *)
(***************************************************************************)
EXTENDS Naturals

CONSTANTS Workers,      \* worker slots, over all processes
          NoWorker,     \* lease_token IS NULL
          MaxAttempts   \* max_attempts of a job

ASSUME WorkersAssumption == NoWorker \notin Workers
ASSUME MaxAttemptsAssumption == MaxAttempts \in Nat \ {0}

JobStatus == {"ABSENT", "PENDING", "PROCESSING", "COMPLETED", "DEAD_LETTER", "CANCELLED"}

Job == [status   : JobStatus,
        holder   : Workers \cup {NoWorker},
        live     : BOOLEAN,
        attempts : 0..MaxAttempts]

\* A row without a lease, in status s after n failed attempts.
Row(s, n) == [status |-> s, holder |-> NoWorker, live |-> FALSE, attempts |-> n]

NoJob == Row("ABSENT", 0)
FreshJob == Row("PENDING", 0)

\* Mutant: the upsert resets a row that is no longer open.
EnqueueOverwrites(table, keys) ==
  [k \in DOMAIN table |->
     IF k \in keys /\ table[k].status \notin {"PENDING", "PROCESSING"} THEN FreshJob ELSE table[k]]

\* enqueue: an upsert whose update is empty, so an existing row is never
\* touched, whatever its status.
Enqueue(table, keys) ==
  [k \in DOMAIN table |->
     IF k \in keys /\ table[k].status = "ABSENT" THEN FreshJob ELSE table[k]]

\* Mutant: a job whose worker died is never taken over.
ClaimablePendingOnly(job) == job.status = "PENDING"

\* claimDue: a pending row, or one whose lease ran out; the attempt counter
\* is left alone, also when a lost claim is taken over.
Claimable(job) == job.status = "PENDING" \/ (job.status = "PROCESSING" /\ ~job.live)
Claimed(job, w) == [status |-> "PROCESSING", holder |-> w, live |-> TRUE, attempts |-> job.attempts]

\* Mutant: the lease token is not compared.
HoldsAnyLease(job, w) == job.status = "PROCESSING" /\ w \in Workers

\* processingLease: the guard of every update a worker makes to its job.
HoldsLease(job, w) == job.status = "PROCESSING" /\ job.holder = w

\* complete, reschedule, defer and deadLetter.
Complete(job)   == Row("COMPLETED", job.attempts)
Reschedule(job) == Row("PENDING", job.attempts + 1)
Defer(job)      == Row("PENDING", job.attempts)
DeadLetter(job) == Row("DEAD_LETTER", job.attempts + 1)

\* Mutant: the attempt that reaches the limit is not counted.
SettledLate(job, outcome) ==
  CASE outcome = "ok"     -> Complete(job)
    [] outcome = "paused" -> Defer(job)
    [] outcome = "config" -> DeadLetter(job)
    [] OTHER -> IF job.attempts >= MaxAttempts THEN DeadLetter(job) ELSE Reschedule(job)

\* Mutant: a refused job is recorded as done.
SettledRefused(job, outcome) ==
  CASE outcome \in {"ok", "config"} -> Complete(job)
    [] outcome = "paused" -> Defer(job)
    [] OTHER -> IF job.attempts + 1 >= MaxAttempts THEN DeadLetter(job) ELSE Reschedule(job)

\* Mutant: a failed attempt is not counted.
SettledUncounted(job, outcome) ==
  CASE outcome = "ok"     -> Complete(job)
    [] outcome = "config" -> DeadLetter(job)
    [] OTHER -> Defer(job)

\* How the worker ends a job: handleClaimedJob maps the handler's result to
\* one of the four updates.
Settled(job, outcome) ==
  CASE outcome = "ok"     -> Complete(job)
    [] outcome = "paused" -> Defer(job)
    [] outcome = "config" -> DeadLetter(job)
    [] OTHER -> IF job.attempts + 1 >= MaxAttempts THEN DeadLetter(job) ELSE Reschedule(job)

\* The three bulk cancellations differ in the keys they select.
CancelPending(table, keys) ==
  [k \in DOMAIN table |->
     IF k \in keys /\ table[k].status = "PENDING"
     THEN Row("CANCELLED", table[k].attempts) ELSE table[k]]

CancelOpen(table, keys) ==
  [k \in DOMAIN table |->
     IF k \in keys /\ table[k].status \in {"PENDING", "PROCESSING"}
     THEN Row("CANCELLED", table[k].attempts) ELSE table[k]]

\* Mutant: a cancelled job stays cancelled.
ReactivateNever(table, key) == [table EXCEPT ![key].live = FALSE]

\* reactivateCancelledScheduleGeneration: only a cancelled row comes back.
Reactivate(table, key) ==
  [k \in DOMAIN table |->
     IF k = key /\ table[k].status = "CANCELLED" THEN FreshJob ELSE table[k]]

\* retryDeadLetter.
RetryDeadLetter(table, key) ==
  [k \in DOMAIN table |->
     IF k = key /\ table[k].status = "DEAD_LETTER" THEN FreshJob ELSE table[k]]
=============================================================================
