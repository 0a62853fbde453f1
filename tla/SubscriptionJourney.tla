------------------------- MODULE SubscriptionJourney -------------------------
(***************************************************************************)
(* The last four steps of a subscription journey, from the first bills to  *)
(* the activation of the lease: a job looks whether the bills are paid, a  *)
(* job creates the handover, an operator decides about its evidence and a  *)
(* job activates the subscription.  Every transition moves the journey's   *)
(* version and writes one outbox row.  Workers claim rows and jobs under a *)
(* lease; each row, whatever it reports, makes the journey's current step  *)
(* start.                                                                  *)
(*                                                                         *)
(* The step before, INITIAL_BILLING, has just completed: its row is the    *)
(* first of the outbox.  The journey cannot be cancelled any more, because *)
(* its contract is archived.  Of the version only this matters: whether it *)
(* has moved since a dispatch read it, and that no two facts or resumes    *)
(* share one, so that their jobs have keys of their own.                   *)
(***************************************************************************)
EXTENDS Naturals, Sequences

CONSTANTS
    Workers,      \* the processes that run the worker's poll
    Nobody,       \* the owner of what nobody has claimed
    InitialBills, \* the bills that the customer pays first
    MaxFaults,    \* bound: crashes, lapsed leases and transient errors
    MaxHolds,     \* bound: pauses and retries
    MaxPackages   \* bound: packages of evidence handed in

ASSUME JourneyAssumption ==
    /\ Nobody \notin Workers
    /\ InitialBills \in Nat
    /\ MaxFaults \in Nat
    /\ MaxHolds \in Nat
    /\ MaxPackages \in Nat

VARIABLES
    journey,     \* the journey's row: current step, its status, the status
    steps,       \* the status of each step's own row
    outbox,      \* the rows that wait, oldest first
    later,       \* the rows put off by an error or left by a crash
    keys,        \* the event keys that a later transition may meet again
    jobs,        \* the jobs, by source key
    exceptions,  \* the exceptions, oldest first: whose job, and whether open
    tasks,       \* the manual tasks of the evidence decision
    handover,    \* the work order: the package handed in and its review
    unpaid,      \* how many of the first bills are not settled
    made,        \* how often each business object was made
    workers,     \* what each worker is at
    faults,      \* faults so far
    holds        \* pauses and retries so far

vars == <<journey, steps, outbox, later, keys, jobs, exceptions, tasks,
          handover, unpaid, made, workers, faults, holds>>

Steps == {"payment", "handover", "evidence", "activation"}

(* JOURNEY_STEP_SEQUENCE, from here on.                                    *)
NextStep == [payment |-> "handover", handover |-> "evidence",
             evidence |-> "activation"]

(* The steps that have a job type; the fourth has a manual task.           *)
JobSteps == Steps \ {"evidence"}

Movable == {"PENDING", "RUNNING", "WAITING_CUSTOMER", "WAITING_MANUAL",
            "RETRY_SCHEDULED"}
StepStatuses == Movable \cup {"EXCEPTION", "COMPLETED"}
Resumable == {"RUNNING", "WAITING_CUSTOMER", "WAITING_MANUAL",
              "RETRY_SCHEDULED", "EXCEPTION"}
Statuses == Resumable \cup {"PAUSED", "COMPLETED"}
Packages == 1 .. MaxPackages

(* A row of the outbox: a settled bill, evidence that is ready, the        *)
(* completion of the handover, which quotes the evidence, or any other,    *)
(* of which a dispatch looks at nothing.                                   *)
Rows == [kind : {"note", "paid", "ready", "completed"},
         n : 0 .. InitialBills + MaxPackages]
Row(kind, n) == [kind |-> kind, n |-> n]
Note == Row("note", 0)

(* A job's source key: the one that the step always has, the one of a fact *)
(* observed while the journey was at the payment step, and that of a       *)
(* resume.                                                                 *)
Keys == [step : JobSteps, why : {"step", "fact", "resume"}, n : Nat]
Key(step, why, n) == [step |-> step, why |-> why, n |-> n]
Waiting == [state |-> "pending", owner |-> Nobody]

(* enqueueJob: the job that has the key already is left as it is, where    *)
(* the first form starts it anew.                                          *)
EnqueuedAnew(k) ==
    [j \in DOMAIN jobs \cup {k} |-> IF j = k THEN Waiting ELSE jobs[j]]
Enqueued(k) ==
    [j \in DOMAIN jobs \cup {k} |-> IF j \in DOMAIN jobs THEN jobs[j]
                                                         ELSE Waiting]

(* A worker: the row it has claimed, whether it still holds it, the step   *)
(* that its dispatch read and whether the version has stayed the same      *)
(* since; or the job it has claimed.                                       *)
Free == [at |-> "idle", row |-> Note, held |-> FALSE, step |-> "payment",
         fresh |-> FALSE, job |-> Key("payment", "step", 0)]

OpenTasks == {t \in tasks : t.status = "OPEN"}
TaskOf(package) == [package |-> package, status |-> "OPEN"]

OpenExceptions == {i \in DOMAIN exceptions : exceptions[i].open}

-----------------------------------------------------------------------------

TypeOK ==
    /\ journey \in [step : Steps, status : Statuses,
                    stepStatus : StepStatuses, before : Resumable \cup {"NONE"}]
    /\ steps \in [Steps -> StepStatuses]
    /\ outbox \in Seq(Rows)
    /\ later \in Seq(Rows)
    /\ keys \in [waits : SUBSET Keys, opened : BOOLEAN, handover : {0} \cup Packages]
    /\ DOMAIN jobs \subseteq Keys
    /\ \A k \in DOMAIN jobs :
          jobs[k] \in [state : {"pending", "retry", "taken", "completed", "dead"},
                       owner : Workers \cup {Nobody}]
    /\ exceptions \in Seq([job : DOMAIN jobs, open : BOOLEAN])
    /\ tasks \subseteq [package : Packages,
                        status : {"OPEN", "APPROVED", "REJECTED"}]
    /\ handover \in [exists : BOOLEAN, package : {0} \cup Packages,
                     review : {"field", "pending", "approved"}]
    /\ unpaid \in 0 .. InitialBills
    /\ made \in [handovers : Nat, activations : Nat]
    /\ workers \in [Workers ->
          [at : {"idle", "row", "job", "ran", "failed"}, row : Rows,
           held : BOOLEAN, step : Steps, fresh : BOOLEAN, job : Keys]]
    /\ faults \in 0 .. MaxFaults
    /\ holds \in 0 .. MaxHolds

Init ==
    /\ journey = [step |-> "payment", status |-> "RUNNING",
                  stepStatus |-> "PENDING", before |-> "NONE"]
    /\ steps = [s \in Steps |-> "PENDING"]
    /\ outbox = <<Note>>
    /\ later = <<>>
    /\ keys = [waits |-> {}, opened |-> FALSE, handover |-> 0]
    /\ jobs = <<>>
    /\ exceptions = <<>>
    /\ tasks = {}
    /\ handover = [exists |-> FALSE, package |-> 0, review |-> "field"]
    /\ unpaid = InitialBills
    /\ made = [handovers |-> 0, activations |-> 0]
    /\ workers = [w \in Workers |-> Free]
    /\ faults = 0
    /\ holds = 0

-----------------------------------------------------------------------------
(* Transitions of the journey, as the repository makes them.               *)

(* validateCurrentStep.                                                    *)
CanMove(step) ==
    /\ journey.status \notin {"PAUSED", "COMPLETED"}
    /\ journey.step = step
    /\ journey.stepStatus = steps[step]
    /\ steps[step] \in Movable

(* The version moves, after what the workers ws have become, and the rows  *)
(* of the transition join the outbox: updateJourneyVersion and             *)
(* writeEventAndOutbox.                                                    *)
Moved(rows, ws) ==
    /\ outbox' = outbox \o rows
    /\ workers' = [w \in Workers |->
          IF ws[w].at = "row" THEN [ws[w] EXCEPT !.fresh = FALSE] ELSE ws[w]]

(* resolveStepExceptions.                                                  *)
Resolved(step) ==
    [i \in DOMAIN exceptions |->
        IF exceptions[i].job.step = step THEN [exceptions[i] EXCEPT !.open = FALSE]
                                         ELSE exceptions[i]]

(* completeStep, advanceJourney: the next step becomes current.            *)
Complete(step) ==
    /\ journey' = IF step = "activation"
                    THEN [journey EXCEPT !.status = "COMPLETED",
                                         !.stepStatus = "COMPLETED"]
                    ELSE [journey EXCEPT !.step = NextStep[step],
                                         !.status = "RUNNING",
                                         !.stepStatus = "PENDING"]
    /\ steps' = [steps EXCEPT ![step] = "COMPLETED"]
    /\ exceptions' = Resolved(step)

(* waitForCustomer, openManualTask: the step waits for somebody.           *)
Wait(step, status) ==
    /\ journey' = [journey EXCEPT !.status = status, !.stepStatus = status]
    /\ steps' = [steps EXCEPT ![step] = status]

(* returnToHandoverEvidence: the rejected evidence is prepared again.  The *)
(* first form leaves the rows of the steps as they are.                    *)
ReturnInPlace ==
    /\ journey' = [journey EXCEPT !.step = "handover", !.status = "RUNNING",
                                  !.stepStatus = "RUNNING"]
    /\ UNCHANGED steps
Return ==
    /\ journey' = [journey EXCEPT !.step = "handover", !.status = "RUNNING",
                                  !.stepStatus = "RUNNING"]
    /\ steps' = [steps EXCEPT !["handover"] = "RUNNING",
                              !["evidence"] = "PENDING"]

Keep == UNCHANGED <<journey, steps, exceptions>>
Business == <<handover, unpaid, made>>
Fault == faults < MaxFaults /\ faults' = faults + 1

-----------------------------------------------------------------------------
(* The signal lane.                                                        *)

(* claimSignalOutbox takes the oldest row that waits, one that was put off *)
(* or, when its lease lapses under its worker, one that is being handled.  *)
(* readCurrentJourney follows: the dispatch reads the journey unlocked.    *)
Holding(w, row) ==
    [Free EXCEPT !.at = "row", !.row = row, !.held = TRUE,
                 !.step = journey.step, !.fresh = TRUE]

ClaimRow(w) ==
    /\ workers[w].at = "idle"
    /\ \/ /\ outbox # <<>>
          /\ outbox' = Tail(outbox)
          /\ workers' = [workers EXCEPT ![w] = Holding(w, Head(outbox))]
          /\ UNCHANGED <<later, faults>>
       \/ \E i \in 1 .. Len(later) :
             /\ later' = SubSeq(later, 1, i - 1) \o SubSeq(later, i + 1, Len(later))
             /\ workers' = [workers EXCEPT ![w] = Holding(w, later[i])]
             /\ UNCHANGED <<outbox, faults>>
       \/ \E u \in Workers \ {w} :
             /\ workers[u].at = "row" /\ workers[u].held
             /\ workers' = [workers EXCEPT ![w] = Holding(w, workers[u].row),
                                           ![u] = [Free EXCEPT !.at = "row"]]
             /\ Fault
             /\ UNCHANGED <<outbox, later>>
    /\ Keep
    /\ UNCHANGED <<keys, jobs, tasks, Business, holds>>

(* A dispatch ends: its row is delivered or dead-lettered, or put off.     *)
Freed(w) == [workers EXCEPT ![w] = Free]
Over(w) == workers' = Freed(w) /\ UNCHANGED <<outbox, later>>
PutOff(w) ==
    /\ workers' = Freed(w)
    /\ later' = Append(later, workers[w].row)
    /\ UNCHANGED outbox

(* HANDOVER_EVIDENCE_READY completes the handover step, under an event key *)
(* that names the work order and not the package: a second package meets   *)
(* the event of the first.                                                 *)
TakeUpEvidence(w, package) ==
    /\ UNCHANGED <<jobs, tasks>>
    /\ \/ /\ keys.handover # 0
          /\ exceptions' = IF keys.handover = package THEN Resolved("handover")
                                                      ELSE exceptions
          /\ Over(w)
          /\ UNCHANGED <<journey, steps, keys>>
       \/ /\ keys.handover = 0 /\ ~workers[w].fresh
          /\ PutOff(w)
          /\ Keep /\ UNCHANGED keys
       \/ /\ keys.handover = 0 /\ workers[w].fresh /\ ~CanMove("handover")
          /\ Over(w)
          /\ Keep /\ UNCHANGED keys
       \/ /\ keys.handover = 0 /\ workers[w].fresh /\ CanMove("handover")
          /\ Complete("handover")
          /\ keys' = [keys EXCEPT !.handover = package]
          /\ Moved(<<Row("completed", package)>>, Freed(w))
          /\ UNCHANGED later

(* Only the row that completed the handover quotes the package that the    *)
(* manual task needs; the event key of the opening is the same each time   *)
(* the step is entered.                                                    *)
OpenDecision(w, row) ==
    /\ UNCHANGED <<jobs, exceptions>>
    /\ IF /\ row.kind = "completed"
          /\ CanMove("evidence")
          /\ OpenTasks = {} /\ ~keys.opened
         THEN /\ tasks' = tasks \cup {TaskOf(row.n)}
              /\ keys' = [keys EXCEPT !.opened = TRUE]
              /\ Wait("evidence", "WAITING_MANUAL")
              /\ Moved(<<Note>>, Freed(w))
              /\ UNCHANGED later
         ELSE Over(w) /\ UNCHANGED <<journey, steps, keys, tasks>>

(* stableStepSourceKey: a fact's payload carries the version at which it   *)
(* was observed, which makes each payment a job of its own at the payment  *)
(* step.  The other form has one job for each step.                        *)
StepKey(step, row) == Key(step, "step", 0)
KeyOf(step, row) ==
    IF step = "payment" /\ row.kind = "paid" THEN Key(step, "fact", row.n)
                                              ELSE StepKey(step, row)

EnqueueStep(w, row) ==
    /\ jobs' = Enqueued(KeyOf(workers[w].step, row))
    /\ Over(w)
    /\ Keep
    /\ UNCHANGED <<keys, tasks>>

(* dispatchSignalOutbox and completeOutbox commit together, or not at all  *)
(* when the lease is lost.                                                 *)
Dispatch(w) ==
    /\ workers[w].at = "row"
    /\ LET row == workers[w].row
           step == workers[w].step
           ready == step = "handover" /\ row.kind = "ready"
       IN  \/ ~workers[w].held /\ Over(w) /\ Keep /\ UNCHANGED <<keys, jobs, tasks>>
           \/ workers[w].held /\ ready /\ TakeUpEvidence(w, row.n)
           \/ workers[w].held /\ step = "evidence" /\ OpenDecision(w, row)
           \/ workers[w].held /\ ~ready /\ step \in JobSteps /\ EnqueueStep(w, row)
    /\ UNCHANGED <<Business, faults, holds>>

(* rescheduleOutbox: a transient error before the commit.                  *)
RowFails(w) ==
    /\ workers[w].at = "row" /\ workers[w].held
    /\ PutOff(w)
    /\ Fault
    /\ Keep
    /\ UNCHANGED <<keys, jobs, tasks, Business, holds>>

-----------------------------------------------------------------------------
(* The job lane.                                                           *)

AtJob(w, k) == workers[w].at \in {"job", "ran", "failed"} /\ workers[w].job = k
HoldsJob(w, k) == jobs[k].state = "taken" /\ jobs[k].owner = w
At(w, at) == [workers EXCEPT ![w].at = at]
Became(k, state) == jobs' = [jobs EXCEPT ![k] = [state |-> state, owner |-> Nobody]]

(* claimJobs: nothing of a paused journey, and of a completed one only the *)
(* activation, to be replayed.                                             *)
ClaimJob(w) ==
    /\ workers[w].at = "idle"
    /\ \E k \in DOMAIN jobs :
          /\ jobs[k].state \in {"pending", "retry", "taken"}
          /\ \/ journey.status \notin {"PAUSED", "COMPLETED"}
             \/ journey.status = "COMPLETED" /\ k.step = "activation"
          /\ IF \E u \in Workers : HoldsJob(u, k) /\ AtJob(u, k)
               THEN Fault ELSE UNCHANGED faults
          /\ jobs' = [jobs EXCEPT ![k] = [state |-> "taken", owner |-> w]]
          /\ workers' = [workers EXCEPT ![w] = [Free EXCEPT !.at = "job", !.job = k]]
    /\ Keep
    /\ UNCHANGED <<outbox, later, keys, tasks, Business, holds>>

(* The handlers do not look at the lease: each is a transaction of its own *)
(* and completeJob is the next one.                                        *)
NoEffect(w, at) ==
    /\ workers' = At(w, at)
    /\ Keep
    /\ UNCHANGED <<outbox, keys, made, holds>>

(* evaluatePaymentSettlementJob.                                           *)
EvaluatePayment(w, k) ==
    /\ k.step = "payment"
    /\ \/ journey.step # "payment" /\ NoEffect(w, "ran")
       \/ /\ journey.step = "payment" /\ unpaid = 0
          /\ IF CanMove("payment")
               THEN /\ Complete("payment")
                    /\ Moved(<<Note>>, At(w, "ran"))
                    /\ UNCHANGED <<keys, made, holds>>
               ELSE NoEffect(w, "failed")
       \/ /\ journey.step = "payment" /\ unpaid > 0
          /\ IF journey.stepStatus = "WAITING_CUSTOMER" \/ k \in keys.waits
               THEN NoEffect(w, "ran")
               ELSE IF CanMove("payment")
               THEN /\ Wait("payment", "WAITING_CUSTOMER")
                    /\ keys' = [keys EXCEPT !.waits = @ \cup {k}]
                    /\ Moved(<<Note>>, At(w, "ran"))
                    /\ UNCHANGED <<exceptions, made, holds>>
               ELSE NoEffect(w, "failed")
    /\ UNCHANGED handover

(* createHandoverJob: the work order that there is is returned, and not    *)
(* made again, as in the first form.  The job does not complete the step.  *)
NewHandoversAlways == 1
NewHandovers == IF handover.exists THEN 0 ELSE 1

CreateHandover(w, k) ==
    /\ k.step = "handover"
    /\ \/ /\ journey.step # "handover"
          /\ NoEffect(w, IF steps["handover"] = "COMPLETED" THEN "ran" ELSE "failed")
          /\ UNCHANGED handover
       \/ /\ journey.step = "handover"
          /\ handover' = [handover EXCEPT !.exists = TRUE]
          /\ made' = [made EXCEPT !.handovers = @ + NewHandovers]
          /\ workers' = At(w, "ran")
          /\ Keep /\ UNCHANGED <<outbox, keys, holds>>

(* activateSubscriptionJob: a vehicle under restriction pauses the         *)
(* journey, whatever the review says, because the engine asks for the      *)
(* vehicle first; an operator has it resumed.  A refusal by the evaluation *)
(* may pass: it comes back through Reschedule, and this is the last one.   *)
(* The first form trusts the step for the review of the evidence.          *)
MayActivateByStep == CanMove("activation")
MayActivate == CanMove("activation") /\ handover.review = "approved"

Activate(w, k) ==
    /\ k.step = "activation"
    /\ \/ journey.status = "COMPLETED" /\ NoEffect(w, "ran")
       \/ journey.status # "COMPLETED" /\ ~MayActivate /\ NoEffect(w, "failed")
       \/ /\ MayActivate
          /\ Complete("activation")
          /\ Moved(<<Note, Note>>, At(w, "ran"))
          /\ made' = [made EXCEPT !.activations = @ + 1]
          /\ UNCHANGED <<keys, holds>>
       \/ /\ CanMove("activation")
          /\ holds < MaxHolds /\ holds' = holds + 1
          /\ IF journey.status = "RUNNING"
               THEN /\ journey' = [journey EXCEPT !.status = "PAUSED",
                                                  !.before = "RUNNING"]
                    /\ Moved(<<Note>>, At(w, "ran"))
               ELSE UNCHANGED <<journey, outbox>> /\ workers' = At(w, "failed")
          /\ UNCHANGED <<steps, exceptions, keys, made>>
    /\ UNCHANGED handover

RunJob(w) ==
    /\ workers[w].at = "job"
    /\ LET k == workers[w].job
       IN  EvaluatePayment(w, k) \/ CreateHandover(w, k) \/ Activate(w, k)
    /\ UNCHANGED <<later, jobs, tasks, unpaid, faults>>

(* The handler gives up, with an error that is not to be retried or after  *)
(* its last attempt.                                                       *)
Break(w) ==
    /\ workers[w].at = "job"
    /\ workers' = At(w, "failed")
    /\ Fault
    /\ Keep
    /\ UNCHANGED <<outbox, later, keys, jobs, tasks, Business, holds>>

(* rescheduleJob: the handler fails with an error that may pass.           *)
Reschedule(w) ==
    /\ workers[w].at = "job"
    /\ HoldsJob(w, workers[w].job)
    /\ Became(workers[w].job, "retry")
    /\ workers' = Freed(w)
    /\ Fault
    /\ Keep
    /\ UNCHANGED <<outbox, later, keys, tasks, Business, holds>>

CompleteJob(w) ==
    /\ workers[w].at = "ran"
    /\ LET k == workers[w].job
       IN  IF HoldsJob(w, k) THEN Became(k, "completed") ELSE UNCHANGED jobs
    /\ workers' = Freed(w)
    /\ Keep
    /\ UNCHANGED <<outbox, later, keys, tasks, Business, faults, holds>>

(* deadLetterJob, recordLockedException: an operator has to look at the    *)
(* step, unless the step or the journey is over.  A paused journey stays   *)
(* paused, where the first form forgets what it was before.                *)
ExceptedAsPaused(k) ==
    /\ steps' = [steps EXCEPT ![k.step] = "EXCEPTION"]
    /\ journey' = [journey EXCEPT !.stepStatus = "EXCEPTION",
                                  !.before = journey.status,
                                  !.status = "EXCEPTION"]
Excepted(k) ==
    /\ steps' = [steps EXCEPT ![k.step] = "EXCEPTION"]
    /\ journey' = IF journey.status = "PAUSED"
                    THEN [journey EXCEPT !.stepStatus = "EXCEPTION",
                                         !.before = "EXCEPTION"]
                    ELSE [journey EXCEPT !.stepStatus = "EXCEPTION",
                                         !.status = "EXCEPTION"]

DeadLetterJob(w) ==
    /\ workers[w].at = "failed"
    /\ LET k == workers[w].job
           over == steps[k.step] = "COMPLETED"
       IN  IF HoldsJob(w, k)
             THEN /\ Became(k, "dead")
                  /\ exceptions' = IF over THEN exceptions
                               ELSE Append(exceptions, [job |-> k, open |-> TRUE])
                  /\ IF ~over /\ journey.step = k.step
                       THEN Excepted(k) /\ Moved(<<Note>>, Freed(w))
                       ELSE UNCHANGED <<journey, steps, outbox>> /\ workers' = Freed(w)
             ELSE workers' = Freed(w) /\ Keep /\ UNCHANGED <<outbox, jobs>>
    /\ UNCHANGED <<later, keys, tasks, Business, faults, holds>>

(* The process dies, or its lease lapses before it commits; the row or the *)
(* job stays claimed until another claim takes it.                         *)
Crash(w) ==
    /\ workers[w].at # "idle"
    /\ workers' = Freed(w)
    /\ later' = IF workers[w].at = "row" /\ workers[w].held
                  THEN Append(later, workers[w].row) ELSE later
    /\ Fault
    /\ Keep
    /\ UNCHANGED <<outbox, keys, jobs, tasks, Business, holds>>

Worker(w) ==
    \/ ClaimRow(w) \/ Dispatch(w)
    \/ ClaimJob(w) \/ RunJob(w) \/ CompleteJob(w) \/ DeadLetterJob(w)
Failure(w) == RowFails(w) \/ Break(w) \/ Reschedule(w) \/ Crash(w)
-----------------------------------------------------------------------------
(* The customer, the field and the operators.                              *)

(* settlePaymentOrder settles a bill and records PAYMENT_SETTLED.          *)
Pay ==
    /\ unpaid > 0
    /\ unpaid' = unpaid - 1
    /\ Moved(<<Row("paid", unpaid)>>, workers)
    /\ Keep
    /\ UNCHANGED <<later, keys, jobs, tasks, handover, made, faults, holds>>

(* markOpsReviewPending: the field hands in a package for review, new or   *)
(* the one of the last time.  HANDOVER_EVIDENCE_READY is recorded once for *)
(* each package.                                                           *)
HandIn ==
    /\ handover.exists
    /\ \/ /\ handover.package < MaxPackages
          /\ handover' = [handover EXCEPT !.package = @ + 1, !.review = "pending"]
          /\ Moved(<<Row("ready", handover.package + 1)>>, workers)
       \/ /\ handover.package > 0
          /\ handover' = [handover EXCEPT !.review = "pending"]
          /\ UNCHANGED <<outbox, workers>>
    /\ Keep
    /\ UNCHANGED <<later, keys, jobs, tasks, unpaid, made, faults, holds>>

(* decideJourneyDeliveryEvidence and completeHandoverEvidenceDecision: the *)
(* open task must quote the package under review.                          *)
Decide ==
    /\ handover.review = "pending"
    /\ TaskOf(handover.package) \in OpenTasks
    /\ CanMove("evidence")
    /\ \E decision \in {"APPROVED", "REJECTED"} :
          /\ tasks' = (tasks \ {TaskOf(handover.package)})
                        \cup {[package |-> handover.package, status |-> decision]}
          /\ IF decision = "APPROVED"
               THEN /\ handover' = [handover EXCEPT !.review = "approved"]
                    /\ Complete("evidence")
               ELSE /\ handover' = [handover EXCEPT !.review = "field"]
                    /\ Return /\ UNCHANGED exceptions
    /\ Moved(<<Note, Note>>, workers)
    /\ UNCHANGED <<later, keys, jobs, unpaid, made, faults, holds>>

(* LeaseActivationEngine.activate: an operator activates the lease without *)
(* the job, which finds the journey completed when it comes to run.        *)
ActivateByHand ==
    /\ MayActivate
    /\ Complete("activation")
    /\ made' = [made EXCEPT !.activations = @ + 1]
    /\ Moved(<<Note, Note>>, workers)
    /\ UNCHANGED <<later, keys, jobs, tasks, handover, unpaid, faults, holds>>

(* pauseJourney.                                                           *)
Pause ==
    /\ journey.status \notin {"PAUSED", "COMPLETED"}
    /\ holds < MaxHolds /\ holds' = holds + 1
    /\ journey' = [journey EXCEPT !.status = "PAUSED", !.before = journey.status]
    /\ Moved(<<Note>>, workers)
    /\ UNCHANGED <<steps, later, keys, jobs, exceptions, tasks, Business, faults>>

(* resumeJourney: a step with a job gets another one if it was running.    *)
(* The first form uses the key of the job that the step has had.           *)
ResumeStepKey == Key(journey.step, "step", 0)
ResumeKey == Key(journey.step, "resume", holds)

Resume ==
    /\ journey.status = "PAUSED"
    /\ journey' = [journey EXCEPT !.status = journey.before, !.before = "NONE"]
    /\ jobs' = IF journey.before = "RUNNING" /\ journey.step \in JobSteps
                 THEN Enqueued(ResumeKey)
                 ELSE jobs
    /\ Moved(<<Note>>, workers)
    /\ UNCHANGED <<steps, later, keys, exceptions, tasks, Business, faults, holds>>

(* retryJourney: the job of the latest open exception is scheduled again.  *)
Latest(i) == i \in OpenExceptions /\ \A j \in OpenExceptions : j <= i

Retry ==
    /\ journey.status = "EXCEPTION"
    /\ holds < MaxHolds /\ holds' = holds + 1
    /\ \E i \in DOMAIN exceptions :
          /\ Latest(i)
          /\ LET k == exceptions[i].job
             IN  /\ jobs[k].state = "dead"
                 /\ Became(k, "retry")
                 /\ steps' = [steps EXCEPT ![k.step] = "RETRY_SCHEDULED"]
          /\ exceptions' = [exceptions EXCEPT ![i].open = FALSE]
    /\ journey' = [journey EXCEPT !.status = "RETRY_SCHEDULED",
                                  !.stepStatus = "RETRY_SCHEDULED"]
    /\ Moved(<<Note>>, workers)
    /\ UNCHANGED <<later, keys, tasks, Business, faults>>

Operators ==
    Pay \/ HandIn \/ Decide \/ ActivateByHand \/ Pause \/ Resume \/ Retry

Next == Operators \/ \E w \in Workers : Worker(w) \/ Failure(w)

Spec == Init /\ [][Next]_vars

(* The poll runs again and again; nobody else is bound to act.             *)
FairSpec == Spec /\ WF_vars(\E w \in Workers : Worker(w))

-----------------------------------------------------------------------------
(* Properties.                                                             *)

Before(step) == CASE step = "payment" -> {}
                  [] step = "handover" -> {"payment"}
                  [] step = "evidence" -> {"payment", "handover"}
                  [] step = "activation" -> {"payment", "handover", "evidence"}

(* The journey's row and the rows of its steps tell the same story: the    *)
(* steps before the current one are completed, the current one has the     *)
(* status that the journey quotes, and those after it wait.  Otherwise     *)
(* validateCurrentStep refuses every further move.  A rejection goes back  *)
(* over completed steps, an exception and a retry write both rows, a pause *)
(* neither.                                                                *)
StepsInOrder ==
    /\ \A s \in Before(journey.step) : steps[s] = "COMPLETED"
    /\ journey.stepStatus = steps[journey.step]
    /\ \A s \in Steps \ (Before(journey.step) \cup {journey.step}) :
          steps[s] = "PENDING"

(* A journey in EXCEPTION has an open exception, and the job of each open  *)
(* exception is dead-lettered, which is what retryJourney asks of it: no   *)
(* completion, replay, takeover or second failure leaves the journey in    *)
(* EXCEPTION with nothing that can be retried.                             *)
ExceptionCanBeRetried ==
    /\ "EXCEPTION" \in {journey.status, journey.before} => OpenExceptions # {}
    /\ \A i \in OpenExceptions : jobs[exceptions[i].job].state = "dead"

(* Jobs run again after a crash between a handler and completeJob, after a *)
(* lapsed lease and after a resume: the handover is made once, the lease   *)
(* is activated once.                                                      *)
MadeOnce == made.handovers <= 1 /\ made.activations <= 1

(* A lease is activated only when the first bills are settled and an       *)
(* operator has approved the very package that is under review then: the   *)
(* field may hand in another one between the approval and the activation.  *)
ActivationIsEarned ==
    [][made'.activations > made.activations =>
          /\ unpaid = 0
          /\ [package |-> handover.package, status |-> "APPROVED"] \in tasks]_vars

(* The settled first bills carry the journey on: whichever worker looks,   *)
(* and in whichever order the facts and jobs are taken up, the payment     *)
(* step is left unless somebody pauses it or it needs an operator.         *)
PaidMovesOn ==
    (unpaid = 0 /\ journey.step = "payment")
        ~> (journey.step # "payment" \/ journey.status \in {"PAUSED", "EXCEPTION"})

(* Likewise an approval leads to the activation.                           *)
ApprovedMovesOn ==
    (journey.step = "activation")
        ~> (made.activations = 1 \/ journey.status \in {"PAUSED", "EXCEPTION"})

=============================================================================
