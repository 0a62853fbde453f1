---------------------- MODULE SubscriptionJourneyProofs ----------------------
(***************************************************************************)
(* Theorems about SubscriptionJourney, for any number of workers, bills,   *)
(* packages, faults, pauses and retries.                                   *)
(***************************************************************************)
EXTENDS SubscriptionJourney, SequenceTheorems, TLAPS

USE DEF Steps, StepStatuses, Movable, Resumable, Statuses

(***************************************************************************)
(* The invariant behind the counts and the activation                      *)
(***************************************************************************)

(* The types of what the properties look at; a paused journey remembers    *)
(* what it goes back to.                                                   *)
Typed ==
    /\ journey \in [step : Steps, status : Statuses,
                    stepStatus : StepStatuses, before : Resumable \cup {"NONE"}]
    /\ journey.status = "PAUSED" => journey.before # "NONE"
    /\ steps \in [Steps -> StepStatuses]
    /\ handover \in [exists : BOOLEAN, package : Nat,
                     review : {"field", "pending", "approved"}]
    /\ unpaid \in Nat
    /\ made \in [handovers : Nat, activations : Nat]

(* The payment step is left when the first bills are settled, and never    *)
(* entered again.                                                          *)
PaidInv == journey.step # "payment" => unpaid = 0

(* The review of the work order quotes a task that was approved.           *)
ApprovedInv ==
    handover.review = "approved" =>
        [package |-> handover.package, status |-> "APPROVED"] \in tasks

(* A handover was made when there is one, and an activation when the       *)
(* journey is over, which it is for good.                                  *)
MadeInv ==
    /\ made.handovers = IF handover.exists THEN 1 ELSE 0
    /\ made.activations = IF journey.status = "COMPLETED" THEN 1 ELSE 0
    /\ journey.status = "COMPLETED" =>
          journey.step = "activation" /\ steps["activation"] = "COMPLETED"

JInv == Typed /\ PaidInv /\ ApprovedInv /\ MadeInv

(* An activation that is counted was earned.                               *)
Earned ==
    made'.activations > made.activations =>
        /\ unpaid = 0
        /\ [package |-> handover.package, status |-> "APPROVED"] \in tasks

LEMMA JourneyInit == Init => JInv
BY JourneyAssumption DEF Init, JInv, Typed, PaidInv, ApprovedInv, MadeInv

(***************************************************************************)
(* Steps that concern the journey only                                     *)
(***************************************************************************)

(* What the journey's row may become while nothing else that the           *)
(* properties look at changes.                                             *)
LEMMA JourneyOnly ==
    ASSUME JInv, UNCHANGED <<handover, unpaid, made>>,
           tasks \subseteq tasks',
           journey' \in [step : Steps, status : Statuses \ {"COMPLETED"},
                         stepStatus : StepStatuses, before : Resumable \cup {"NONE"}],
           journey'.status = "PAUSED" => journey'.before # "NONE",
           steps' \in [Steps -> StepStatuses],
           journey.status # "COMPLETED",
           journey'.step # "payment" => unpaid = 0
    PROVE  JInv' /\ Earned
<1>1. Typed'
  BY DEF JInv, Typed
<1>2. PaidInv' /\ ApprovedInv'
  BY DEF JInv, PaidInv, ApprovedInv
<1>3. MadeInv'
  BY DEF JInv, MadeInv
<1>4. Earned
  BY DEF JInv, Typed, Earned
<1> QED BY <1>1, <1>2, <1>3, <1>4 DEF JInv

LEMMA NothingOfConcern ==
    ASSUME JInv, UNCHANGED <<journey, steps, handover, unpaid, made>>, tasks \subseteq tasks'
    PROVE  JInv' /\ Earned
BY DEF JInv, Typed, PaidInv, ApprovedInv, MadeInv, Earned

(* A step that is completed, other than the last one.                      *)
LEMMA CompleteNext ==
    ASSUME JInv, NEW step \in Steps \ {"activation"}, CanMove(step), Complete(step)
    PROVE  /\ journey' \in [step : Steps, status : Statuses \ {"COMPLETED"},
                            stepStatus : StepStatuses, before : Resumable \cup {"NONE"}]
           /\ journey'.status = "RUNNING" /\ journey'.step # "payment"
           /\ steps' \in [Steps -> StepStatuses]
           /\ journey.status # "COMPLETED"
           /\ step # "payment" => unpaid = 0
<1>1. /\ journey' = [journey EXCEPT !.step = NextStep[step], !.status = "RUNNING",
                                    !.stepStatus = "PENDING"]
      /\ steps' = [steps EXCEPT ![step] = "COMPLETED"]
  BY DEF Complete
<1>2. NextStep[step] \in Steps \ {"payment"}
  BY DEF NextStep
<1>3. journey.status # "COMPLETED" /\ journey.step = step
  BY DEF CanMove
<1> HIDE DEF NextStep
<1> QED BY <1>1, <1>2, <1>3 DEF JInv, Typed, PaidInv

(* A step that waits.                                                      *)
LEMMA WaitNext ==
    ASSUME JInv, NEW step \in Steps, NEW status \in {"WAITING_CUSTOMER", "WAITING_MANUAL"},
           CanMove(step), Wait(step, status)
    PROVE  /\ journey' \in [step : Steps, status : Statuses \ {"COMPLETED"},
                            stepStatus : StepStatuses, before : Resumable \cup {"NONE"}]
           /\ journey'.status = status /\ journey'.step = journey.step
           /\ steps' \in [Steps -> StepStatuses]
           /\ journey.status # "COMPLETED"
BY DEF Wait, CanMove, JInv, Typed

(***************************************************************************)
(* The signal lane                                                         *)
(***************************************************************************)

LEMMA DispatchNext ==
    ASSUME JInv, NEW w \in Workers, Dispatch(w)
    PROVE  JInv' /\ Earned
<1>0. UNCHANGED <<handover, unpaid, made>>
  BY DEF Dispatch, Business
<1>1. CASE UNCHANGED <<journey, steps, tasks>>
  BY <1>0, <1>1, NothingOfConcern
<1>2. CASE CanMove("handover") /\ Complete("handover") /\ UNCHANGED tasks
  BY <1>0, <1>2, CompleteNext, JourneyOnly
<1>3. CASE /\ CanMove("evidence") /\ Wait("evidence", "WAITING_MANUAL")
           /\ tasks \subseteq tasks'
  BY <1>0, <1>3, WaitNext, JourneyOnly DEF JInv, PaidInv
<1> QED BY <1>1, <1>2, <1>3 DEF Dispatch, Over, Keep, TakeUpEvidence, OpenDecision, EnqueueStep

(***************************************************************************)
(* The job lane                                                            *)
(***************************************************************************)

LEMMA PaymentNext ==
    ASSUME JInv, NEW w \in Workers, NEW k, EvaluatePayment(w, k), UNCHANGED <<tasks, unpaid>>
    PROVE  JInv' /\ Earned
<1>0. UNCHANGED <<handover, unpaid, made>>
  BY DEF EvaluatePayment, NoEffect
<1>1. CASE Keep
  BY <1>0, <1>1, NothingOfConcern DEF Keep
<1>2. CASE CanMove("payment") /\ Complete("payment") /\ unpaid = 0
  BY <1>0, <1>2, CompleteNext, JourneyOnly
<1>3. CASE CanMove("payment") /\ Wait("payment", "WAITING_CUSTOMER")
  BY <1>0, <1>3, WaitNext, JourneyOnly DEF JInv, PaidInv
<1> QED BY <1>1, <1>2, <1>3 DEF EvaluatePayment, NoEffect

LEMMA HandoverNext ==
    ASSUME JInv, NEW w \in Workers, NEW k, CreateHandover(w, k), UNCHANGED <<tasks, unpaid>>
    PROVE  JInv' /\ Earned
<1>1. CASE UNCHANGED <<handover, made>>
  BY <1>1, NothingOfConcern DEF CreateHandover, NoEffect, Keep
<1>2. CASE /\ handover' = [handover EXCEPT !.exists = TRUE]
           /\ made' = [made EXCEPT !.handovers = @ + NewHandovers]
  <2>1. /\ handover'.exists /\ handover'.package = handover.package
        /\ handover'.review = handover.review
        /\ handover' \in [exists : BOOLEAN, package : Nat,
                          review : {"field", "pending", "approved"}]
    BY <1>2 DEF JInv, Typed
  <2>2. NewHandovers \in Nat /\ made.handovers + NewHandovers = 1
    <3>1. CASE handover.exists
      BY <3>1 DEF NewHandovers, JInv, MadeInv
    <3>2. CASE ~handover.exists
      BY <3>2 DEF NewHandovers, JInv, MadeInv
    <3> QED BY <3>1, <3>2
  <2>3. /\ made' \in [handovers : Nat, activations : Nat]
        /\ made'.handovers = 1 /\ made'.activations = made.activations
    BY <1>2, <2>2 DEF JInv, Typed
  <2>4. UNCHANGED <<journey, steps>>
    BY DEF CreateHandover, NoEffect, Keep
  <2>5. Typed' /\ PaidInv' /\ ApprovedInv'
    BY <2>1, <2>3, <2>4 DEF JInv, Typed, PaidInv, ApprovedInv
  <2>6. MadeInv'
    BY <2>1, <2>3, <2>4 DEF JInv, MadeInv
  <2>7. Earned
    BY <2>3 DEF Earned, JInv, Typed
  <2> QED BY <2>5, <2>6, <2>7 DEF JInv
<1> QED BY <1>1, <1>2 DEF CreateHandover, NoEffect

(* The activation of the lease, by the job or by an operator.              *)
LEMMA ActivatedNext ==
    ASSUME JInv, MayActivate, Complete("activation"), UNCHANGED <<tasks, handover, unpaid>>,
           made' = [made EXCEPT !.activations = @ + 1]
    PROVE  JInv' /\ Earned
<1>1. /\ journey' = [journey EXCEPT !.status = "COMPLETED", !.stepStatus = "COMPLETED"]
      /\ steps' = [steps EXCEPT !["activation"] = "COMPLETED"]
      /\ journey.step = "activation" /\ journey.status # "COMPLETED"
      /\ handover.review = "approved"
  BY DEF Complete, MayActivate, CanMove
<1>2. /\ journey' \in [step : Steps, status : Statuses,
                       stepStatus : StepStatuses, before : Resumable \cup {"NONE"}]
      /\ journey'.status = "COMPLETED" /\ journey'.step = "activation"
  BY <1>1 DEF JInv, Typed
<1>3. steps' \in [Steps -> StepStatuses] /\ steps'["activation"] = "COMPLETED"
  BY <1>1 DEF JInv, Typed
<1>4. made.activations = 0 /\ made.activations \in Nat
  BY <1>1 DEF JInv, MadeInv, Typed
<1>5. /\ made' \in [handovers : Nat, activations : Nat]
      /\ made'.activations = 1 /\ made'.handovers = made.handovers
  BY <1>4 DEF JInv, Typed
<1>6. Typed'
  BY <1>2, <1>3, <1>5 DEF JInv, Typed
<1>7. PaidInv' /\ ApprovedInv'
  BY <1>1, <1>2 DEF JInv, PaidInv, ApprovedInv
<1>8. MadeInv'
  BY <1>2, <1>3, <1>5 DEF JInv, MadeInv
<1>9. Earned
  BY <1>1 DEF Earned, JInv, PaidInv, ApprovedInv
<1> QED BY <1>6, <1>7, <1>8, <1>9 DEF JInv

LEMMA ActivateNext ==
    ASSUME JInv, NEW w \in Workers, NEW k, Activate(w, k), UNCHANGED <<tasks, unpaid>>
    PROVE  JInv' /\ Earned
<1>0. UNCHANGED handover
  BY DEF Activate
<1>1. CASE UNCHANGED <<journey, steps, made>>
  BY <1>0, <1>1, NothingOfConcern
<1>2. CASE MayActivate /\ Complete("activation") /\ made' = [made EXCEPT !.activations = @ + 1]
  BY <1>0, <1>2, ActivatedNext
<1>3. CASE /\ CanMove("activation") /\ UNCHANGED <<steps, made>>
           /\ journey' = [journey EXCEPT !.status = "PAUSED", !.before = "RUNNING"]
  <2>1. /\ journey' \in [step : Steps, status : Statuses \ {"COMPLETED"},
                         stepStatus : StepStatuses, before : Resumable \cup {"NONE"}]
        /\ journey'.before = "RUNNING" /\ journey'.step = journey.step
        /\ journey.status # "COMPLETED"
    BY <1>3 DEF JInv, Typed, CanMove
  <2>2. steps' \in [Steps -> StepStatuses] /\ (journey'.step # "payment" => unpaid = 0)
    BY <1>3, <2>1 DEF JInv, Typed, PaidInv
  <2> QED BY <1>0, <1>3, <2>1, <2>2, JourneyOnly
<1> QED BY <1>1, <1>2, <1>3 DEF Activate, NoEffect, Keep

LEMMA DeadLetterNext ==
    ASSUME JInv, NEW w \in Workers, DeadLetterJob(w)
    PROVE  JInv' /\ Earned
<1>0. UNCHANGED <<tasks, handover, unpaid, made>>
  BY DEF DeadLetterJob, Business
<1>1. CASE UNCHANGED <<journey, steps>>
  BY <1>0, <1>1, NothingOfConcern
<1>2. ASSUME NEW k, steps[k.step] # "COMPLETED", journey.step = k.step, Excepted(k)
      PROVE  JInv' /\ Earned
  <2>1. journey.status # "COMPLETED"
    BY <1>2 DEF JInv, MadeInv
  <2>2. /\ steps' = [steps EXCEPT ![k.step] = "EXCEPTION"]
        /\ journey' = IF journey.status = "PAUSED"
                        THEN [journey EXCEPT !.stepStatus = "EXCEPTION", !.before = "EXCEPTION"]
                        ELSE [journey EXCEPT !.stepStatus = "EXCEPTION", !.status = "EXCEPTION"]
    BY <1>2 DEF Excepted
  <2>3. /\ journey' \in [step : Steps, status : Statuses \ {"COMPLETED"},
                         stepStatus : StepStatuses, before : Resumable \cup {"NONE"}]
        /\ journey'.status = "PAUSED" => journey'.before # "NONE"
        /\ journey'.step = journey.step
    BY <2>1, <2>2 DEF JInv, Typed
  <2>4. steps' \in [Steps -> StepStatuses]
    BY <2>2 DEF JInv, Typed
  <2> QED BY <1>0, <2>1, <2>3, <2>4, JourneyOnly DEF JInv, PaidInv
<1> QED BY <1>1, <1>2 DEF DeadLetterJob, Keep

LEMMA WorkerNext ==
    ASSUME JInv, NEW w \in Workers, Worker(w) \/ Failure(w)
    PROVE  JInv' /\ Earned
<1>1. CASE ClaimRow(w) \/ ClaimJob(w) \/ CompleteJob(w) \/ Failure(w)
  <2>1. UNCHANGED <<journey, steps, tasks, handover, unpaid, made>>
    BY <1>1 DEF ClaimRow, ClaimJob, CompleteJob, Failure, RowFails, Break, Reschedule, Crash,
       Keep, Business
  <2> QED BY <2>1, NothingOfConcern
<1>2. CASE RunJob(w)
  BY <1>2, PaymentNext, HandoverNext, ActivateNext DEF RunJob
<1> QED BY <1>1, <1>2, DispatchNext, DeadLetterNext DEF Worker

(***************************************************************************)
(* The customer, the field and the operators                               *)
(***************************************************************************)

LEMMA DecideNext ==
    ASSUME JInv, Decide
    PROVE  JInv' /\ Earned
<1> DEFINE approved == [package |-> handover.package, status |-> "APPROVED"]
<1>0. CanMove("evidence") /\ UNCHANGED <<unpaid, made>>
  BY DEF Decide
<1>1. journey.step = "evidence" /\ journey.status # "COMPLETED" /\ unpaid = 0
  BY <1>0 DEF CanMove, JInv, PaidInv
<1>2. /\ journey' \in [step : Steps, status : Statuses \ {"COMPLETED"},
                       stepStatus : StepStatuses, before : Resumable \cup {"NONE"}]
      /\ journey'.status = "RUNNING"
      /\ steps' \in [Steps -> StepStatuses]
  <2>1. CASE Complete("evidence")
    BY <1>0, <2>1, CompleteNext
  <2>2. CASE Return
    BY <2>2 DEF Return, JInv, Typed
  <2> QED BY <2>1, <2>2 DEF Decide
<1>3. \/ /\ handover' = [handover EXCEPT !.review = "approved"]
         /\ approved \in tasks'
      \/ handover' = [handover EXCEPT !.review = "field"]
  BY DEF Decide
<1>4. /\ handover' \in [exists : BOOLEAN, package : Nat,
                        review : {"field", "pending", "approved"}]
      /\ handover'.exists = handover.exists /\ handover'.package = handover.package
      /\ handover'.review = "approved" => approved \in tasks'
  BY <1>3 DEF JInv, Typed
<1>5. Typed' /\ PaidInv' /\ ApprovedInv'
  BY <1>0, <1>1, <1>2, <1>4 DEF JInv, Typed, PaidInv, ApprovedInv
<1>6. MadeInv'
  BY <1>0, <1>1, <1>2, <1>4 DEF JInv, MadeInv
<1>7. Earned
  BY <1>0 DEF Earned, JInv, Typed
<1> QED BY <1>5, <1>6, <1>7 DEF JInv

LEMMA OperatorsNext ==
    ASSUME JInv, Operators
    PROVE  JInv' /\ Earned
<1>1. CASE Pay
  <2>1. /\ UNCHANGED <<journey, steps, tasks, handover, made>>
        /\ unpaid > 0 /\ unpaid' = unpaid - 1
    BY <1>1 DEF Pay, Keep
  <2> QED BY <2>1 DEF JInv, Typed, PaidInv, ApprovedInv, MadeInv, Earned
<1>2. CASE HandIn
  <2>1. UNCHANGED <<journey, steps, tasks, unpaid, made>>
    BY <1>2 DEF HandIn, Keep
  <2>2. \/ handover' = [handover EXCEPT !.package = @ + 1, !.review = "pending"]
        \/ handover' = [handover EXCEPT !.review = "pending"]
    BY <1>2 DEF HandIn
  <2>3. /\ handover' \in [exists : BOOLEAN, package : Nat,
                          review : {"field", "pending", "approved"}]
        /\ handover'.exists = handover.exists /\ handover'.review = "pending"
    <3>1. PICK n \in Nat : handover' = [handover EXCEPT !.package = n, !.review = "pending"]
      <4>1. handover.package \in Nat /\ handover.package + 1 \in Nat
        BY DEF JInv, Typed
      <4>2. CASE handover' = [handover EXCEPT !.package = @ + 1, !.review = "pending"]
        BY <4>1, <4>2
      <4>3. CASE handover' = [handover EXCEPT !.review = "pending"]
        <5>1. handover' = [handover EXCEPT !.package = handover.package, !.review = "pending"]
          BY <4>3 DEF JInv, Typed
        <5> QED BY <4>1, <5>1
      <4> QED BY <2>2, <4>2, <4>3
    <3> QED BY <3>1 DEF JInv, Typed
  <2> QED BY <2>1, <2>3 DEF JInv, Typed, PaidInv, ApprovedInv, MadeInv, Earned
<1>3. CASE Pause
  <2>1. /\ UNCHANGED <<steps, tasks, handover, unpaid, made>>
        /\ journey.status \notin {"PAUSED", "COMPLETED"}
        /\ journey' = [journey EXCEPT !.status = "PAUSED", !.before = journey.status]
    BY <1>3 DEF Pause, Business
  <2>2. /\ journey' \in [step : Steps, status : Statuses \ {"COMPLETED"},
                         stepStatus : StepStatuses, before : Resumable \cup {"NONE"}]
        /\ journey'.before # "NONE" /\ journey'.step = journey.step
    BY <2>1 DEF JInv, Typed
  <2>3. steps' \in [Steps -> StepStatuses]
    BY <2>1 DEF JInv, Typed
  <2> QED BY <2>1, <2>2, <2>3, JourneyOnly DEF JInv, PaidInv
<1>4. CASE Resume
  <2>1. /\ UNCHANGED <<steps, tasks, handover, unpaid, made>>
        /\ journey.status = "PAUSED"
        /\ journey' = [journey EXCEPT !.status = journey.before, !.before = "NONE"]
    BY <1>4 DEF Resume, Business
  <2>2. /\ journey' \in [step : Steps, status : Statuses \ {"COMPLETED"},
                         stepStatus : StepStatuses, before : Resumable \cup {"NONE"}]
        /\ journey'.status # "PAUSED" /\ journey'.step = journey.step
    BY <2>1 DEF JInv, Typed
  <2>3. steps' \in [Steps -> StepStatuses]
    BY <2>1 DEF JInv, Typed
  <2> QED BY <2>1, <2>2, <2>3, JourneyOnly DEF JInv, PaidInv
<1>5. CASE Retry
  <2>1. /\ UNCHANGED <<tasks, handover, unpaid, made>>
        /\ journey.status = "EXCEPTION"
        /\ journey' = [journey EXCEPT !.status = "RETRY_SCHEDULED",
                                      !.stepStatus = "RETRY_SCHEDULED"]
        /\ \E k : steps' = [steps EXCEPT ![k.step] = "RETRY_SCHEDULED"]
    BY <1>5 DEF Retry, Business
  <2>2. /\ journey' \in [step : Steps, status : Statuses \ {"COMPLETED"},
                         stepStatus : StepStatuses, before : Resumable \cup {"NONE"}]
        /\ journey'.status # "PAUSED" /\ journey'.step = journey.step
    BY <2>1 DEF JInv, Typed
  <2>3. steps' \in [Steps -> StepStatuses]
    <3>1. PICK k : steps' = [steps EXCEPT ![k.step] = "RETRY_SCHEDULED"]
      BY <2>1
    <3> QED BY <3>1 DEF JInv, Typed
  <2> QED BY <2>1, <2>2, <2>3, JourneyOnly DEF JInv, PaidInv
<1>6. CASE ActivateByHand
  BY <1>6, ActivatedNext DEF ActivateByHand
<1> QED BY <1>1, <1>2, <1>3, <1>4, <1>5, <1>6, DecideNext DEF Operators

LEMMA JourneyStep == JInv /\ [Next]_vars => JInv' /\ [Earned]_vars
<1> SUFFICES ASSUME JInv, [Next]_vars PROVE JInv' /\ Earned
  OBVIOUS
<1>1. CASE UNCHANGED vars
  BY <1>1, NothingOfConcern DEF vars
<1> QED BY <1>1, WorkerNext, OperatorsNext DEF Next

(***************************************************************************)
(* Where a row of the outbox can be                                        *)
(***************************************************************************)

Ready(row) == row.kind = "ready"

(* The rows o of the outbox, those put off l and those in the hands h of   *)
(* the workers are rows of S, and no evidence is announced at two places.  *)
Placed(o, l, h, S) == o \in Seq(S) /\ l \in Seq(S) /\ h \in [Workers -> S]
Once(o, l, h) ==
    /\ \A i, j \in DOMAIN o : Ready(o[i]) /\ o[i] = o[j] => i = j
    /\ \A i, j \in DOMAIN l : Ready(l[i]) /\ l[i] = l[j] => i = j
    /\ \A u, v \in Workers : Ready(h[u]) /\ h[u] = h[v] => u = v
    /\ \A i \in DOMAIN o, j \in DOMAIN l : Ready(o[i]) => o[i] # l[j]
    /\ \A i \in DOMAIN o, w \in Workers : Ready(o[i]) => o[i] # h[w]
    /\ \A i \in DOMAIN l, w \in Workers : Ready(l[i]) => l[i] # h[w]

LEMMA NoteIsNotReady == ~Ready(Note)
BY DEF Ready, Note, Row

(* The rows that were put off, without the one at i.                       *)
Without(s, i) == SubSeq(s, 1, i - 1) \o SubSeq(s, i + 1, Len(s))

LEMMA WithoutProperties ==
    ASSUME NEW S, NEW s \in Seq(S), NEW i \in 1 .. Len(s)
    PROVE  /\ Without(s, i) \in Seq(S)
           /\ DOMAIN Without(s, i) = 1 .. Len(s) - 1
           /\ \A j \in 1 .. Len(s) - 1 :
                 Without(s, i)[j] = IF j < i THEN s[j] ELSE s[j + 1]
<1> DEFINE a == SubSeq(s, 1, i - 1)
           b == SubSeq(s, i + 1, Len(s))
           r == Without(s, i)
<1>1. Len(s) \in Nat /\ i \in Nat /\ i >= 1 /\ i <= Len(s)
  OBVIOUS
<1>2. a \in Seq(S) /\ Len(a) = i - 1 /\ \A j \in 1 .. i - 1 : a[j] = s[j]
  BY <1>1
<1>3. b \in Seq(S) /\ Len(b) = Len(s) - i /\ \A j \in 1 .. Len(s) - i : b[j] = s[j + i]
  BY <1>1
<1>4. r = a \o b
  BY DEF Without
<1> HIDE DEF a, b, r
<1>5. /\ r \in Seq(S) /\ Len(r) = Len(a) + Len(b)
      /\ \A j \in 1 .. Len(a) + Len(b) : r[j] = IF j <= Len(a) THEN a[j] ELSE b[j - Len(a)]
  <2>1. /\ a \o b \in Seq(S)
        /\ Len(a \o b) = Len(a) + Len(b)
        /\ \A j \in 1 .. Len(a) + Len(b) :
              (a \o b)[j] = IF j <= Len(a) THEN a[j] ELSE b[j - Len(a)]
    BY <1>2, <1>3, ConcatProperties, Zenon
  <2> QED BY <1>4, <2>1, Zenon
<1>6. Len(r) = Len(s) - 1 /\ DOMAIN r = 1 .. Len(s) - 1
  BY <1>1, <1>2, <1>3, <1>5
<1>7. ASSUME NEW j \in 1 .. Len(s) - 1 PROVE r[j] = IF j < i THEN s[j] ELSE s[j + 1]
  <2>1. r[j] = IF j <= Len(a) THEN a[j] ELSE b[j - Len(a)]
    BY <1>1, <1>2, <1>3, <1>5
  <2>2. CASE j < i
    BY <1>1, <1>2, <2>1, <2>2
  <2>3. CASE ~(j < i)
    <3>1. r[j] = b[j - (i - 1)] /\ j - (i - 1) \in 1 .. Len(s) - i
      BY <1>1, <1>2, <2>1, <2>3
    <3>2. (j - (i - 1)) + i = j + 1
      BY <1>1
    <3> QED BY <1>3, <2>3, <3>1, <3>2
  <2> QED BY <2>2, <2>3
<1> QED BY <1>5, <1>6, <1>7 DEF r

(* The oldest row is claimed.                                              *)
LEMMA OldestClaimed ==
    ASSUME NEW S, NEW o, NEW l, NEW h, Placed(o, l, h, S), Once(o, l, h),
           o # <<>>, NEW w \in Workers
    PROVE  /\ Placed(Tail(o), l, [h EXCEPT ![w] = Head(o)], S)
           /\ Once(Tail(o), l, [h EXCEPT ![w] = Head(o)])
<1> DEFINE t == Tail(o)
           g == [h EXCEPT ![w] = Head(o)]
<1>1. /\ t \in Seq(S) /\ Head(o) = o[1] /\ 1 \in DOMAIN o
      /\ \A i \in DOMAIN t : t[i] = o[i + 1] /\ i + 1 \in DOMAIN o /\ i \in Nat \ {0}
  BY DEF Placed
<1>2. /\ g \in [Workers -> S] /\ g[w] = o[1]
      /\ \A v \in Workers \ {w} : g[v] = h[v]
  BY <1>1 DEF Placed
<1> HIDE DEF t, g
<1>3. Placed(t, l, g, S)
  BY <1>1, <1>2 DEF Placed
<1>4. \A i, j \in DOMAIN t : Ready(t[i]) /\ t[i] = t[j] => i = j
  BY <1>1 DEF Once
<1>5. \A u, v \in Workers : Ready(g[u]) /\ g[u] = g[v] => u = v
  <2>1. \A v \in Workers : Ready(o[1]) => o[1] # h[v]
    BY <1>1 DEF Once
  <2> QED BY <1>2, <2>1 DEF Once
<1>6. \A i \in DOMAIN t : Ready(t[i]) =>
         (\A j \in DOMAIN l : t[i] # l[j]) /\ (\A v \in Workers : t[i] # g[v])
  BY <1>1, <1>2 DEF Once
<1>7. \A i \in DOMAIN l, v \in Workers : Ready(l[i]) => l[i] # g[v]
  BY <1>1, <1>2 DEF Once
<1>8. Once(t, l, g)
  BY <1>4, <1>5, <1>6, <1>7 DEF Once
<1> QED BY <1>3, <1>8 DEF t, g

(* A row that was put off is claimed.                                      *)
LEMMA LaterClaimed ==
    ASSUME NEW S, NEW o, NEW l, NEW h, Placed(o, l, h, S), Once(o, l, h),
           NEW i \in 1 .. Len(l), NEW w \in Workers
    PROVE  /\ Placed(o, Without(l, i), [h EXCEPT ![w] = l[i]], S)
           /\ Once(o, Without(l, i), [h EXCEPT ![w] = l[i]])
<1> DEFINE g == [h EXCEPT ![w] = l[i]]
           r == Without(l, i)
<1>0. /\ r \in Seq(S) /\ DOMAIN r = 1 .. Len(l) - 1
      /\ \A j \in 1 .. Len(l) - 1 : r[j] = IF j < i THEN l[j] ELSE l[j + 1]
      /\ Len(l) \in Nat /\ DOMAIN l = 1 .. Len(l) /\ i \in Nat /\ i \in DOMAIN l /\ l[i] \in S
  <2> SUFFICES ASSUME l \in Seq(S)
               PROVE  /\ r \in Seq(S) /\ DOMAIN r = 1 .. Len(l) - 1
                      /\ \A j \in 1 .. Len(l) - 1 : r[j] = IF j < i THEN l[j] ELSE l[j + 1]
                      /\ Len(l) \in Nat /\ DOMAIN l = 1 .. Len(l) /\ i \in Nat
                      /\ i \in DOMAIN l /\ l[i] \in S
    BY DEF Placed
  <2> HIDE DEF r
  <2>1. Len(l) \in Nat /\ DOMAIN l = 1 .. Len(l) /\ i \in Nat /\ i \in DOMAIN l /\ l[i] \in S
    OBVIOUS
  <2> QED BY <2>1, WithoutProperties DEF r
<1> HIDE DEF r
<1>1. PICK from \in [DOMAIN r -> DOMAIN l \ {i}] :
         /\ \A j \in DOMAIN r : r[j] = l[from[j]]
         /\ \A j, k \in DOMAIN r : from[j] = from[k] => j = k
  <2> DEFINE f == [j \in DOMAIN r |-> IF j < i THEN j ELSE j + 1]
  <2>1. f \in [DOMAIN r -> DOMAIN l \ {i}]
    BY <1>0
  <2>2. \A j \in DOMAIN r : f[j] = IF j < i THEN j ELSE j + 1
    OBVIOUS
  <2> HIDE DEF f
  <2>3. \A j \in DOMAIN r : r[j] = l[f[j]]
    BY <1>0, <2>2
  <2>4. \A j, k \in DOMAIN r : f[j] = f[k] => j = k
    BY <1>0, <2>2
  <2> QED BY <2>1, <2>3, <2>4
<1>2. r \in Seq(S) /\ i \in DOMAIN l /\ l[i] \in S
  BY <1>0
<1>3. /\ g \in [Workers -> S] /\ g[w] = l[i]
      /\ \A v \in Workers \ {w} : g[v] = h[v]
  BY <1>2 DEF Placed
<1> HIDE DEF g
<1>4. \A j \in DOMAIN r : from[j] \in DOMAIN l /\ from[j] # i
  BY <1>1
<1>5. \A j, k \in DOMAIN r : Ready(r[j]) /\ r[j] = r[k] => j = k
  BY <1>1, <1>4 DEF Once
<1>6. \A u, v \in Workers : Ready(g[u]) /\ g[u] = g[v] => u = v
  <2>1. \A v \in Workers : Ready(l[i]) => l[i] # h[v]
    BY <1>2 DEF Once
  <2> QED BY <1>3, <2>1 DEF Once
<1>7. \A j \in DOMAIN o : Ready(o[j]) =>
         (\A k \in DOMAIN r : o[j] # r[k]) /\ (\A v \in Workers : o[j] # g[v])
  BY <1>1, <1>2, <1>3, <1>4 DEF Once
<1>8. \A j \in DOMAIN r, v \in Workers : Ready(r[j]) => r[j] # g[v]
  BY <1>1, <1>2, <1>3, <1>4 DEF Once
<1>9. Once(o, r, g)
  BY <1>5, <1>6, <1>7, <1>8 DEF Once
<1> QED BY <1>2, <1>3, <1>9 DEF Placed, g, r

(* A row passes to the worker that takes its lease over.                   *)
LEMMA LeaseClaimed ==
    ASSUME NEW S, NEW o, NEW l, NEW h, Placed(o, l, h, S), Once(o, l, h), Note \in S,
           NEW w \in Workers, NEW u \in Workers \ {w}
    PROVE  /\ Placed(o, l, [h EXCEPT ![w] = h[u], ![u] = Note], S)
           /\ Once(o, l, [h EXCEPT ![w] = h[u], ![u] = Note])
<1> DEFINE g == [h EXCEPT ![w] = h[u], ![u] = Note]
<1>1. /\ g \in [Workers -> S] /\ g[w] = h[u] /\ g[u] = Note
      /\ \A v \in Workers \ {w, u} : g[v] = h[v]
  BY DEF Placed
<1> HIDE DEF g
<1>2. \A x, y \in Workers : Ready(g[x]) /\ g[x] = g[y] => x = y
  BY <1>1, NoteIsNotReady DEF Once
<1>3. \A i \in DOMAIN o, v \in Workers : Ready(o[i]) => o[i] # g[v]
  BY <1>1, NoteIsNotReady DEF Once
<1>4. \A i \in DOMAIN l, v \in Workers : Ready(l[i]) => l[i] # g[v]
  BY <1>1, NoteIsNotReady DEF Once
<1> QED BY <1>1, <1>2, <1>3, <1>4 DEF Placed, Once, g

(* A row is put off, or left by a crash.                                   *)
LEMMA RowPutOff ==
    ASSUME NEW S, NEW o, NEW l, NEW h, Placed(o, l, h, S), Once(o, l, h), Note \in S,
           NEW w \in Workers
    PROVE  /\ Placed(o, Append(l, h[w]), [h EXCEPT ![w] = Note], S)
           /\ Once(o, Append(l, h[w]), [h EXCEPT ![w] = Note])
<1> DEFINE g == [h EXCEPT ![w] = Note]
           r == Append(l, h[w])
           n == Len(l) + 1
<1>1. /\ g \in [Workers -> S] /\ g[w] = Note
      /\ \A v \in Workers \ {w} : g[v] = h[v]
  BY DEF Placed
<1>2. /\ r \in Seq(S) /\ DOMAIN r = DOMAIN l \cup {n} /\ r[n] = h[w] /\ n \notin DOMAIN l
      /\ \A i \in DOMAIN l : r[i] = l[i]
  BY DEF Placed
<1> HIDE DEF g, r, n
<1>3. \A i, j \in DOMAIN r : Ready(r[i]) /\ r[i] = r[j] => i = j
  BY <1>2 DEF Once
<1>4. \A x, y \in Workers : Ready(g[x]) /\ g[x] = g[y] => x = y
  BY <1>1, NoteIsNotReady DEF Once
<1>5. \A i \in DOMAIN o : Ready(o[i]) =>
         (\A j \in DOMAIN r : o[i] # r[j]) /\ (\A v \in Workers : o[i] # g[v])
  BY <1>1, <1>2, NoteIsNotReady DEF Once
<1>6. \A i \in DOMAIN r, v \in Workers : Ready(r[i]) => r[i] # g[v]
  BY <1>1, <1>2, NoteIsNotReady DEF Once
<1>7. Placed(o, r, g, S)
  BY <1>1, <1>2 DEF Placed
<1>8. Once(o, r, g)
  BY <1>3, <1>4, <1>5, <1>6 DEF Once
<1> QED BY <1>7, <1>8 DEF r, g

(* Workers let go of their rows.                                           *)
LEMMA RowsDropped ==
    ASSUME NEW S, NEW o, NEW l, NEW h, Placed(o, l, h, S), Once(o, l, h), Note \in S,
           NEW g, g = [v \in Workers |-> g[v]],
           \A v \in Workers : g[v] = h[v] \/ g[v] = Note
    PROVE  Placed(o, l, g, S) /\ Once(o, l, g)
<1>1. \A x, y \in Workers : Ready(g[x]) /\ g[x] = g[y] => x = y
  BY NoteIsNotReady DEF Once
<1>2. \A i \in DOMAIN o, v \in Workers : Ready(o[i]) => o[i] # g[v]
  BY NoteIsNotReady DEF Once
<1>3. \A i \in DOMAIN l, v \in Workers : Ready(l[i]) => l[i] # g[v]
  BY NoteIsNotReady DEF Once
<1>4. g \in [Workers -> S]
  BY DEF Placed
<1> QED BY <1>1, <1>2, <1>3, <1>4 DEF Placed, Once

(* Rows join the outbox that announce no evidence.                         *)
LEMMA RowsAdded ==
    ASSUME NEW S, NEW o, NEW l, NEW h, Placed(o, l, h, S), Once(o, l, h),
           NEW r \in Seq(S), \A i \in DOMAIN r : ~Ready(r[i])
    PROVE  Placed(o \o r, l, h, S) /\ Once(o \o r, l, h)
<1> DEFINE p == o \o r
<1>1. /\ p \in Seq(S)
      /\ \A i \in DOMAIN p : IF i \in DOMAIN o THEN p[i] = o[i] ELSE ~Ready(p[i])
  BY DEF Placed
<1> HIDE DEF p
<1>2. Once(p, l, h)
  BY <1>1 DEF Once
<1> QED BY <1>1, <1>2 DEF Placed, p

(* A row joins the outbox that is nowhere yet.                             *)
LEMMA NewRowAdded ==
    ASSUME NEW S, NEW o, NEW l, NEW h, Placed(o, l, h, S), Once(o, l, h), NEW x, x \notin S
    PROVE  Placed(o \o <<x>>, l, h, S \cup {x}) /\ Once(o \o <<x>>, l, h)
<1> DEFINE p == o \o <<x>>
           n == Len(o) + 1
<1>1. /\ p \in Seq(S \cup {x}) /\ DOMAIN p = DOMAIN o \cup {n} /\ p[n] = x
      /\ n \notin DOMAIN o
      /\ \A i \in DOMAIN o : p[i] = o[i] /\ o[i] # x
  BY DEF Placed
<1>2. /\ \A i \in DOMAIN l : l[i] # x
      /\ \A w \in Workers : h[w] # x
  BY DEF Placed
<1> HIDE DEF p, n
<1>3. Once(p, l, h)
  BY <1>1, <1>2 DEF Once
<1>4. l \in Seq(S \cup {x}) /\ h \in [Workers -> S \cup {x}]
  BY DEF Placed
<1> QED BY <1>1, <1>3, <1>4 DEF Placed, p

(* A row that only one worker holds is gone when the worker lets it go.    *)
LEMMA RowGone ==
    ASSUME NEW S, NEW o, NEW l, NEW h, Placed(o, l, h, S), Once(o, l, h), Note \in S,
           NEW w \in Workers, Ready(h[w])
    PROVE  Placed(o, l, [h EXCEPT ![w] = Note], S \ {h[w]})
<1> DEFINE g == [h EXCEPT ![w] = Note]
<1>1. /\ g[w] = Note /\ g = [v \in Workers |-> g[v]]
      /\ \A v \in Workers \ {w} : g[v] = h[v] /\ h[v] \in S /\ h[v] # h[w]
  BY DEF Placed, Once
<1>2. g \in [Workers -> S \ {h[w]}]
  BY <1>1, NoteIsNotReady
<1>3. o \in Seq(S \ {h[w]})
  BY DEF Placed, Once
<1>4. l \in Seq(S \ {h[w]})
  BY DEF Placed, Once
<1> QED BY <1>2, <1>3, <1>4 DEF Placed, g

(***************************************************************************)
(* What else an exception that can be retried rests on                     *)
(***************************************************************************)

Reached(step) == Before(step) \cup {step}

Slot == [at : {"idle", "row", "job", "ran", "failed"}, row : Rows,
         held : BOOLEAN, step : Steps, fresh : BOOLEAN, job : Keys]
JobRow == [state : {"pending", "retry", "taken", "completed", "dead"},
           owner : Workers \cup {Nobody}]

(* The types of the rest of the state.                                     *)
OthersTyped ==
    /\ keys \in [waits : SUBSET Keys, opened : BOOLEAN, handover : {0} \cup Packages]
    /\ tasks \subseteq [package : Packages, status : {"OPEN", "APPROVED", "REJECTED"}]
    /\ handover.package \in {0} \cup Packages
    /\ unpaid \in 0 .. InitialBills
    /\ faults \in 0 .. MaxFaults
    /\ holds \in 0 .. MaxHolds
SlotsTyped == workers \in [Workers -> Slot]
JobsTyped == DOMAIN jobs \subseteq Keys /\ jobs \in [DOMAIN jobs -> JobRow]

(* The rows that can be about: what is announced as ready was handed in    *)
(* and has not completed the handover.                                     *)
KnownRows == {row \in Rows :
    /\ Ready(row) => row.n \in 1 .. handover.package /\ row.n # keys.handover
    /\ row.kind = "completed" => row.n \in Packages}

Hands(ws) == [w \in Workers |-> IF ws[w].held THEN ws[w].row ELSE Note]
RowsInv ==
    /\ Placed(outbox, later, Hands(workers), KnownRows)
    /\ Once(outbox, later, Hands(workers))
    /\ keys.handover <= handover.package

OrderInv == StepsInOrder /\ (journey.status # "PAUSED" => journey.before = "NONE")

(* Jobs, and what a dispatch has read, are of the steps reached.           *)
ReachedInv ==
    /\ \A w \in Workers :
          /\ workers[w].at \in {"job", "ran", "failed"} => workers[w].job \in DOMAIN jobs
          /\ workers[w].step \in JobSteps => workers[w].step \in Reached(journey.step)
    /\ \A k \in DOMAIN jobs : k.step \in Reached(journey.step)

(* The open exceptions are of the current step, each of a job of its own.  *)
ExceptionsInv ==
    /\ exceptions \in Seq([job : DOMAIN jobs, open : BOOLEAN])
    /\ \A i \in OpenExceptions : exceptions[i].job.step = journey.step
    /\ \A i, j \in OpenExceptions : exceptions[i].job = exceptions[j].job => i = j
    /\ ExceptionCanBeRetried

Typing == OthersTyped /\ SlotsTyped /\ JobsTyped

(* A completion closes every open exception, because all of them are of    *)
(* the step that it leaves; a retry wakes one job, because each is of a    *)
(* job of its own; a job that fails at a step that is not over fails at    *)
(* the current one; and evidence is taken up once.                         *)
IInv == JInv /\ Typing /\ RowsInv /\ OrderInv /\ ReachedInv /\ ExceptionsInv

LEMMA TypingImplies == IInv => TypeOK
<1> SUFFICES ASSUME IInv PROVE TypeOK
  OBVIOUS
<1>1. outbox \in Seq(Rows) /\ later \in Seq(Rows)
  BY DEF IInv, RowsInv, Placed, KnownRows
<1>2. /\ journey \in [step : Steps, status : Statuses,
                      stepStatus : StepStatuses, before : Resumable \cup {"NONE"}]
      /\ steps \in [Steps -> StepStatuses]
      /\ made \in [handovers : Nat, activations : Nat]
  BY DEF IInv, JInv, Typed
<1>3. handover \in [exists : BOOLEAN, package : {0} \cup Packages,
                    review : {"field", "pending", "approved"}]
  BY DEF IInv, JInv, Typed, Typing, OthersTyped
<1>4. /\ DOMAIN jobs \subseteq Keys
      /\ \A k \in DOMAIN jobs : jobs[k] \in JobRow
      /\ exceptions \in Seq([job : DOMAIN jobs, open : BOOLEAN])
  BY DEF IInv, Typing, JobsTyped, ExceptionsInv
<1>5. workers \in [Workers -> Slot]
  BY DEF IInv, Typing, SlotsTyped
<1> QED BY <1>1, <1>2, <1>3, <1>4, <1>5 DEF TypeOK, IInv, Typing, OthersTyped, JobRow, Slot

LEMMA FreeIsSlot == Free \in Slot /\ Note \in Rows /\ Free.row = Note
BY JourneyAssumption DEF Free, Slot, Note, Row, Rows, Key, Keys, JobSteps

LEMMA NoteIsKnown == Note \in KnownRows
BY JourneyAssumption DEF Note, Row, Rows, KnownRows, Ready

LEMMA IInvInit == Init => IInv
<1> SUFFICES ASSUME Init PROVE IInv
  OBVIOUS
<1>1. JInv
  BY JourneyInit
<1>2. Typing
  <2>1. OthersTyped
    BY JourneyAssumption DEF Init, OthersTyped
  <2>2. SlotsTyped
    BY FreeIsSlot DEF Init, SlotsTyped
  <2>3. JobsTyped
    BY DEF Init, JobsTyped
  <2> QED BY <2>1, <2>2, <2>3 DEF Typing
<1>3. RowsInv
  <2>1. Hands(workers) = [w \in Workers |-> Note]
    BY DEF Init, Hands, Free
  <2>2. outbox \in Seq(KnownRows) /\ later \in Seq(KnownRows)
    BY NoteIsKnown DEF Init
  <2>3. Placed(outbox, later, Hands(workers), KnownRows)
    BY <2>1, <2>2, NoteIsKnown DEF Placed
  <2>4. Once(outbox, later, Hands(workers))
    <3>1. DOMAIN outbox = {1} /\ outbox[1] = Note /\ DOMAIN later = {}
      BY DEF Init
    <3> QED BY <2>1, <3>1, NoteIsNotReady DEF Once
  <2>5. keys.handover <= handover.package
    BY DEF Init
  <2> QED BY <2>3, <2>4, <2>5 DEF RowsInv
<1>4. OrderInv
  BY DEF Init, OrderInv, StepsInOrder, Before
<1>5. DOMAIN jobs = {} /\ DOMAIN exceptions = {}
  BY DEF Init
<1>6. ReachedInv
  BY <1>5 DEF Init, ReachedInv, Reached, Free
<1>7. ExceptionsInv
  <2>1. exceptions \in Seq([job : DOMAIN jobs, open : BOOLEAN])
    BY DEF Init
  <2>2. OpenExceptions = {}
    BY <1>5 DEF OpenExceptions
  <2> QED BY <2>1, <2>2 DEF Init, ExceptionsInv, ExceptionCanBeRetried
<1> QED BY <1>1, <1>2, <1>3, <1>4, <1>6, <1>7 DEF IInv

(***************************************************************************)
(* The steps are in order                                                  *)
(***************************************************************************)

(* A status of the current step, which the journey quotes.                 *)
LEMMA CurrentChanges ==
    ASSUME IInv, NEW status \in StepStatuses,
           journey'.step = journey.step, journey'.stepStatus = status,
           steps' = [steps EXCEPT ![journey.step] = status],
           journey'.status # "PAUSED" => journey'.before = "NONE"
    PROVE  OrderInv'
<1>1. journey.step \in Steps /\ steps \in [Steps -> StepStatuses] /\ StepsInOrder
  BY DEF IInv, JInv, Typed, OrderInv
<1>2. journey.step \notin Before(journey.step)
  BY <1>1 DEF Before
<1> QED BY <1>1, <1>2 DEF OrderInv, StepsInOrder

LEMMA SameSteps ==
    ASSUME IInv, steps' = steps, journey'.step = journey.step,
           journey'.stepStatus = journey.stepStatus,
           journey'.status # "PAUSED" => journey'.before = "NONE"
    PROVE  OrderInv'
BY DEF IInv, OrderInv, StepsInOrder

LEMMA CompleteOrder ==
    ASSUME IInv, NEW step \in Steps, CanMove(step), Complete(step)
    PROVE  OrderInv'
<1>1. /\ journey.step = step /\ journey.status \notin {"PAUSED", "COMPLETED"}
      /\ journey.before = "NONE" /\ StepsInOrder
      /\ steps \in [Steps -> StepStatuses] /\ journey = [journey EXCEPT !.step = step]
  BY DEF CanMove, IInv, OrderInv, JInv, Typed
<1>2. CASE step = "activation"
  <2>1. /\ journey'.step = journey.step /\ journey'.stepStatus = "COMPLETED"
        /\ journey'.before = "NONE"
        /\ steps' = [steps EXCEPT ![journey.step] = "COMPLETED"]
    BY <1>1, <1>2 DEF Complete, IInv, JInv, Typed
  <2> QED BY <2>1, CurrentChanges
<1>3. CASE step # "activation"
  <2>1. /\ journey' = [journey EXCEPT !.step = NextStep[step], !.status = "RUNNING",
                                      !.stepStatus = "PENDING"]
        /\ steps' = [steps EXCEPT ![step] = "COMPLETED"]
    BY <1>3 DEF Complete
  <2>2. /\ journey'.step = NextStep[step] /\ journey'.stepStatus = "PENDING"
        /\ journey'.before = "NONE"
    BY <1>1, <2>1 DEF IInv, JInv, Typed
  <2>3. /\ Before(NextStep[step]) = Before(step) \cup {step} /\ NextStep[step] \in Steps
        /\ NextStep[step] \notin Before(step) \cup {step}
    BY <1>3 DEF Before, NextStep
  <2>4. /\ \A s \in Before(step) \cup {step} : steps'[s] = "COMPLETED"
        /\ \A s \in Steps \ (Before(step) \cup {step}) : steps'[s] = "PENDING"
    <3>1. Before(step) \subseteq Steps
      BY DEF Before
    <3> QED BY <1>1, <2>1, <3>1 DEF StepsInOrder
  <2> QED BY <2>2, <2>3, <2>4 DEF OrderInv, StepsInOrder
<1> QED BY <1>2, <1>3

LEMMA WaitOrder ==
    ASSUME IInv, NEW step \in Steps, NEW status \in {"WAITING_CUSTOMER", "WAITING_MANUAL"},
           CanMove(step), Wait(step, status)
    PROVE  OrderInv'
<1>1. /\ journey'.step = journey.step /\ journey'.stepStatus = status
      /\ journey'.before = "NONE" /\ journey.step = step
      /\ steps' = [steps EXCEPT ![journey.step] = status]
  BY DEF Wait, CanMove, IInv, OrderInv, JInv, Typed
<1> QED BY <1>1, CurrentChanges

LEMMA ReturnOrder ==
    ASSUME IInv, CanMove("evidence"), Return
    PROVE  OrderInv'
<1>1. /\ journey.step = "evidence" /\ journey'.step = "handover"
      /\ journey'.stepStatus = "RUNNING" /\ journey'.before = "NONE"
      /\ steps \in [Steps -> StepStatuses] /\ StepsInOrder
      /\ steps' = [steps EXCEPT !["handover"] = "RUNNING", !["evidence"] = "PENDING"]
  BY DEF Return, CanMove, IInv, OrderInv, JInv, Typed
<1>2. /\ steps'["payment"] = "COMPLETED" /\ steps'["handover"] = "RUNNING"
      /\ steps'["evidence"] = "PENDING" /\ steps'["activation"] = "PENDING"
  BY <1>1 DEF StepsInOrder, Before
<1> QED BY <1>1, <1>2 DEF OrderInv, StepsInOrder, Before

LEMMA ExceptedOrder ==
    ASSUME IInv, NEW k, journey.step = k.step, Excepted(k)
    PROVE  OrderInv'
<1>1. /\ journey'.step = journey.step /\ journey'.stepStatus = "EXCEPTION"
      /\ steps' = [steps EXCEPT ![journey.step] = "EXCEPTION"]
      /\ journey'.status # "PAUSED" => journey'.before = "NONE"
  BY DEF Excepted, IInv, OrderInv, JInv, Typed
<1> QED BY <1>1, CurrentChanges

LEMMA RetryOrder ==
    ASSUME IInv, Retry
    PROVE  OrderInv'
<1>1. PICK i \in OpenExceptions : steps' = [steps EXCEPT ![exceptions[i].job.step] = "RETRY_SCHEDULED"]
  BY DEF Retry, Latest
<1>2. exceptions[i].job.step = journey.step
  BY DEF IInv, ExceptionsInv
<1>3. /\ journey'.step = journey.step /\ journey'.stepStatus = "RETRY_SCHEDULED"
      /\ journey'.before = "NONE"
  BY DEF Retry, IInv, OrderInv, JInv, Typed
<1> QED BY <1>1, <1>2, <1>3, CurrentChanges

LEMMA OrderNext ==
    ASSUME IInv, [Next]_vars
    PROVE  OrderInv'
<1>1. CASE UNCHANGED <<journey, steps>>
  BY <1>1 DEF IInv, OrderInv, StepsInOrder
<1>2. ASSUME NEW w \in Workers, Dispatch(w) PROVE OrderInv'
  BY <1>1, <1>2, CompleteOrder, WaitOrder
     DEF Dispatch, Keep, TakeUpEvidence, OpenDecision, EnqueueStep
<1>3. ASSUME NEW w \in Workers, RunJob(w) PROVE OrderInv'
  <2>1. ASSUME NEW k, EvaluatePayment(w, k) PROVE OrderInv'
    BY <1>1, <2>1, CompleteOrder, WaitOrder DEF EvaluatePayment, NoEffect, Keep
  <2>2. ASSUME NEW k, CreateHandover(w, k) PROVE OrderInv'
    BY <1>1, <2>2 DEF CreateHandover, NoEffect, Keep
  <2>3. ASSUME NEW k, Activate(w, k) PROVE OrderInv'
    <3>1. CASE MayActivate /\ Complete("activation")
      BY <3>1, CompleteOrder DEF MayActivate
    <3>2. CASE journey' = [journey EXCEPT !.status = "PAUSED", !.before = "RUNNING"]
               /\ UNCHANGED steps
      <4>1. /\ journey'.step = journey.step /\ journey'.stepStatus = journey.stepStatus
            /\ journey'.status = "PAUSED"
        BY <3>2 DEF IInv, JInv, Typed
      <4> QED BY <3>2, <4>1, SameSteps
    <3> QED BY <1>1, <2>3, <3>1, <3>2 DEF Activate, NoEffect, Keep
  <2> QED BY <1>3, <2>1, <2>2, <2>3 DEF RunJob
<1>4. ASSUME NEW w \in Workers, DeadLetterJob(w) PROVE OrderInv'
  BY <1>1, <1>4, ExceptedOrder DEF DeadLetterJob, Keep
<1>5. ASSUME NEW w \in Workers,
             ClaimRow(w) \/ ClaimJob(w) \/ CompleteJob(w) \/ Failure(w)
      PROVE  OrderInv'
  BY <1>1, <1>5 DEF ClaimRow, ClaimJob, CompleteJob, Failure, RowFails, Break, Reschedule,
     Crash, Keep
<1>6. CASE Pay \/ HandIn
  BY <1>1, <1>6 DEF Pay, HandIn, Keep
<1>7. CASE Decide
  BY <1>7, CompleteOrder, ReturnOrder DEF Decide
<1>8. CASE Pause
  <2>1. /\ journey'.step = journey.step /\ journey'.stepStatus = journey.stepStatus
        /\ journey'.status = "PAUSED" /\ UNCHANGED steps
    BY <1>8 DEF Pause, IInv, JInv, Typed
  <2> QED BY <2>1, SameSteps
<1>9. CASE Resume
  <2>1. /\ journey'.step = journey.step /\ journey'.stepStatus = journey.stepStatus
        /\ journey'.before = "NONE" /\ UNCHANGED steps
    BY <1>9 DEF Resume, IInv, JInv, Typed
  <2> QED BY <2>1, SameSteps
<1>10. CASE UNCHANGED vars
  BY <1>1, <1>10 DEF vars
<1>11. CASE ActivateByHand
  BY <1>11, CompleteOrder DEF ActivateByHand, MayActivate
<1> QED BY <1>2, <1>3, <1>4, <1>5, <1>6, <1>7, <1>8, <1>9, <1>10, <1>11, RetryOrder
        DEF Next, Operators, Worker

(***************************************************************************)
(* What becomes of the workers                                             *)
(***************************************************************************)

LEMMA SlotForms ==
    ASSUME SlotsTyped, NEW w \in Workers
    PROVE  /\ Freed(w) \in [Workers -> Slot]
           /\ \A at \in {"row", "job", "ran", "failed"} : At(w, at) \in [Workers -> Slot]
<1>1. \A at \in {"row", "job", "ran", "failed"} : [workers[w] EXCEPT !.at = at] \in Slot
  BY DEF SlotsTyped, Slot
<1>2. Freed(w) \in [Workers -> Slot]
  BY FreeIsSlot DEF SlotsTyped, Freed
<1> QED BY <1>1, <1>2 DEF SlotsTyped, At

(* A transition lets every dispatch know that the version has moved, and   *)
(* leaves the workers as they are otherwise.                               *)
LEMMA MovedSlots ==
    ASSUME NEW rows, NEW ws \in [Workers -> Slot], Moved(rows, ws)
    PROVE  /\ workers' \in [Workers -> Slot]
           /\ \A w \in Workers :
                 /\ workers'[w].at = ws[w].at /\ workers'[w].row = ws[w].row
                 /\ workers'[w].held = ws[w].held /\ workers'[w].step = ws[w].step
                 /\ workers'[w].job = ws[w].job
           /\ Hands(workers') = Hands(ws)
<1> DEFINE moved(w) == IF ws[w].at = "row" THEN [ws[w] EXCEPT !.fresh = FALSE] ELSE ws[w]
<1>1. workers' = [w \in Workers |-> moved(w)]
  BY DEF Moved
<1>2. ASSUME NEW w \in Workers
      PROVE  /\ moved(w) \in Slot
             /\ moved(w).at = ws[w].at /\ moved(w).row = ws[w].row
             /\ moved(w).held = ws[w].held /\ moved(w).step = ws[w].step
             /\ moved(w).job = ws[w].job
  <2>1. ws[w] \in Slot
    OBVIOUS
  <2> QED BY <2>1 DEF Slot
<1> HIDE DEF moved
<1>3. \A w \in Workers : workers'[w] = moved(w)
  BY <1>1
<1> QED BY <1>1, <1>2, <1>3 DEF Hands

LEMMA HoldingSlots ==
    ASSUME JInv, SlotsTyped, NEW w \in Workers, NEW row \in Rows
    PROVE  /\ Holding(w, row) \in Slot
           /\ Holding(w, row).held /\ Holding(w, row).row = row
           /\ Holding(w, row).at = "row" /\ Holding(w, row).step = journey.step
<1>1. journey.step \in Steps
  BY DEF JInv, Typed
<1> QED BY <1>1, FreeIsSlot DEF Holding, Free, Slot

(* A worker is let go, claims a row or a job, or moves on with its job.    *)
LEMMA SlotsNext ==
    ASSUME IInv, [Next]_vars
    PROVE  SlotsTyped'
<1> USE DEF SlotsTyped
<1>0. SlotsTyped /\ JInv
  BY DEF IInv, Typing
<1>1. ASSUME NEW w \in Workers, ClaimRow(w) PROVE SlotsTyped'
  <2>1. CASE outbox # <<>> /\ workers' = [workers EXCEPT ![w] = Holding(w, Head(outbox))]
    <3>1. Head(outbox) \in Rows
      <4>1. outbox \in Seq(Rows)
        BY TypingImplies DEF TypeOK
      <4> QED BY <2>1, <4>1
    <3> QED BY <1>0, <2>1, <3>1, HoldingSlots
  <2>2. CASE \E i \in 1 .. Len(later) : workers' = [workers EXCEPT ![w] = Holding(w, later[i])]
    <3>1. \A i \in 1 .. Len(later) : later[i] \in Rows
      BY TypingImplies DEF TypeOK
    <3> QED BY <1>0, <2>2, <3>1, HoldingSlots
  <2>3. CASE \E u \in Workers \ {w} :
                workers' = [workers EXCEPT ![w] = Holding(w, workers[u].row),
                                           ![u] = [Free EXCEPT !.at = "row"]]
    <3>1. [Free EXCEPT !.at = "row"] \in Slot
      BY FreeIsSlot DEF Slot
    <3>2. \A u \in Workers : workers[u].row \in Rows
      BY <1>0 DEF Slot
    <3> QED BY <1>0, <2>3, <3>1, <3>2, HoldingSlots
  <2> QED BY <1>1, <2>1, <2>2, <2>3 DEF ClaimRow
<1>2. ASSUME NEW w \in Workers, workers' = Freed(w) PROVE SlotsTyped'
  BY <1>0, <1>2, SlotForms
<1>3. ASSUME NEW w \in Workers, NEW at \in {"row", "job", "ran", "failed"}, workers' = At(w, at)
      PROVE  SlotsTyped'
  BY <1>0, <1>3, SlotForms
<1>4. ASSUME NEW rows, NEW ws \in [Workers -> Slot], Moved(rows, ws) PROVE SlotsTyped'
  BY <1>4, MovedSlots
<1>5. ASSUME NEW w \in Workers, NEW rows,
             \/ Moved(rows, Freed(w)) \/ Moved(rows, At(w, "ran")) \/ Moved(rows, workers)
      PROVE  SlotsTyped'
  BY <1>0, <1>4, <1>5, SlotForms
<1>6. ASSUME NEW w \in Workers, Dispatch(w) PROVE SlotsTyped'
  BY <1>2, <1>5, <1>6 DEF Dispatch, TakeUpEvidence, OpenDecision, EnqueueStep, Over, PutOff
<1>7. ASSUME NEW w \in Workers, ClaimJob(w) PROVE SlotsTyped'
  <2>1. PICK k \in DOMAIN jobs : workers' = [workers EXCEPT ![w] = [Free EXCEPT !.at = "job", !.job = k]]
    BY <1>7 DEF ClaimJob
  <2>2. [Free EXCEPT !.at = "job", !.job = k] \in Slot
    BY FreeIsSlot DEF Slot, IInv, Typing, JobsTyped
  <2> QED BY <1>0, <2>1, <2>2
<1>8. ASSUME NEW w \in Workers, RunJob(w) PROVE SlotsTyped'
  <2>1. ASSUME NEW k, EvaluatePayment(w, k) PROVE SlotsTyped'
    BY <1>3, <1>5, <2>1 DEF EvaluatePayment, NoEffect
  <2>2. ASSUME NEW k, CreateHandover(w, k) PROVE SlotsTyped'
    <3>1. \E at \in {"ran", "failed"} : workers' = At(w, at)
      BY <2>2 DEF CreateHandover, NoEffect
    <3> QED BY <1>3, <3>1
  <2>3. ASSUME NEW k, Activate(w, k) PROVE SlotsTyped'
    BY <1>3, <1>5, <2>3 DEF Activate, NoEffect
  <2> QED BY <1>8, <2>1, <2>2, <2>3 DEF RunJob
<1>9. ASSUME NEW w \in Workers, CompleteJob(w) \/ DeadLetterJob(w) PROVE SlotsTyped'
  BY <1>2, <1>5, <1>9 DEF CompleteJob, DeadLetterJob
<1>10. ASSUME NEW w \in Workers, Failure(w) PROVE SlotsTyped'
  BY <1>2, <1>3, <1>10 DEF Failure, RowFails, PutOff, Break, Reschedule, Crash
<1>11. CASE Operators
  <2>1. workers' = workers \/ \E rows : Moved(rows, workers)
    BY <1>11 DEF Operators, Pay, HandIn, Decide, ActivateByHand, Pause, Resume, Retry
  <2> QED BY <1>0, <1>4, <2>1
<1>12. CASE UNCHANGED vars
  BY <1>0, <1>12 DEF vars
<1> QED BY <1>1, <1>6, <1>7, <1>8, <1>9, <1>10, <1>11, <1>12 DEF Next, Worker

(***************************************************************************)
(* What becomes of the jobs                                                *)
(***************************************************************************)

(* A row in a worker's hands is a known one.                               *)
LEMMA HeldIsKnown ==
    ASSUME IInv, NEW w \in Workers, workers[w].held
    PROVE  /\ workers[w].row \in KnownRows
           /\ Hands(workers)[w] = workers[w].row
<1>1. Hands(workers)[w] \in KnownRows
  BY DEF IInv, RowsInv, Placed
<1> QED BY <1>1 DEF Hands

(* Evidence that is ready has not been taken up before.                    *)
LEMMA ReadyIsNew ==
    ASSUME IInv, NEW w \in Workers, workers[w].held, workers[w].row.kind = "ready"
    PROVE  workers[w].row.n \in Packages /\ workers[w].row.n # keys.handover
           /\ workers[w].row.n <= handover.package
<1>1. workers[w].row.n \in 1 .. handover.package /\ workers[w].row.n # keys.handover
  BY HeldIsKnown DEF KnownRows, Ready
<1> QED BY <1>1, JourneyAssumption DEF IInv, Typing, OthersTyped, Packages

(* A key that is enqueued has a job, and the others keep theirs.           *)
LEMMA EnqueuedKeeps ==
    ASSUME JobsTyped, NEW k \in Keys
    PROVE  /\ DOMAIN Enqueued(k) = DOMAIN jobs \cup {k} /\ DOMAIN Enqueued(k) \subseteq Keys
           /\ \A j \in DOMAIN jobs : Enqueued(k)[j] = jobs[j]
           /\ \A j \in DOMAIN Enqueued(k) : Enqueued(k)[j] \in JobRow
<1>1. Waiting \in JobRow
  BY DEF Waiting, JobRow
<1> QED BY <1>1 DEF JobsTyped, Enqueued

LEMMA ExceptionRows ==
    ASSUME IInv, NEW i \in DOMAIN exceptions
    PROVE  exceptions[i] \in [job : DOMAIN jobs, open : BOOLEAN]
<1> DEFINE S == [job : DOMAIN jobs, open : BOOLEAN]
<1>1. exceptions \in Seq(S)
  BY DEF IInv, ExceptionsInv
<1> HIDE DEF S
<1>2. exceptions[i] \in S
  BY <1>1
<1> QED BY <1>2 DEF S

(* What a step may do to the jobs: put one of a step reached beside them,  *)
(* or move one that is not dead-lettered, or do what a retry does.         *)
JobAdded(k) == k \in Keys /\ k.step \in Reached(journey.step) /\ jobs' = Enqueued(k)
JobMoved(k) ==
    /\ k \in DOMAIN jobs /\ jobs[k].state # "dead"
    /\ \E row \in JobRow : jobs' = [jobs EXCEPT ![k] = row]
JobRetried == Retry /\ \E k \in DOMAIN jobs : Became(k, "retry")

LEMMA JobForms ==
    ASSUME IInv, [Next]_vars
    PROVE  \/ jobs' = jobs
           \/ (\E k \in Keys : JobAdded(k)) /\ UNCHANGED exceptions
           \/ \E k \in Keys : JobMoved(k)
           \/ JobRetried
<1> DEFINE Goal == \/ jobs' = jobs
                   \/ (\E k \in Keys : JobAdded(k)) /\ UNCHANGED exceptions
                   \/ \E k \in Keys : JobMoved(k)
                   \/ JobRetried
<1>0. DOMAIN jobs \subseteq Keys
  BY DEF IInv, Typing, JobsTyped
<1>1. ASSUME NEW w \in Workers, Dispatch(w) PROVE Goal
  <2>1. CASE workers[w].held /\ workers[w].step \in JobSteps /\ EnqueueStep(w, workers[w].row)
    <3> DEFINE k == KeyOf(workers[w].step, workers[w].row)
    <3>1. workers[w].row \in Rows
      BY DEF IInv, Typing, SlotsTyped, Slot
    <3>2. k \in Keys /\ k.step = workers[w].step
      BY <2>1, <3>1, JourneyAssumption DEF KeyOf, StepKey, Key, Keys, Rows
    <3>3. k.step \in Reached(journey.step)
      BY <2>1, <3>2 DEF IInv, ReachedInv
    <3> QED BY <2>1, <3>2, <3>3 DEF EnqueueStep, Keep, JobAdded
  <2> QED BY <1>1, <2>1 DEF Dispatch, TakeUpEvidence, OpenDecision
<1>2. ASSUME NEW w \in Workers, ClaimJob(w) PROVE Goal
  <2>1. PICK k \in DOMAIN jobs : /\ jobs[k].state \in {"pending", "retry", "taken"}
                                 /\ jobs' = [jobs EXCEPT ![k] = [state |-> "taken", owner |-> w]]
    BY <1>2 DEF ClaimJob
  <2>2. [state |-> "taken", owner |-> w] \in JobRow
    BY DEF JobRow
  <2> QED BY <1>0, <2>1, <2>2 DEF JobMoved
<1>3. ASSUME NEW w \in Workers, workers[w].at \in {"job", "ran", "failed"},
             HoldsJob(w, workers[w].job),
             NEW state \in {"retry", "completed", "dead"}, Became(workers[w].job, state)
      PROVE  Goal
  <2>1. workers[w].job \in DOMAIN jobs /\ workers[w].job \in Keys
    BY <1>0, <1>3 DEF IInv, ReachedInv
  <2>2. [state |-> state, owner |-> Nobody] \in JobRow
    BY DEF JobRow
  <2> QED BY <1>3, <2>1, <2>2 DEF HoldsJob, Became, JobMoved
<1>4. ASSUME NEW w \in Workers, CompleteJob(w) \/ DeadLetterJob(w) PROVE Goal
  BY <1>3, <1>4 DEF CompleteJob, DeadLetterJob
<1>5. ASSUME NEW w \in Workers, Failure(w) PROVE Goal
  BY <1>3, <1>5 DEF Failure, RowFails, Break, Reschedule, Crash
<1>6. ASSUME NEW w \in Workers, ClaimRow(w) \/ RunJob(w) PROVE Goal
  BY <1>6 DEF ClaimRow, RunJob
<1>7. CASE Resume
  <2>1. CASE journey.step \in JobSteps /\ jobs' = Enqueued(ResumeKey)
    <3>1. ResumeKey \in Keys /\ ResumeKey.step = journey.step
      BY <2>1, JourneyAssumption DEF ResumeKey, Key, Keys, IInv, Typing, OthersTyped
    <3> QED BY <1>7, <2>1, <3>1 DEF Reached, JobAdded, Resume
  <2> QED BY <1>7, <2>1 DEF Resume
<1>8. CASE Retry
  <2>1. PICK i \in OpenExceptions : Became(exceptions[i].job, "retry")
    BY <1>8 DEF Retry, Latest
  <2>2. exceptions[i].job \in DOMAIN jobs
    BY ExceptionRows DEF OpenExceptions
  <2> QED BY <1>8, <2>1, <2>2 DEF JobRetried
<1>9. CASE Pay \/ HandIn \/ Decide \/ ActivateByHand \/ Pause \/ UNCHANGED vars
  BY <1>9 DEF Pay, HandIn, Decide, ActivateByHand, Pause, vars
<1> QED BY <1>1, <1>2, <1>4, <1>5, <1>6, <1>7, <1>8, <1>9 DEF Next, Operators, Worker

(* No job is ever lost, and the rows of the jobs stay typed.               *)
LEMMA JobsNext ==
    ASSUME IInv, [Next]_vars
    PROVE  JobsTyped' /\ DOMAIN jobs \subseteq DOMAIN jobs'
<1>0. JobsTyped
  BY DEF IInv, Typing
<1>1. CASE jobs' = jobs
  BY <1>0, <1>1 DEF JobsTyped
<1>2. ASSUME NEW k \in Keys, JobAdded(k) PROVE JobsTyped' /\ DOMAIN jobs \subseteq DOMAIN jobs'
  <2>1. /\ DOMAIN jobs' = DOMAIN jobs \cup {k} /\ DOMAIN jobs' \subseteq Keys
        /\ \A j \in DOMAIN jobs' : jobs'[j] \in JobRow
    BY <1>0, <1>2, EnqueuedKeeps DEF JobAdded
  <2>2. jobs' = [j \in DOMAIN jobs' |-> jobs'[j]]
    BY <1>2 DEF JobAdded, Enqueued
  <2> QED BY <2>1, <2>2 DEF JobsTyped
<1>3. ASSUME NEW k, NEW row \in JobRow, jobs' = [jobs EXCEPT ![k] = row]
      PROVE  JobsTyped' /\ DOMAIN jobs \subseteq DOMAIN jobs'
  BY <1>0, <1>3 DEF JobsTyped
<1>4. CASE JobRetried
  <2>1. [state |-> "retry", owner |-> Nobody] \in JobRow
    BY DEF JobRow
  <2> QED BY <1>3, <1>4, <2>1 DEF JobRetried, Became
<1> QED BY <1>1, <1>2, <1>3, <1>4, JobForms DEF JobMoved

(* What is typed besides the journey, the workers and the jobs.            *)
LEMMA OthersNext ==
    ASSUME IInv, [Next]_vars
    PROVE  OthersTyped'
<1>0. OthersTyped /\ JInv
  BY DEF IInv, Typing
<1> DEFINE Kept == UNCHANGED <<keys, tasks, handover, unpaid, holds>>
           FaultsOK == UNCHANGED faults \/ Fault
<1>1. FaultsOK => faults' \in 0 .. MaxFaults
  BY <1>0, JourneyAssumption DEF OthersTyped, Fault
<1>2. CASE Kept /\ FaultsOK
  BY <1>0, <1>1, <1>2 DEF OthersTyped
<1>3. ASSUME NEW w \in Workers, Dispatch(w) PROVE OthersTyped'
  <2>1. UNCHANGED <<handover, unpaid, faults, holds>>
    BY <1>3 DEF Dispatch, Business
  <2>2. CASE UNCHANGED <<keys, tasks>>
    BY <1>0, <2>1, <2>2 DEF OthersTyped
  <2>3. CASE /\ workers[w].held /\ workers[w].row.kind = "ready" /\ UNCHANGED tasks
             /\ keys' = [keys EXCEPT !.handover = workers[w].row.n]
    <3>1. keys' \in [waits : SUBSET Keys, opened : BOOLEAN, handover : {0} \cup Packages]
      BY <1>0, <2>3, ReadyIsNew DEF OthersTyped
    <3> QED BY <1>0, <2>1, <2>3, <3>1 DEF OthersTyped
  <2>4. CASE /\ workers[w].held /\ workers[w].row.kind = "completed"
             /\ tasks' = tasks \cup {TaskOf(workers[w].row.n)}
             /\ keys' = [keys EXCEPT !.opened = TRUE]
    <3>1. workers[w].row.n \in Packages
      BY <2>4, HeldIsKnown DEF KnownRows
    <3>2. tasks' \subseteq [package : Packages, status : {"OPEN", "APPROVED", "REJECTED"}]
      BY <1>0, <2>4, <3>1 DEF OthersTyped, TaskOf
    <3>3. keys' \in [waits : SUBSET Keys, opened : BOOLEAN, handover : {0} \cup Packages]
      BY <1>0, <2>4 DEF OthersTyped
    <3> QED BY <1>0, <2>1, <3>2, <3>3 DEF OthersTyped
  <2> QED BY <1>3, <2>2, <2>3, <2>4 DEF Dispatch, TakeUpEvidence, OpenDecision, EnqueueStep
<1>4. ASSUME NEW w \in Workers, RunJob(w) PROVE OthersTyped'
  <2> DEFINE k == workers[w].job
  <2>1. UNCHANGED <<tasks, unpaid, faults>>
    BY <1>4 DEF RunJob
  <2>2. CASE EvaluatePayment(w, k)
    <3>1. UNCHANGED <<handover, holds>>
      BY <2>2 DEF EvaluatePayment, NoEffect
    <3>2. k \in Keys
      BY DEF IInv, Typing, SlotsTyped, Slot
    <3>3. keys' = keys \/ keys' = [keys EXCEPT !.waits = @ \cup {k}]
      BY <2>2 DEF EvaluatePayment, NoEffect
    <3>4. keys' \in [waits : SUBSET Keys, opened : BOOLEAN, handover : {0} \cup Packages]
      BY <1>0, <3>2, <3>3 DEF OthersTyped
    <3> QED BY <1>0, <2>1, <3>1, <3>4 DEF OthersTyped
  <2>3. CASE CreateHandover(w, k)
    <3>1. UNCHANGED <<keys, holds>>
      BY <2>3 DEF CreateHandover, NoEffect
    <3>2. handover'.package = handover.package
      BY <1>0, <2>3 DEF CreateHandover, NoEffect, JInv, Typed
    <3> QED BY <1>0, <2>1, <3>1, <3>2 DEF OthersTyped
  <2>4. CASE Activate(w, k)
    <3>1. UNCHANGED <<keys, handover>> /\ (holds' = holds \/ (holds < MaxHolds /\ holds' = holds + 1))
      BY <2>4 DEF Activate, NoEffect
    <3> QED BY <1>0, <2>1, <3>1, JourneyAssumption DEF OthersTyped
  <2> QED BY <1>4, <2>2, <2>3, <2>4 DEF RunJob
<1>5. ASSUME NEW w \in Workers,
             ClaimRow(w) \/ ClaimJob(w) \/ CompleteJob(w) \/ DeadLetterJob(w) \/ Failure(w)
      PROVE  OthersTyped'
  BY <1>2, <1>5 DEF ClaimRow, ClaimJob, CompleteJob, DeadLetterJob, Failure, RowFails, Break,
     Reschedule, Crash, Business
<1>6. CASE Pay
  <2>1. UNCHANGED <<keys, tasks, handover, faults, holds>> /\ unpaid > 0 /\ unpaid' = unpaid - 1
    BY <1>6 DEF Pay
  <2> QED BY <1>0, <2>1, JourneyAssumption DEF OthersTyped
<1>7. CASE HandIn
  <2>1. UNCHANGED <<keys, tasks, unpaid, faults, holds>>
    BY <1>7 DEF HandIn
  <2>2. \/ handover'.package = handover.package
        \/ handover.package < MaxPackages /\ handover'.package = handover.package + 1
    BY <1>0, <1>7 DEF HandIn, JInv, Typed
  <2> QED BY <1>0, <2>1, <2>2, JourneyAssumption DEF OthersTyped, Packages
<1>8. CASE Decide
  <2>1. UNCHANGED <<keys, unpaid, faults, holds>>
    BY <1>8 DEF Decide
  <2>2. handover'.package = handover.package
    BY <1>0, <1>8 DEF Decide, JInv, Typed
  <2>3. handover.package \in Packages
    <3>1. TaskOf(handover.package) \in tasks
      BY <1>8 DEF Decide, OpenTasks
    <3> QED BY <1>0, <3>1 DEF OthersTyped, TaskOf
  <2>4. tasks' \subseteq [package : Packages, status : {"OPEN", "APPROVED", "REJECTED"}]
    BY <1>0, <1>8, <2>3 DEF Decide, OthersTyped
  <2> QED BY <1>0, <2>1, <2>2, <2>4 DEF OthersTyped
<1>9. CASE Pause \/ Resume \/ Retry
  <2>1. UNCHANGED <<keys, tasks, handover, unpaid, faults>>
    BY <1>9 DEF Pause, Resume, Retry, Business
  <2>2. holds' = holds \/ (holds < MaxHolds /\ holds' = holds + 1)
    BY <1>9 DEF Pause, Resume, Retry
  <2> QED BY <1>0, <2>1, <2>2, JourneyAssumption DEF OthersTyped
<1>10. CASE UNCHANGED vars
  BY <1>2, <1>10 DEF vars
<1>11. CASE ActivateByHand
  BY <1>2, <1>11 DEF ActivateByHand
<1> QED BY <1>3, <1>4, <1>5, <1>6, <1>7, <1>8, <1>9, <1>10, <1>11 DEF Next, Operators, Worker

(* Jobs of the steps reached stay so: the journey goes on, or back to the  *)
(* handover, which has a job, from the decision, which has none.           *)
LEMMA StepForms ==
    ASSUME IInv, [Next]_vars
    PROVE  \/ journey'.step = journey.step
           \/ /\ \E s \in Steps : CanMove(s) /\ Complete(s)
              /\ Reached(journey.step) \subseteq Reached(journey'.step)
           \/ /\ journey.step = "evidence" /\ journey'.step = "handover"
              /\ UNCHANGED exceptions
<1> DEFINE Goal ==
       \/ journey'.step = journey.step
       \/ /\ \E s \in Steps : CanMove(s) /\ Complete(s)
          /\ Reached(journey.step) \subseteq Reached(journey'.step)
       \/ /\ journey.step = "evidence" /\ journey'.step = "handover"
          /\ UNCHANGED exceptions
<1>0. Typed
  BY DEF IInv, JInv
<1>1. ASSUME NEW s \in Steps, CanMove(s), Complete(s) PROVE Goal
  <2>1. journey.step = s
    BY <1>1 DEF CanMove
  <2>2. CASE s = "activation"
    BY <1>0, <1>1, <2>2 DEF Complete, Typed
  <2>3. CASE s # "activation"
    <3>1. journey'.step = NextStep[s]
      BY <1>0, <1>1, <2>3 DEF Complete, Typed
    <3>2. Reached(s) \subseteq Reached(NextStep[s])
      BY <2>3 DEF Reached, Before, NextStep
    <3> QED BY <1>1, <2>1, <3>1, <3>2
  <2> QED BY <2>2, <2>3
<1>2. ASSUME NEW s, NEW status, Wait(s, status) PROVE Goal
  BY <1>0, <1>2 DEF Wait, Typed
<1>3. CASE UNCHANGED journey
  BY <1>3
<1>4. ASSUME NEW w \in Workers, Worker(w) \/ Failure(w) PROVE Goal
  <2>1. CASE Dispatch(w)
    BY <1>1, <1>2, <2>1 DEF Dispatch, Keep, TakeUpEvidence, OpenDecision, EnqueueStep
  <2>2. CASE RunJob(w)
    <3>1. CASE \E k : EvaluatePayment(w, k) \/ CreateHandover(w, k)
      BY <1>1, <1>2, <3>1 DEF EvaluatePayment, CreateHandover, NoEffect, Keep
    <3>2. ASSUME NEW k, Activate(w, k) PROVE Goal
      <4>1. CASE journey' = [journey EXCEPT !.status = "PAUSED", !.before = "RUNNING"]
        BY <1>0, <4>1 DEF Typed
      <4> QED BY <1>1, <3>2, <4>1 DEF Activate, MayActivate, NoEffect, Keep
    <3> QED BY <2>2, <3>1, <3>2 DEF RunJob
  <2>3. CASE DeadLetterJob(w)
    <3>1. UNCHANGED journey \/ \E k : Excepted(k)
      BY <2>3 DEF DeadLetterJob, Keep
    <3>2. \A k : Excepted(k) => journey'.step = journey.step
      BY <1>0 DEF Excepted, Typed
    <3> QED BY <3>1, <3>2
  <2>4. CASE ClaimRow(w) \/ ClaimJob(w) \/ CompleteJob(w) \/ Failure(w)
    BY <2>4 DEF ClaimRow, ClaimJob, CompleteJob, Failure, RowFails, Break, Reschedule, Crash, Keep
  <2> QED BY <1>4, <2>1, <2>2, <2>3, <2>4 DEF Worker
<1>5. CASE Decide
  <2>1. journey.step = "evidence" /\ CanMove("evidence")
    BY <1>5 DEF Decide, CanMove
  <2>2. Return => journey'.step = "handover"
    BY <1>0 DEF Return, Typed
  <2> QED BY <1>1, <1>5, <2>1, <2>2 DEF Decide
<1>6. CASE Pause \/ Resume \/ Retry
  BY <1>0, <1>6 DEF Pause, Resume, Retry, Typed
<1>7. CASE Pay \/ HandIn \/ UNCHANGED vars
  BY <1>7 DEF Pay, HandIn, Keep, vars
<1>8. CASE ActivateByHand
  BY <1>1, <1>8 DEF ActivateByHand, MayActivate
<1> QED BY <1>4, <1>5, <1>6, <1>7, <1>8 DEF Next, Operators

LEMMA ReachedStays ==
    ASSUME IInv, [Next]_vars, NEW step \in JobSteps, step \in Reached(journey.step)
    PROVE  step \in Reached(journey'.step)
<1>1. CASE journey.step = "evidence" /\ journey'.step = "handover"
  BY <1>1 DEF Reached, Before, JobSteps
<1> QED BY <1>1, StepForms

(* What a worker is at, measured against what it was before the step.      *)
LEMMA WorkersAtKnown ==
    ASSUME IInv, [Next]_vars, NEW u \in Workers
    PROVE  /\ workers'[u].at \in {"job", "ran", "failed"} => workers'[u].job \in DOMAIN jobs
           /\ workers'[u].step \in JobSteps => workers'[u].step \in Reached(journey.step)
<1> DEFINE At0(x) == /\ x.at \in {"job", "ran", "failed"} => x.job \in DOMAIN jobs
                     /\ x.step \in JobSteps => x.step \in Reached(journey.step)
           Goal == At0(workers'[u])
<1>0. /\ workers \in [Workers -> Slot] /\ JInv /\ SlotsTyped
      /\ \A w \in Workers : At0(workers[w])
  BY DEF IInv, Typing, SlotsTyped, ReachedInv
<1>1. /\ "payment" \in Reached(journey.step) /\ journey.step \in Reached(journey.step)
      /\ Free.at = "idle" /\ Free.step = "payment"
  BY <1>0 DEF Reached, Before, Free, JInv, Typed
<1>2. At0(Free) /\ At0([Free EXCEPT !.at = "row"])
  BY <1>1 DEF Free
<1> HIDE DEF Goal
<1>3. ASSUME NEW w \in Workers
      PROVE  /\ Freed(w) \in [Workers -> Slot] /\ At0(Freed(w)[u])
             /\ \A at \in {"ran", "failed"} : workers[w].at = "job" =>
                   At(w, at) \in [Workers -> Slot] /\ At0(At(w, at)[u])
  <2>1. At0(Freed(w)[u])
    BY <1>0, <1>2 DEF Freed
  <2>2. ASSUME NEW at \in {"ran", "failed"}, workers[w].at = "job"
        PROVE  At0(At(w, at)[u])
    <3>1. CASE u = w
      <4>1. At(w, at)[u] = [workers[w] EXCEPT !.at = at]
        BY <1>0, <3>1 DEF At
      <4>2. /\ [workers[w] EXCEPT !.at = at].job = workers[w].job
            /\ [workers[w] EXCEPT !.at = at].step = workers[w].step
        BY <1>0 DEF Slot
      <4> QED BY <1>0, <2>2, <4>1, <4>2
    <3>2. CASE u # w
      BY <1>0, <3>2 DEF At
    <3> QED BY <3>1, <3>2
  <2> QED BY <1>0, <2>1, <2>2, SlotForms
<1>4. ASSUME NEW rows, NEW ws \in [Workers -> Slot], At0(ws[u]), Moved(rows, ws) PROVE Goal
  BY <1>4, MovedSlots DEF Goal
<1>5. ASSUME NEW w \in Workers, workers' = Freed(w) \/ \E rows : Moved(rows, Freed(w)) PROVE Goal
  BY <1>3, <1>4, <1>5 DEF Goal
<1>6. ASSUME NEW w \in Workers, workers[w].at = "job", NEW at \in {"ran", "failed"},
             workers' = At(w, at) \/ \E rows : Moved(rows, At(w, at))
      PROVE  Goal
  BY <1>3, <1>4, <1>6 DEF Goal
<1>7. ASSUME NEW w \in Workers, ClaimRow(w) PROVE Goal
  <2>1. \A row \in Rows : At0(Holding(w, row))
    BY <1>0, <1>1, HoldingSlots
  <2>2. \A v \in Workers : workers[v].row \in Rows
    BY <1>0 DEF Slot
  <2>3. (outbox # <<>> => Head(outbox) \in Rows) /\ \A i \in 1 .. Len(later) : later[i] \in Rows
    <3>1. outbox \in Seq(Rows) /\ later \in Seq(Rows)
      BY TypingImplies DEF TypeOK
    <3> QED BY <3>1
  <2>4. \/ \E row \in Rows : workers' = [workers EXCEPT ![w] = Holding(w, row)]
        \/ \E v \in Workers \ {w} : \E row \in Rows :
              workers' = [workers EXCEPT ![w] = Holding(w, row), ![v] = [Free EXCEPT !.at = "row"]]
    BY <1>7, <2>2, <2>3 DEF ClaimRow
  <2> HIDE DEF At0
  <2> QED BY <1>0, <1>2, <2>1, <2>4 DEF Goal
<1>8. ASSUME NEW w \in Workers, ClaimJob(w) PROVE Goal
  <2>1. PICK k \in DOMAIN jobs : workers' = [workers EXCEPT ![w] = [Free EXCEPT !.at = "job", !.job = k]]
    BY <1>8 DEF ClaimJob
  <2>2. At0([Free EXCEPT !.at = "job", !.job = k])
    BY <1>1 DEF Free
  <2> QED BY <1>0, <2>1, <2>2 DEF Goal
<1>9. ASSUME NEW w \in Workers, Dispatch(w) PROVE Goal
  BY <1>5, <1>9 DEF Dispatch, TakeUpEvidence, OpenDecision, EnqueueStep, Over, PutOff
<1>10. ASSUME NEW w \in Workers, RunJob(w) PROVE Goal
  <2>1. workers[w].at = "job"
    BY <1>10 DEF RunJob
  <2>2. \E at \in {"ran", "failed"} : workers' = At(w, at) \/ \E rows : Moved(rows, At(w, at))
    <3>1. ASSUME NEW k, EvaluatePayment(w, k)
          PROVE \E at \in {"ran", "failed"} : workers' = At(w, at) \/ \E rows : Moved(rows, At(w, at))
      BY <3>1 DEF EvaluatePayment, NoEffect
    <3>2. ASSUME NEW k, CreateHandover(w, k)
          PROVE \E at \in {"ran", "failed"} : workers' = At(w, at)
      BY <3>2 DEF CreateHandover, NoEffect
    <3>3. ASSUME NEW k, Activate(w, k)
          PROVE \E at \in {"ran", "failed"} : workers' = At(w, at) \/ \E rows : Moved(rows, At(w, at))
      BY <3>3 DEF Activate, NoEffect
    <3> QED BY <1>10, <3>1, <3>2, <3>3 DEF RunJob
  <2> QED BY <1>6, <2>1, <2>2
<1>11. ASSUME NEW w \in Workers, CompleteJob(w) \/ DeadLetterJob(w) PROVE Goal
  BY <1>5, <1>11 DEF CompleteJob, DeadLetterJob
<1>12. ASSUME NEW w \in Workers, Failure(w) PROVE Goal
  BY <1>5, <1>6, <1>12 DEF Failure, RowFails, PutOff, Break, Reschedule, Crash
<1>13. ASSUME Operators \/ UNCHANGED vars PROVE Goal
  <2>1. workers' = workers \/ \E rows : Moved(rows, workers)
    BY <1>13 DEF Operators, Pay, HandIn, Decide, ActivateByHand, Pause, Resume, Retry,
       vars
  <2>2. At0(workers[u])
    BY <1>0
  <2> HIDE DEF At0
  <2> QED BY <1>0, <1>4, <2>1, <2>2 DEF Goal
<1> HIDE DEF At0
<1>14. Goal
  BY <1>7, <1>8, <1>9, <1>10, <1>11, <1>12, <1>13 DEF Next, Worker
<1> QED BY <1>14 DEF Goal, At0

LEMMA ReachedNext ==
    ASSUME IInv, [Next]_vars
    PROVE  ReachedInv'
<1>1. DOMAIN jobs \subseteq DOMAIN jobs' /\ JobsTyped' /\ JobsTyped
  BY JobsNext DEF IInv, Typing
<1>2. ASSUME NEW w \in Workers
      PROVE  /\ workers'[w].at \in {"job", "ran", "failed"} => workers'[w].job \in DOMAIN jobs'
             /\ workers'[w].step \in JobSteps => workers'[w].step \in Reached(journey'.step)
  BY <1>1, WorkersAtKnown, ReachedStays
<1>3. ASSUME NEW k \in DOMAIN jobs' PROVE k.step \in Reached(journey'.step)
  <2>1. k.step \in JobSteps
    BY <1>1 DEF JobsTyped, Keys
  <2>2. k.step \in Reached(journey.step)
    <3>1. CASE k \in DOMAIN jobs
      BY <3>1 DEF IInv, ReachedInv
    <3>2. CASE k \notin DOMAIN jobs
      <4>1. PICK j \in Keys : JobAdded(j)
        BY <3>2, JobForms DEF JobMoved, JobRetried, Became
      <4>2. DOMAIN jobs' = DOMAIN jobs \cup {j}
        BY <1>1, <4>1, EnqueuedKeeps DEF JobAdded
      <4> QED BY <3>2, <4>1, <4>2 DEF JobAdded
    <3> QED BY <3>1, <3>2
  <2> QED BY <2>1, <2>2, ReachedStays
<1> QED BY <1>2, <1>3 DEF ReachedInv

(***************************************************************************)
(* What becomes of the rows                                                *)
(***************************************************************************)

LEMMA HandsForms ==
    ASSUME SlotsTyped, NEW w \in Workers
    PROVE  /\ Hands(Freed(w)) = [Hands(workers) EXCEPT ![w] = Note]
           /\ \A at \in {"job", "ran", "failed"} : Hands(At(w, at)) = Hands(workers)
<1>1. ASSUME NEW at \in {"job", "ran", "failed"}
      PROVE  /\ [workers[w] EXCEPT !.at = at].held = workers[w].held
             /\ [workers[w] EXCEPT !.at = at].row = workers[w].row
  BY DEF SlotsTyped, Slot
<1>2. Free.held = FALSE
  BY DEF Free
<1>3. Hands(Freed(w)) = [Hands(workers) EXCEPT ![w] = Note]
  BY <1>2 DEF Hands, Freed, SlotsTyped
<1>4. ASSUME NEW at \in {"job", "ran", "failed"}
      PROVE  Hands(At(w, at)) = Hands(workers)
  BY <1>1 DEF Hands, At, SlotsTyped
<1> QED BY <1>3, <1>4

(* As long as no package is handed in and none taken up, the known rows    *)
(* stay the same.                                                          *)
Quiet == keys'.handover = keys.handover /\ handover'.package = handover.package

LEMMA QuietRows ==
    ASSUME IInv, Quiet,
           Placed(outbox', later', Hands(workers'), KnownRows),
           Once(outbox', later', Hands(workers'))
    PROVE  RowsInv'
<1>1. KnownRows' = KnownRows
  BY DEF Quiet, KnownRows
<1>2. Hands(workers)' = Hands(workers')
  BY DEF Hands
<1>3. Placed(outbox, later, Hands(workers), KnownRows)'
  BY <1>1, <1>2 DEF Placed
<1>4. Once(outbox, later, Hands(workers))'
  BY <1>2 DEF Once
<1> QED BY <1>3, <1>4 DEF RowsInv, IInv, Quiet

(* A worker lets its row go, or none does.                                 *)
LEMMA RowsLeft ==
    ASSUME IInv, Quiet, UNCHANGED <<outbox, later>>,
           \A v \in Workers : Hands(workers')[v] \in {Hands(workers)[v], Note}
    PROVE  RowsInv'
<1>1. Hands(workers') = [v \in Workers |-> Hands(workers')[v]]
  BY DEF Hands
<1>2. Placed(outbox, later, Hands(workers), KnownRows) /\ Once(outbox, later, Hands(workers))
  BY DEF IInv, RowsInv
<1>3. \A v \in Workers : Hands(workers')[v] = Hands(workers)[v] \/ Hands(workers')[v] = Note
  OBVIOUS
<1>4. /\ Placed(outbox, later, Hands(workers'), KnownRows)
      /\ Once(outbox, later, Hands(workers'))
  BY <1>1, <1>2, <1>3, NoteIsKnown, RowsDropped
<1> QED BY <1>4, QuietRows

(* A transition that announces no evidence.                                *)
LEMMA RowsWritten ==
    ASSUME IInv, Quiet, NEW rows \in Seq(KnownRows), \A i \in DOMAIN rows : ~Ready(rows[i]),
           NEW ws \in [Workers -> Slot], Moved(rows, ws), UNCHANGED later,
           \A v \in Workers : Hands(ws)[v] \in {Hands(workers)[v], Note}
    PROVE  RowsInv'
<1>1. Hands(workers') = Hands(ws) /\ Hands(ws) = [v \in Workers |-> Hands(ws)[v]]
      /\ outbox' = outbox \o rows
  BY MovedSlots DEF Hands, Moved
<1>2. Placed(outbox, later, Hands(workers), KnownRows) /\ Once(outbox, later, Hands(workers))
  BY DEF IInv, RowsInv
<1>3. \A v \in Workers : Hands(ws)[v] = Hands(workers)[v] \/ Hands(ws)[v] = Note
  OBVIOUS
<1>4. Placed(outbox, later, Hands(ws), KnownRows) /\ Once(outbox, later, Hands(ws))
  BY <1>1, <1>2, <1>3, NoteIsKnown, RowsDropped
<1>5. /\ Placed(outbox \o rows, later, Hands(ws), KnownRows)
      /\ Once(outbox \o rows, later, Hands(ws))
  BY <1>4, RowsAdded
<1> QED BY <1>1, <1>5, QuietRows

LEMMA NotesWritten ==
    ASSUME IInv, Quiet, NEW rows \in {<<Note>>, <<Note, Note>>},
           NEW ws \in [Workers -> Slot], Moved(rows, ws), UNCHANGED later,
           \A v \in Workers : Hands(ws)[v] \in {Hands(workers)[v], Note}
    PROVE  RowsInv'
<1>1. <<Note>> \in Seq(KnownRows) /\ <<Note, Note>> \in Seq(KnownRows)
  BY NoteIsKnown
<1>2. \A i \in DOMAIN rows : ~Ready(rows[i])
  BY NoteIsNotReady
<1> QED BY <1>1, <1>2, RowsWritten

(* A row is put off, or left behind.                                       *)
LEMMA RowPutOffNext ==
    ASSUME IInv, Quiet, NEW w \in Workers, workers[w].held, PutOff(w)
    PROVE  RowsInv'
<1>1. /\ outbox' = outbox /\ later' = Append(later, Hands(workers)[w])
      /\ Hands(workers') = [Hands(workers) EXCEPT ![w] = Note]
  BY HeldIsKnown, HandsForms DEF PutOff, IInv, Typing
<1>2. Placed(outbox, later, Hands(workers), KnownRows) /\ Once(outbox, later, Hands(workers))
  BY DEF IInv, RowsInv
<1>3. /\ Placed(outbox, Append(later, Hands(workers)[w]),
                [Hands(workers) EXCEPT ![w] = Note], KnownRows)
      /\ Once(outbox, Append(later, Hands(workers)[w]), [Hands(workers) EXCEPT ![w] = Note])
  BY <1>2, NoteIsKnown, RowPutOff
<1> QED BY <1>1, <1>3, QuietRows

LEMMA ClaimRowRows ==
    ASSUME IInv, NEW w \in Workers, ClaimRow(w)
    PROVE  RowsInv'
<1> DEFINE h == Hands(workers)
<1>0. /\ Quiet /\ JInv /\ SlotsTyped /\ Placed(outbox, later, h, KnownRows) /\ Once(outbox, later, h)
  BY DEF ClaimRow, Business, Quiet, IInv, Typing, RowsInv
<1>1. ASSUME NEW row \in Rows
      PROVE  Holding(w, row).held /\ Holding(w, row).row = row
  BY <1>0, HoldingSlots
<1>2. /\ outbox # <<>> => Head(outbox) \in Rows
      /\ \A i \in 1 .. Len(later) : later[i] \in Rows
      /\ \A v \in Workers : workers[v].row \in Rows
  BY TypingImplies DEF TypeOK
<1>3. ASSUME NEW row \in Rows, workers' = [workers EXCEPT ![w] = Holding(w, row)]
      PROVE  Hands(workers') = [h EXCEPT ![w] = row]
  BY <1>0, <1>1, <1>3 DEF Hands, SlotsTyped
<1>4. CASE /\ outbox # <<>> /\ outbox' = Tail(outbox) /\ UNCHANGED later
           /\ workers' = [workers EXCEPT ![w] = Holding(w, Head(outbox))]
  <2>1. Hands(workers') = [h EXCEPT ![w] = Head(outbox)]
    BY <1>2, <1>3, <1>4
  <2>2. /\ Placed(Tail(outbox), later, [h EXCEPT ![w] = Head(outbox)], KnownRows)
        /\ Once(Tail(outbox), later, [h EXCEPT ![w] = Head(outbox)])
    BY <1>0, <1>4, OldestClaimed
  <2> QED BY <1>0, <1>4, <2>1, <2>2, QuietRows
<1>5. ASSUME NEW i \in 1 .. Len(later), later' = Without(later, i), UNCHANGED outbox,
             workers' = [workers EXCEPT ![w] = Holding(w, later[i])]
      PROVE  RowsInv'
  <2>1. Hands(workers') = [h EXCEPT ![w] = later[i]]
    BY <1>2, <1>3, <1>5
  <2>2. /\ Placed(outbox, Without(later, i), [h EXCEPT ![w] = later[i]], KnownRows)
        /\ Once(outbox, Without(later, i), [h EXCEPT ![w] = later[i]])
    BY <1>0, LaterClaimed
  <2> QED BY <1>0, <1>5, <2>1, <2>2, QuietRows
<1>6. ASSUME NEW u \in Workers \ {w}, workers[u].held, UNCHANGED <<outbox, later>>,
             workers' = [workers EXCEPT ![w] = Holding(w, workers[u].row),
                                        ![u] = [Free EXCEPT !.at = "row"]]
      PROVE  RowsInv'
  <2>1. Hands(workers') = [h EXCEPT ![w] = h[u], ![u] = Note]
    <3>1. h[u] = workers[u].row /\ [Free EXCEPT !.at = "row"].held = FALSE
      BY <1>6 DEF Hands, Free
    <3>2. Holding(w, workers[u].row).held /\ Holding(w, workers[u].row).row = h[u]
      BY <1>1, <1>2, <3>1
    <3>3. /\ workers'[w] = Holding(w, workers[u].row) /\ workers'[u] = [Free EXCEPT !.at = "row"]
          /\ \A v \in Workers \ {w, u} : workers'[v] = workers[v]
      BY <1>0, <1>6 DEF SlotsTyped
    <3> QED BY <3>1, <3>2, <3>3 DEF Hands
  <2>2. /\ Placed(outbox, later, [h EXCEPT ![w] = h[u], ![u] = Note], KnownRows)
        /\ Once(outbox, later, [h EXCEPT ![w] = h[u], ![u] = Note])
    BY <1>0, NoteIsKnown, LeaseClaimed
  <2> QED BY <1>0, <1>6, <2>1, <2>2, QuietRows
<1> QED BY <1>4, <1>5, <1>6 DEF ClaimRow, Without

(* The evidence that completes the handover is known no more.              *)
LEMMA DispatchRows ==
    ASSUME IInv, NEW w \in Workers, Dispatch(w)
    PROVE  RowsInv'
<1> DEFINE h == Hands(workers)
           row == workers[w].row
           gone == [h EXCEPT ![w] = Note]
<1>0. /\ SlotsTyped /\ Placed(outbox, later, h, KnownRows) /\ Once(outbox, later, h)
      /\ OthersTyped /\ JInv /\ handover' = handover
      /\ Freed(w) \in [Workers -> Slot] /\ Hands(Freed(w)) = gone
      /\ \A v \in Workers : gone[v] \in {h[v], Note}
  <2>1. SlotsTyped /\ Placed(outbox, later, h, KnownRows) /\ Once(outbox, later, h)
    BY DEF IInv, Typing, RowsInv
  <2>2. OthersTyped /\ JInv /\ handover' = handover
    BY DEF Dispatch, Business, IInv, Typing
  <2>3. Freed(w) \in [Workers -> Slot] /\ Hands(Freed(w)) = gone
    BY <2>1, SlotForms, HandsForms
  <2>4. \A v \in Workers : gone[v] \in {h[v], Note}
    BY DEF Hands
  <2> QED BY <2>1, <2>2, <2>3, <2>4
<1> HIDE DEF h, gone
<1>1. CASE Over(w) /\ keys'.handover = keys.handover
  <2>1. Quiet
    BY <1>0, <1>1 DEF Quiet
  <2>2. \A v \in Workers : Hands(workers')[v] \in {h[v], Note}
    BY <1>0, <1>1 DEF Over
  <2> QED BY <1>1, <2>1, <2>2, RowsLeft DEF Over, h
<1>2. CASE workers[w].held /\ PutOff(w) /\ UNCHANGED keys
  BY <1>0, <1>2, RowPutOffNext DEF Quiet
<1>3. CASE /\ workers[w].held /\ row.kind = "ready" /\ keys.handover = 0
           /\ keys' = [keys EXCEPT !.handover = row.n]
           /\ Moved(<<Row("completed", row.n)>>, Freed(w)) /\ UNCHANGED later
  <2> DEFINE S == KnownRows \ {row}
             new == Row("completed", row.n)
  <2>1. row \in KnownRows /\ h[w] = row /\ Ready(row)
    BY <1>3, HeldIsKnown DEF Ready, h
  <2>2. Placed(outbox, later, gone, S)
    <3>1. Ready(h[w])
      BY <2>1
    <3>2. Placed(outbox, later, [h EXCEPT ![w] = Note], KnownRows \ {h[w]})
      BY <1>0, <3>1, NoteIsKnown, RowGone
    <3> QED BY <2>1, <3>2 DEF gone
  <2>3. Once(outbox, later, gone)
    <3>1. gone = [v \in Workers |-> gone[v]] /\ \A v \in Workers : gone[v] = h[v] \/ gone[v] = Note
      BY <1>0 DEF gone, Placed
    <3> QED BY <1>0, <3>1, NoteIsKnown, RowsDropped
  <2>4. row.n \in Packages /\ row.n <= handover.package /\ row.n # 0
    BY <1>3, ReadyIsNew DEF Packages
  <2>5. new \in S /\ ~Ready(new)
    <3>1. new \in Rows /\ new.kind = "completed" /\ new.n = row.n
      BY <2>4, JourneyAssumption DEF Row, Rows, Packages
    <3> QED BY <2>1, <2>4, <3>1 DEF KnownRows, Ready
  <2>6. keys'.handover = row.n
    BY <1>0, <1>3 DEF OthersTyped
  <2>7. S \subseteq KnownRows'
    <3>1. ASSUME NEW x \in S PROVE x \in KnownRows'
      <4>1. x \in Rows /\ x # row /\ row \in Rows
        BY <2>1 DEF KnownRows
      <4>2. Ready(x) => x.n # row.n
        BY <2>1, <4>1 DEF Ready, Rows
      <4> QED BY <1>0, <2>6, <4>1, <4>2 DEF KnownRows, Ready
    <3> QED BY <3>1
  <2> HIDE DEF S, new
  <2>8. <<new>> \in Seq(S) /\ \A i \in DOMAIN <<new>> : ~Ready(<<new>>[i])
    BY <2>5
  <2>9. /\ Placed(outbox \o <<new>>, later, gone, S)
        /\ Once(outbox \o <<new>>, later, gone)
    BY <2>2, <2>3, <2>8, RowsAdded
  <2>10. outbox' = outbox \o <<new>> /\ Hands(workers)' = gone /\ later' = later
    BY <1>0, <1>3, MovedSlots DEF Moved, Hands, new
  <2>11. Placed(outbox, later, Hands(workers), KnownRows)'
    <3>1. outbox' \in Seq(S) /\ later' \in Seq(S) /\ Hands(workers)' \in [Workers -> S]
      BY <2>9, <2>10 DEF Placed
    <3>2. outbox' \in Seq(KnownRows') /\ later' \in Seq(KnownRows')
      BY <2>7, <3>1, SeqMonotonic
    <3>3. Hands(workers)' \in [Workers -> KnownRows']
      BY <2>7, <3>1
    <3> QED BY <3>2, <3>3 DEF Placed
  <2>12. Once(outbox, later, Hands(workers))'
    BY <2>9, <2>10 DEF Once
  <2> QED BY <1>0, <2>4, <2>6, <2>11, <2>12 DEF RowsInv
<1>4. CASE Moved(<<Note>>, Freed(w)) /\ keys'.handover = keys.handover /\ UNCHANGED later
  <2>1. Quiet
    BY <1>0, <1>4 DEF Quiet
  <2> QED BY <1>0, <1>4, <2>1, NotesWritten DEF h
<1>5. ASSUME workers[w].held, row.kind = "ready", TakeUpEvidence(w, row.n) PROVE RowsInv'
  BY <1>1, <1>2, <1>3, <1>5 DEF TakeUpEvidence
<1>6. ASSUME OpenDecision(w, row) PROVE RowsInv'
  <2>1. keys' = keys \/ keys' = [keys EXCEPT !.opened = TRUE]
    BY <1>6 DEF OpenDecision
  <2>2. keys'.handover = keys.handover
    BY <1>0, <2>1 DEF OthersTyped
  <2> QED BY <1>1, <1>4, <1>6, <2>2 DEF OpenDecision
<1>7. ASSUME EnqueueStep(w, row) PROVE RowsInv'
  BY <1>1, <1>7 DEF EnqueueStep
<1>8. CASE Over(w) /\ UNCHANGED keys
  BY <1>1, <1>8
<1> QED BY <1>5, <1>6, <1>7, <1>8 DEF Dispatch

(* A package is handed in: the row that announces it is nowhere yet.       *)
LEMMA HandInRows ==
    ASSUME IInv, HandIn
    PROVE  RowsInv'
<1> DEFINE h == Hands(workers)
           n == handover.package + 1
           new == Row("ready", n)
<1>0. /\ SlotsTyped /\ Placed(outbox, later, h, KnownRows) /\ Once(outbox, later, h)
      /\ OthersTyped /\ JInv /\ keys' = keys /\ later' = later
      /\ keys.handover <= handover.package
  BY DEF HandIn, IInv, Typing, RowsInv
<1>1. CASE handover' = [handover EXCEPT !.review = "pending"] /\ UNCHANGED <<outbox, workers>>
  <2>1. Quiet
    BY <1>0, <1>1 DEF Quiet, JInv, Typed
  <2> QED BY <1>0, <1>1, <2>1, RowsLeft
<1>2. CASE /\ handover.package < MaxPackages
           /\ handover' = [handover EXCEPT !.package = @ + 1, !.review = "pending"]
           /\ Moved(<<Row("ready", handover.package + 1)>>, workers)
  <2>1. /\ handover'.package = n /\ handover.package \in Nat /\ n \in Nat
        /\ keys.handover \in Nat /\ keys.handover # n /\ n \in Packages /\ n # 0
    BY <1>0, <1>2, JourneyAssumption DEF JInv, Typed, OthersTyped, Packages
  <2>2. new \notin KnownRows
    BY <2>1 DEF KnownRows, Ready, Row
  <2>3. KnownRows \cup {new} \subseteq KnownRows'
    <3>1. new \in Rows /\ new.n = n /\ new.kind = "ready"
      BY <2>1, JourneyAssumption DEF Row, Rows, Packages
    <3>2. new \in KnownRows'
      BY <1>0, <2>1, <3>1 DEF KnownRows, Ready
    <3>3. ASSUME NEW x \in KnownRows PROVE x \in KnownRows'
      <4>1. x \in Rows /\ (x.kind = "completed" => x.n \in Packages)
        BY DEF KnownRows
      <4>2. Ready(x) => x.n \in 1 .. n /\ x.n # keys.handover
        BY <2>1 DEF KnownRows
      <4> QED BY <1>0, <2>1, <4>1, <4>2 DEF KnownRows
    <3> QED BY <3>2, <3>3
  <2> HIDE DEF new, h
  <2>4. /\ Placed(outbox \o <<new>>, later, h, KnownRows \cup {new})
        /\ Once(outbox \o <<new>>, later, h)
    BY <1>0, <2>2, NewRowAdded
  <2>5. outbox' = outbox \o <<new>> /\ Hands(workers)' = h /\ later' = later
    BY <1>0, <1>2, MovedSlots DEF Moved, Hands, new, h, SlotsTyped
  <2>6. Placed(outbox, later, Hands(workers), KnownRows)'
    <3> DEFINE S == KnownRows \cup {new}
    <3>1. outbox' \in Seq(S) /\ later' \in Seq(S) /\ Hands(workers)' \in [Workers -> S]
      BY <2>4, <2>5 DEF Placed
    <3> HIDE DEF S
    <3>2. S \subseteq KnownRows'
      BY <2>3 DEF S
    <3>3. outbox' \in Seq(KnownRows') /\ later' \in Seq(KnownRows')
      BY <3>1, <3>2, SeqMonotonic
    <3>4. Hands(workers)' \in [Workers -> KnownRows']
      BY <3>1, <3>2
    <3> QED BY <3>3, <3>4 DEF Placed
  <2>7. Once(outbox, later, Hands(workers))'
    BY <2>4, <2>5 DEF Once
  <2>8. keys'.handover <= handover'.package
    BY <1>0, <2>1
  <2> QED BY <2>6, <2>7, <2>8 DEF RowsInv
<1> QED BY <1>1, <1>2 DEF HandIn

LEMMA RunJobRows ==
    ASSUME IInv, NEW w \in Workers, RunJob(w)
    PROVE  RowsInv'
<1> DEFINE h == Hands(workers)
           k == workers[w].job
<1>0. SlotsTyped /\ OthersTyped /\ JInv /\ later' = later
  BY DEF RunJob, IInv, Typing
<1>1. ASSUME NEW at \in {"ran", "failed"}
      PROVE  At(w, at) \in [Workers -> Slot] /\ Hands(At(w, at)) = h
  BY <1>0, SlotForms, HandsForms
<1>2. ASSUME Quiet, NEW at \in {"ran", "failed"}, workers' = At(w, at), outbox' = outbox
      PROVE  RowsInv'
  BY <1>0, <1>1, <1>2, RowsLeft
<1>3. ASSUME Quiet, NEW rows \in {<<Note>>, <<Note, Note>>}, Moved(rows, At(w, "ran"))
      PROVE  RowsInv'
  BY <1>0, <1>1, <1>3, NotesWritten
<1>4. ASSUME EvaluatePayment(w, k) PROVE RowsInv'
  <2>1. keys' = keys \/ keys' = [keys EXCEPT !.waits = @ \cup {k}]
    BY <1>4 DEF EvaluatePayment, NoEffect
  <2>2. Quiet
    BY <1>0, <1>4, <2>1 DEF EvaluatePayment, Quiet, OthersTyped
  <2> QED BY <1>2, <1>3, <1>4, <2>2 DEF EvaluatePayment, NoEffect
<1>5. ASSUME CreateHandover(w, k) PROVE RowsInv'
  <2>1. /\ Quiet /\ outbox' = outbox
        /\ \E at \in {"ran", "failed"} : workers' = At(w, at)
    BY <1>0, <1>5 DEF CreateHandover, NoEffect, Quiet, JInv, Typed
  <2> QED BY <1>2, <2>1
<1>6. ASSUME Activate(w, k) PROVE RowsInv'
  <2>1. Quiet
    BY <1>6 DEF Activate, NoEffect, Quiet
  <2> QED BY <1>2, <1>3, <1>6, <2>1 DEF Activate, NoEffect
<1> QED BY <1>4, <1>5, <1>6 DEF RunJob

LEMMA RowsNext ==
    ASSUME IInv, [Next]_vars
    PROVE  RowsInv'
<1> DEFINE h == Hands(workers)
<1>0. SlotsTyped /\ OthersTyped /\ JInv /\ workers \in [Workers -> Slot]
  BY DEF IInv, Typing, SlotsTyped
<1>1. ASSUME UNCHANGED <<keys, handover, outbox, later, workers>> PROVE RowsInv'
  BY <1>1, RowsLeft DEF Quiet
<1>2. ASSUME NEW w \in Workers
      PROVE  /\ Freed(w) \in [Workers -> Slot]
             /\ Hands(Freed(w)) = [h EXCEPT ![w] = Note]
             /\ \A v \in Workers : Hands(Freed(w))[v] \in {h[v], Note}
  <2>1. Freed(w) \in [Workers -> Slot] /\ Hands(Freed(w)) = [h EXCEPT ![w] = Note]
    BY <1>0, SlotForms, HandsForms
  <2> QED BY <2>1 DEF Hands
<1>3. ASSUME NEW w \in Workers, UNCHANGED <<keys, handover, outbox, later>>, workers' = Freed(w)
      PROVE  RowsInv'
  BY <1>2, <1>3, RowsLeft DEF Quiet
<1>4. ASSUME NEW w \in Workers, ClaimJob(w) PROVE RowsInv'
  <2>1. PICK k \in DOMAIN jobs : workers' = [workers EXCEPT ![w] = [Free EXCEPT !.at = "job", !.job = k]]
    BY <1>4 DEF ClaimJob
  <2>2. [Free EXCEPT !.at = "job", !.job = k].held = FALSE
    BY DEF Free
  <2>3. \A v \in Workers : Hands(workers')[v] \in {h[v], Note}
    BY <1>0, <2>1, <2>2 DEF Hands
  <2>4. Quiet /\ UNCHANGED <<outbox, later>>
    BY <1>4 DEF ClaimJob, Business, Quiet
  <2> QED BY <2>3, <2>4, RowsLeft
<1>5. ASSUME NEW w \in Workers, CompleteJob(w) PROVE RowsInv'
  BY <1>3, <1>5 DEF CompleteJob, Business
<1>6. ASSUME NEW w \in Workers, DeadLetterJob(w) PROVE RowsInv'
  <2>1. UNCHANGED <<keys, handover, later>> /\ Quiet
    BY <1>6 DEF DeadLetterJob, Business, Quiet
  <2>2. \/ UNCHANGED outbox /\ workers' = Freed(w)
        \/ Moved(<<Note>>, Freed(w))
    BY <1>6 DEF DeadLetterJob
  <2> QED BY <1>2, <1>3, <2>1, <2>2, NotesWritten
<1>7. ASSUME NEW w \in Workers, Failure(w) PROVE RowsInv'
  <2>1. UNCHANGED <<keys, handover>> /\ Quiet
    BY <1>7 DEF Failure, RowFails, Break, Reschedule, Crash, Business, Quiet
  <2>2. CASE RowFails(w)
    BY <2>1, <2>2, RowPutOffNext DEF RowFails
  <2>3. CASE Break(w)
    <3>1. workers' = At(w, "failed") /\ UNCHANGED <<outbox, later>>
      BY <2>3 DEF Break
    <3>2. Hands(At(w, "failed")) = h
      BY <1>0, HandsForms
    <3> QED BY <2>1, <3>1, <3>2, RowsLeft
  <2>4. CASE Reschedule(w)
    BY <1>3, <2>1, <2>4 DEF Reschedule
  <2>5. CASE Crash(w)
    BY <1>3, <2>1, <2>5, RowPutOffNext DEF Crash, PutOff
  <2> QED BY <1>7, <2>2, <2>3, <2>4, <2>5 DEF Failure
<1>8. ASSUME Quiet, NEW rows \in {<<Note>>, <<Note, Note>>}, Moved(rows, workers), later' = later
      PROVE  RowsInv'
  BY <1>0, <1>8, NotesWritten
<1>9. CASE Pay
  <2> DEFINE rows == <<Row("paid", unpaid)>>
  <2>1. /\ Quiet /\ Moved(rows, workers) /\ later' = later
    BY <1>9 DEF Pay, Quiet
  <2>2. Row("paid", unpaid) \in KnownRows /\ ~Ready(Row("paid", unpaid))
    BY <1>0, JourneyAssumption DEF OthersTyped, Row, Rows, KnownRows, Ready
  <2>3. rows \in Seq(KnownRows) /\ \A i \in DOMAIN rows : ~Ready(rows[i])
    BY <2>2
  <2> HIDE DEF rows
  <2> QED BY <1>0, <2>1, <2>3, RowsWritten
<1>10. CASE Decide
  <2>1. handover'.package = handover.package
    BY <1>0, <1>10 DEF Decide, JInv, Typed
  <2> QED BY <1>8, <1>10, <2>1 DEF Decide, Quiet
<1>11. CASE Pause \/ Resume \/ Retry
  BY <1>8, <1>11 DEF Pause, Resume, Retry, Business, Quiet
<1>12. CASE ActivateByHand
  BY <1>8, <1>12 DEF ActivateByHand, Quiet
<1>13. CASE UNCHANGED vars
  BY <1>1, <1>13 DEF vars
<1> QED BY <1>4, <1>5, <1>6, <1>7, <1>9, <1>10, <1>11, <1>12, <1>13, ClaimRowRows, DispatchRows,
        HandInRows, RunJobRows DEF Next, Operators, Worker

(***************************************************************************)
(* What becomes of the exceptions                                          *)
(***************************************************************************)

LEMMA OpenRows ==
    ASSUME IInv, NEW i \in OpenExceptions
    PROVE  /\ i \in DOMAIN exceptions /\ exceptions[i].job \in DOMAIN jobs
           /\ exceptions[i].job.step = journey.step /\ journey.step \in JobSteps
           /\ jobs[exceptions[i].job].state = "dead"
<1>1. i \in DOMAIN exceptions /\ exceptions[i].job \in DOMAIN jobs
  BY ExceptionRows DEF OpenExceptions
<1>2. exceptions[i].job.step = journey.step /\ jobs[exceptions[i].job].state = "dead"
  BY DEF IInv, ExceptionsInv, ExceptionCanBeRetried
<1> QED BY <1>1, <1>2 DEF IInv, Typing, JobsTyped, Keys

(* Only retryJourney wakes a dead-lettered job.                            *)
LEMMA DeadStays ==
    ASSUME IInv, [Next]_vars, ~Retry, NEW k \in DOMAIN jobs, jobs[k].state = "dead"
    PROVE  k \in DOMAIN jobs' /\ jobs'[k].state = "dead"
<1>1. ASSUME NEW j \in Keys, JobAdded(j) PROVE jobs'[k] = jobs[k]
  BY <1>1, EnqueuedKeeps DEF JobAdded, IInv, Typing
<1>2. ASSUME NEW j, JobMoved(j) PROVE jobs'[k] = jobs[k]
  BY <1>2 DEF JobMoved
<1> QED BY <1>1, <1>2, JobForms, JobsNext DEF JobRetried

(* The exceptions stay typed while the jobs only get more.                 *)
LEMMA ExceptionsTyped ==
    ASSUME NEW S, NEW T, S \subseteq T, NEW e \in Seq([job : S, open : BOOLEAN])
    PROVE  e \in Seq([job : T, open : BOOLEAN])
<1>1. [job : S, open : BOOLEAN] \subseteq [job : T, open : BOOLEAN]
  OBVIOUS
<1> QED BY <1>1, SeqMonotonic

(* The same exceptions are open at the same step.                          *)
LEMMA ExceptionsKept ==
    ASSUME IInv, [Next]_vars, ~Retry, exceptions' = exceptions, journey'.step = journey.step,
           "EXCEPTION" \in {journey'.status, journey'.before} =>
              "EXCEPTION" \in {journey.status, journey.before}
    PROVE  ExceptionsInv'
<1>1. exceptions' \in Seq([job : DOMAIN jobs', open : BOOLEAN])
  BY JobsNext, ExceptionsTyped DEF IInv, ExceptionsInv
<1>2. OpenExceptions' = OpenExceptions
  BY DEF OpenExceptions
<1>3. \A i \in OpenExceptions : jobs'[exceptions[i].job].state = "dead"
  BY OpenRows, DeadStays
<1> QED BY <1>1, <1>2, <1>3 DEF IInv, ExceptionsInv, ExceptionCanBeRetried

(* No exception is open, and the journey is not in EXCEPTION.              *)
LEMMA NoneOpen ==
    ASSUME IInv, [Next]_vars, OpenExceptions' = {},
           exceptions' \in Seq([job : DOMAIN jobs, open : BOOLEAN]),
           journey'.status # "EXCEPTION", journey'.before # "EXCEPTION"
    PROVE  ExceptionsInv'
<1>1. exceptions' \in Seq([job : DOMAIN jobs', open : BOOLEAN])
  BY JobsNext, ExceptionsTyped
<1> QED BY <1>1 DEF ExceptionsInv, ExceptionCanBeRetried

LEMMA ResolvedExceptions ==
    ASSUME IInv, NEW step, exceptions' = Resolved(step)
    PROVE  /\ exceptions' \in Seq([job : DOMAIN jobs, open : BOOLEAN])
           /\ journey.step = step => OpenExceptions' = {}
<1> DEFINE S == [job : DOMAIN jobs, open : BOOLEAN]
           close(i) == IF exceptions[i].job.step = step
                         THEN [exceptions[i] EXCEPT !.open = FALSE] ELSE exceptions[i]
<1>1. exceptions \in Seq(S)
  BY DEF IInv, ExceptionsInv
<1>2. \A i \in DOMAIN exceptions : close(i) \in S
  BY ExceptionRows
<1>3. exceptions' = [i \in DOMAIN exceptions |-> close(i)]
  BY DEF Resolved
<1>4. ASSUME journey.step = step, NEW i \in DOMAIN exceptions PROVE ~close(i).open
  <2>1. CASE exceptions[i].job.step = step
    BY <2>1, ExceptionRows
  <2>2. CASE exceptions[i].job.step # step
    BY <1>4, <2>2, OpenRows DEF OpenExceptions
  <2> QED BY <2>1, <2>2
<1> HIDE DEF S, close
<1>5. exceptions' \in Seq(S)
  <2>1. Len(exceptions) \in Nat /\ DOMAIN exceptions = 1 .. Len(exceptions)
    BY <1>1
  <2> QED BY <1>2, <1>3, <2>1, IsASeq
<1>6. DOMAIN exceptions' = DOMAIN exceptions /\ \A i \in DOMAIN exceptions : exceptions'[i] = close(i)
  BY <1>3
<1>7. journey.step = step => OpenExceptions' = {}
  BY <1>4, <1>6 DEF OpenExceptions
<1> QED BY <1>5, <1>7 DEF S

LEMMA CompleteExceptions ==
    ASSUME IInv, [Next]_vars, NEW step \in Steps, CanMove(step), Complete(step)
    PROVE  ExceptionsInv'
<1>1. journey.step = step /\ exceptions' = Resolved(step)
  BY DEF CanMove, Complete
<1>2. journey'.status # "EXCEPTION" /\ journey'.before = "NONE"
  BY DEF CanMove, Complete, IInv, OrderInv, JInv, Typed
<1> QED BY <1>1, <1>2, ResolvedExceptions, NoneOpen

(* A worker dead-letters a job that fails at the current step.             *)
LEMMA DeadLetterExceptions ==
    ASSUME IInv, [Next]_vars, ~Retry, NEW w \in Workers, DeadLetterJob(w)
    PROVE  ExceptionsInv'
<1> DEFINE k == workers[w].job
           over == steps[k.step] = "COMPLETED"
           S == [job : DOMAIN jobs, open : BOOLEAN]
<1>1. k \in DOMAIN jobs /\ k.step \in Reached(journey.step) /\ workers[w].at = "failed"
  BY DEF DeadLetterJob, IInv, ReachedInv
<1>2. CASE ~HoldsJob(w, k) \/ over
  BY <1>2, ExceptionsKept DEF DeadLetterJob, Keep
<1>3. CASE HoldsJob(w, k) /\ ~over
  <2>1. journey.step = k.step
    BY <1>1, <1>3 DEF Reached, IInv, OrderInv, StepsInOrder
  <2>2. /\ Excepted(k) /\ Became(k, "dead")
        /\ exceptions' = Append(exceptions, [job |-> k, open |-> TRUE])
    BY <1>3, <2>1 DEF DeadLetterJob
  <2>3. jobs[k].state = "taken" /\ jobs'[k].state = "dead"
    BY <1>1, <1>3, <2>2 DEF HoldsJob, Became, IInv, Typing, JobsTyped
  <2>4. journey'.step = journey.step
    BY <2>2 DEF Excepted, IInv, JInv, Typed
  <2> DEFINE n == Len(exceptions) + 1
             e == [job |-> k, open |-> TRUE]
  <2>5. /\ exceptions \in Seq(S) /\ e \in S /\ e.job = k /\ e.open
    BY <1>1 DEF IInv, ExceptionsInv
  <2> HIDE DEF S, e
  <2>6. /\ exceptions' \in Seq(S) /\ DOMAIN exceptions' = DOMAIN exceptions \cup {n}
        /\ n \notin DOMAIN exceptions /\ exceptions'[n] = e
        /\ \A i \in DOMAIN exceptions : exceptions'[i] = exceptions[i]
    BY <2>2, <2>5 DEF e
  <2> HIDE DEF n
  <2>7. exceptions' \in Seq([job : DOMAIN jobs', open : BOOLEAN])
    BY <2>6, JobsNext, ExceptionsTyped DEF S
  <2>8. OpenExceptions' = OpenExceptions \cup {n}
    BY <2>5, <2>6 DEF OpenExceptions
  <2>9. ASSUME NEW i \in OpenExceptions
        PROVE  /\ exceptions'[i].job = exceptions[i].job /\ exceptions[i].job # k
               /\ exceptions[i].job.step = journey.step
               /\ jobs'[exceptions[i].job].state = "dead"
    BY <2>3, <2>6, OpenRows, DeadStays
  <2>10. \A i \in OpenExceptions' : exceptions'[i].job.step = journey'.step
    BY <2>1, <2>4, <2>5, <2>6, <2>8, <2>9
  <2>11. \A i, j \in OpenExceptions' : exceptions'[i].job = exceptions'[j].job => i = j
    BY <2>5, <2>6, <2>8, <2>9 DEF IInv, ExceptionsInv
  <2>12. \A i \in OpenExceptions' : jobs'[exceptions'[i].job].state = "dead"
    BY <2>3, <2>5, <2>6, <2>8, <2>9
  <2> QED BY <2>7, <2>8, <2>10, <2>11, <2>12 DEF ExceptionsInv, ExceptionCanBeRetried
<1> QED BY <1>2, <1>3

(* An operator schedules the job of the latest exception again.            *)
LEMMA RetryExceptions ==
    ASSUME IInv, [Next]_vars, Retry
    PROVE  ExceptionsInv'
<1> DEFINE S == [job : DOMAIN jobs, open : BOOLEAN]
<1>1. PICK i \in OpenExceptions :
         /\ Became(exceptions[i].job, "retry")
         /\ exceptions' = [exceptions EXCEPT ![i].open = FALSE]
  BY DEF Retry, Latest
<1> DEFINE closed == [exceptions[i] EXCEPT !.open = FALSE]
<1>2. /\ exceptions \in Seq(S) /\ i \in DOMAIN exceptions /\ closed \in S /\ ~closed.open
      /\ closed.job = exceptions[i].job
  BY ExceptionRows DEF IInv, ExceptionsInv, OpenExceptions
<1>3. exceptions' = [exceptions EXCEPT ![i] = closed]
  BY <1>1
<1> HIDE DEF S, closed
<1>4. /\ exceptions' \in Seq(S) /\ DOMAIN exceptions' = DOMAIN exceptions
      /\ exceptions'[i] = closed
      /\ \A j \in DOMAIN exceptions \ {i} : exceptions'[j] = exceptions[j]
  BY <1>2, <1>3
<1>5. OpenExceptions' = OpenExceptions \ {i}
  BY <1>2, <1>4 DEF OpenExceptions
<1>6. ASSUME NEW j \in OpenExceptions \ {i}
      PROVE  /\ exceptions'[j] = exceptions[j]
             /\ exceptions[j].job.step = journey.step
             /\ jobs'[exceptions[j].job].state = "dead"
  <2>1. /\ j \in DOMAIN exceptions /\ exceptions[j].job.step = journey.step
        /\ jobs[exceptions[j].job].state = "dead"
    BY OpenRows
  <2>2. exceptions[j].job # exceptions[i].job
    BY DEF IInv, ExceptionsInv
  <2>3. jobs'[exceptions[j].job] = jobs[exceptions[j].job]
    BY <1>1, <2>2 DEF Became
  <2> QED BY <1>4, <2>1, <2>3
<1>7. /\ journey'.step = journey.step /\ journey'.status = "RETRY_SCHEDULED"
      /\ journey'.before = "NONE"
  BY DEF Retry, IInv, OrderInv, JInv, Typed
<1>8. exceptions' \in Seq([job : DOMAIN jobs', open : BOOLEAN])
  BY <1>4, JobsNext, ExceptionsTyped DEF S
<1>9. \A j, l \in OpenExceptions' : exceptions'[j].job = exceptions'[l].job => j = l
  BY <1>5, <1>6 DEF IInv, ExceptionsInv
<1> QED BY <1>5, <1>6, <1>7, <1>8, <1>9 DEF ExceptionsInv, ExceptionCanBeRetried

LEMMA ExceptionsNext ==
    ASSUME IInv, [Next]_vars
    PROVE  ExceptionsInv'
<1>1. CASE Retry
  BY <1>1, RetryExceptions
<1>2. CASE ~Retry
  <2>0. /\ Typed
        /\ journey.status # "PAUSED" => journey.before = "NONE"
    BY DEF IInv, JInv, OrderInv
  <2>1. ASSUME Keep PROVE ExceptionsInv'
    BY <1>2, <2>1, ExceptionsKept DEF Keep
  <2>2. ASSUME NEW s \in Steps, NEW status \in {"WAITING_CUSTOMER", "WAITING_MANUAL"},
               CanMove(s), Wait(s, status), exceptions' = exceptions
        PROVE  ExceptionsInv'
    <3>1. journey'.step = journey.step /\ journey'.status = status /\ journey'.before = "NONE"
      BY <2>0, <2>2 DEF Wait, CanMove, Typed
    <3> QED BY <1>2, <2>2, <3>1, ExceptionsKept
  <2>3. ASSUME NEW w \in Workers, Dispatch(w) PROVE ExceptionsInv'
    <3>1. ASSUME workers[w].held, workers[w].row.kind = "ready",
                 TakeUpEvidence(w, workers[w].row.n)
          PROVE  ExceptionsInv'
      <4>1. keys.handover # workers[w].row.n
        BY <3>1, ReadyIsNew
      <4> QED BY <2>1, <3>1, <4>1, CompleteExceptions DEF TakeUpEvidence, Keep
    <3>2. ASSUME OpenDecision(w, workers[w].row) PROVE ExceptionsInv'
      BY <2>1, <2>2, <3>2 DEF OpenDecision, Keep
    <3> QED BY <2>1, <2>3, <3>1, <3>2 DEF Dispatch, EnqueueStep
  <2>4. ASSUME NEW w \in Workers, RunJob(w) PROVE ExceptionsInv'
    <3>1. ASSUME NEW k, EvaluatePayment(w, k) PROVE ExceptionsInv'
      BY <2>1, <2>2, <3>1, CompleteExceptions DEF EvaluatePayment, NoEffect
    <3>2. ASSUME NEW k, CreateHandover(w, k) PROVE ExceptionsInv'
      BY <2>1, <3>2 DEF CreateHandover, NoEffect
    <3>3. ASSUME NEW k, Activate(w, k) PROVE ExceptionsInv'
      <4>1. CASE MayActivate /\ Complete("activation")
        BY <4>1, CompleteExceptions DEF MayActivate
      <4>2. CASE /\ journey' = [journey EXCEPT !.status = "PAUSED", !.before = "RUNNING"]
                 /\ exceptions' = exceptions
        <5>1. /\ journey'.step = journey.step /\ journey'.status = "PAUSED"
              /\ journey'.before = "RUNNING"
          BY <2>0, <4>2 DEF Typed
        <5> QED BY <1>2, <4>2, <5>1, ExceptionsKept
      <4> QED BY <2>1, <3>3, <4>1, <4>2 DEF Activate, NoEffect, Keep
    <3> QED BY <2>4, <3>1, <3>2, <3>3 DEF RunJob
  <2>5. ASSUME NEW w \in Workers,
               ClaimRow(w) \/ ClaimJob(w) \/ CompleteJob(w) \/ Failure(w)
        PROVE  ExceptionsInv'
    BY <2>1, <2>5 DEF ClaimRow, ClaimJob, CompleteJob, Failure, RowFails, Break, Reschedule, Crash
  <2>6. CASE Decide
    <3>1. CanMove("evidence") /\ journey.step = "evidence"
      BY <2>6 DEF Decide, CanMove
    <3>2. CASE Complete("evidence")
      BY <3>1, <3>2, CompleteExceptions
    <3>3. CASE Return /\ exceptions' = exceptions
      <4>1. OpenExceptions = {}
        BY <3>1, OpenRows DEF JobSteps
      <4>2. OpenExceptions' = {}
        BY <3>3, <4>1 DEF OpenExceptions
      <4>3. journey'.status = "RUNNING" /\ journey'.before = "NONE"
        BY <2>0, <3>1, <3>3 DEF Return, CanMove, Typed
      <4> QED BY <3>3, <4>2, <4>3, NoneOpen DEF IInv, ExceptionsInv
    <3> QED BY <2>6, <3>2, <3>3 DEF Decide
  <2>7. CASE Pause
    <3>1. /\ journey'.step = journey.step /\ journey'.status = "PAUSED"
          /\ journey'.before = journey.status /\ exceptions' = exceptions
      BY <2>0, <2>7 DEF Pause, Typed
    <3> QED BY <1>2, <3>1, ExceptionsKept
  <2>8. CASE Resume
    <3>1. /\ journey'.step = journey.step /\ journey'.status = journey.before
          /\ journey'.before = "NONE" /\ exceptions' = exceptions
      BY <2>0, <2>8 DEF Resume, Typed
    <3> QED BY <1>2, <3>1, ExceptionsKept
  <2>9. CASE Pay \/ HandIn \/ UNCHANGED vars
    BY <2>1, <2>9 DEF Pay, HandIn, Keep, vars
  <2>10. CASE ActivateByHand
    BY <2>10, CompleteExceptions DEF ActivateByHand, MayActivate
  <2> QED BY <1>2, <2>3, <2>4, <2>5, <2>6, <2>7, <2>8, <2>9, <2>10, DeadLetterExceptions
          DEF Next, Operators, Worker
<1> QED BY <1>1, <1>2

LEMMA IInvNext == IInv /\ [Next]_vars => IInv'
<1> SUFFICES ASSUME IInv, [Next]_vars PROVE IInv'
  OBVIOUS
<1>1. JInv'
  BY JourneyStep DEF IInv
<1>2. Typing'
  BY OthersNext, SlotsNext, JobsNext DEF Typing
<1> QED BY <1>1, <1>2, RowsNext, OrderNext, ReachedNext, ExceptionsNext DEF IInv

(***************************************************************************)
(* The theorems                                                            *)
(***************************************************************************)

(* However jobs run again after crashes, lapsed leases and resumes, one    *)
(* handover and one activation are made (createJourneyHandoverInTransaction, *)
(* completeActivation).                                                    *)
THEOREM EverythingMadeOnce == Spec => []MadeOnce
<1>1. JInv => MadeOnce
  BY DEF JInv, MadeInv, MadeOnce
<1> QED BY <1>1, JourneyInit, JourneyStep, PTL DEF Spec

(* The lease is activated only when the first bills are settled and the    *)
(* package that is then under review has been approved                     *)
(* (activateSubscriptionJob).                                              *)
THEOREM EveryActivationIsEarned == Spec => ActivationIsEarned
<1>1. JInv /\ [Next]_vars =>
        [made'.activations > made.activations =>
            /\ unpaid = 0
            /\ [package |-> handover.package, status |-> "APPROVED"] \in tasks]_vars
  BY JourneyStep DEF Earned
<1> QED BY <1>1, JourneyInit, JourneyStep, PTL DEF Spec, ActivationIsEarned

(* The state keeps its types: in particular every task and every event key *)
(* names a package that was handed in, and every exception a job there is. *)
THEOREM JourneyTyped == Spec => []TypeOK
BY IInvInit, IInvNext, TypingImplies, PTL DEF Spec

(* The journey's row and those of its steps tell the same story            *)
(* (validateCurrentStep, which refuses every move otherwise).              *)
THEOREM StepsStayInOrder == Spec => []StepsInOrder
<1>1. IInv => StepsInOrder
  BY DEF IInv, OrderInv
<1> QED BY <1>1, IInvInit, IInvNext, PTL DEF Spec

(* Whatever workers, crashes, pauses and retries do, a journey in          *)
(* EXCEPTION has an open exception whose job can be retried                *)
(* (recordLockedException, resolveStepExceptions, retryJourney).           *)
THEOREM EveryExceptionCanBeRetried == Spec => []ExceptionCanBeRetried
<1>1. IInv => ExceptionCanBeRetried
  BY DEF IInv, ExceptionsInv
<1> QED BY <1>1, IInvInit, IInvNext, PTL DEF Spec
=============================================================================
