------------------------ MODULE NoticeDeliveryProofs ------------------------
(***************************************************************************)
(* Theorems about NoticeDelivery, for every finite set of workers and any  *)
(* number of faults, retries and repairs.                                  *)
(***************************************************************************)
EXTENDS NoticeDelivery, AutomationJobTableProofs, FiniteSetTheorems

-----------------------------------------------------------------------------
(* Type correctness.                                                       *)

\* The slots have their type, and what is stored is the result of a call.
SlotsOK ==
  /\ senders \in [Workers -> Sender]
  /\ \A w \in Workers : senders[w].pc = "store" => senders[w].result # "none"

TypeInv == TypeOK /\ job \in SoundJob /\ SlotsOK

\* The moves a handler makes keep the slots sound.
LEMMA SlotGoes ==
  ASSUME SlotsOK, NEW w \in Workers, NEW step \in Steps \ {"store"}, Go(w, step)
  PROVE  SlotsOK'
BY DEF SlotsOK, Go, Sender

LEMMA SlotReturns ==
  ASSUME SlotsOK, NEW w \in Workers, NEW o \in {"none", "ok", "retry"}, Return(w, o)
  PROVE  SlotsOK'
BY DEF SlotsOK, Return, Sender

LEMMA SlotReports ==
  ASSUME SlotsOK, NEW w \in Workers, NEW status, Report(w, status)
  PROVE  SlotsOK'
<1>1. PICK o \in {"ok", "retry"} :
        senders' = [senders EXCEPT ![w].pc = "event", ![w].outcome = o]
  BY DEF Report
<1> QED
  BY <1>1 DEF SlotsOK, Sender, Steps

LEMMA SlotEnds ==
  ASSUME SlotsOK, NEW w \in Workers, senders' = [senders EXCEPT ![w] = IdleSender]
  PROVE  SlotsOK'
<1>1. IdleSender \in Sender /\ IdleSender.pc # "store"
  BY DEF IdleSender, Sender
<1> QED
  BY <1>1 DEF SlotsOK

LEMMA TypeInit == Init => TypeInv
<1> SUFFICES ASSUME Init PROVE TypeInv
  OBVIOUS
<1>1. job \in SoundJob /\ SoundJob \subseteq Job
  BY MaxAttemptsAssumption DEF Init, SoundJob, Job, JobStatus, FreshJob, Row
<1>2. SlotsOK
  BY DEF Init, SlotsOK, IdleSender, Sender
<1>3. senders \in [Workers -> Sender]
  BY <1>2 DEF SlotsOK
<1>4. faults \in 0..MaxFaults /\ ops \in 0..MaxOps /\ messages \in Nat /\ doubts \in Nat
  BY NoticeBoundsAssumption DEF Init
<1>5. settled \in BOOLEAN
  BY Zenon DEF Init
<1>6. /\ portal \in {"NONE", "SENT", "READ"}
      /\ wechat \in {"NONE", "PENDING", "PROCESSING", "SENT", "FAILED", "SKIPPED"}
      /\ account \in {"unbound", "late", "bound"}
      /\ operator \in {"idle", "sent", "unsent"}
  BY DEF Init
<1> QED
  BY <1>1, <1>2, <1>3, <1>4, <1>5, <1>6 DEF TypeInv, TypeOK

LEMMA SlotsHandle ==
  ASSUME SlotsOK, NEW w \in Workers, Handle(w)
  PROVE  SlotsOK'
<1> USE DEF At
<1>1. CASE ReadBill(w)
  BY <1>1, SlotReturns, SlotGoes DEF ReadBill, Steps
<1>2. CASE ReadAccount(w)
  <2>1. PICK b \in BOOLEAN : senders' = [senders EXCEPT ![w].pc = "portal", ![w].bound = b]
    BY <1>2 DEF ReadAccount
  <2> QED
    BY <2>1 DEF SlotsOK, Sender, Steps
<1>3. CASE KeepPortalRecord(w)
  BY <1>3, SlotGoes DEF KeepPortalRecord, Steps
<1>4. CASE LookUpWechat(w)
  <2>1. CASE CompleteStatus(wechat)
    BY <1>4, <2>1, SlotReports DEF LookUpWechat
  <2>2. CASE ~CompleteStatus(wechat)
    <3>1. PICK step \in {"open", "skip"}, found \in BOOLEAN :
            senders' = [senders EXCEPT ![w].pc = step, ![w].exists = found]
      BY <1>4, <2>2 DEF LookUpWechat
    <3> QED
      BY <3>1 DEF SlotsOK, Sender, Steps
  <2> QED
    BY <2>1, <2>2
<1>5. CASE SkipWechat(w)
  BY <1>5, SlotReports DEF SkipWechat
<1>6. CASE OpenWechat(w)
  BY <1>6, SlotReports, SlotGoes DEF OpenWechat, Steps
<1>7. CASE ClaimWechat(w)
  BY <1>7, SlotReports, SlotGoes DEF ClaimWechat, Steps
<1>8. CASE Deliver(w)
  BY <1>8 DEF Deliver, SlotsOK, Sender, Steps
<1>9. CASE Refuse(w)
  BY <1>9 DEF Refuse, SlotsOK, Sender, Steps
<1>10. CASE LoseResponse(w)
  BY <1>10 DEF LoseResponse, SlotsOK, Sender, Steps
<1>11. CASE StoreResult(w)
  BY <1>11, SlotReports DEF StoreResult
<1>12. CASE WriteEvent(w)
  <2>1. senders[w].outcome \in {"none", "ok", "retry"}
    BY DEF SlotsOK, Sender
  <2> QED
    BY <1>12, <2>1, SlotReturns DEF WriteEvent
<1>13. CASE StatementFails(w)
  BY <1>13, SlotReturns DEF StatementFails
<1> QED
  BY <1>1, <1>2, <1>3, <1>4, <1>5, <1>6, <1>7, <1>8, <1>9, <1>10, <1>11, <1>12, <1>13 DEF Handle

\* The rest of the state.
LEMMA RestHandle ==
  ASSUME TypeInv, NEW w \in Workers, Handle(w)
  PROVE  /\ portal' \in {"NONE", "SENT", "READ"}
         /\ wechat' \in {"NONE", "PENDING", "PROCESSING", "SENT", "FAILED", "SKIPPED"}
         /\ messages' \in Nat /\ doubts' \in Nat /\ faults' \in 0..MaxFaults
         /\ UNCHANGED <<job, account, settled, operator, ops>>
<1>1. senders[w].pc = "store" => senders[w].result \in {"SENT", "FAILED"}
  BY DEF TypeInv, SlotsOK, Sender
<1> QED
  BY <1>1, NoticeBoundsAssumption
     DEF TypeInv, TypeOK, At, Handle, ReadBill, ReadAccount, KeepPortalRecord, LookUpWechat,
         SkipWechat, OpenWechat, ClaimWechat, Deliver, Refuse, LoseResponse, StoreResult,
         WriteEvent, StatementFails, Fault

LEMMA TypeStep == TypeInv /\ [Next]_vars => TypeInv'
<1> SUFFICES ASSUME TypeInv, [Next]_vars PROVE TypeInv'
  OBVIOUS
<1> USE NoticeBoundsAssumption DEF TypeInv, TypeOK
<1>1. SoundJob \subseteq Job /\ (SlotsOK' => senders' \in [Workers -> Sender])
  BY DEF SoundJob, SlotsOK
<1>2. UNCHANGED senders => SlotsOK'
  BY DEF SlotsOK
<1>3. FreshJob \in SoundJob
  BY MaxAttemptsAssumption DEF FreshJob, Row, SoundJob, Job, JobStatus
<1>4. ASSUME NEW w \in Workers, Claim(w) PROVE TypeInv'
  <2>1. SlotsOK'
    BY <1>4, SlotGoes DEF Claim, Steps
  <2> QED
    BY <1>1, <1>4, <2>1, JobUpdates DEF Claim
<1>5. ASSUME NEW w \in Workers, Handle(w) PROVE TypeInv'
  BY <1>1, <1>5, SlotsHandle, RestHandle
<1>6. ASSUME NEW w \in Workers, Finish(w) PROVE TypeInv'
  <2>1. job' \in SoundJob
    BY <1>6, JobUpdates DEF Finish
  <2>2. SlotsOK'
    BY <1>6, SlotEnds DEF Finish
  <2> QED
    BY <1>1, <1>6, <2>1, <2>2 DEF Finish
<1>7. ASSUME NEW w \in Workers, Crash(w) PROVE TypeInv'
  <2>1. SlotsOK'
    BY <1>7, SlotEnds DEF Crash
  <2> QED
    BY <1>1, <1>7, <2>1 DEF Crash, Fault
<1>8. CASE LeaseExpires
  <2>1. job' \in SoundJob
    BY <1>8 DEF LeaseExpires, SoundJob, Job
  <2> QED
    BY <1>1, <1>2, <1>8, <2>1 DEF LeaseExpires, Fault
<1>9. CASE BindWechat
  BY <1>1, <1>2, <1>9 DEF BindWechat
<1>10. CASE ReadPortal
  BY <1>1, <1>2, <1>10 DEF ReadPortal
<1>11. CASE Settle
  <2>1. job' \in SoundJob
    BY <1>11 DEF Settle, SoundJob, Job, JobStatus, Row
  <2> QED
    BY <1>1, <1>2, <1>11, <2>1 DEF Settle
<1>12. CASE RetryJob
  BY <1>1, <1>2, <1>3, <1>12 DEF RetryJob, Operate
<1>13. CASE LookInChannel
  BY <1>1, <1>2, <1>13 DEF LookInChannel, Operate
<1>14. CASE Resolve
  BY <1>1, <1>2, <1>14 DEF Resolve
<1>15. CASE UNCHANGED vars
  BY <1>1, <1>2, <1>15 DEF vars
<1> QED
  BY <1>4, <1>5, <1>6, <1>7, <1>8, <1>9, <1>10, <1>11, <1>12, <1>13, <1>14, <1>15 DEF Next

LEMMA TypeInvariant == Spec => []TypeInv
BY TypeInit, TypeStep, PTL DEF Spec

\* The rows, records and slots always have their types; in particular no job
\* counts more attempts than it has.
THEOREM NoticeTypeCorrect == Spec => []TypeOK
BY TypeInvariant, PTL DEF TypeInv

-----------------------------------------------------------------------------
(* At most one message.  A message needs a permission: the first one comes *)
(* with the notice, a further one with every doubt.  A permission lies in  *)
(* an open record or with a handler in flight until it becomes a message;  *)
(* a claim moves it, a failed send gives it back.                          *)

Opening == IF wechat \in {"NONE", "PENDING", "FAILED"} THEN 1 ELSE 0

Budget == messages + Cardinality(InFlight) + Opening <= 1 + doubts

Weight(w) == IF MaySend(senders[w]) THEN 1 ELSE 0

\* When one slot changes, the number of handlers in flight changes with it.
LEMMA OneSlot ==
  ASSUME NEW w \in Workers, \A v \in Workers \ {w} : senders'[v] = senders[v]
  PROVE  /\ Cardinality(InFlight) \in Nat /\ Cardinality(InFlight)' \in Nat
         /\ Cardinality(InFlight)' = Cardinality(InFlight) - Weight(w) + Weight(w)'
<1>1. IsFiniteSet(InFlight)
  BY FiniteAssumption, FS_Subset DEF InFlight
<1>2. Cardinality(InFlight) \in Nat
  BY <1>1, FS_CardinalityType
<1>3. w \in InFlight <=> MaySend(senders[w])
  BY DEF InFlight
<1>4. CASE MaySend(senders[w])'
  <2>1. InFlight' = InFlight \cup {w}
    BY <1>4 DEF InFlight
  <2>2. Cardinality(InFlight') = IF w \in InFlight THEN Cardinality(InFlight)
                                 ELSE Cardinality(InFlight) + 1
    BY <2>1, <1>1, FS_AddElement
  <2> QED
    BY <1>2, <1>3, <1>4, <2>2 DEF Weight
<1>5. CASE ~MaySend(senders[w])'
  <2>1. InFlight' = InFlight \ {w}
    BY <1>5 DEF InFlight
  <2>2. Cardinality(InFlight') = IF w \in InFlight THEN Cardinality(InFlight) - 1
                                 ELSE Cardinality(InFlight)
    BY <2>1, <1>1, FS_RemoveElement
  <2>3. Cardinality(InFlight') \in Nat
    BY <2>1, <1>1, FS_RemoveElement, FS_CardinalityType
  <2> QED
    BY <1>2, <1>3, <1>5, <2>2, <2>3 DEF Weight
<1> QED
  BY <1>4, <1>5

\* No slot changes.
LEMMA NoSlot ==
  ASSUME UNCHANGED senders
  PROVE  /\ Cardinality(InFlight) \in Nat
         /\ Cardinality(InFlight)' = Cardinality(InFlight) /\ InFlight' = InFlight
<1>1. InFlight' = InFlight
  BY DEF InFlight
<1>2. Cardinality(InFlight) \in Nat
  BY FiniteAssumption, FS_Subset, FS_CardinalityType DEF InFlight
<1> QED
  BY <1>1, <1>2

LEMMA BudgetInit == Init => Budget
<1> SUFFICES ASSUME Init PROVE Budget
  OBVIOUS
<1>1. InFlight = {}
  BY DEF Init, InFlight, MaySend, IdleSender
<1> QED
  BY <1>1, FS_EmptySet DEF Init, Budget, Opening

\* Where the moves lead.
LEMMA MovesLead ==
  ASSUME SlotsOK, NEW w \in Workers
  PROVE  /\ \A step : Go(w, step) => senders'[w].pc = step
         /\ \A o : Return(w, o) => senders'[w].pc = "done" /\ senders'[w].outcome = o
         /\ \A status :
              Report(w, status) => /\ senders'[w].pc = "event"
                                   /\ CompleteStatus(status) \/ senders'[w].outcome = "retry"
<1> USE DEF SlotsOK, Sender
<1>1. \A step : Go(w, step) => senders'[w].pc = step
  BY DEF Go
<1>2. \A o : Return(w, o) => senders'[w].pc = "done" /\ senders'[w].outcome = o
  BY DEF Return
<1>3. \A status :
        Report(w, status) => /\ senders'[w].pc = "event"
                             /\ CompleteStatus(status) \/ senders'[w].outcome = "retry"
  BY DEF Report
<1> QED
  BY <1>1, <1>2, <1>3

\* A handler's step does not add to the permissions.
LEMMA BudgetHandle ==
  ASSUME TypeInv, NEW w \in Workers, Handle(w)
  PROVE  messages' - doubts' + Weight(w)' + Opening' <= messages - doubts + Weight(w) + Opening
<1>1. messages \in Nat /\ doubts \in Nat
  BY DEF TypeInv, TypeOK
<1>2. ASSUME UNCHANGED <<messages, doubts>>, ~MaySend(senders[w])', Opening' <= Opening
      PROVE  messages' - doubts' + Weight(w)' + Opening' <= messages - doubts + Weight(w) + Opening
  BY <1>1, <1>2 DEF Weight, Opening
<1> USE DEF At, MaySend
<1>3. CASE ReadBill(w) \/ KeepPortalRecord(w) \/ WriteEvent(w) \/ StatementFails(w)
  <2>1. UNCHANGED <<wechat, messages, doubts>>
    BY <1>3 DEF ReadBill, KeepPortalRecord, WriteEvent, StatementFails
  <2>2. senders'[w].pc \in {"account", "lookup", "done"}
    BY <1>3, MovesLead DEF TypeInv, ReadBill, KeepPortalRecord, WriteEvent, StatementFails
  <2> QED
    BY <1>2, <2>1, <2>2 DEF Opening
<1>4. CASE ReadAccount(w) \/ LookUpWechat(w)
  <2>1. UNCHANGED <<wechat, messages, doubts>>
    BY <1>4 DEF ReadAccount, LookUpWechat
  <2>2. CASE ReadAccount(w)
    <3>1. senders'[w].pc = "portal"
      BY <2>2 DEF TypeInv, SlotsOK, Sender, ReadAccount
    <3> QED
      BY <1>2, <2>1, <3>1 DEF Opening
  <2>3. CASE LookUpWechat(w)
    <3>1. PICK step \in {"open", "skip", "event"} : senders'[w].pc = step
      BY <2>3, MovesLead DEF TypeInv, SlotsOK, Sender, LookUpWechat
    <3> QED
      BY <1>2, <2>1, <3>1 DEF Opening
  <2> QED
    BY <1>4, <2>2, <2>3
<1>5. CASE SkipWechat(w) \/ OpenWechat(w)
  <2>1. UNCHANGED <<messages, doubts>> /\ Opening' <= Opening
    BY <1>5 DEF SkipWechat, OpenWechat, Opening
  <2>2. senders'[w].pc \in {"event", "claim"}
    BY <1>5, MovesLead DEF TypeInv, SkipWechat, OpenWechat
  <2> QED
    BY <1>2, <2>1, <2>2
<1>6. CASE ClaimWechat(w)
  <2>1. UNCHANGED <<messages, doubts>>
    BY <1>6 DEF ClaimWechat
  <2>2. CASE Sendable(wechat)
    <3>1. Opening = 1 /\ Opening' = 0
      BY <1>6, <2>2 DEF ClaimWechat, Sendable, Opening
    <3> QED
      BY <1>1, <2>1, <3>1 DEF Weight
  <2>3. CASE ~Sendable(wechat)
    <3>1. senders'[w].pc = "event" /\ wechat' = wechat
      BY <1>6, <2>3, MovesLead DEF TypeInv, ClaimWechat
    <3> QED
      BY <1>2, <2>1, <3>1 DEF Opening
  <2> QED
    BY <2>2, <2>3
<1>7. CASE Deliver(w)
  <2>1. senders'[w].pc = "store" /\ senders'[w].result = "SENT"
    BY <1>7 DEF TypeInv, SlotsOK, Sender, Deliver
  <2> QED
    BY <1>1, <1>7, <2>1 DEF Deliver, Weight, Opening
<1>8. CASE Refuse(w)
  BY <1>1, <1>8 DEF Refuse, Weight, Opening
<1>9. CASE LoseResponse(w)
  BY <1>1, <1>9 DEF LoseResponse, Weight, Opening
<1>10. CASE StoreResult(w)
  <2>1. senders'[w].pc = "event" /\ UNCHANGED <<messages, doubts>>
    BY <1>10, MovesLead DEF TypeInv, StoreResult
  <2>2. senders[w].pc = "store" /\ senders[w].result \in {"SENT", "FAILED"}
    BY <1>10 DEF TypeInv, SlotsOK, Sender, StoreResult
  <2>3. wechat' = senders[w].result
    BY <1>10 DEF StoreResult
  <2> QED
    BY <1>1, <2>1, <2>2, <2>3 DEF Weight, Opening
<1> QED
  BY <1>3, <1>4, <1>5, <1>6, <1>7, <1>8, <1>9, <1>10 DEF Handle

\* A handler moves its own slot only.
LEMMA HandleMovesOneSlot ==
  ASSUME TypeInv, NEW w \in Workers, Handle(w)
  PROVE  \A v \in Workers \ {w} : senders'[v] = senders[v]
BY DEF TypeInv, TypeOK, Handle, ReadBill, ReadAccount, KeepPortalRecord, LookUpWechat,
       SkipWechat, OpenWechat, ClaimWechat, Deliver, Refuse, LoseResponse, StoreResult,
       WriteEvent, StatementFails, Report, Return, Go

LEMMA BudgetStep == TypeInv /\ TypeInv' /\ Budget /\ [Next]_vars => Budget'
<1> SUFFICES ASSUME TypeInv, TypeInv', Budget, [Next]_vars PROVE Budget'
  OBVIOUS
<1>1. messages \in Nat /\ messages' \in Nat /\ doubts \in Nat /\ doubts' \in Nat
  BY DEF TypeInv, TypeOK
<1>2. Opening \in {0, 1} /\ Opening' \in {0, 1}
  BY DEF Opening
<1>3. ASSUME NEW w \in Workers, Claim(w) \/ Finish(w) \/ Crash(w) PROVE Budget'
  <2>1. \A v \in Workers \ {w} : senders'[v] = senders[v]
    BY <1>3 DEF TypeInv, TypeOK, Claim, Go, Finish, Crash
  <2>2. Weight(w)' = 0 /\ Weight(w) \in {0, 1}
    <3>1. senders'[w].pc \in {"idle", "bill"}
      BY <1>3, MovesLead DEF TypeInv, SlotsOK, Claim, Finish, Crash, IdleSender
    <3> QED
      BY <3>1 DEF Weight, MaySend
  <2>3. UNCHANGED <<wechat, messages, doubts>>
    BY <1>3 DEF Claim, Finish, Crash
  <2> QED
    BY <1>1, <1>2, <2>1, <2>2, <2>3, OneSlot DEF Budget, Opening
<1>4. ASSUME NEW w \in Workers, Handle(w) PROVE Budget'
  <2>1. Weight(w) \in {0, 1} /\ Weight(w)' \in {0, 1}
    BY DEF Weight
  <2> QED
    BY <1>1, <1>2, <1>4, <2>1, HandleMovesOneSlot, BudgetHandle, OneSlot DEF Budget
<1>5. CASE Resolve
  <2>1. InFlight = {} => Cardinality(InFlight) = 0
    BY FS_EmptySet
  <2>2. UNCHANGED <<senders, messages>>
    BY <1>5 DEF Resolve
  <2>3. CASE operator = "unsent" /\ wechat = "PROCESSING"
    BY <1>1, <1>5, <2>1, <2>2, <2>3, NoSlot DEF Resolve, Budget, Opening
  <2>4. CASE ~(operator = "unsent" /\ wechat = "PROCESSING")
    <3>1. Opening' <= Opening /\ doubts' = doubts
      BY <1>5, <2>4 DEF Resolve, Opening, TypeInv, TypeOK
    <3> QED
      BY <1>1, <1>2, <2>2, <3>1, NoSlot DEF Budget
  <2> QED
    BY <2>3, <2>4
<1>6. CASE UNCHANGED <<senders, wechat, messages, doubts>>
  BY <1>6, NoSlot DEF Budget, Opening
<1>7. LeaseExpires \/ BindWechat \/ ReadPortal \/ Settle \/ RetryJob \/ LookInChannel
        \/ UNCHANGED vars => UNCHANGED <<senders, wechat, messages, doubts>>
  BY DEF LeaseExpires, BindWechat, ReadPortal, Settle, RetryJob, LookInChannel, vars
<1> QED
  BY <1>3, <1>4, <1>5, <1>6, <1>7 DEF Next

LEMMA BudgetInvariant == Spec => [](TypeInv /\ Budget)
<1>1. TypeInv /\ Budget /\ [Next]_vars => (TypeInv /\ Budget)'
  BY TypeStep, BudgetStep
<1>2. Init => TypeInv /\ Budget
  BY TypeInit, BudgetInit
<1> QED
  BY <1>1, <1>2, PTL DEF Spec

\* The customer gets at most one message, and one more for every lost response
\* and every outdated decision of the operator (claimWechatSend,
\* resolveProcessingRecord).
THEOREM SpecNoSecondMessage == Spec => []NoSecondMessage
<1>1. TypeInv /\ Budget => NoSecondMessage
  <2> SUFFICES ASSUME TypeInv, Budget PROVE NoSecondMessage
    OBVIOUS
  <2>1. Cardinality(InFlight) \in Nat
    BY FiniteAssumption, FS_Subset, FS_CardinalityType DEF InFlight
  <2> QED
    BY <2>1 DEF TypeInv, TypeOK, Budget, Opening, NoSecondMessage
<1> QED
  BY <1>1, BudgetInvariant, PTL

-----------------------------------------------------------------------------
(* A completed job has informed the customer.                              *)

\* A customer who could be reached all along has no skipped record, and
\* whoever claims the message was sent has one to show.
SentMeansMessage ==
  /\ wechat = "SENT" => messages > 0
  /\ operator = "sent" => messages > 0
  /\ account = "bound" => wechat # "SKIPPED"
  /\ \A w \in Workers :
       /\ senders[w].pc = "store" /\ senders[w].result = "SENT" => messages > 0
       /\ account = "bound" /\ senders[w].pc \in {"portal", "lookup"} => senders[w].bound
       /\ account = "bound" => senders[w].pc # "skip"

\* What a handler that passed the portal record, or succeeded, has achieved.
Delivered == portal # "NONE" /\ (account = "bound" => messages > 0)
HandlersDeliver ==
  \A w \in Workers :
    /\ senders[w].pc \in {"lookup", "skip", "open", "claim", "send", "store"} => portal # "NONE"
    /\ senders[w].pc \in {"event", "done"} /\ senders[w].outcome = "ok" => settled \/ Delivered

DeliveryInv == SentMeansMessage /\ HandlersDeliver /\ CompletedMeansDelivered

LEMMA DeliveryInit == Init => DeliveryInv
<1> SUFFICES ASSUME Init PROVE DeliveryInv
  OBVIOUS
<1>1. \A w \in Workers : senders[w].pc = "idle"
  BY DEF Init, IdleSender
<1>2. wechat = "NONE" /\ operator = "idle" /\ job.status = "PENDING"
  BY DEF Init, FreshJob, Row
<1> QED
  BY <1>1, <1>2 DEF DeliveryInv, SentMeansMessage, HandlersDeliver, CompletedMeansDelivered

\* One slot moves to a place where the invariant asks nothing new of it, and
\* nothing is taken back.
LEMMA DeliveryKept ==
  ASSUME TypeInv, TypeInv', DeliveryInv, NEW w \in Workers,
         \A v \in Workers \ {w} : senders'[v] = senders[v],
         messages' >= messages, portal # "NONE" => portal' # "NONE", settled => settled',
         account' = "bound" => account = "bound", UNCHANGED operator,
         job' = job,
         wechat' = "SENT" => messages' > 0,
         account = "bound" => wechat' # "SKIPPED",
         senders'[w].pc = "store" /\ senders'[w].result = "SENT" => messages' > 0,
         account = "bound" /\ senders'[w].pc \in {"portal", "lookup"} => senders'[w].bound,
         account = "bound" => senders'[w].pc # "skip",
         senders'[w].pc \in {"lookup", "skip", "open", "claim", "send", "store"}
           => portal' # "NONE",
         senders'[w].pc \in {"event", "done"} /\ senders'[w].outcome = "ok"
           => settled' \/ Delivered'
  PROVE  DeliveryInv'
<1>1. messages \in Nat /\ messages' \in Nat
  BY DEF TypeInv, TypeOK
<1>2. messages > 0 => messages' > 0
  BY <1>1
<1>3. Delivered => Delivered'
  BY <1>2 DEF Delivered
<1>4. SentMeansMessage'
  BY <1>2 DEF DeliveryInv, SentMeansMessage
<1>5. HandlersDeliver'
  BY <1>3 DEF DeliveryInv, HandlersDeliver
<1>6. CompletedMeansDelivered'
  BY <1>2 DEF DeliveryInv, CompletedMeansDelivered
<1> QED
  BY <1>4, <1>5, <1>6 DEF DeliveryInv

\* A complete WeChat record means that the job has delivered.
LEMMA CompleteMeansDelivered ==
  ASSUME TypeInv, DeliveryInv, portal # "NONE", CompleteStatus(wechat)
  PROVE  Delivered
BY DEF TypeInv, TypeOK, DeliveryInv, SentMeansMessage, CompleteStatus, Delivered

LEMMA DeliveryHandle ==
  ASSUME TypeInv, TypeInv', DeliveryInv, NEW w \in Workers, Handle(w)
  PROVE  DeliveryInv'
<1>1. /\ \A v \in Workers \ {w} : senders'[v] = senders[v]
      /\ messages \in Nat
      /\ UNCHANGED <<job, account, settled, operator>>
  BY HandleMovesOneSlot, RestHandle DEF TypeInv, TypeOK
<1> USE DEF At
<1>2. CASE ReadBill(w)
  <2>1. CASE settled
    <3>1. senders'[w].pc = "done" /\ UNCHANGED <<portal, wechat, messages>>
      BY <1>2, <2>1, MovesLead DEF TypeInv, ReadBill
    <3> QED
      BY <1>1, <2>1, <3>1, DeliveryKept DEF DeliveryInv, SentMeansMessage
  <2>2. CASE ~settled
    <3>1. senders'[w].pc = "account" /\ UNCHANGED <<portal, wechat, messages>>
      BY <1>2, <2>2, MovesLead DEF TypeInv, ReadBill
    <3> QED
      BY <1>1, <3>1, DeliveryKept DEF DeliveryInv, SentMeansMessage
  <2> QED
    BY <2>1, <2>2
<1>3. CASE ReadAccount(w)
  <2>1. senders'[w].pc = "portal" /\ (account = "bound" => senders'[w].bound)
    BY <1>3 DEF TypeInv, SlotsOK, Sender, ReadAccount
  <2>2. UNCHANGED <<portal, wechat, messages>>
    BY <1>3 DEF ReadAccount
  <2> QED
    BY <1>1, <2>1, <2>2, DeliveryKept DEF DeliveryInv, SentMeansMessage
<1>4. CASE KeepPortalRecord(w)
  <2>1. senders'[w].pc = "lookup" /\ senders'[w].bound = senders[w].bound
    BY <1>4 DEF TypeInv, SlotsOK, Sender, KeepPortalRecord, Go
  <2>2. portal' # "NONE" /\ UNCHANGED <<wechat, messages>>
    BY <1>4 DEF KeepPortalRecord
  <2>3. account = "bound" => senders[w].bound
    BY <1>4 DEF KeepPortalRecord, DeliveryInv, SentMeansMessage
  <2> QED
    BY <1>1, <2>1, <2>2, <2>3, DeliveryKept DEF DeliveryInv, SentMeansMessage
<1>5. CASE LookUpWechat(w)
  <2>1. portal # "NONE" /\ UNCHANGED <<portal, wechat, messages>>
    BY <1>5 DEF LookUpWechat, DeliveryInv, HandlersDeliver
  <2>2. CASE CompleteStatus(wechat)
    <3>1. senders'[w].pc = "event"
      BY <1>5, <2>2, MovesLead DEF TypeInv, LookUpWechat
    <3>2. Delivered'
      BY <1>1, <2>1, <2>2, CompleteMeansDelivered DEF Delivered
    <3> QED
      BY <1>1, <2>1, <3>1, <3>2, DeliveryKept DEF DeliveryInv, SentMeansMessage
  <2>3. CASE ~CompleteStatus(wechat)
    <3>1. senders'[w].pc = "open" \/ (senders'[w].pc = "skip" /\ ~senders[w].bound)
      BY <1>5, <2>3 DEF TypeInv, SlotsOK, Sender, LookUpWechat
    <3>2. account = "bound" => senders[w].bound
      BY <1>5 DEF LookUpWechat, DeliveryInv, SentMeansMessage
    <3> QED
      BY <1>1, <2>1, <3>1, <3>2, DeliveryKept DEF DeliveryInv, SentMeansMessage
  <2> QED
    BY <2>2, <2>3
<1>6. ASSUME portal # "NONE", UNCHANGED <<portal, messages>>,
             wechat' = "SENT" => messages > 0, account = "bound" => wechat' # "SKIPPED",
             Report(w, wechat')
      PROVE  DeliveryInv'
  <2>1. senders'[w].pc = "event" /\ (CompleteStatus(wechat') \/ senders'[w].outcome = "retry")
    BY <1>6, MovesLead DEF TypeInv
  <2>2. CompleteStatus(wechat') => Delivered'
    BY <1>1, <1>6 DEF CompleteStatus, Delivered, TypeInv, TypeOK
  <2> QED
    BY <1>1, <1>6, <2>1, <2>2, DeliveryKept
<1>7. senders[w].pc \in {"skip", "open", "claim", "send", "store"} => portal # "NONE"
  BY DEF DeliveryInv, HandlersDeliver
<1>8. CASE SkipWechat(w)
  BY <1>6, <1>7, <1>8 DEF SkipWechat, DeliveryInv, SentMeansMessage
<1>9. ASSUME portal # "NONE", UNCHANGED <<portal, messages>>,
             wechat' = "SENT" => messages > 0, account = "bound" => wechat' # "SKIPPED",
             senders'[w].pc \in {"claim", "send"}
      PROVE  DeliveryInv'
  BY <1>1, <1>9, DeliveryKept
<1>10. CASE OpenWechat(w)
  <2>1. portal # "NONE" /\ UNCHANGED <<portal, messages>> /\ wechat' \in {"PENDING", wechat}
    BY <1>7, <1>10 DEF OpenWechat
  <2>2. Report(w, wechat') \/ senders'[w].pc = "claim"
    BY <1>10, MovesLead DEF TypeInv, OpenWechat
  <2> QED
    BY <1>6, <1>9, <2>1, <2>2 DEF DeliveryInv, SentMeansMessage
<1>11. CASE ClaimWechat(w)
  <2>1. portal # "NONE" /\ UNCHANGED <<portal, messages>> /\ wechat' \in {"PROCESSING", wechat}
    BY <1>7, <1>11 DEF ClaimWechat
  <2>2. Report(w, wechat') \/ senders'[w].pc = "send"
    BY <1>11, MovesLead DEF TypeInv, ClaimWechat
  <2> QED
    BY <1>6, <1>9, <2>1, <2>2 DEF DeliveryInv, SentMeansMessage
<1>12. CASE Deliver(w) \/ Refuse(w) \/ LoseResponse(w)
  <2>1. senders'[w].pc = "store" /\ (senders'[w].result = "SENT" => messages' > messages)
    BY <1>1, <1>12 DEF TypeInv, SlotsOK, Sender, Deliver, Refuse, LoseResponse
  <2>2. UNCHANGED <<portal, wechat>> /\ messages' \in {messages, messages + 1} /\ portal # "NONE"
    BY <1>7, <1>12 DEF Deliver, Refuse, LoseResponse
  <2> QED
    BY <1>1, <2>1, <2>2, DeliveryKept DEF DeliveryInv, SentMeansMessage
<1>13. CASE StoreResult(w)
  <2>1. senders[w].pc = "store" /\ senders[w].result \in {"SENT", "FAILED"}
    BY <1>13 DEF TypeInv, SlotsOK, Sender, StoreResult
  <2>2. wechat' = senders[w].result /\ UNCHANGED <<portal, messages>> /\ Report(w, wechat')
    BY <1>13 DEF StoreResult
  <2> QED
    BY <1>6, <1>7, <2>1, <2>2 DEF DeliveryInv, SentMeansMessage
<1>14. CASE WriteEvent(w) \/ StatementFails(w)
  <2>1. senders'[w].pc = "done" /\ senders'[w].outcome \in {"retry", senders[w].outcome}
    BY <1>14, MovesLead DEF TypeInv, WriteEvent, StatementFails
  <2>2. UNCHANGED <<portal, wechat, messages>>
    BY <1>14 DEF WriteEvent, StatementFails
  <2>3. senders'[w].outcome = "ok" => senders[w].pc = "event" /\ senders[w].outcome = "ok"
    BY <1>14, MovesLead DEF TypeInv, WriteEvent, StatementFails
  <2>4. senders'[w].outcome = "ok" => settled' \/ Delivered'
    BY <1>1, <2>2, <2>3 DEF DeliveryInv, HandlersDeliver, Delivered
  <2> QED
    BY <1>1, <2>1, <2>2, <2>4, DeliveryKept DEF DeliveryInv, SentMeansMessage
<1> QED
  BY <1>2, <1>3, <1>4, <1>5, <1>8, <1>10, <1>11, <1>12, <1>13, <1>14 DEF Handle

LEMMA DeliveryStep == TypeInv /\ TypeInv' /\ DeliveryInv /\ [Next]_vars => DeliveryInv'
<1> SUFFICES ASSUME TypeInv, TypeInv', DeliveryInv, [Next]_vars PROVE DeliveryInv'
  OBVIOUS
<1> USE DEF DeliveryInv, SentMeansMessage, HandlersDeliver, CompletedMeansDelivered, Delivered
<1>1. ASSUME NEW w \in Workers, Claim(w) PROVE DeliveryInv'
  <2>1. senders'[w].pc = "bill" /\ \A v \in Workers \ {w} : senders'[v] = senders[v]
    BY <1>1, MovesLead DEF TypeInv, SlotsOK, Claim, Go
  <2>2. job'.status = "PROCESSING"
    BY <1>1 DEF Claim, Claimed
  <2> QED
    BY <1>1, <2>1, <2>2 DEF Claim
<1>2. ASSUME NEW w \in Workers, Handle(w) PROVE DeliveryInv'
  BY <1>2, DeliveryHandle
<1>3. ASSUME NEW w \in Workers, Finish(w) PROVE DeliveryInv'
  <2>1. senders'[w].pc = "idle" /\ \A v \in Workers \ {w} : senders'[v] = senders[v]
    BY <1>3 DEF TypeInv, SlotsOK, Finish, IdleSender
  <2>2. UNCHANGED <<portal, wechat, account, settled, operator, messages>>
    BY <1>3 DEF Finish
  <2>3. SentMeansMessage' /\ HandlersDeliver'
    BY <2>1, <2>2
  <2>4. job'.status = "COMPLETED" => job.status = "COMPLETED" \/ senders[w].outcome = "ok"
    BY <1>3 DEF TypeInv, SlotsOK, Sender, Finish, Settled, Complete, Reschedule, Defer, DeadLetter, Row
  <2>5. senders[w].pc = "done"
    BY <1>3 DEF Finish, At
  <2> QED
    BY <2>2, <2>3, <2>4, <2>5
<1>4. ASSUME NEW w \in Workers, Crash(w) PROVE DeliveryInv'
  <2>1. senders'[w].pc = "idle" /\ \A v \in Workers \ {w} : senders'[v] = senders[v]
    BY <1>4 DEF TypeInv, SlotsOK, Crash, IdleSender
  <2> QED
    BY <1>4, <2>1 DEF Crash
<1>5. ASSUME UNCHANGED <<portal, wechat, senders, account, settled, operator, messages>>,
             job'.status = "COMPLETED" => job.status = "COMPLETED"
      PROVE  DeliveryInv'
  BY <1>5
<1>6. CASE LeaseExpires \/ RetryJob \/ UNCHANGED vars
  <2>1. UNCHANGED <<portal, wechat, senders, account, settled, operator, messages>>
    BY <1>6 DEF LeaseExpires, RetryJob, vars
  <2>2. job'.status = "COMPLETED" => job.status = "COMPLETED"
    BY <1>6 DEF LeaseExpires, RetryJob, vars, FreshJob, Row, TypeInv, SoundJob, Job
  <2> QED
    BY <1>5, <2>1, <2>2
<1>7. CASE BindWechat
  BY <1>7 DEF BindWechat
<1>8. CASE ReadPortal
  BY <1>8 DEF ReadPortal
<1>9. CASE Settle
  BY <1>9 DEF Settle, Row
<1>10. CASE LookInChannel
  BY <1>10 DEF LookInChannel
<1>11. CASE Resolve
  BY <1>11 DEF Resolve
<1> QED
  BY <1>1, <1>2, <1>3, <1>4, <1>6, <1>7, <1>8, <1>9, <1>10, <1>11 DEF Next

LEMMA DeliveryInvariant == Spec => [](TypeInv /\ Budget /\ DeliveryInv)
<1>1. TypeInv /\ DeliveryInv /\ [Next]_vars => (TypeInv /\ DeliveryInv)'
  BY TypeStep, DeliveryStep
<1>2. Init => TypeInv /\ DeliveryInv
  BY TypeInit, DeliveryInit
<1> QED
  BY <1>1, <1>2, BudgetInvariant, PTL DEF Spec

\* A completed notice job has informed the customer, unless the bill was
\* settled (notifyBillLifecycle, complete).
THEOREM SpecCompletedMeansDelivered == Spec => []CompletedMeansDelivered
BY DeliveryInvariant, PTL DEF DeliveryInv

-----------------------------------------------------------------------------
(* The record of a delivered message stays.                                *)

\* With a message sent and no doubt there is no permission left: no handler
\* is in flight that could write FAILED.
LEMMA SentStep ==
  ASSUME TypeInv, Budget, DeliveryInv, [Next]_vars,
         wechat = "SENT", account = "bound", doubts = 0
  PROVE  wechat' = "SENT"
<1>1. IsFiniteSet(InFlight) /\ Cardinality(InFlight) \in Nat
  BY FiniteAssumption, FS_Subset, FS_CardinalityType DEF InFlight
<1>2. messages \in Nat /\ messages > 0
  BY DEF TypeInv, TypeOK, DeliveryInv, SentMeansMessage
<1>3. Cardinality(InFlight) = 0
  BY <1>1, <1>2 DEF Budget, Opening
<1>4. InFlight = {}
  BY <1>1, <1>3, FS_EmptySet
<1>5. ASSUME NEW w \in Workers, StoreResult(w) PROVE wechat' = "SENT"
  <2>1. ~MaySend(senders[w])
    BY <1>4 DEF InFlight
  <2> QED
    BY <1>5, <2>1 DEF StoreResult, At, MaySend, TypeInv, SlotsOK, Sender
<1>6. ASSUME NEW w \in Workers, Handle(w) PROVE wechat' = "SENT"
  <2>1. ~SkipWechat(w)
    BY DEF SkipWechat, At, DeliveryInv, SentMeansMessage
  <2>2. ReadBill(w) \/ ReadAccount(w) \/ KeepPortalRecord(w) \/ LookUpWechat(w) \/ WriteEvent(w)
          \/ StatementFails(w) \/ Deliver(w) \/ Refuse(w) \/ LoseResponse(w) => wechat' = wechat
    BY DEF ReadBill, ReadAccount, KeepPortalRecord, LookUpWechat, WriteEvent, StatementFails,
           Deliver, Refuse, LoseResponse
  <2>3. OpenWechat(w) \/ ClaimWechat(w) => wechat' = "SENT"
    BY DEF OpenWechat, ClaimWechat, Sendable
  <2> QED
    BY <1>5, <1>6, <2>1, <2>2, <2>3 DEF Handle
<1>7. ASSUME NEW w \in Workers, Claim(w) \/ Finish(w) \/ Crash(w) PROVE wechat' = "SENT"
  BY <1>7 DEF Claim, Finish, Crash
<1>8. CASE Resolve
  BY <1>8 DEF Resolve
<1> QED
  BY <1>6, <1>7, <1>8 DEF Next, LeaseExpires, BindWechat, ReadPortal, Settle, RetryJob,
                         LookInChannel, vars

\* Without a doubt, a record that says SENT is never opened or overwritten
\* again (createRecord, claimWechatSend).
THEOREM SpecSentIsFinal == Spec => SentIsFinal
<1>1. TypeInv /\ Budget /\ DeliveryInv /\ [Next]_vars
        => [wechat = "SENT" /\ account = "bound" /\ doubts = 0 => wechat' = "SENT"]_vars
  BY SentStep
<1> QED
  BY <1>1, DeliveryInvariant, PTL DEF Spec, SentIsFinal
=============================================================================
