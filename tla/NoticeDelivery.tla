--------------------------- MODULE NoticeDelivery ---------------------------
(***************************************************************************)
(* Delivery of one bill notice: its automation job, the portal (IN_APP)    *)
(* record, the WeChat record and the messages that reach the customer.     *)
(* BillingAutomation takes notifyBillLifecycle as one step; here it is     *)
(* taken apart at every statement that reads or writes shared state, since *)
(* it runs outside of any transaction.                                     *)
(*                                                                         *)
(* A notification record is found by its unique notification_no, which is  *)
(* derived from the job's idempotency key, so a job has one record per     *)
(* channel.  Bill events have no SMS template.                             *)
(***************************************************************************)
EXTENDS AutomationJobTable, Integers, FiniteSets

CONSTANTS MaxFaults,    \* bound: crashes, slow leases, failing calls
          MaxOps        \* bound: the operator's look-ups and job retries

ASSUME FiniteAssumption == IsFiniteSet(Workers)
ASSUME NoticeBoundsAssumption == MaxFaults \in Nat /\ MaxOps \in Nat

VARIABLES
  job,       \* the row of the notice job
  portal,    \* status of the IN_APP record
  wechat,    \* status of the WECHAT_OFFICIAL_ACCOUNT record
  senders,   \* per worker slot: where its handler is, and what it remembers
  account,   \* can the customer be reached over WeChat
  settled,   \* the bill has been settled
  operator,  \* what the operator found out about a PROCESSING record
  messages,  \* WeChat messages accepted for the customer
  doubts,    \* see NoSecondMessage
  faults, ops

vars == <<job, portal, wechat, senders, account, settled, operator, messages,
          doubts, faults, ops>>

-----------------------------------------------------------------------------

\* Where a handler is: named for what it does next.
Steps == {"bill", "account", "portal", "lookup", "skip", "open", "claim",
          "send", "store", "event"}
Sender == [pc      : {"idle", "done"} \cup Steps,
           bound   : BOOLEAN,                      \* the account as it was read
           exists  : BOOLEAN,                      \* the WeChat record was found
           result  : {"none", "SENT", "FAILED"},   \* of the provider call
           outcome : {"none", "ok", "retry"}]
IdleSender == [pc |-> "idle", bound |-> FALSE, exists |-> FALSE,
               result |-> "none", outcome |-> "none"]

TypeOK ==
  /\ job \in Job
  /\ portal \in {"NONE", "SENT", "READ"}
  /\ wechat \in {"NONE", "PENDING", "PROCESSING", "SENT", "FAILED", "SKIPPED"}
  /\ senders \in [Workers -> Sender]
  /\ account \in {"unbound", "late", "bound"}
  /\ settled \in BOOLEAN
  /\ operator \in {"idle", "sent", "unsent"}
  /\ messages \in Nat /\ doubts \in Nat
  /\ faults \in 0..MaxFaults /\ ops \in 0..MaxOps

\* The bill is open and its notice job has just been enqueued.
Init ==
  /\ job = FreshJob
  /\ portal = "NONE" /\ wechat = "NONE"
  /\ senders = [w \in Workers |-> IdleSender]
  /\ account \in {"unbound", "bound"}
  /\ settled = FALSE
  /\ operator = "idle"
  /\ messages = 0 /\ doubts = 0
  /\ faults = 0 /\ ops = 0

\* Mutant: a record in PROCESSING passes for complete.
CompleteStatusOpen(status) == status \in {"SENT", "READ", "SKIPPED", "PROCESSING"}

\* A channel that needs no more work.
CompleteStatus(status) == status \in {"SENT", "READ", "SKIPPED"}

\* Mutant: an attempt also takes over a record that an earlier one left open.
SendableTaken(status) == status \in {"PENDING", "FAILED", "PROCESSING"}

\* Statuses from which the right to send is won.
Sendable(status) == status \in {"PENDING", "FAILED"}

At(w, step) == senders[w].pc = step
Go(w, step) == senders' = [senders EXCEPT ![w].pc = step]

\* The handler returns, or throws a retryable error.
Return(w, o) == senders' = [senders EXCEPT ![w].pc = "done", ![w].outcome = o]

\* notifyBillLifecycle has the WeChat record in this status (the portal record
\* is always complete): it writes the event and throws if it is incomplete.
Report(w, status) ==
  senders' = [senders EXCEPT ![w].pc = "event",
                             ![w].outcome = IF CompleteStatus(status) THEN "ok" ELSE "retry"]

Fault == faults < MaxFaults /\ faults' = faults + 1
Operate == ops < MaxOps /\ ops' = ops + 1

-----------------------------------------------------------------------------
(* The worker and its handler.                                             *)

Claim(w) ==
  /\ At(w, "idle")
  /\ Claimable(job)
  /\ job' = Claimed(job, w)
  /\ Go(w, "bill")
  /\ UNCHANGED <<portal, wechat, account, settled, operator, messages, doubts, faults, ops>>

\* sendBillNotice skips a settled bill.
ReadBill(w) ==
  /\ At(w, "bill")
  /\ \/ settled /\ Return(w, "ok")
     \/ ~settled /\ Go(w, "account")
  /\ UNCHANGED <<job, portal, wechat, account, settled, operator, messages, doubts, faults, ops>>

ReadAccount(w) ==
  /\ At(w, "account")
  /\ senders' = [senders EXCEPT ![w].pc = "portal", ![w].bound = account # "unbound"]
  /\ UNCHANGED <<job, portal, wechat, account, settled, operator, messages, doubts, faults, ops>>

\* The portal record is created as SENT; an existing one is kept, also when
\* another worker created it first.
KeepPortalRecord(w) ==
  /\ At(w, "portal")
  /\ portal' = IF portal = "NONE" THEN "SENT" ELSE portal
  /\ Go(w, "lookup")
  /\ UNCHANGED <<job, wechat, account, settled, operator, messages, doubts, faults, ops>>

LookUpWechat(w) ==
  /\ At(w, "lookup")
  /\ IF CompleteStatus(wechat)
     THEN Report(w, wechat)
     ELSE senders' = [senders EXCEPT ![w].pc = IF senders[w].bound THEN "open" ELSE "skip",
                                     ![w].exists = wechat # "NONE"]
  /\ UNCHANGED <<job, portal, wechat, account, settled, operator, messages, doubts, faults, ops>>

\* createWechatRecord without an address (a missing template or a disabled
\* channel ends the same way): a record that was found is updated whatever its
\* status is by now; otherwise one is created, and when another
\* worker was faster its record is the result.
SkipWechat(w) ==
  /\ At(w, "skip")
  /\ wechat' = IF senders[w].exists \/ wechat = "NONE" THEN "SKIPPED" ELSE wechat
  /\ Report(w, wechat')
  /\ UNCHANGED <<job, portal, account, settled, operator, messages, doubts, faults, ops>>

\* claimWechatSend, first half: find or create the record.
OpenWechat(w) ==
  /\ At(w, "open")
  /\ wechat' = IF wechat = "NONE" THEN "PENDING" ELSE wechat
  /\ IF Sendable(wechat') THEN Go(w, "claim") ELSE Report(w, wechat')
  /\ UNCHANGED <<job, portal, account, settled, operator, messages, doubts, faults, ops>>

\* Mutant: the update does not compare the status.
ClaimWechatAlways(w) ==
  /\ At(w, "claim")
  /\ wechat' = "PROCESSING"
  /\ Go(w, "send")
  /\ UNCHANGED <<job, portal, account, settled, operator, messages, doubts, faults, ops>>

\* Second half: compare-and-swap to PROCESSING; who loses reads the record again.
ClaimWechat(w) ==
  /\ At(w, "claim")
  /\ IF Sendable(wechat)
     THEN wechat' = "PROCESSING" /\ Go(w, "send")
     ELSE wechat' = wechat /\ Report(w, wechat)
  /\ UNCHANGED <<job, portal, account, settled, operator, messages, doubts, faults, ops>>

\* provider.send returns success.
Deliver(w) ==
  /\ At(w, "send")
  /\ messages' = messages + 1
  /\ senders' = [senders EXCEPT ![w].pc = "store", ![w].result = "SENT"]
  /\ UNCHANGED <<job, portal, wechat, account, settled, operator, doubts, faults, ops>>

\* provider.send refuses, or throws before the message was accepted.
Refuse(w) ==
  /\ At(w, "send") /\ Fault
  /\ senders' = [senders EXCEPT ![w].pc = "store", ![w].result = "FAILED"]
  /\ UNCHANGED <<job, portal, wechat, account, settled, operator, messages, doubts, ops>>

\* provider.send throws although the message was accepted: the response is
\* lost or cannot be read.
LoseResponse(w) ==
  /\ At(w, "send") /\ Fault
  /\ messages' = messages + 1
  /\ doubts' = doubts + 1
  /\ senders' = [senders EXCEPT ![w].pc = "store", ![w].result = "FAILED"]
  /\ UNCHANGED <<job, portal, wechat, account, settled, operator, ops>>

\* createRecord writes the result by id, whatever the record says by now.  A
\* refusal leaves the record incomplete and a thrown error is thrown again
\* (past the event, which nothing reads): both end as a retryable error.
StoreResult(w) ==
  /\ At(w, "store")
  /\ wechat' = senders[w].result
  /\ Report(w, wechat')
  /\ UNCHANGED <<job, portal, account, settled, operator, messages, doubts, faults, ops>>

\* The notification event is written, and an incomplete notice throws.
WriteEvent(w) ==
  /\ At(w, "event")
  /\ Return(w, senders[w].outcome)
  /\ UNCHANGED <<job, portal, wechat, account, settled, operator, messages, doubts, faults, ops>>

\* A database statement fails, that of complete included: the handler throws
\* and what it had written stays.
StatementFails(w) ==
  /\ senders[w].pc \notin {"idle", "send"} /\ Fault
  /\ Return(w, "retry")
  /\ UNCHANGED <<job, portal, wechat, account, settled, operator, messages, doubts, ops>>

Handle(w) ==
  \/ ReadBill(w) \/ ReadAccount(w) \/ KeepPortalRecord(w) \/ LookUpWechat(w)
  \/ SkipWechat(w) \/ OpenWechat(w) \/ ClaimWechat(w)
  \/ Deliver(w) \/ Refuse(w) \/ LoseResponse(w)
  \/ StoreResult(w) \/ WriteEvent(w) \/ StatementFails(w)

\* handleClaimedJob writes how the job ended, under its lease.
Finish(w) ==
  /\ At(w, "done")
  /\ job' = IF HoldsLease(job, w) THEN Settled(job, senders[w].outcome) ELSE job
  /\ senders' = [senders EXCEPT ![w] = IdleSender]
  /\ UNCHANGED <<portal, wechat, account, settled, operator, messages, doubts, faults, ops>>

Crash(w) ==
  /\ ~At(w, "idle") /\ Fault
  /\ senders' = [senders EXCEPT ![w] = IdleSender]
  /\ UNCHANGED <<job, portal, wechat, account, settled, operator, messages, doubts, ops>>

\* The lease of a dead worker runs out, or that of a slow one.
Abandoned == job.status = "PROCESSING" /\ At(job.holder, "idle")

LeaseExpires ==
  /\ job.status = "PROCESSING" /\ job.live
  /\ IF Abandoned THEN faults' = faults ELSE Fault
  /\ job' = [job EXCEPT !.live = FALSE]
  /\ UNCHANGED <<portal, wechat, senders, account, settled, operator, messages, doubts, ops>>

-----------------------------------------------------------------------------
(* The customer, the operator and the payment.                             *)

\* wechat-oauth binds an open id to the account; nothing takes it away.
BindWechat ==
  /\ account = "unbound"
  /\ account' = "late"
  /\ UNCHANGED <<job, portal, wechat, senders, settled, operator, messages, doubts, faults, ops>>

\* markPortalNotificationRead and markAllPortalNotificationsRead.
ReadPortal ==
  /\ portal = "SENT"
  /\ portal' = "READ"
  /\ UNCHANGED <<job, wechat, senders, account, settled, operator, messages, doubts, faults, ops>>

\* Settling the bill cancels the job while it is pending.
Settle ==
  /\ ~settled
  /\ settled' = TRUE
  /\ job' = IF job.status = "PENDING" THEN Row("CANCELLED", job.attempts) ELSE job
  /\ UNCHANGED <<portal, wechat, senders, account, operator, messages, doubts, faults, ops>>

\* retryJob.
RetryJob ==
  /\ job.status = "DEAD_LETTER" /\ Operate
  /\ job' = FreshJob
  /\ UNCHANGED <<portal, wechat, senders, account, settled, operator, messages, doubts, faults>>

\* The operator finds a record in PROCESSING and asks the channel about it.
LookInChannel ==
  /\ operator = "idle" /\ wechat = "PROCESSING" /\ Operate
  /\ operator' = IF messages > 0 THEN "sent" ELSE "unsent"
  /\ UNCHANGED <<job, portal, wechat, senders, account, settled, messages, doubts, faults>>

\* Handlers that may still send, or that are about to open the record again.
MaySend(s) == s.pc = "send" \/ (s.pc = "store" /\ s.result = "FAILED")
InFlight == {w \in Workers : MaySend(senders[w])}

\* resolveProcessingRecord: compare-and-swap on PROCESSING, otherwise refused.
\* The decision is doubtful when a send has come in between.
Resolve ==
  LET doubtful == /\ operator = "unsent" /\ wechat = "PROCESSING"
                  /\ messages > 0 \/ InFlight # {}
  IN /\ operator # "idle"
     /\ operator' = "idle"
     /\ wechat' = IF wechat # "PROCESSING" THEN wechat
                  ELSE IF operator = "sent" THEN "SENT" ELSE "FAILED"
     /\ doubts' = IF doubtful THEN doubts + 1 ELSE doubts
     /\ UNCHANGED <<job, portal, senders, account, settled, messages, faults, ops>>

Next ==
  \/ \E w \in Workers : Claim(w) \/ Handle(w) \/ Finish(w) \/ Crash(w)
  \/ LeaseExpires
  \/ BindWechat \/ ReadPortal \/ Settle \/ RetryJob \/ LookInChannel \/ Resolve

Spec == Init /\ [][Next]_vars

\* The worker polls for ever, handlers and provider calls end, and the lease of
\* a dead worker runs out.  Nothing is assumed about people.
FairSpec ==
  /\ Spec
  /\ WF_vars(\E w \in Workers : Claim(w))
  /\ WF_vars(Abandoned /\ LeaseExpires)
  /\ \A w \in Workers : WF_vars(Handle(w)) /\ WF_vars(Finish(w))

-----------------------------------------------------------------------------

\* The customer gets at most one WeChat message per bill notice, however
\* crashes, takeovers, failing statements, retries and repairs interleave,
\* except for one more per provider call whose response was lost and per
\* decision of the operator that was out of date (claimWechatSend,
\* createRecord, resolveProcessingRecord).
NoSecondMessage == messages <= 1 + doubts

\* A completed notice job has informed the customer, unless the bill was
\* settled: the portal record is there, and a customer who could be reached
\* over WeChat all along got a message (notifyBillLifecycle, complete).
CompletedMeansDelivered ==
  job.status = "COMPLETED" /\ ~settled =>
    portal # "NONE" /\ (account = "bound" => messages > 0)

\* Without a doubt, the record of a delivered message is never opened or
\* overwritten again by a stale worker or an operator (createRecord updates by
\* id without a condition).
SentIsFinal ==
  [][wechat = "SENT" /\ account = "bound" /\ doubts = 0 => wechat' = "SENT"]_vars

\* Every notice job comes to an end, also when its WeChat record is stuck in
\* PROCESSING and only the operator can resolve it: the job does not retry for
\* ever but is completed, cancelled or left to the operator as a dead letter.
NoticeJobEnds == <>[](job.status \in {"COMPLETED", "CANCELLED", "DEAD_LETTER"})
=============================================================================
