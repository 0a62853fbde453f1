---------------------- MODULE AutomationJobTableProofs ----------------------
(***************************************************************************)
(* Facts about the job table for the modules that build on it.             *)
(***************************************************************************)
EXTENDS AutomationJobTable, TLAPS

\* A job that is not a dead letter has an attempt left, so that the failure
\* of its handler can still be counted.
SoundJob == {job \in Job : job.status # "DEAD_LETTER" => job.attempts < MaxAttempts}

\* A claim, the end of a lease and the worker's last update of a job it holds
\* keep the row sound.
LEMMA JobUpdates ==
  ASSUME NEW job \in SoundJob, NEW w \in Workers, NEW outcome
  PROVE  /\ Claimable(job) => Claimed(job, w) \in SoundJob
         /\ HoldsLease(job, w) => Settled(job, outcome) \in SoundJob
         /\ job.status = "PROCESSING" => [job EXCEPT !.live = FALSE] \in SoundJob
<1> USE MaxAttemptsAssumption DEF SoundJob, Job, JobStatus
<1>1. Claimable(job) => Claimed(job, w) \in SoundJob
  BY DEF Claimable, Claimed
<1>2. HoldsLease(job, w) => Settled(job, outcome) \in SoundJob
  BY DEF HoldsLease, Settled, Complete, Reschedule, Defer, DeadLetter, Row
<1>3. job.status = "PROCESSING" => [job EXCEPT !.live = FALSE] \in SoundJob
  OBVIOUS
<1> QED
  BY <1>1, <1>2, <1>3
=============================================================================
