--------------------------- MODULE JourneyPromises ---------------------------
(***************************************************************************)
(* What the repository's plan says of rejected evidence, stated over       *)
(* SubscriptionJourney, whose steps contradict it.                         *)
(***************************************************************************)
EXTENDS SubscriptionJourney

Undelivered ==
    {outbox[i] : i \in DOMAIN outbox} \cup {later[i] : i \in DOMAIN later}
    \cup {workers[w].row : w \in {u \in Workers : workers[u].held}}

(* New evidence, handed in after a rejection, has its decision: a manual   *)
(* task is open for the package under review, or a row that leads to one   *)
(* is still to be delivered, unless the journey is paused or needs an      *)
(* operator.  The plan: "On rejection, return to evidence preparation,     *)
(* retain an auditable rejection event, and reopen at most one task after  *)
(* new evidence becomes ready"                                             *)
(* (docs/superpowers/plans/2026-08-06-stage1-golden-path-orchestration-    *)
(* implementation-plan.md:860).                                            *)
ReworkIsDecided ==
    /\ handover.review = "pending"
    /\ \E t \in tasks : t.status = "REJECTED" /\ t.package < handover.package
    /\ journey.status \notin {"PAUSED", "EXCEPTION"}
    => \/ TaskOf(handover.package) \in OpenTasks
       \/ \E row \in Undelivered :
             row.kind \in {"ready", "completed"} /\ row.n = handover.package

=============================================================================
