---------------------------- MODULE WorkflowSeed ----------------------------
(***************************************************************************)
(* The workflows the product is delivered with (tickets/seed_workflow.py)  *)
(* and the SLA state of each waiting status (sla/services.py,              *)
(* WAITING_SLA_STATES).  A transition is a pair of status codes.           *)
(***************************************************************************)
EXTENDS TLC

From(from, targets) == {<<from, to>> : to \in targets}

OperationalTransitions ==
  UNION {
    From("new", {"triage"}),
    From("triage", {"assigned", "in_progress", "waiting_internal", "waiting_it",
                    "duplicate", "spam", "cancelled", "rejected", "escalated"}),
    From("assigned", {"in_progress", "waiting_requester", "escalated"}),
    From("in_progress", {"waiting_requester", "waiting_internal", "waiting_it",
                         "quality_review", "resolved", "escalated"}),
    From("waiting_requester", {"in_progress", "escalated"}),
    From("waiting_internal", {"in_progress", "escalated"}),
    From("waiting_it", {"in_progress", "escalated"}),
    From("quality_review", {"in_progress", "resolved", "escalated"}),
    From("resolved", {"reopened", "closed"}),
    From("reopened", {"in_progress", "escalated"}),
    From("escalated", {"in_progress"}),
    From("cancelled", {"closed"}), From("rejected", {"closed"}),
    From("duplicate", {"closed"}), From("spam", {"closed"}) }

ItTransitions ==
  UNION {
    From("new", {"triage"}),
    From("triage", {"assigned", "in_progress", "diagnosing", "cancelled", "escalated"}),
    From("assigned", {"diagnosing", "in_progress", "escalated"}),
    From("diagnosing", {"in_progress", "escalated"}),
    From("in_progress", {"waiting_user", "waiting_vendor", "waiting_change",
                         "validation", "escalated"}),
    From("waiting_user", {"in_progress", "escalated"}),
    From("waiting_vendor", {"in_progress", "escalated"}),
    From("waiting_change", {"validation", "escalated"}),
    From("validation", {"resolved", "in_progress", "escalated"}),
    From("resolved", {"reopened", "closed"}),
    From("reopened", {"in_progress", "escalated"}),
    From("escalated", {"in_progress"}) }

OperationalRequiredRole ==
  [e \in OperationalTransitions |->
     CASE e[2] = "resolved" -> "assistant-master"
       [] e \in {<<"escalated", "in_progress">>, <<"resolved", "reopened">>} -> "deputy-master"
       [] e[2] = "closed" -> "master"
       [] OTHER -> ""]

Terminal == {"closed", "cancelled", "rejected", "duplicate", "spam"}

OperationalWaiting ==
  [s \in {"waiting_requester", "waiting_internal", "waiting_it"} |->
     CASE s = "waiting_requester" -> "paused_requester"
       [] s = "waiting_internal" -> "paused_internal"
       [] s = "waiting_it" -> "paused_it"]

ItWaiting ==
  [s \in {"waiting_user", "waiting_vendor", "waiting_change"} |->
     IF s = "waiting_user" THEN "paused_requester" ELSE "paused_internal"]
=============================================================================
