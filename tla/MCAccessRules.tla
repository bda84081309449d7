------------------------------ MODULE MCAccessRules ------------------------------
(* A small instance of AccessRules: two offices, two queues of the first,   *)
(* roles of every kind.                                                     *)
EXTENDS AccessRules

CONSTANTS A, B, Elsewhere, q1, q2

MCQueues == {[id |-> q1, office |-> A, active |-> TRUE],
             [id |-> q2, office |-> A, active |-> TRUE]}

Held(role, at) == [role |-> role, office |-> at]
MCAssignments ==
  {Held("ops-agents", Any), Held("ops-supervisors", Any),
   Held("master", Any), Held("assistant-master", B),
   Held("examiner", Any), Held("security-responders", Any), Held("it-leads", A),
   Held("system-admins", Any), Held("auditors", Any)}

AssignedRoles == {a.role : a \in MCAssignments}
Delivered == [r \in AssignedRoles |->
  IF r \in Designations THEN {Everywhere("operational")} ELSE {}]
(* A supervisor of one queue, a master and an examiner of one office each,  *)
(* a responder with administration, leads whose scopes are malformed.       *)
Tailored == [Delivered EXCEPT
  !["ops-supervisors"] = {Scope("operational", Any, q1, FALSE)},
  !["master"] = {Scope("operational", B, Any, FALSE)},
  !["examiner"] = {Scope("operational", A, Any, TRUE)},
  !["security-responders"] = {Everywhere("admin")},
  !["it-leads"] = Malformed]
MCConfigurations == {Delivered, Tailored}

Token(gs, at) == [groups |-> gs, office |-> at]
MCTokens ==
  {Token({}, A), Token({"ops-agents", "security-responders"}, A),
   Token({"master", "ops-supervisors"}, B), Token({"it-leads", "service-desk-agents"}, Any),
   Token({"auditors", "system-admins"}, Elsewhere)}

MCTickets ==
  {[domain |-> d, office |-> A, queue |-> Any, restricted |-> FALSE] :
     d \in {"operational", "it"}}
=============================================================================
