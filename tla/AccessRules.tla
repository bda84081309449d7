------------------------------- MODULE AccessRules -------------------------------
(***************************************************************************)
(* Who may see a ticket, work on it, route it and be given it              *)
(* (identity_access/scope.py, tickets/eligibility.py and permissions.py),  *)
(* while sign-ins, administrators and time change what the rules read.     *)
(*                                                                         *)
(* A role key stands for its two spellings (ops-agents and                 *)
(* agent-operational, and so on), "master" also for the deputy master.     *)
(* The service of a scope is treated like its queue and left out.          *)
(***************************************************************************)
EXTENDS Naturals, FiniteSets

CONSTANTS
  Offices, Queues,
  Any,              \* no office, no queue
  Assignments,      \* roles that may be granted: [role, office]
  MaxAssignments,   \* bound of the roles one member of staff holds
  Configurations,   \* Role.scopes: for each role a set of scopes, or Malformed
  Malformed,
  Tokens,           \* what sign-ins bring: [groups, office]
  Tickets           \* [domain, office, queue, restricted]

ScopeSet ==
  [domain : {"operational", "it", "admin"}, office : Offices \union {Any},
   queue : {row.id : row \in Queues} \union {Any}, restrictedOnly : BOOLEAN]
TicketSet ==
  [domain : {"operational", "it"}, office : Offices,
   queue : {row.id : row \in Queues} \union {Any}, restricted : BOOLEAN]

ASSUME AccessAssumption ==
  /\ Any \notin Offices
  /\ Tickets \subseteq TicketSet
  /\ Assignments \subseteq [role : STRING, office : Offices \union {Any}]
  /\ \A c \in Configurations : \A a \in Assignments :
       c[a.role] = Malformed \/ c[a.role] \subseteq ScopeSet

VARIABLES
  user,         \* "staff", "superuser" or "disabled"
  groups,       \* keycloak_groups, of the last token
  office,       \* office, of the last token
  held,         \* UserRole rows
  lapsed,       \* those that have expired
  configured,   \* Role.scopes
  openOffices,  \* offices that are active
  ticket

identityVars == <<user, groups, office, held, lapsed, configured, openOffices>>
accessVars == <<identityVars, ticket>>

Scope(d, o, q, r) == [domain |-> d, office |-> o, queue |-> q, restrictedOnly |-> r]
Key(s) == <<s.domain, s.office, s.queue>>
Everywhere(d) == Scope(d, Any, Any, FALSE)
OnlyRestricted(d) == Scope(d, Any, Any, TRUE)

FamilyDomain == [role \in {"ops-agents", "ops-supervisors", "service-desk-agents",
                           "it-agents", "it-leads"} |->
                   IF role \in {"it-agents", "it-leads"} THEN "it" ELSE "operational"]
Designations == {"master", "assistant-master", "examiner"}
AuthorityAliases(role) ==
  CASE role = "master" -> {"ops-agents", "ops-supervisors", "assistant-master", "master"}
    [] role = "assistant-master" -> {"ops-agents", "ops-supervisors", "assistant-master"}
    [] role = "examiner" -> {"ops-agents", "examiner"}
    [] OTHER -> {role} \intersect (DOMAIN FamilyDomain \union {"system-admins"})
DomainAgents(d) == IF d = "it" THEN {"it-agents"} ELSE {"ops-agents"}
CrossOfficeRoles == {"auditors", "service-desk-agents", "master"}
RestrictedRoles == {"ops-supervisors", "it-leads", "system-admins", "security-responders"}
RestrictedViewRoles == RestrictedRoles \union {"auditors"}
SupervisorRoles == {"assistant-master", "master"}
ReassignRoles == {"ops-supervisors", "it-leads", "system-admins"}
WorkRoles(d) ==
  {r \in DOMAIN FamilyDomain : FamilyDomain[r] = d} \union {"system-admins", "admin-scope"}

DefaultScopes(role) ==
  CASE role \in DOMAIN FamilyDomain -> {Everywhere(FamilyDomain[role])}
    [] role = "system-admins" -> {Everywhere("admin")}
    [] role = "auditors" -> {Everywhere("operational"), Everywhere("it")}
    [] role = "security-responders" -> {OnlyRestricted("operational"), OnlyRestricted("it")}
    [] OTHER -> {}

-----------------------------------------------------------------------------
(* Authority, as the persisted roles or else the groups give it.            *)

(* A malformed role gives nothing, one without scopes its default.          *)
RoleScopes(role) ==
  IF configured[role] = Malformed THEN {}
  ELSE IF configured[role] = {} THEN DefaultScopes(role)
  ELSE configured[role]

(* An assignment's office takes the place of the configured one ...         *)
AssignmentScopes(a) ==
  IF a.office = Any THEN RoleScopes(a.role)
  ELSE {[s EXCEPT !.office = a.office] : s \in RoleScopes(a.role)}

(* ... but a grant keeps both.                                              *)
Grant(a) == [role |-> a.role, scopes |-> RoleScopes(a.role), office |-> a.office]

Active == held \ lapsed

Normalised(scopes) ==
  {s \in scopes : s.restrictedOnly => [s EXCEPT !.restrictedOnly = FALSE] \notin scopes}

Snapshot(scopes, restricted, grants, roles, persisted) ==
  [scopes |-> Normalised(scopes), restricted |-> restricted, grants |-> grants,
   groups |-> groups, persisted |-> persisted,
   auditor |-> "auditors" \in roles,
   national |-> roles \intersect CrossOfficeRoles # {}]

SnapshotFromPersisted ==
  Snapshot(UNION {AssignmentScopes(a) : a \in Active},
           UNION {{Key(s) : s \in {x \in AssignmentScopes(a) :
                     a.role \in RestrictedViewRoles \/ x.restrictedOnly}} : a \in Active},
           {Grant(a) : a \in {b \in Active : RoleScopes(b.role) # {}}},
           {a.role : a \in Active}, TRUE)

SnapshotFromGroups ==
  Snapshot(UNION {DefaultScopes(g) : g \in groups},
           UNION {{Key(s) : s \in DefaultScopes(g)} : g \in groups \intersect RestrictedViewRoles},
           {}, groups, FALSE)

Boundary == IF office # Any /\ office \in openOffices THEN office ELSE Any

(* The scopes of an officer: administration as it is, everything else in    *)
(* the active office of the officer or nowhere.                             *)
Confined(scopes, boundary) ==
  {s \in scopes : s.domain = "admin"}
  \union (IF boundary = Any THEN {}
          ELSE {[s EXCEPT !.office = boundary] :
                  s \in {x \in scopes : x.domain # "admin" /\ x.office \in {Any, boundary}}})

BoundedGrant(g, boundary) ==
  LET scopes == Confined(g.scopes, boundary) IN
  [g EXCEPT !.scopes = scopes,
            !.office = IF @ = Any /\ \A s \in scopes : s.domain # "admin"
                       THEN boundary ELSE @]

(* Mutant: the national scope is cleared for restricted work.               *)
ApplyOfficeBoundary_KeepsClearance(sn) ==
  IF sn.auditor THEN sn
  ELSE LET own == Confined(sn.scopes, Boundary)
           national == IF sn.national /\ \E s \in sn.scopes :
                            s.domain = "operational" /\ ~s.restrictedOnly
                       THEN {Everywhere("operational")} ELSE {} IN
       [sn EXCEPT
          !.scopes = Normalised(own \union national),
          !.restricted = {Key(s) : s \in {x \in own : Key(x) \in sn.restricted \/
                            \E t \in sn.scopes : Key(t) \in sn.restricted
                              /\ t.domain = x.domain /\ t.queue = x.queue
                              /\ t.office \in {Any, x.office}}}
                         \union (IF sn.restricted # {} THEN {Key(s) : s \in national} ELSE {})]

(* Auditors are exempt.  Whoever is national and has unconfined operational *)
(* authority gets one more scope, for every office but without restricted   *)
(* work.                                                                    *)
ApplyOfficeBoundary(sn) ==
  IF sn.auditor THEN sn
  ELSE LET cleared == {s \in sn.scopes : Key(s) \in sn.restricted}
           national == IF sn.national /\ \E s \in sn.scopes :
                            s.domain = "operational" /\ ~s.restrictedOnly
                       THEN {Everywhere("operational")} ELSE {} IN
       [sn EXCEPT
          !.scopes = Normalised(Confined(sn.scopes, Boundary) \union national),
          !.restricted = {Key(s) : s \in Confined(cleared, Boundary)},
          !.grants = {g \in {BoundedGrant(h, Boundary) : h \in sn.grants} : g.scopes # {}}]

Resolved == IF Active # {} THEN SnapshotFromPersisted ELSE SnapshotFromGroups

(* get_authority_snapshot, and what the service takes under its locks.      *)
Authority ==
  CASE user = "superuser" ->
         [Resolved EXCEPT !.scopes = {Everywhere("admin")},
                          !.restricted = {Key(Everywhere("admin"))}]
    [] user = "staff" -> ApplyOfficeBoundary(Resolved)
    [] OTHER -> Snapshot({}, {}, {}, {}, FALSE)

Covers(s, t) ==
  /\ s.domain \in {"admin", t.domain}
  /\ s.office \in {Any, t.office}
  /\ s.queue \in {Any, t.queue}

(* scope_ticket_queryset, and _ticket_visible_in_authority in memory.       *)
InScope(sn, t) ==
  \E s \in sn.scopes :
    /\ Covers(s, t)
    /\ IF s.restrictedOnly THEN t.restricted ELSE t.restricted => Key(s) \in sn.restricted

-----------------------------------------------------------------------------
(* What the rules allow.                                                    *)

(* is_auditor_identity: any source will do.                                 *)
IsAuditor == "auditors" \in groups \union {a.role : a \in Active}

GrantCovers(g, s, t) ==
  /\ g.office \in {Any, t.office}
  /\ Covers(s, t)
  /\ s.restrictedOnly => t.restricted

(* Mutant: a grant counts whether or not the ticket is visible.             *)
GrantAliases_Unseen(g, t, sn) ==
  IF \E s \in g.scopes : GrantCovers(g, s, t)
  THEN AuthorityAliases(g.role) \union (IF g.role \in Designations THEN DomainAgents(t.domain)
                                        ELSE {})
  ELSE {}

GrantAliases(g, t, sn) ==
  LET covering == {s \in g.scopes : GrantCovers(g, s, t)}
      cleared == {s \in covering :
        s.restrictedOnly \/ (t.restricted => g.role \in RestrictedRoles)}
      family == g.role \in DOMAIN FamilyDomain => FamilyDomain[g.role] = t.domain IN
  (IF \E s \in cleared : s.domain = "admin" THEN {"admin-scope"} ELSE {})
  \union (IF covering # {} /\ InScope(sn, t) /\ family
          THEN AuthorityAliases(g.role)
               \union (IF g.role \in Designations THEN DomainAgents(t.domain) ELSE {})
          ELSE {})

(* matching_actor_role_aliases *)
ActorAliases(sn, t) ==
  IF user = "disabled" \/ sn.auditor \/ IsAuditor THEN {}
  ELSE CASE user = "superuser" -> {"system-admins"}
    [] user = "staff" /\ sn.persisted -> UNION {GrantAliases(g, t, sn) : g \in sn.grants}
    [] OTHER ->
         IF ~InScope(sn, t) THEN {}
         ELSE {g \in sn.groups : g = "system-admins" \/
                 (g \in DOMAIN FamilyDomain /\ FamilyDomain[g] = t.domain)}

CanUpdateWork(sn, t) == ActorAliases(sn, t) \intersect WorkRoles(t.domain) # {}
CanAssign(sn, t) == ActorAliases(sn, t) \intersect ReassignRoles # {}

Routed(t, q) == [t EXCEPT !.queue = q]

(* Mutant: the scope of the resulting queue is not asked for.               *)
CoversResult_AnyQueue(s, cleared, t) ==
  /\ s.domain \in {"admin", t.domain} /\ s.office \in {Any, t.office}
  /\ IF s.restrictedOnly THEN t.restricted ELSE t.restricted => cleared

CoversResult(s, cleared, t) ==
  /\ Covers(s, t)
  /\ IF s.restrictedOnly THEN t.restricted ELSE t.restricted => cleared

(* A scope, or the scope of a grant under the grant's own office, covers    *)
(* the ticket in its new queue.                                             *)
HasRoutingResultScope(sn, t) ==
  LET fit(s) == t.queue = Any => s.queue = Any IN
  IF user = "superuser" \/ ~sn.persisted
  THEN \E s \in sn.scopes : fit(s) /\ CoversResult(s, Key(s) \in sn.restricted, t)
  ELSE \E g \in sn.grants : \E s \in g.scopes :
         LET under == IF g.office = Any THEN s ELSE [s EXCEPT !.office = g.office] IN
         /\ g.role # "auditors"
         /\ g.office \in {Any, t.office}
         /\ fit(s)
         /\ CoversResult(s, Key(under) \in sn.restricted, t)

(* can_route_ticket, and can_unqueue_ticket where q is Any.                 *)
CanRoute(sn, t, q) ==
  /\ q # Any => \E row \in Queues : row.id = q /\ row.office = t.office /\ row.active
  /\ CanAssign(sn, t)
  /\ HasRoutingResultScope(sn, Routed(t, q))

-----------------------------------------------------------------------------
(* Who may be given a ticket.                                               *)

(* Mutant: the office of the assignment is not compared.                    *)
FunctionalRole_AnyOffice(a, t) ==
  /\ a.role \in Designations \union DOMAIN FamilyDomain
  /\ a.role \in DOMAIN FamilyDomain => FamilyDomain[a.role] = t.domain
  /\ \E s \in RoleScopes(a.role) :
       s.domain = t.domain /\ Covers(s, t) /\ (s.restrictedOnly => t.restricted)

FunctionalRole(a, t) ==
  /\ a.role \in Designations \union DOMAIN FamilyDomain
  /\ a.role \in DOMAIN FamilyDomain => FamilyDomain[a.role] = t.domain
  /\ a.office \in {Any, t.office}
  /\ \E s \in RoleScopes(a.role) :
       s.domain = t.domain /\ Covers(s, t) /\ (s.restrictedOnly => t.restricted)

FunctionalRoles(t) ==
  {a.role : a \in {b \in Active : FunctionalRole(b, t)}}
  \union (IF Active = {} /\ user # "superuser" /\ "system-admins" \notin groups
          THEN {g \in groups : g \in DOMAIN FamilyDomain /\ FamilyDomain[g] = t.domain}
          ELSE {})

(* _candidate_for_user, with the authority it is given.                     *)
IsCandidate(sn, t, roles) ==
  /\ user # "disabled"
  /\ ~IsAuditor /\ ~sn.auditor
  /\ t.restricted => sn.restricted # {}
  /\ InScope(sn, t)
  /\ FunctionalRoles(t) \intersect roles # {}

AllRoles == Designations \union DOMAIN FamilyDomain

(* Mutant: the office boundary is not applied again.                        *)
PickerAuthority_Unbounded == Resolved

(* The lists of candidates make their own snapshot, for a superuser too.    *)
PickerAuthority == ApplyOfficeBoundary(Resolved)

EligibleAssignee(t) == IsCandidate(PickerAuthority, t, AllRoles)
EligibleSupervisor(t) ==
  t.domain = "operational" /\ IsCandidate(PickerAuthority, t, SupervisorRoles)

(* What the service finds once it has locked the rows.                      *)
AcceptedAssignee(t) == IsCandidate(Authority, t, AllRoles)
AcceptedSupervisor(t) ==
  t.domain = "operational" /\ IsCandidate(Authority, t, SupervisorRoles)

-----------------------------------------------------------------------------
AccessInit ==
  /\ user = "staff" /\ groups = {} /\ office = Any
  /\ held = {} /\ lapsed = {}
  /\ configured \in Configurations
  /\ openOffices = Offices
  /\ ticket \in Tickets

(* A sign-in saves the groups and then, in another transaction, the office. *)
(* Any number of them may be under way, so each half is an action.          *)
SynchronizeGroups(token) ==
  /\ user # "disabled"
  /\ groups' = token.groups
  /\ UNCHANGED <<user, office, held, lapsed, configured, openOffices, ticket>>

(* Mutant: the claim is not looked up.                                      *)
SynchronizeOffice_AsClaimed(token) ==
  /\ user # "disabled"
  /\ office' = token.office
  /\ UNCHANGED <<user, groups, held, lapsed, configured, openOffices, ticket>>

(* An office that is unknown or not active counts as none.                  *)
SynchronizeOffice(token) ==
  /\ user # "disabled"
  /\ office' = IF token.office \in openOffices THEN token.office ELSE Any
  /\ UNCHANGED <<user, groups, held, lapsed, configured, openOffices, ticket>>

GrantRole(a) ==
  /\ a \notin held
  /\ Cardinality(held) < MaxAssignments
  /\ held' = held \union {a}
  /\ UNCHANGED <<user, groups, office, lapsed, configured, openOffices, ticket>>

RevokeRole(a) ==
  /\ a \in held
  /\ held' = held \ {a} /\ lapsed' = lapsed \ {a}
  /\ UNCHANGED <<user, groups, office, configured, openOffices, ticket>>

ExpireRole(a) ==
  /\ a \in Active
  /\ lapsed' = lapsed \union {a}
  /\ UNCHANGED <<user, groups, office, held, configured, openOffices, ticket>>

SetUser(kind) ==
  /\ user # kind
  /\ user' = kind
  /\ UNCHANGED <<groups, office, held, lapsed, configured, openOffices, ticket>>

ToggleOffice(o) ==
  /\ openOffices' = (openOffices \ {o}) \union ({o} \ openOffices)
  /\ UNCHANGED <<user, groups, office, held, lapsed, configured, ticket>>

RouteTicket(q) ==
  /\ q # ticket.queue
  /\ InScope(Authority, ticket)
  /\ CanRoute(Authority, ticket, q)
  /\ ticket' = Routed(ticket, q)
  /\ UNCHANGED identityVars

(* can_change_confidentiality is can_assign.                                *)
ChangeConfidentiality ==
  /\ InScope(Authority, ticket)
  /\ CanAssign(Authority, ticket)
  /\ ticket' = [ticket EXCEPT !.restricted = ~@]
  /\ UNCHANGED identityVars

AccessNext ==
  \/ \E token \in Tokens : SynchronizeGroups(token) \/ SynchronizeOffice(token)
  \/ \E a \in Assignments : GrantRole(a) \/ RevokeRole(a) \/ ExpireRole(a)
  \/ \E kind \in {"staff", "superuser", "disabled"} : SetUser(kind)
  \/ \E o \in Offices : ToggleOffice(o)
  \/ \E q \in {row.id : row \in Queues} \union {Any} : RouteTicket(q)
  \/ ChangeConfidentiality

AccessSpec == AccessInit /\ [][AccessNext]_accessVars

-----------------------------------------------------------------------------
(* What the rules promise.                                                  *)

AccessTypeOK ==
  /\ user \in {"staff", "superuser", "disabled"}
  /\ office \in Offices \union {Any}
  /\ held \subseteq Assignments /\ lapsed \subseteq held
  /\ openOffices \subseteq Offices
  /\ configured \in Configurations
  /\ ticket \in TicketSet

Roles == IF Active # {} THEN {a.role : a \in Active} ELSE groups
AdminAuthority ==
  IF Active # {} THEN \E a \in Active : \E s \in RoleScopes(a.role) : s.domain = "admin"
  ELSE "system-admins" \in groups

(* An officer only sees tickets of the active office of theirs.  Further    *)
(* than that see only superusers, auditors and administration, and, for     *)
(* operational work that is not restricted, the national roles.  Restricted *)
(* work is seen by somebody with a role or a scope that is cleared for it.  *)
SightIsConfined ==
  InScope(Authority, ticket) =>
    \/ user = "superuser"
    \/ "auditors" \in Roles
    \/ AdminAuthority
    \/ /\ office = ticket.office /\ office \in openOffices
       /\ ticket.restricted =>
            \/ Roles \intersect RestrictedViewRoles # {}
            \/ \E a \in Active : \E s \in RoleScopes(a.role) : s.restrictedOnly
    \/ /\ Roles \intersect CrossOfficeRoles # {}
       /\ ticket.domain = "operational"
       /\ ~ticket.restricted

(* Nobody may work on, assign or route a ticket they may not see, and no    *)
(* auditor at all.                                                          *)
AuthorityImpliesSight ==
  LET sn == Authority IN
  (CanUpdateWork(sn, ticket) \/ CanAssign(sn, ticket)) =>
    InScope(sn, ticket) /\ ~IsAuditor

(* Whoever a list of candidates offers is accepted by the service, if       *)
(* nothing has changed since.                                               *)
OfferedIsAccepted ==
  /\ EligibleAssignee(ticket) => AcceptedAssignee(ticket)
  /\ EligibleSupervisor(ticket) => AcceptedSupervisor(ticket)

(* Routing never takes a ticket out of the sight of the one who routes it.  *)
RouterKeepsSight ==
  [][ticket'.queue # ticket.queue => InScope(Authority, ticket')]_accessVars

(* Whoever may be given a ticket may work on it.                            *)
AssigneeCanWork == AcceptedAssignee(ticket) => CanUpdateWork(Authority, ticket)

(* The same but for the national roles and for administrators, who see a    *)
(* ticket by other means than the role they would work on it with.          *)
LocalAssigneeCanWork ==
  AcceptedAssignee(ticket) /\ Roles \intersect CrossOfficeRoles = {} /\ ~AdminAuthority =>
    CanUpdateWork(Authority, ticket)

(* Authority to take a ticket out of its queue outlasts doing so.           *)
UnqueueKeepsAuthority ==
  CanRoute(Authority, ticket, Any) => CanAssign(Authority, Routed(ticket, Any))
=============================================================================
