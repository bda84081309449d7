------------------------------ MODULE AccessProofs ------------------------------
(***************************************************************************)
(* Proofs about AccessRules, for any offices, queues, roles and scopes.    *)
(***************************************************************************)
EXTENDS AccessRules, TLAPS

-----------------------------------------------------------------------------
(* Scopes and snapshots.                                                    *)

(* Delivered and configured scopes are scopes.                              *)
LEMMA ScopeTypes ==
  /\ \A role : DefaultScopes(role) \subseteq ScopeSet
  /\ AccessTypeOK => \A a \in Active :
       RoleScopes(a.role) \subseteq ScopeSet /\ AssignmentScopes(a) \subseteq ScopeSet
<1>1. ASSUME NEW role PROVE DefaultScopes(role) \subseteq ScopeSet
  <2>1. \A d \in {"operational", "it", "admin"} :
          Everywhere(d) \in ScopeSet /\ OnlyRestricted(d) \in ScopeSet
    BY DEF ScopeSet, Everywhere, OnlyRestricted, Scope
  <2>2. \A r \in DOMAIN FamilyDomain : FamilyDomain[r] \in {"operational", "it"}
    BY DEF FamilyDomain
  <2> HIDE DEF FamilyDomain
  <2> QED BY <2>1, <2>2 DEF DefaultScopes
<1>2. ASSUME AccessTypeOK, NEW a \in Active
      PROVE  /\ RoleScopes(a.role) \subseteq ScopeSet
             /\ AssignmentScopes(a) \subseteq ScopeSet
  <2>1. a \in Assignments /\ a.office \in Offices \union {Any}
    BY <1>2, AccessAssumption DEF Active, AccessTypeOK
  <2>2. RoleScopes(a.role) \subseteq ScopeSet
    BY <1>1, <1>2, <2>1, AccessAssumption DEF RoleScopes, AccessTypeOK
  <2>3. AssignmentScopes(a) \subseteq ScopeSet
    BY <2>1, <2>2 DEF AssignmentScopes, ScopeSet
  <2> QED BY <2>2, <2>3
<1> QED BY <1>1, <1>2

(* A scope that normalisation leaves out is covered by another.             *)
LEMMA NormalisedCovers ==
  ASSUME NEW S \in SUBSET ScopeSet, NEW s \in S
  PROVE  \E n \in Normalised(S) :
           Key(n) = Key(s) /\ (n.restrictedOnly => s.restrictedOnly)
<1>1. CASE s \in Normalised(S)
  BY <1>1
<1>2. CASE s \notin Normalised(S)
  <2> DEFINE n == [s EXCEPT !.restrictedOnly = FALSE]
  <2>1. n \in S
    BY <1>2 DEF Normalised
  <2>2. n.restrictedOnly = FALSE /\ Key(n) = Key(s)
    BY DEF ScopeSet, Key
  <2>3. n \in Normalised(S)
    BY <2>1, <2>2 DEF Normalised
  <2> QED BY <2>2, <2>3
<1> QED BY <1>1, <1>2

HeldScopes == UNION {AssignmentScopes(a) : a \in Active}
HeldClearance ==
  UNION {{Key(s) : s \in {x \in AssignmentScopes(a) :
            a.role \in RestrictedViewRoles \/ x.restrictedOnly}} : a \in Active}
HeldGrants == {Grant(a) : a \in {b \in Active : RoleScopes(b.role) # {}}}

LEMMA ResolvedPersisted ==
  ASSUME Active # {}
  PROVE  /\ Resolved.scopes = Normalised(HeldScopes)
         /\ Resolved.restricted = HeldClearance
         /\ Resolved.grants = HeldGrants
         /\ Resolved.persisted = TRUE
         /\ Resolved.auditor = ("auditors" \in {a.role : a \in Active})
         /\ Resolved.national = ({a.role : a \in Active} \intersect CrossOfficeRoles # {})
BY DEF Resolved, SnapshotFromPersisted, Snapshot, HeldScopes, HeldClearance, HeldGrants

LEMMA ResolvedGroups ==
  ASSUME Active = {}
  PROVE  /\ Resolved.scopes = Normalised(UNION {DefaultScopes(g) : g \in groups})
         /\ Resolved.restricted = UNION {{Key(s) : s \in DefaultScopes(g)} :
                                           g \in groups \intersect RestrictedViewRoles}
         /\ Resolved.persisted = FALSE
         /\ Resolved.auditor = ("auditors" \in groups)
         /\ Resolved.national = (groups \intersect CrossOfficeRoles # {})
BY DEF Resolved, SnapshotFromGroups, Snapshot

LEMMA ResolvedType ==
  ASSUME AccessTypeOK
  PROVE  Resolved.scopes \subseteq ScopeSet
<1>0. \A S : Normalised(S) \subseteq S
  BY DEF Normalised
<1>1. CASE Active # {}
  <2>1. HeldScopes \subseteq ScopeSet
    BY ScopeTypes DEF HeldScopes
  <2> QED BY <1>0, <1>1, <2>1, ResolvedPersisted
<1>2. CASE Active = {}
  <2>1. UNION {DefaultScopes(g) : g \in groups} \subseteq ScopeSet
    BY ScopeTypes
  <2> QED BY <1>0, <1>2, <2>1, ResolvedGroups
<1> QED BY <1>1, <1>2

National ==
  IF Resolved.national /\ \E s \in Resolved.scopes : s.domain = "operational" /\ ~s.restrictedOnly
    THEN {Everywhere("operational")} ELSE {}
Cleared == {s \in Resolved.scopes : Key(s) \in Resolved.restricted}

LEMMA StaffAuthority ==
  ASSUME user = "staff", ~Resolved.auditor
  PROVE  /\ Authority.scopes = Normalised(Confined(Resolved.scopes, Boundary) \union National)
         /\ Authority.restricted = {Key(s) : s \in Confined(Cleared, Boundary)}
         /\ Authority.grants =
              {g \in {BoundedGrant(h, Boundary) : h \in Resolved.grants} : g.scopes # {}}
         /\ Authority.persisted = Resolved.persisted
         /\ Authority.auditor = FALSE
<1>1. \E a, b, c, d, e, f, g : Resolved =
        [scopes |-> a, restricted |-> b, grants |-> c, groups |-> d, persisted |-> e,
         auditor |-> f, national |-> g]
  BY DEF Resolved, SnapshotFromPersisted, SnapshotFromGroups, Snapshot
<1>2. Authority = ApplyOfficeBoundary(Resolved)
  BY DEF Authority
<1> QED BY <1>1, <1>2 DEF ApplyOfficeBoundary, National, Cleared

LEMMA ConfinedTypes ==
  ASSUME AccessTypeOK, NEW S \in SUBSET ScopeSet
  PROVE  Confined(S, Boundary) \subseteq ScopeSet
BY AccessAssumption DEF Confined, Boundary, ScopeSet, AccessTypeOK

-----------------------------------------------------------------------------
(* Types.                                                                   *)

(* The rows the rules read keep their types: an officer is of an office     *)
(* there is, and a ticket stays in a queue there is or in none.             *)
THEOREM AccessTypes == AccessSpec => []AccessTypeOK
<1>1. AccessInit => AccessTypeOK
  BY AccessAssumption DEF AccessInit, AccessTypeOK
<1>2. AccessTypeOK /\ [AccessNext]_accessVars => AccessTypeOK'
  <2> SUFFICES ASSUME AccessTypeOK, [AccessNext]_accessVars
               PROVE  AccessTypeOK'
    OBVIOUS
  <2>1. ASSUME NEW token \in Tokens, SynchronizeGroups(token) \/ SynchronizeOffice(token)
        PROVE  AccessTypeOK'
    BY <2>1 DEF SynchronizeGroups, SynchronizeOffice, AccessTypeOK
  <2>2. ASSUME NEW a \in Assignments, GrantRole(a) \/ RevokeRole(a) \/ ExpireRole(a)
        PROVE  AccessTypeOK'
    BY <2>2 DEF GrantRole, RevokeRole, ExpireRole, AccessTypeOK, Active
  <2>3. ASSUME NEW kind \in {"staff", "superuser", "disabled"}, SetUser(kind)
        PROVE  AccessTypeOK'
    BY <2>3 DEF SetUser, AccessTypeOK
  <2>4. ASSUME NEW o \in Offices, ToggleOffice(o)
        PROVE  AccessTypeOK'
    BY <2>4 DEF ToggleOffice, AccessTypeOK
  <2>5. ASSUME NEW q \in {row.id : row \in Queues} \union {Any}, RouteTicket(q)
        PROVE  AccessTypeOK'
    BY <2>5 DEF RouteTicket, Routed, TicketSet, AccessTypeOK, identityVars
  <2>6. CASE ChangeConfidentiality
    BY <2>6 DEF ChangeConfidentiality, TicketSet, AccessTypeOK, identityVars
  <2>7. CASE UNCHANGED accessVars
    BY <2>7 DEF accessVars, identityVars, AccessTypeOK
  <2> QED BY <2>1, <2>2, <2>3, <2>4, <2>5, <2>6, <2>7 DEF AccessNext
<1> QED BY <1>1, <1>2, PTL DEF AccessSpec

-----------------------------------------------------------------------------
(* Sight.                                                                   *)

(* What an officer resolves to is what the roles held, or else the groups,  *)
(* give.                                                                    *)
LEMMA ResolvedGives ==
  ASSUME AccessTypeOK
  PROVE  /\ Resolved.auditor = ("auditors" \in Roles)
         /\ Resolved.national = (Roles \intersect CrossOfficeRoles # {})
         /\ \A s \in Resolved.scopes :
              /\ s.domain = "admin" => AdminAuthority
              /\ s.restrictedOnly =>
                   \/ Roles \intersect RestrictedViewRoles # {}
                   \/ \E a \in Active : \E x \in RoleScopes(a.role) : x.restrictedOnly
         /\ Resolved.restricted # {} =>
              \/ Roles \intersect RestrictedViewRoles # {}
              \/ \E a \in Active : \E x \in RoleScopes(a.role) : x.restrictedOnly
<1>0. \A S : Normalised(S) \subseteq S
  BY DEF Normalised
<1>1. CASE Active # {}
  <2>1. \A a \in Active : \A s \in AssignmentScopes(a) : \E x \in RoleScopes(a.role) :
          s.domain = x.domain /\ s.restrictedOnly = x.restrictedOnly
    BY ScopeTypes DEF AssignmentScopes, ScopeSet
  <2>2. \A s \in Resolved.scopes : \E a \in Active : \E x \in RoleScopes(a.role) :
          s.domain = x.domain /\ s.restrictedOnly = x.restrictedOnly
    <3>1. Resolved.scopes \subseteq HeldScopes
      BY <1>0, <1>1, ResolvedPersisted
    <3>2. \A s \in HeldScopes : \E a \in Active : s \in AssignmentScopes(a)
      BY DEF HeldScopes
    <3> QED BY <2>1, <3>1, <3>2
  <2>3. Resolved.restricted # {} =>
          \E a \in Active : \/ a.role \in RestrictedViewRoles
                            \/ \E x \in RoleScopes(a.role) : x.restrictedOnly
    <3>1. \A k \in HeldClearance : \E a \in Active : \E s \in AssignmentScopes(a) :
            a.role \in RestrictedViewRoles \/ s.restrictedOnly
      BY DEF HeldClearance
    <3>2. Resolved.restricted = HeldClearance
      BY <1>1, ResolvedPersisted
    <3> QED BY <2>1, <3>1, <3>2
  <2>4. Roles = {a.role : a \in Active}
    BY <1>1 DEF Roles
  <2> QED BY <1>1, <2>2, <2>3, <2>4, ResolvedPersisted DEF AdminAuthority
<1>2. CASE Active = {}
  <2>1. \A role : \A s \in DefaultScopes(role) :
          /\ s.domain = "admin" => role = "system-admins"
          /\ s.restrictedOnly => role = "security-responders"
    <3>1. \A r \in DOMAIN FamilyDomain : FamilyDomain[r] \in {"operational", "it"}
      BY DEF FamilyDomain
    <3> HIDE DEF FamilyDomain
    <3> QED BY <3>1 DEF DefaultScopes, Everywhere, OnlyRestricted, Scope
  <2>2. \A s \in Resolved.scopes : \E g \in groups : s \in DefaultScopes(g)
    BY <1>0, <1>2, ResolvedGroups
  <2>3. Roles = groups
    BY <1>2 DEF Roles
  <2>4. "security-responders" \in RestrictedViewRoles
    BY DEF RestrictedViewRoles, RestrictedRoles
  <2>5. Resolved.restricted # {} => Roles \intersect RestrictedViewRoles # {}
    BY <1>2, <2>3, ResolvedGroups
  <2> QED BY <1>2, <2>1, <2>2, <2>3, <2>4, <2>5, ResolvedGroups DEF AdminAuthority
<1> QED BY <1>1, <1>2

LEMMA SightOfStaff ==
  ASSUME AccessTypeOK, user = "staff", InScope(Authority, ticket)
  PROVE  SightIsConfined
<1> SUFFICES ASSUME ~("auditors" \in Roles), ~AdminAuthority
             PROVE  \/ /\ office = ticket.office /\ office \in openOffices
                       /\ ticket.restricted =>
                            \/ Roles \intersect RestrictedViewRoles # {}
                            \/ \E a \in Active : \E s \in RoleScopes(a.role) : s.restrictedOnly
                    \/ /\ Roles \intersect CrossOfficeRoles # {}
                       /\ ticket.domain = "operational"
                       /\ ~ticket.restricted
  BY DEF SightIsConfined
<1>0. \A S : Normalised(S) \subseteq S
  BY DEF Normalised
<1>1. ~Resolved.auditor
  BY ResolvedGives
<1>2. Resolved.scopes \subseteq ScopeSet /\ \A s \in Resolved.scopes : s.domain # "admin"
  BY ResolvedType, ResolvedGives
<1>3. PICK s \in Confined(Resolved.scopes, Boundary) \union National :
        /\ Covers(s, ticket)
        /\ IF s.restrictedOnly THEN ticket.restricted
           ELSE ticket.restricted => Key(s) \in Authority.restricted
  BY <1>0, <1>1, StaffAuthority DEF InScope
<1>4. Authority.restricted = {Key(x) : x \in Confined(Cleared, Boundary)}
  BY <1>1, StaffAuthority
<1>5. \A S \in SUBSET Resolved.scopes : \A x \in Confined(S, Boundary) :
        /\ Boundary # Any /\ x.office = Boundary
        /\ \E y \in S : x = [y EXCEPT !.office = Boundary]
  BY <1>2 DEF Confined, ScopeSet
<1>6. Cleared \in SUBSET Resolved.scopes
  BY DEF Cleared
<1>7. CASE s \in National
  <2>1. s = Everywhere("operational") /\ Resolved.national
    BY <1>7 DEF National
  <2>2. Key(s) = <<"operational", Any, Any>> /\ s.restrictedOnly = FALSE
    BY <2>1 DEF Everywhere, Scope, Key
  <2>3. ticket.domain = "operational"
    BY <1>3, <2>1 DEF Covers, Everywhere, Scope, TicketSet, AccessTypeOK
  <2>4. Key(s) \notin Authority.restricted
    BY <1>4, <1>5, <1>6, <2>2 DEF Key
  <2> QED BY <1>3, <2>1, <2>2, <2>3, <2>4, ResolvedGives
<1>8. CASE s \in Confined(Resolved.scopes, Boundary)
  <2>1. PICK y \in Resolved.scopes : s = [y EXCEPT !.office = Boundary]
    BY <1>5, <1>8
  <2>2. Boundary # Any /\ s.office = Boundary
    BY <1>5, <1>8
  <2>3. office = ticket.office /\ office \in openOffices
    BY <1>3, <2>2 DEF Covers, Boundary
  <2>4. s.restrictedOnly = y.restrictedOnly
    BY <1>2, <2>1 DEF ScopeSet
  <2>5. ticket.restricted /\ ~s.restrictedOnly => Resolved.restricted # {}
    BY <1>3, <1>4, <1>5, <1>6 DEF Cleared
  <2> QED BY <2>1, <2>3, <2>4, <2>5, ResolvedGives
<1> QED BY <1>3, <1>7, <1>8

(* Nobody sees a ticket outside the office of theirs except by the roles    *)
(* that say so, and restricted work without a clearance nobody.             *)
THEOREM SightTheorem == AccessSpec => []SightIsConfined
<1>1. AccessTypeOK => SightIsConfined
  <2> SUFFICES ASSUME AccessTypeOK, InScope(Authority, ticket)
               PROVE  SightIsConfined
    BY DEF SightIsConfined
  <2>1. CASE user = "superuser"
    BY <2>1 DEF SightIsConfined
  <2>2. CASE user = "staff"
    BY <2>2, SightOfStaff
  <2>3. CASE user = "disabled"
    <3>1. Authority.scopes = {}
      BY <2>3 DEF Authority, Snapshot, Normalised
    <3> QED BY <3>1 DEF InScope
  <2> QED BY <2>1, <2>2, <2>3 DEF AccessTypeOK
<1> QED BY <1>1, AccessTypes, PTL

-----------------------------------------------------------------------------
(* Authority.                                                               *)

(* A scope of a role held, in the office of the officer or administrative,  *)
(* is a scope of the officer.                                               *)
LEMMA Reach ==
  ASSUME AccessTypeOK, user = "staff", ~Resolved.auditor,
         NEW a \in Active, NEW s \in AssignmentScopes(a), NEW t \in TicketSet,
         Covers(s, t),
         s.domain # "admin" =>
           Boundary # Any /\ Boundary = t.office /\ s.office \in {Any, Boundary},
         s.restrictedOnly => t.restricted,
         t.restricted => Key(s) \in HeldClearance
  PROVE  InScope(Authority, t)
<1>0. /\ Resolved.scopes = Normalised(HeldScopes) /\ Resolved.restricted = HeldClearance
      /\ Authority.scopes = Normalised(Confined(Resolved.scopes, Boundary) \union National)
      /\ Authority.restricted = {Key(c) : c \in Confined(Cleared, Boundary)}
  <2>1. Active # {}
    OBVIOUS
  <2> QED BY <2>1, ResolvedPersisted, StaffAuthority
<1>1. s \in HeldScopes /\ HeldScopes \in SUBSET ScopeSet
  BY ScopeTypes DEF HeldScopes
<1>2. PICK x \in Normalised(HeldScopes) :
        Key(x) = Key(s) /\ (x.restrictedOnly => s.restrictedOnly)
  BY <1>1, NormalisedCovers
<1>3. /\ x \in Resolved.scopes /\ x \in ScopeSet
      /\ x.domain = s.domain /\ x.office = s.office /\ x.queue = s.queue
  BY <1>0, <1>1, <1>2 DEF Normalised, Key
<1> DEFINE y == IF x.domain = "admin" THEN x ELSE [x EXCEPT !.office = Boundary]
<1>4. \A S \in SUBSET Resolved.scopes : x \in S => y \in Confined(S, Boundary)
  BY <1>3 DEF Confined
<1>5. y \in ScopeSet /\ y.restrictedOnly = x.restrictedOnly /\ Covers(y, t)
  <2>1. CASE x.domain = "admin"
    BY <1>3, <2>1 DEF Covers
  <2>2. CASE x.domain # "admin"
    BY <1>3, <2>2 DEF Covers, ScopeSet, Boundary, AccessTypeOK
  <2> QED BY <2>1, <2>2
<1> HIDE DEF y
<1>6. y \in Confined(Resolved.scopes, Boundary)
  BY <1>3, <1>4
<1>7. t.restricted => Key(y) \in Authority.restricted
  <2> SUFFICES ASSUME t.restricted
               PROVE  Key(y) \in Authority.restricted
    OBVIOUS
  <2>1. x \in Cleared
    BY <1>0, <1>2, <1>3 DEF Cleared
  <2>2. y \in Confined(Cleared, Boundary)
    BY <1>4, <2>1 DEF Cleared
  <2> QED BY <1>0, <2>2
<1>8. Confined(Resolved.scopes, Boundary) \union National \in SUBSET ScopeSet
  <2>1. Everywhere("operational") \in ScopeSet
    BY DEF Everywhere, Scope, ScopeSet
  <2>2. Resolved.scopes \in SUBSET ScopeSet
    BY ResolvedType
  <2> QED BY <2>1, <2>2, ConfinedTypes DEF National
<1>9. PICK n \in Normalised(Confined(Resolved.scopes, Boundary) \union National) :
        Key(n) = Key(y) /\ (n.restrictedOnly => y.restrictedOnly)
  BY <1>6, <1>8, NormalisedCovers
<1>10. n \in Authority.scopes
  BY <1>0, <1>9
<1>11. Covers(n, t)
  BY <1>5, <1>9 DEF Covers, Key
<1> QED BY <1>2, <1>5, <1>7, <1>9, <1>10, <1>11 DEF InScope

(* What a bounded grant still says.                                         *)
LEMMA GrantSays ==
  ASSUME AccessTypeOK, user = "staff", ~Resolved.auditor, Active # {},
         NEW g \in Authority.grants, NEW s \in g.scopes
  PROVE  \E a \in Active :
           /\ g.role = a.role
           /\ a.office # Any => g.office = a.office
           /\ s.domain = "admin" => s \in RoleScopes(a.role) /\ g.office = a.office
           /\ s.domain # "admin" =>
                /\ Boundary # Any
                /\ g.office \in {a.office, Boundary}
                /\ \E x \in RoleScopes(a.role) :
                     x.domain # "admin" /\ x.office \in {Any, Boundary}
                       /\ s = [x EXCEPT !.office = Boundary]
<1>1. PICK h \in HeldGrants : g = BoundedGrant(h, Boundary)
  BY StaffAuthority, ResolvedPersisted
<1>2. PICK a \in Active : h = Grant(a)
  BY <1>1 DEF HeldGrants
<1>3. RoleScopes(a.role) \subseteq ScopeSet
  BY ScopeTypes
<1>4. /\ g.role = a.role
      /\ g.scopes = Confined(RoleScopes(a.role), Boundary)
      /\ g.office = IF /\ a.office = Any
                       /\ \A c \in Confined(RoleScopes(a.role), Boundary) : c.domain # "admin"
                      THEN Boundary ELSE a.office
  BY <1>1, <1>2 DEF BoundedGrant, Grant
<1>5. CASE s \in RoleScopes(a.role) /\ s.domain = "admin"
  BY <1>4, <1>5
<1>6. ASSUME Boundary # Any, NEW x \in RoleScopes(a.role),
             x.domain # "admin", x.office \in {Any, Boundary},
             s = [x EXCEPT !.office = Boundary]
      PROVE  \/ s.domain = "admin" => s \in RoleScopes(a.role) /\ g.office = a.office
             \/ s.domain # "admin"
  BY <1>3, <1>6 DEF ScopeSet
<1>7. \/ s \in RoleScopes(a.role) /\ s.domain = "admin"
      \/ /\ Boundary # Any
         /\ \E x \in RoleScopes(a.role) :
              x.domain # "admin" /\ x.office \in {Any, Boundary}
                /\ s = [x EXCEPT !.office = Boundary]
  BY <1>4 DEF Confined
<1>8. (\E x \in RoleScopes(a.role) : x.domain # "admin" /\ s = [x EXCEPT !.office = Boundary])
        => s.domain # "admin"
  BY <1>3 DEF ScopeSet
<1> QED BY <1>4, <1>5, <1>7, <1>8

(* A grant that covers a ticket, and is cleared for it, shows it.           *)
LEMMA GrantReaches ==
  ASSUME AccessTypeOK, user = "staff", ~Resolved.auditor, Active # {},
         NEW g \in Authority.grants, NEW s \in g.scopes, NEW t \in TicketSet,
         g.office \in {Any, t.office}, Covers(s, t),
         s.restrictedOnly => t.restricted,
         t.restricted => s.restrictedOnly \/ g.role \in RestrictedViewRoles
  PROVE  InScope(Authority, t)
<1>1. PICK a \in Active :
           /\ g.role = a.role
           /\ a.office # Any => g.office = a.office
           /\ s.domain = "admin" => s \in RoleScopes(a.role) /\ g.office = a.office
           /\ s.domain # "admin" =>
                /\ Boundary # Any
                /\ g.office \in {a.office, Boundary}
                /\ \E x \in RoleScopes(a.role) :
                     x.domain # "admin" /\ x.office \in {Any, Boundary}
                       /\ s = [x EXCEPT !.office = Boundary]
  BY GrantSays
<1>2. RoleScopes(a.role) \subseteq ScopeSet /\ a.office \in Offices \union {Any}
  BY ScopeTypes, AccessAssumption DEF AccessTypeOK, Active
<1>3. PICK x \in RoleScopes(a.role) :
        /\ x.domain = s.domain /\ x.queue = s.queue /\ x.restrictedOnly = s.restrictedOnly
        /\ s.domain = "admin" => x = s
        /\ s.domain # "admin" => x.office \in {Any, Boundary} /\ s.office = Boundary
  BY <1>1, <1>2 DEF ScopeSet
<1> DEFINE h == IF a.office = Any THEN x ELSE [x EXCEPT !.office = a.office]
<1>4. h \in AssignmentScopes(a)
  BY <1>3 DEF AssignmentScopes
<1>5. /\ h.domain = s.domain /\ h.queue = s.queue /\ h.restrictedOnly = s.restrictedOnly
      /\ h.office = IF a.office = Any THEN x.office ELSE a.office
  BY <1>2, <1>3 DEF ScopeSet
<1> HIDE DEF h
<1>6. s.domain # "admin" => Boundary = t.office
  BY <1>1, <1>3 DEF Covers
<1>7. h.office \in {Any, t.office}
  BY <1>1, <1>3, <1>5, <1>6 DEF Covers
<1>8. Covers(h, t)
  BY <1>5, <1>7 DEF Covers
<1>9. t.restricted => Key(h) \in HeldClearance
  BY <1>1, <1>4, <1>5 DEF HeldClearance
<1> QED BY <1>1, <1>4, <1>5, <1>6, <1>7, <1>8, <1>9, Reach

LEMMA AuditorsStay ==
  Authority.auditor => user # "disabled" /\ Resolved.auditor
<1>1. \E a, b, c, d, e, f, g : Resolved =
        [scopes |-> a, restricted |-> b, grants |-> c, groups |-> d, persisted |-> e,
         auditor |-> f, national |-> g]
  BY DEF Resolved, SnapshotFromPersisted, SnapshotFromGroups, Snapshot
<1> QED BY <1>1 DEF Authority, Snapshot, ApplyOfficeBoundary

LEMMA ActorsAct ==
  ASSUME NEW t, ActorAliases(Authority, t) # {}
  PROVE  user # "disabled" /\ ~Authority.auditor /\ ~IsAuditor
<1>1. ASSUME user = "disabled" \/ Authority.auditor \/ IsAuditor
      PROVE  FALSE
  BY <1>1 DEF ActorAliases
<1> QED BY <1>1

LEMMA StaffNoAuditor ==
  ASSUME AccessTypeOK, user = "staff", ~Authority.auditor
  PROVE  ~Resolved.auditor
BY DEF Authority, ApplyOfficeBoundary

(* A superuser sees and is cleared for everything.                          *)
LEMMA SuperuserSees ==
  ASSUME user = "superuser"
  PROVE  /\ \A t \in TicketSet : InScope(Authority, t)
         /\ Authority.restricted # {}
         /\ Authority.auditor = Resolved.auditor
<1>1. \E a, b, c, d, e, f, g : Resolved =
        [scopes |-> a, restricted |-> b, grants |-> c, groups |-> d, persisted |-> e,
         auditor |-> f, national |-> g]
  BY DEF Resolved, SnapshotFromPersisted, SnapshotFromGroups, Snapshot
<1>2. /\ Authority.scopes = {Everywhere("admin")}
      /\ Authority.restricted = {Key(Everywhere("admin"))}
      /\ Authority.auditor = Resolved.auditor
  BY <1>1 DEF Authority
<1>3. \A t \in TicketSet : Covers(Everywhere("admin"), t)
  BY DEF Covers, Everywhere, Scope
<1>4. Everywhere("admin").restrictedOnly = FALSE
  BY DEF Everywhere, Scope
<1> QED BY <1>2, <1>3, <1>4 DEF InScope

(* Work, assignment and routing are for those who see the ticket.           *)
THEOREM AuthorityTheorem == AccessSpec => []AuthorityImpliesSight
<1>1. AccessTypeOK => AuthorityImpliesSight
  <2> SUFFICES ASSUME AccessTypeOK, ActorAliases(Authority, ticket) # {}
               PROVE  InScope(Authority, ticket) /\ ~IsAuditor
    BY DEF AuthorityImpliesSight, CanUpdateWork, CanAssign
  <2>1. user # "disabled" /\ ~Authority.auditor /\ ~IsAuditor
    BY ActorsAct
  <2>2. ticket \in TicketSet
    BY DEF AccessTypeOK
  <2>3. CASE user = "superuser"
    BY <2>1, <2>2, <2>3, SuperuserSees
  <2>4. CASE user = "staff" /\ ~Authority.persisted
    BY <2>1, <2>4 DEF ActorAliases
  <2>5. CASE user = "staff" /\ Authority.persisted
    <3>1. ~Resolved.auditor
      BY <2>1, <2>5, StaffNoAuditor
    <3>2. Active # {}
      BY <2>5, <3>1, StaffAuthority, ResolvedGroups
    <3>3. PICK g \in Authority.grants : GrantAliases(g, ticket, Authority) # {}
      BY <2>1, <2>5 DEF ActorAliases
    <3>4. \/ InScope(Authority, ticket)
          \/ \E s \in g.scopes :
               /\ GrantCovers(g, s, ticket)
               /\ s.restrictedOnly \/ (ticket.restricted => g.role \in RestrictedRoles)
      BY <3>3 DEF GrantAliases
    <3>5. ASSUME NEW s \in g.scopes, GrantCovers(g, s, ticket),
                 s.restrictedOnly \/ (ticket.restricted => g.role \in RestrictedRoles)
          PROVE  InScope(Authority, ticket)
      <4>1. /\ g.office \in {Any, ticket.office} /\ Covers(s, ticket)
            /\ s.restrictedOnly => ticket.restricted
        BY <3>5 DEF GrantCovers
      <4>2. ticket.restricted => s.restrictedOnly \/ g.role \in RestrictedViewRoles
        BY <3>5 DEF RestrictedViewRoles
      <4> QED BY <2>2, <2>5, <3>1, <3>2, <4>1, <4>2, GrantReaches
    <3> QED BY <2>1, <3>4, <3>5
  <2> QED BY <2>1, <2>3, <2>4, <2>5 DEF AccessTypeOK
<1> QED BY <1>1, AccessTypes, PTL

(* The list of candidates and the service agree.                            *)
THEOREM CandidatesTheorem == AccessSpec => []OfferedIsAccepted
<1>1. AccessTypeOK => OfferedIsAccepted
  <2> SUFFICES ASSUME AccessTypeOK, NEW roles, IsCandidate(PickerAuthority, ticket, roles)
               PROVE  IsCandidate(Authority, ticket, roles)
    BY DEF OfferedIsAccepted, EligibleAssignee, EligibleSupervisor,
           AcceptedAssignee, AcceptedSupervisor
  <2>1. CASE user = "staff"
    BY <2>1 DEF PickerAuthority, Authority
  <2>2. CASE user = "superuser"
    <3>1. ~Resolved.auditor
      BY DEF IsCandidate, PickerAuthority, ApplyOfficeBoundary
    <3> QED BY <2>2, <3>1, SuperuserSees DEF IsCandidate, AccessTypeOK
  <2> QED BY <2>1, <2>2 DEF IsCandidate, AccessTypeOK
<1> QED BY <1>1, AccessTypes, PTL

(* Whoever may be given a ticket, by a local role, may work on it.          *)
THEOREM AssigneeTheorem == AccessSpec => []LocalAssigneeCanWork
<1>1. AccessTypeOK /\ SightIsConfined => LocalAssigneeCanWork
  <2> SUFFICES ASSUME AccessTypeOK, SightIsConfined, AcceptedAssignee(ticket),
                      Roles \intersect CrossOfficeRoles = {}, ~AdminAuthority
               PROVE  CanUpdateWork(Authority, ticket)
    BY DEF LocalAssigneeCanWork
  <2>1. /\ user # "disabled" /\ ~IsAuditor /\ ~Authority.auditor
        /\ InScope(Authority, ticket) /\ FunctionalRoles(ticket) # {}
        /\ FunctionalRoles(ticket) \intersect AllRoles # {}
    BY DEF AcceptedAssignee, IsCandidate
  <2>2. CASE user = "superuser"
    BY <2>1, <2>2 DEF CanUpdateWork, ActorAliases, WorkRoles
  <2>3. CASE user = "staff" /\ ~Authority.persisted
    <3>1. Active = {} /\ Authority.groups = groups
      <4>1. ~Resolved.auditor
        BY <2>1, <2>3, StaffNoAuditor
      <4>2. Active = {}
        BY <2>3, <4>1, StaffAuthority, ResolvedPersisted
      <4> QED BY <4>1, <4>2, <2>3
              DEF Authority, ApplyOfficeBoundary, Resolved, SnapshotFromGroups, Snapshot
    <3>2. PICK r \in groups : r \in DOMAIN FamilyDomain /\ FamilyDomain[r] = ticket.domain
      <4> HIDE DEF FamilyDomain
      <4> QED BY <2>1, <3>1 DEF FunctionalRoles
    <3>3. r \in ActorAliases(Authority, ticket)
      <4> HIDE DEF FamilyDomain
      <4> QED BY <2>1, <2>3, <3>1, <3>2 DEF ActorAliases
    <3>4. r \in WorkRoles(ticket.domain)
      <4> HIDE DEF FamilyDomain
      <4> QED BY <3>2 DEF WorkRoles
    <3> QED BY <3>3, <3>4 DEF CanUpdateWork
  <2>4. CASE user = "staff" /\ Authority.persisted
    <3>1. ~Resolved.auditor
      BY <2>1, <2>4, StaffNoAuditor
    <3>2. Active # {}
      BY <2>4, <3>1, StaffAuthority, ResolvedGroups
    <3>3. Boundary = ticket.office /\ Boundary # Any
      <4>1. "auditors" \notin Roles
        BY DEF CrossOfficeRoles
      <4>2. office = ticket.office /\ office \in openOffices
        BY <2>1, <2>4, <4>1 DEF SightIsConfined
      <4> QED BY <4>2, AccessAssumption DEF Boundary, AccessTypeOK
    <3>4. PICK a \in Active : FunctionalRole(a, ticket)
      BY <2>1, <3>2 DEF FunctionalRoles
    <3>5. PICK s \in RoleScopes(a.role) :
            s.domain = ticket.domain /\ Covers(s, ticket) /\ (s.restrictedOnly => ticket.restricted)
      BY <3>4 DEF FunctionalRole
    <3> DEFINE g == BoundedGrant(Grant(a), Boundary)
               c == [s EXCEPT !.office = Boundary]
    <3>6. s \in ScopeSet /\ s.domain # "admin" /\ s.office \in {Any, Boundary}
      BY <3>3, <3>5, ScopeTypes DEF Covers, AccessTypeOK, TicketSet
    <3>7. /\ g.role = a.role
          /\ g.scopes = Confined(RoleScopes(a.role), Boundary)
          /\ g.office \in {a.office, Boundary}
          /\ a.office # Any => g.office = a.office
      BY DEF BoundedGrant, Grant
    <3>8. c \in g.scopes
      BY <3>3, <3>5, <3>6, <3>7 DEF Confined
    <3>9. g \in Authority.grants
      <4>1. Grant(a) \in Resolved.grants
        BY <3>2, <3>5, ResolvedPersisted DEF HeldGrants
      <4> QED BY <2>4, <3>1, <3>8, <4>1, StaffAuthority
    <3>10. GrantCovers(g, c, ticket)
      BY <3>3, <3>4, <3>5, <3>6, <3>7 DEF GrantCovers, Covers, FunctionalRole, ScopeSet
    <3> HIDE DEF g, c
    <3>11. a.role \in Designations \union DOMAIN FamilyDomain
           /\ (a.role \in DOMAIN FamilyDomain => FamilyDomain[a.role] = ticket.domain)
      BY <3>4 DEF FunctionalRole
    <3>12. AuthorityAliases(a.role)
             \union (IF a.role \in Designations THEN DomainAgents(ticket.domain) ELSE {})
             \subseteq GrantAliases(g, ticket, Authority)
      <4> HIDE DEF FamilyDomain
      <4> QED BY <2>1, <3>7, <3>8, <3>10, <3>11 DEF GrantAliases
    <3>13. (AuthorityAliases(a.role)
             \union (IF a.role \in Designations THEN DomainAgents(ticket.domain) ELSE {}))
             \intersect WorkRoles(ticket.domain) # {}
      <4>1. CASE a.role \in Designations
        <5>1. DomainAgents(ticket.domain) \subseteq WorkRoles(ticket.domain)
          BY DEF DomainAgents, WorkRoles, FamilyDomain, AccessTypeOK, TicketSet
        <5>2. DomainAgents(ticket.domain) # {}
          BY DEF DomainAgents
        <5> QED BY <4>1, <5>1, <5>2
      <4>2. CASE a.role \notin Designations
        <5>1. a.role \in AuthorityAliases(a.role)
          <6> HIDE DEF FamilyDomain
          <6> QED BY <3>11, <4>2 DEF AuthorityAliases, Designations
        <5>2. a.role \in WorkRoles(ticket.domain)
          <6> HIDE DEF FamilyDomain
          <6> QED BY <3>11, <4>2 DEF WorkRoles
        <5> QED BY <5>1, <5>2
      <4> QED BY <4>1, <4>2
    <3>14. GrantAliases(g, ticket, Authority) \subseteq ActorAliases(Authority, ticket)
      BY <2>1, <2>4, <3>9 DEF ActorAliases
    <3> QED BY <3>12, <3>13, <3>14 DEF CanUpdateWork
  <2> QED BY <2>1, <2>2, <2>3, <2>4 DEF AccessTypeOK
<1> QED BY <1>1, AccessTypes, SightTheorem, PTL

(* Whoever routes a ticket still sees it afterwards.                        *)
THEOREM RouterTheorem == AccessSpec => RouterKeepsSight
<1>1. ASSUME AccessTypeOK, AccessTypeOK', [AccessNext]_accessVars,
             ticket'.queue # ticket.queue
      PROVE  InScope(Authority, ticket')
  <2>1. PICK q \in {row.id : row \in Queues} \union {Any} : RouteTicket(q)
    <3>1. ASSUME ChangeConfidentiality PROVE FALSE
      BY <1>1, <3>1 DEF ChangeConfidentiality, AccessTypeOK, TicketSet
    <3>2. CASE UNCHANGED ticket
      BY <1>1, <3>2
    <3> QED BY <1>1, <3>1, <3>2
            DEF AccessNext, accessVars, SynchronizeGroups, SynchronizeOffice, GrantRole,
                RevokeRole, ExpireRole, SetUser, ToggleOffice
  <2> DEFINE t == Routed(ticket, q)
  <2>2. ticket' = t /\ CanAssign(Authority, ticket) /\ HasRoutingResultScope(Authority, t)
    BY <2>1 DEF RouteTicket, CanRoute
  <2>3. t \in TicketSet
    BY <1>1, <2>2 DEF AccessTypeOK
  <2> HIDE DEF t
  <2>4. user # "disabled" /\ ~Authority.auditor
    BY <2>2, ActorsAct DEF CanAssign
  <2>5. CASE user = "superuser" \/ ~Authority.persisted
    BY <2>2, <2>5 DEF HasRoutingResultScope, CoversResult, InScope
  <2>6. CASE user = "staff" /\ Authority.persisted
    <3>1. ~Resolved.auditor
      BY <1>1, <2>4, <2>6, StaffNoAuditor
    <3>2. Active # {}
      BY <2>6, <3>1, StaffAuthority, ResolvedGroups
    <3> DEFINE Fits(g, s) ==
            /\ g.office \in {Any, t.office}
            /\ CoversResult(s, Key(IF g.office = Any THEN s
                                   ELSE [s EXCEPT !.office = g.office]) \in Authority.restricted, t)
    <3>0. PICK g \in Authority.grants : \E s \in g.scopes : Fits(g, s)
      BY <2>2, <2>6 DEF HasRoutingResultScope
    <3>3. PICK s \in g.scopes : Fits(g, s)
      BY <3>0
    <3>4. Covers(s, t) /\ (s.restrictedOnly => t.restricted)
      BY <3>3 DEF CoversResult
    <3>5. CASE t.restricted => s.restrictedOnly
      BY <1>1, <2>2, <2>3, <2>6, <3>1, <3>2, <3>3, <3>4, <3>5, GrantReaches
    <3>6. CASE t.restricted /\ ~s.restrictedOnly
      <4> DEFINE u == IF g.office = Any THEN s ELSE [s EXCEPT !.office = g.office]
      <4>1. s \in ScopeSet
        <5>1. PICK a \in Active :
                s \in RoleScopes(a.role) \/
                  \E x \in RoleScopes(a.role) : x.domain # "admin" /\ Boundary # Any
                                               /\ s = [x EXCEPT !.office = Boundary]
          BY <1>1, <2>6, <3>1, <3>2, GrantSays
        <5>2. RoleScopes(a.role) \subseteq ScopeSet
          BY <1>1, ScopeTypes
        <5> QED BY <1>1, <5>1, <5>2 DEF ScopeSet, Boundary, AccessTypeOK
      <4>2. Covers(u, t) /\ Key(u) \in Authority.restricted
        BY <3>3, <3>4, <3>6, <4>1 DEF CoversResult, Covers, ScopeSet
      <4> HIDE DEF u
      <4>3. PICK y \in Confined(Cleared, Boundary) : Key(y) = Key(u)
        <5>1. Authority.restricted = {Key(x) : x \in Confined(Cleared, Boundary)}
          BY <2>6, <3>1, StaffAuthority
        <5> QED BY <4>2, <5>1
      <4>4. y \in Confined(Resolved.scopes, Boundary)
        BY <4>3 DEF Confined, Cleared
      <4>5. Confined(Resolved.scopes, Boundary) \union National \in SUBSET ScopeSet
        <5>1. Everywhere("operational") \in ScopeSet
          BY DEF Everywhere, Scope, ScopeSet
        <5> QED BY <1>1, <5>1, ResolvedType, ConfinedTypes DEF National
      <4>6. PICK n \in Normalised(Confined(Resolved.scopes, Boundary) \union National) :
              Key(n) = Key(y)
        BY <4>4, <4>5, NormalisedCovers
      <4>7. n \in Authority.scopes
        BY <2>6, <3>1, <4>6, StaffAuthority
      <4>8. Covers(n, t) /\ Key(n) \in Authority.restricted
        BY <4>2, <4>3, <4>6 DEF Covers, Key
      <4> QED BY <2>2, <3>6, <4>7, <4>8 DEF InScope
    <3> QED BY <3>5, <3>6
  <2> QED BY <1>1, <2>2, <2>4, <2>5, <2>6 DEF AccessTypeOK
<1>2. AccessTypeOK /\ AccessTypeOK' /\ [AccessNext]_accessVars =>
        [ticket'.queue # ticket.queue => InScope(Authority, ticket')]_accessVars
  BY <1>1
<1> QED BY <1>2, AccessTypes, PTL DEF AccessSpec, RouterKeepsSight
=============================================================================
