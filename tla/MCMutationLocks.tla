--------------------------- MODULE MCMutationLocks ---------------------------
(* Small instances of MutationLocks: two users who share a group, an        *)
(* operational parent and its IT child.                                     *)
EXTENDS MutationLocks, TLC

CONSTANTS u1, u2, group, role, parent, child, w1, w2, w3

MCGrants     == (u1 :> {role, group}) @@ (u2 :> {group})
MCLockOrder  == <<u1, u2, role, group>>
MCParentOf   == child :> parent

Change(actor, ticket, users) ==
  [op |-> "mutate", actor |-> actor, ticket |-> ticket, users |-> users]

MCRequests ==
  { Change(u1, parent, {}), Change(u2, parent, {u1}), Change(u1, child, {u2}),
    Change(u2, child, {}),
    [op |-> "authority", actor |-> u1, ticket |-> parent, users |-> {u1}],
    [op |-> "authority", actor |-> u1, ticket |-> parent, users |-> {u2}] }

(* With the operations that cross from an IT child to its parent.           *)
MCWithReturn ==
  MCRequests \union {[op |-> "return", actor |-> u2, ticket |-> child, users |-> {}]}
MCWithCreate ==
  MCRequests \union {[op |-> "create_child", actor |-> u2, ticket |-> parent, users |-> {}]}
=============================================================================
