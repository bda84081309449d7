---------------------------- MODULE MutationLocks ----------------------------
(***************************************************************************)
(* Requests that change tickets, and changes of the authority they need,   *)
(* as PostgreSQL transactions that take row locks one by one and hold them *)
(* to the end (identity_access/authority_lock.py and its callers).         *)
(*                                                                         *)
(* TicketLifecycle takes each service as one action; this module is about  *)
(* what happens between the locks of one service: a lock order that can    *)
(* deadlock, and an authority withdrawn after it was checked.              *)
(***************************************************************************)
EXTENDS Integers, Sequences

CONSTANTS
  Workers,     \* processes that serve requests
  Requests,    \* what they may serve: [op, actor, ticket, users]
  Grants,      \* the role, membership and group rows of each user
  LockOrder,   \* the users' rows, then those of the grants, each by its id
  ParentOf,    \* the operational parent of each IT child
  Nobody,      \* no worker
  Recheck      \* the step that reads authority again

Users         == DOMAIN Grants
AuthorityRows == {LockOrder[i] : i \in DOMAIN LockOrder}
Tickets       == {r.ticket : r \in Requests} \union {ParentOf[c] : c \in DOMAIN ParentOf}
Rows          == AuthorityRows \union Tickets

ASSUME RequestAssumption ==
  \A r \in Requests :
    /\ r.op \in {"mutate", "return", "create_child", "authority"}
    /\ r.actor \in Users /\ r.users \subseteq Users
    /\ r.op = "return" => r.ticket \in DOMAIN ParentOf /\ ParentOf[r.ticket] # r.ticket
ASSUME WorkerAssumption == Nobody \notin Workers
ASSUME OrderAssumption ==
  /\ LockOrder \in Seq(AuthorityRows)
  /\ Users \subseteq AuthorityRows
  /\ \A u \in Users : Grants[u] \subseteq AuthorityRows \ Users
  /\ \A i, j \in DOMAIN LockOrder :
       /\ LockOrder[i] = LockOrder[j] => i = j
       /\ LockOrder[i] \in Users /\ LockOrder[j] \notin Users => i < j
  /\ AuthorityRows \intersect Tickets = {}
  /\ Recheck \notin Rows

VARIABLES
  authority,  \* the committed authority facts: who may change the tickets
  holder,     \* the worker whose transaction has locked each row
  serving,    \* the request each worker serves
  todo        \* the steps its transaction has left: rows to lock, the recheck

lockVars == <<authority, holder, serving, todo>>

Idle == [op |-> "none"]

(* lock_user_authorities locks the users and everything that grants them    *)
(* authority.                                                               *)
AuthorityOf(users) == users \union UNION {Grants[u] : u \in users}

(* The steps of a transaction.  The return of an IT child locks a second    *)
(* ticket, its parent.  Creating a child locks the parent and relies on the *)
(* request's snapshot.                                                      *)
Steps(r) ==
  CASE r.op = "mutate" -> {r.ticket, Recheck} \union AuthorityOf({r.actor} \union r.users)
    [] r.op = "return" ->
         {r.ticket, Recheck, ParentOf[r.ticket]} \union AuthorityOf({r.actor})
    [] r.op = "create_child" -> {r.ticket}
    [] r.op = "authority" -> AuthorityOf(r.users)

Position == [x \in AuthorityRows |-> CHOOSE i \in DOMAIN LockOrder : LockOrder[i] = x]

(* Mutant: the actor's rows are locked first, then those of other users.    *)
Stage_ActorFirst(r, x) ==
  CASE x = r.ticket -> 0
    [] x \in AuthorityOf({r.actor}) -> Position[x]
    [] x \in AuthorityRows -> Len(LockOrder) + Position[x]
    [] x = Recheck -> 2 * Len(LockOrder) + 1
    [] OTHER -> 2 * Len(LockOrder) + 2

(* Mutant: the actor's authority is read again before it is locked.         *)
Stage_RecheckFirst(r, x) ==
  CASE x = r.ticket -> 0
    [] x = Recheck -> 1
    [] x \in AuthorityRows -> Position[x] + 1
    [] OTHER -> Len(LockOrder) + 2

(* Their order: the ticket comes first, then the users and their grants,    *)
(* then the actor's authority is read again; the parent of a return is last.*)
Stage(r, x) ==
  CASE x = r.ticket -> 0
    [] x \in AuthorityRows -> Position[x]
    [] x = Recheck -> Len(LockOrder) + 1
    [] OTHER -> Len(LockOrder) + 2

(* x is what worker w does next.                                            *)
IsNext(w, x) ==
  x \in todo[w] /\ \A y \in todo[w] : Stage(serving[w], x) <= Stage(serving[w], y)

LockInit ==
  /\ authority = [u \in Users |-> TRUE]
  /\ holder = [x \in Rows |-> Nobody]
  /\ serving = [w \in Workers |-> Idle]
  /\ todo = [w \in Workers |-> {}]

(* The request's authority snapshot is read before any lock is held.        *)
Begin(w, r) ==
  /\ serving[w] = Idle
  /\ r.op # "authority" => authority[r.actor]
  /\ serving' = [serving EXCEPT ![w] = r]
  /\ todo' = [todo EXCEPT ![w] = Steps(r)]
  /\ UNCHANGED <<authority, holder>>

Lock(w) == \E x \in todo[w] :
  /\ x # Recheck
  /\ holder[x] = Nobody
  /\ IsNext(w, x)
  /\ holder' = [holder EXCEPT ![x] = w]
  /\ todo' = [todo EXCEPT ![w] = @ \ {x}]
  /\ UNCHANGED <<authority, serving>>

(* The transaction ends, by commit or by rollback, and its locks are freed. *)
End(w) ==
  /\ serving' = [serving EXCEPT ![w] = Idle]
  /\ todo' = [todo EXCEPT ![w] = {}]
  /\ holder' = [x \in Rows |-> IF holder[x] = w THEN Nobody ELSE holder[x]]

(* Mutant: a request whose authority is gone tries again under its locks.   *)
Revalidate_TriesAgain(w) ==
  /\ IsNext(w, Recheck)
  /\ authority[serving[w].actor]
  /\ todo' = [todo EXCEPT ![w] = @ \ {Recheck}]
  /\ UNCHANGED <<authority, holder, serving>>

(* The authority is read again; a request that lost it is refused.          *)
Revalidate(w) ==
  /\ IsNext(w, Recheck)
  /\ \/ /\ authority[serving[w].actor]
        /\ todo' = [todo EXCEPT ![w] = @ \ {Recheck}]
        /\ UNCHANGED <<authority, holder, serving>>
     \/ /\ ~authority[serving[w].actor]
        /\ End(w)
        /\ UNCHANGED authority

(* A change of authority grants what was withheld and withdraws what was    *)
(* granted.                                                                 *)
Commit(w) ==
  /\ serving[w] # Idle
  /\ todo[w] = {}
  /\ authority' =
       IF serving[w].op = "authority"
         THEN [u \in Users |-> IF u \in serving[w].users THEN ~authority[u] ELSE authority[u]]
         ELSE authority
  /\ End(w)

WaitsFor(w, v) == \E x \in todo[w] : x # Recheck /\ holder[x] = v /\ IsNext(w, x)

Deadlocked(ws) == ws # {} /\ \A w \in ws : \E v \in ws : WaitsFor(w, v)

(* PostgreSQL detects transactions that wait for each other and rolls one   *)
(* of them back: its request fails.                                         *)
DeadlockVictim(w) ==
  /\ \E ws \in SUBSET Workers : w \in ws /\ Deadlocked(ws)
  /\ End(w)
  /\ UNCHANGED authority

LockNext ==
  \E w \in Workers :
    \/ \E r \in Requests : Begin(w, r)
    \/ Lock(w) \/ Revalidate(w) \/ Commit(w) \/ DeadlockVictim(w)

LockSpec == LockInit /\ [][LockNext]_lockVars

(* A transaction goes on while it can, and PostgreSQL serves the waiters of *)
(* a row lock in turn.                                                      *)
FairLockSpec ==
  LockSpec /\ \A w \in Workers :
                /\ SF_lockVars(Lock(w)) /\ WF_lockVars(DeadlockVictim(w))
                /\ WF_lockVars(Revalidate(w)) /\ WF_lockVars(Commit(w))

-----------------------------------------------------------------------------
(* What the locks promise.                                                  *)

LockTypeOK ==
  /\ authority \in [Users -> BOOLEAN]
  /\ holder \in [Rows -> Workers \union {Nobody}]
  /\ serving \in [Workers -> Requests \union {Idle}]
  /\ todo \in [Workers -> SUBSET (Rows \union {Recheck})]

(* Transactions never wait for each other in a circle, whatever the order   *)
(* in which requests arrive (authority_lock.py, ADR 0002).                  *)
NoDeadlock == \A ws \in SUBSET Workers : ~Deadlocked(ws)

(* But for the returns of IT children, which lock a second ticket last,     *)
(* they keep to that order: some transaction of every circle is a return.   *)
OnlyReturnsDeadlock ==
  \A ws \in SUBSET Workers : Deadlocked(ws) => \E w \in ws : serving[w].op = "return"

(* A ticket is changed only by an actor who holds the authority at the      *)
(* moment of the commit, even when it is withdrawn while the request waits  *)
(* for its locks or after it was checked (roadmap.md: mutations recheck     *)
(* canonical authority against locked rows before committing).              *)
Commits(w) == serving[w] # Idle /\ todo[w] = {} /\ serving'[w] = Idle

AuthorisedAtCommit ==
  [][\A w \in Workers :
       Commits(w) /\ serving[w].op # "authority" => authority[serving[w].actor]]_lockVars

(* Every request comes to an end: none waits for its locks for ever, not    *)
(* even behind one that withdraws its own actor's authority.                *)
RequestsEnd == \A w \in Workers : serving[w] # Idle ~> serving[w] = Idle
=============================================================================
