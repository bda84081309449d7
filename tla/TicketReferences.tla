--------------------------- MODULE TicketReferences ---------------------------
(***************************************************************************)
(* The allocation of ticket numbers in one domain and prefix               *)
(* (tickets/references.py): concurrent transactions, a counter row that is *)
(* created on first use and locked to the end of the transaction, and a    *)
(* bounded retry when the next number is already taken.                    *)
(***************************************************************************)
EXTENDS Naturals, FiniteSets

CONSTANTS
  Workers,           \* processes that create tickets
  MaxSequence,       \* the last number there is (99999)
  CollisionRetries,  \* attempts of one creation (3)
  Existing,          \* tickets that were numbered without this counter
  InitialCounters,   \* Absent, or values of a counter that may have fallen behind
  Absent,            \* no counter row
  Nobody             \* no transaction

ASSUME SequenceAssumption ==
  /\ MaxSequence \in Nat \ {0}
  /\ CollisionRetries \in Nat \ {0}
  /\ Existing \subseteq 1 .. MaxSequence
  /\ InitialCounters \subseteq (0 .. MaxSequence) \union {Absent}
  /\ Absent \notin Nat
  /\ Nobody \notin Workers

VARIABLES
  counter,   \* last_value of the committed counter row
  numbers,   \* numbers of the committed tickets
  holder,    \* the transaction that has locked or inserted the counter row
  step,      \* where each worker's transaction is
  last,      \* the counter value it works with
  attempts,  \* collisions it has recovered from
  issued     \* history: every number this counter has given to a ticket

refVars == <<counter, numbers, holder, step, last, attempts, issued>>

ExistingSequenceMax ==
  IF numbers = {} THEN 0 ELSE CHOOSE n \in numbers : \A m \in numbers : m <= n

RefInit ==
  /\ counter \in InitialCounters
  /\ numbers = Existing
  /\ holder = Nobody
  /\ step = [w \in Workers |-> "begin"]
  /\ last = [w \in Workers |-> 0]
  /\ attempts = [w \in Workers |-> 0]
  /\ issued = {}

(* Mutants: the row is read without its lock; the tickets are counted       *)
(* instead of the row.                                                      *)
LockCounter_Unlocked(w) ==
  /\ step[w] \in {"begin", "wait"}
  /\ counter # Absent
  /\ last' = [last EXCEPT ![w] = counter]
  /\ step' = [step EXCEPT ![w] = "allocate"]
  /\ UNCHANGED <<counter, numbers, holder, attempts, issued>>
LockCounter_CountsTickets(w) ==
  /\ step[w] \in {"begin", "wait"}
  /\ counter # Absent
  /\ holder = Nobody
  /\ holder' = w
  /\ last' = [last EXCEPT ![w] = ExistingSequenceMax]
  /\ step' = [step EXCEPT ![w] = "allocate"]
  /\ UNCHANGED <<counter, numbers, attempts, issued>>

(* The row is read and locked; another transaction's lock is waited for.    *)
LockCounter(w) ==
  /\ step[w] \in {"begin", "wait"}
  /\ counter # Absent
  /\ holder = Nobody
  /\ holder' = w
  /\ last' = [last EXCEPT ![w] = counter]
  /\ step' = [step EXCEPT ![w] = "allocate"]
  /\ UNCHANGED <<counter, numbers, attempts, issued>>

(* There is no committed row: count from the tickets there are.             *)
MissCounter(w) ==
  /\ step[w] = "begin"
  /\ counter = Absent
  /\ last' = [last EXCEPT ![w] = ExistingSequenceMax]
  /\ step' = [step EXCEPT ![w] = "create"]
  /\ UNCHANGED <<counter, numbers, holder, attempts, issued>>

(* The unique constraint makes an insert wait for another one to end.       *)
CreateCounter(w) ==
  /\ step[w] = "create"
  /\ holder = Nobody
  /\ counter = Absent
  /\ holder' = w
  /\ step' = [step EXCEPT ![w] = "allocate"]
  /\ UNCHANGED <<counter, numbers, last, attempts, issued>>

LoseCreation(w) ==
  /\ step[w] = "create"
  /\ counter # Absent
  /\ step' = [step EXCEPT ![w] = "wait"]
  /\ UNCHANGED <<counter, numbers, holder, last, attempts, issued>>

(* The transaction ends: its lock is released.                              *)
End(w) ==
  /\ holder' = Nobody
  /\ step' = [step EXCEPT ![w] = "begin"]
  /\ attempts' = [attempts EXCEPT ![w] = 0]
  /\ last' = [last EXCEPT ![w] = 0]

(* Mutant: no last number.                                                  *)
Allocate_Endless(w) ==
  /\ step[w] = "allocate"
  /\ last[w] + 1 \notin numbers
  /\ last' = [last EXCEPT ![w] = @ + 1]
  /\ step' = [step EXCEPT ![w] = "inserted"]
  /\ UNCHANGED <<counter, numbers, holder, attempts, issued>>

(* The next number; the ticket row is inserted in a savepoint.              *)
Allocate(w) ==
  /\ step[w] = "allocate"
  /\ last[w] < MaxSequence
  /\ last[w] + 1 \notin numbers
  /\ last' = [last EXCEPT ![w] = @ + 1]
  /\ step' = [step EXCEPT ![w] = "inserted"]
  /\ UNCHANGED <<counter, numbers, holder, attempts, issued>>

(* Mutant: a collision is retried with the same number.                     *)
Collide_SameNumber(w) ==
  /\ step[w] = "allocate"
  /\ last[w] < MaxSequence
  /\ last[w] + 1 \in numbers
  /\ IF attempts[w] + 1 < CollisionRetries
       THEN attempts' = [attempts EXCEPT ![w] = @ + 1] /\ UNCHANGED <<holder, step, last>>
       ELSE End(w)
  /\ UNCHANGED <<counter, numbers, issued>>

Collide(w) ==
  /\ step[w] = "allocate"
  /\ last[w] < MaxSequence
  /\ last[w] + 1 \in numbers
  /\ IF attempts[w] + 1 < CollisionRetries
       THEN /\ attempts' = [attempts EXCEPT ![w] = @ + 1]
            /\ last' = [last EXCEPT ![w] = @ + 1]
            /\ UNCHANGED <<holder, step>>
       ELSE End(w)
  /\ UNCHANGED <<counter, numbers, issued>>

Exhausted(w) ==
  /\ step[w] = "allocate"
  /\ last[w] >= MaxSequence
  /\ End(w)
  /\ UNCHANGED <<counter, numbers, issued>>

Commit(w) ==
  /\ step[w] = "inserted"
  /\ counter' = last[w]
  /\ numbers' = numbers \union {last[w]}
  /\ issued' = issued \union {last[w]}
  /\ End(w)

(* Mutant: a failed creation leaves the counter advanced.                   *)
Fail_BurnsNumber(w) ==
  /\ step[w] = "inserted"
  /\ counter' = last[w]
  /\ End(w)
  /\ UNCHANGED <<numbers, issued>>

(* Something else of the creation fails and rolls everything back.  Before  *)
(* the ticket is inserted, there is nothing yet to take back.               *)
Fail(w) ==
  /\ step[w] = "inserted"
  /\ End(w)
  /\ UNCHANGED <<counter, numbers, issued>>

(* An approved retention disposal deletes a ticket.                         *)
Dispose(n) ==
  /\ n \in numbers
  /\ numbers' = numbers \ {n}
  /\ UNCHANGED <<counter, holder, step, last, attempts, issued>>

RefNext ==
  \/ \E w \in Workers :
       \/ LockCounter(w) \/ MissCounter(w) \/ CreateCounter(w) \/ LoseCreation(w)
       \/ Allocate(w) \/ Collide(w) \/ Exhausted(w) \/ Commit(w) \/ Fail(w)
  \/ \E n \in 1 .. MaxSequence : Dispose(n)

RefSpec == RefInit /\ [][RefNext]_refVars

(* Creations are asked for again and again, go on while they can, get the   *)
(* lock in turn, and do not fail each time for reasons of their own.        *)
FairRefSpec ==
  RefSpec /\ \A w \in Workers :
    /\ SF_refVars(LockCounter(w)) /\ WF_refVars(MissCounter(w))
    /\ SF_refVars(CreateCounter(w)) /\ WF_refVars(LoseCreation(w))
    /\ WF_refVars(Allocate(w)) /\ WF_refVars(Collide(w))
    /\ WF_refVars(Exhausted(w)) /\ SF_refVars(Commit(w))

-----------------------------------------------------------------------------
(* What the allocator promises.                                             *)

RefTypeOK ==
  /\ counter \in (0 .. MaxSequence) \union {Absent}
  /\ numbers \subseteq 1 .. MaxSequence
  /\ holder \in Workers \union {Nobody}
  /\ step \in [Workers -> {"begin", "wait", "create", "allocate", "inserted"}]
  /\ last \in [Workers -> 0 .. MaxSequence]
  /\ attempts \in [Workers -> 0 .. CollisionRetries - 1]
  /\ issued \subseteq 1 .. MaxSequence

(* A number given to a ticket is never given again, not even when the       *)
(* ticket has been disposed of, however first uses of the counter race.     *)
NeverReissued ==
  [][\A w \in Workers : Commit(w) => last[w] \notin issued]_refVars

(* A creation that fails burns no number: up to the counter, the numbers    *)
(* issued leave out only those that other tickets had.                      *)
NoGaps ==
  \A m, n \in issued : \A k \in m .. n : k \in issued \union Existing

(* The retry is only ever needed for tickets numbered elsewhere: workers    *)
(* that share the counter do not collide with each other.                   *)
CollidesOnlyWithExisting ==
  \A w \in Workers : step[w] = "allocate" /\ attempts[w] > 0 => last[w] \in Existing

(* A counter that fell behind is caught up: creations get through, unless   *)
(* there is no number left.                                                 *)
CreationGetsThrough == <>(issued # {} \/ Existing = 1 .. MaxSequence)
=============================================================================
