---------------------------- MODULE CustodyLedger ----------------------------
(***************************************************************************)
(* What the custody ledger of a ticket promises (docs/adr/0002): it is     *)
(* append-only, every event continues from what the ledger said before it, *)
(* and it always tells the ticket's current status, owner and queue.       *)
(* TicketLifecycle and ItChild are shown to implement it.                  *)
(***************************************************************************)
EXTENDS Naturals, Sequences

CONSTANT
  Nobody     \* the value of an aspect that no event has set

VARIABLES
  facts,     \* the custody facts of the ticket: a value for each aspect
  ledger     \* the custody events, in sequence order

(* The first n events of the ledger tell that aspect x has value v.         *)
Tells(l, n, x, v) ==
  \/ \E j \in 1 .. n : /\ x \in DOMAIN l[j].new
                       /\ l[j].new[x] = v
                       /\ \A m \in j + 1 .. n : x \notin DOMAIN l[m].new
  \/ v = Nobody /\ \A m \in 1 .. n : x \notin DOMAIN l[m].new

(* Every event starts from what the events before it tell.                  *)
Continuous(l) ==
  \A i \in 1 .. Len(l) : \A x \in DOMAIN l[i].prev : Tells(l, i - 1, x, l[i].prev[x])

TellsAll(l, f) == \A x \in DOMAIN f : Tells(l, Len(l), x, f[x])

(* The old ledger is the beginning of the new one.                          *)
Extends(old, new) ==
  Len(old) <= Len(new) /\ \A i \in 1 .. Len(old) : new[i] = old[i]

LedgerInit ==
  /\ Len(ledger) = 1
  /\ ledger[1].type = "created"
  /\ Continuous(ledger)
  /\ TellsAll(ledger, facts)

(* One transaction: some events, and the facts they tell.                   *)
Record ==
  /\ ledger' # ledger
  /\ Extends(ledger, ledger')
  /\ Continuous(ledger')
  /\ TellsAll(ledger', facts')

LedgerSpec == LedgerInit /\ [][Record]_<<facts, ledger>>
=============================================================================
