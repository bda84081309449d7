------------------------ MODULE TicketReferencesProofs ------------------------
(***************************************************************************)
(* Proofs about TicketReferences, for any number of workers, any last      *)
(* number, and a counter that starts anywhere or not at all.               *)
(***************************************************************************)
EXTENDS TicketReferences, WellFoundedInduction, TLAPS

(* The holder of the counter row is the one transaction that works with it. *)
HolderInv ==
  \A w \in Workers : step[w] \in {"allocate", "inserted"} <=> holder = w

(* Without a counter nothing was issued; with one, it is the last number    *)
(* issued, or the value it began with.                                      *)
CounterInv ==
  /\ numbers \subseteq Existing \union issued
  /\ counter = Absent => issued = {}
  /\ issued # {} => counter \in issued
  /\ \A n \in issued : n <= counter

(* What a transaction works with is never behind the counter, and between   *)
(* the two there are only numbers that tickets had without the counter.     *)
Ahead(w) ==
  /\ step[w] = "allocate" =>
       /\ counter # Absent => counter <= last[w]
       /\ attempts[w] > 0 => last[w] \in Existing
       /\ issued # {} => \A k \in Nat : counter < k /\ k <= last[w] => k \in Existing
  /\ step[w] = "inserted" =>
       /\ last[w] \in 1 .. MaxSequence
       /\ counter # Absent => counter < last[w]
       /\ issued # {} => \A k \in Nat : counter < k /\ k < last[w] => k \in Existing

WaitingInv == \A w \in Workers :
  step[w] \in {"begin", "wait", "create"} => attempts[w] = 0

RefInv ==
  /\ RefTypeOK /\ HolderInv /\ CounterInv /\ NoGaps /\ WaitingInv
  /\ \A w \in Workers : Ahead(w)

-----------------------------------------------------------------------------
(* Counting the tickets there are.                                          *)

(* Any natural numbers have a least one.                                    *)
LEMMA LeastNatural ==
  ASSUME NEW S \in SUBSET Nat, S # {}
  PROVE  \E n \in S : \A m \in S : n <= m
<1> DEFINE R == OpToRel(<, Nat)
<1>1. IsWellFoundedOn(R, Nat)
  BY NatLessThanWellFounded
<1>2. \A x \in Nat : \A y \in Nat : y < x => <<y, x>> \in R
  BY DEF OpToRel
<1> HIDE DEF R
<1>3. PICK x \in S : \A y \in S : ~(<<y, x>> \in R)
  BY <1>1, WFMin
<1>4. \A y \in S : ~(y < x)
  BY <1>2, <1>3
<1>5. \A y \in S : x <= y
  BY <1>4
<1> QED BY <1>5

(* The largest number of a ticket is a ticket's number, or zero.            *)
LEMMA ExistingMaxType ==
  ASSUME numbers \subseteq 1 .. MaxSequence
  PROVE  /\ ExistingSequenceMax \in 0 .. MaxSequence
         /\ numbers # {} => ExistingSequenceMax \in numbers
<1>1. CASE numbers = {}
  BY <1>1, SequenceAssumption DEF ExistingSequenceMax
<1>2. CASE numbers # {}
  <2> DEFINE Bounds == {b \in Nat : \A m \in numbers : m <= b}
  <2>1. MaxSequence \in Bounds
    BY SequenceAssumption
  <2>2. PICK b \in Bounds : \A c \in Bounds : b <= c
    BY <2>1, LeastNatural
  <2>3. b \in numbers
    <3> SUFFICES ASSUME b \notin numbers
                 PROVE  FALSE
      OBVIOUS
    <3>1. PICK n \in numbers : TRUE
      BY <1>2
    <3>2. b - 1 \in Bounds
      BY <2>2, <3>1
    <3> QED BY <2>2, <3>2
  <2>4. \E n \in numbers : \A m \in numbers : m <= n
    BY <2>2, <2>3
  <2>5. ExistingSequenceMax = CHOOSE n \in numbers : \A m \in numbers : m <= n
    BY <1>2 DEF ExistingSequenceMax
  <2>6. ExistingSequenceMax \in numbers
    BY <2>4, <2>5
  <2>7. ExistingSequenceMax \in 0 .. MaxSequence
    BY <2>6, SequenceAssumption
  <2> QED BY <2>6, <2>7
<1> QED BY <1>1, <1>2

-----------------------------------------------------------------------------
(* The invariant.                                                           *)

LEMMA RefInitInv == RefInit => RefInv
BY SequenceAssumption
   DEF RefInit, RefInv, RefTypeOK, HolderInv, CounterInv, NoGaps, WaitingInv, Ahead

(* A transaction that ends frees the row, and no other one has it.          *)
LEMMA EndFrees ==
  ASSUME RefTypeOK, HolderInv, WaitingInv,
         NEW w \in Workers, step[w] \in {"allocate", "inserted"}, End(w)
  PROVE  /\ holder' \in Workers \union {Nobody}
         /\ step' \in [Workers -> {"begin", "wait", "create", "allocate", "inserted"}]
         /\ last' \in [Workers -> 0 .. MaxSequence]
         /\ attempts' \in [Workers -> 0 .. CollisionRetries - 1]
         /\ HolderInv' /\ WaitingInv'
         /\ \A v \in Workers : step'[v] \notin {"allocate", "inserted"}
BY SequenceAssumption DEF RefTypeOK, HolderInv, WaitingInv, End

LEMMA EndInv ==
  ASSUME RefInv, NEW w \in Workers, step[w] \in {"allocate", "inserted"},
         End(w), UNCHANGED <<counter, numbers, issued>>
  PROVE  RefInv'
<1>1. RefTypeOK' /\ HolderInv' /\ WaitingInv' /\ \A v \in Workers : Ahead(v)'
  BY EndFrees DEF RefInv, RefTypeOK, Ahead
<1>2. CounterInv' /\ NoGaps'
  BY DEF RefInv, CounterInv, NoGaps
<1> QED BY <1>1, <1>2 DEF RefInv

(* Every step preserves the invariant.                                      *)
LEMMA RefNextInv ==
  ASSUME RefInv, [RefNext]_refVars
  PROVE  RefInv'
<1> USE SequenceAssumption
<1>0. RefTypeOK /\ HolderInv /\ CounterInv /\ NoGaps /\ WaitingInv /\ \A w \in Workers : Ahead(w)
  BY DEF RefInv
<1>1. ASSUME NEW w \in Workers, LockCounter(w)
      PROVE  RefInv'
  <2>1. counter \in 0 .. MaxSequence /\ last' = [last EXCEPT ![w] = counter]
    BY <1>0, <1>1 DEF LockCounter, RefTypeOK
  <2>2. RefTypeOK'
    BY <1>0, <1>1, <2>1 DEF LockCounter, RefTypeOK
  <2>3. HolderInv' /\ CounterInv' /\ NoGaps' /\ WaitingInv'
    BY <1>0, <1>1 DEF LockCounter, RefTypeOK, HolderInv, CounterInv, NoGaps, WaitingInv
  <2>4. ASSUME NEW v \in Workers
        PROVE  Ahead(v)'
    <3>1. CASE v = w
      BY <1>0, <1>1, <2>1, <3>1 DEF LockCounter, RefTypeOK, WaitingInv, Ahead
    <3>2. CASE v # w
      BY <1>0, <1>1, <2>1, <3>2 DEF LockCounter, RefTypeOK, Ahead
    <3> QED BY <3>1, <3>2
  <2> QED BY <2>2, <2>3, <2>4 DEF RefInv
<1>2. ASSUME NEW w \in Workers, MissCounter(w)
      PROVE  RefInv'
  <2>1. RefTypeOK'
    BY <1>0, <1>2, ExistingMaxType DEF MissCounter, RefTypeOK
  <2>2. HolderInv' /\ CounterInv' /\ NoGaps' /\ WaitingInv'
    BY <1>0, <1>2 DEF MissCounter, RefTypeOK, HolderInv, CounterInv, NoGaps, WaitingInv
  <2>3. \A v \in Workers : Ahead(v)'
    BY <1>0, <1>2 DEF MissCounter, RefTypeOK, Ahead
  <2> QED BY <2>1, <2>2, <2>3 DEF RefInv
<1>3. ASSUME NEW w \in Workers, CreateCounter(w)
      PROVE  RefInv'
  <2>1. RefTypeOK' /\ HolderInv' /\ CounterInv' /\ NoGaps' /\ WaitingInv'
    BY <1>0, <1>3 DEF CreateCounter, RefTypeOK, HolderInv, CounterInv, NoGaps, WaitingInv
  <2>2. \A v \in Workers : Ahead(v)'
    BY <1>0, <1>3 DEF CreateCounter, RefTypeOK, CounterInv, WaitingInv, Ahead
  <2> QED BY <2>1, <2>2 DEF RefInv
<1>4. ASSUME NEW w \in Workers, LoseCreation(w)
      PROVE  RefInv'
  <2>1. RefTypeOK' /\ HolderInv' /\ CounterInv' /\ NoGaps' /\ WaitingInv'
    BY <1>0, <1>4 DEF LoseCreation, RefTypeOK, HolderInv, CounterInv, NoGaps, WaitingInv
  <2>2. \A v \in Workers : Ahead(v)'
    BY <1>0, <1>4 DEF LoseCreation, RefTypeOK, Ahead
  <2> QED BY <2>1, <2>2 DEF RefInv
<1>5. ASSUME NEW w \in Workers, Allocate(w)
      PROVE  RefInv'
  <2>1. RefTypeOK' /\ HolderInv' /\ CounterInv' /\ NoGaps' /\ WaitingInv'
    BY <1>0, <1>5 DEF Allocate, RefTypeOK, HolderInv, CounterInv, NoGaps, WaitingInv
  <2>2. ASSUME NEW v \in Workers
        PROVE  Ahead(v)'
    <3>1. last[w] \in 0 .. MaxSequence /\ last'[w] = last[w] + 1
      BY <1>0, <1>5 DEF Allocate, RefTypeOK
    <3>2. CASE v = w
      BY <1>0, <1>5, <3>1, <3>2 DEF Allocate, RefTypeOK, Ahead
    <3>3. CASE v # w
      BY <1>0, <1>5, <3>3 DEF Allocate, RefTypeOK, Ahead
    <3> QED BY <3>2, <3>3
  <2> QED BY <2>1, <2>2 DEF RefInv
<1>6. ASSUME NEW w \in Workers, Collide(w)
      PROVE  RefInv'
  <2>0. last[w] \in 0 .. MaxSequence /\ step[w] = "allocate" /\ last[w] + 1 \in numbers
    BY <1>0, <1>6 DEF Collide, RefTypeOK
  <2>1. CASE attempts[w] + 1 < CollisionRetries
    <3>1. /\ attempts' = [attempts EXCEPT ![w] = @ + 1]
          /\ last' = [last EXCEPT ![w] = @ + 1]
          /\ UNCHANGED <<counter, numbers, holder, step, issued>>
      BY <1>6, <2>1 DEF Collide
    <3>2. RefTypeOK' /\ HolderInv' /\ CounterInv' /\ NoGaps' /\ WaitingInv'
      BY <1>0, <2>0, <2>1, <3>1, <1>6
         DEF Collide, RefTypeOK, HolderInv, CounterInv, NoGaps, WaitingInv
    <3>3. last[w] + 1 \in Existing
      BY <1>0, <2>0 DEF RefTypeOK, CounterInv, Ahead
    <3>4. ASSUME NEW v \in Workers
          PROVE  Ahead(v)'
      <4>1. CASE v = w
        BY <1>0, <2>0, <3>1, <3>3, <4>1 DEF RefTypeOK, Ahead
      <4>2. CASE v # w
        BY <1>0, <3>1, <4>2 DEF RefTypeOK, Ahead
      <4> QED BY <4>1, <4>2
    <3> QED BY <3>2, <3>4 DEF RefInv
  <2>2. CASE ~(attempts[w] + 1 < CollisionRetries)
    <3>1. End(w) /\ UNCHANGED <<counter, numbers, issued>>
      BY <1>6, <2>2 DEF Collide
    <3> QED BY <2>0, <3>1, EndInv
  <2> QED BY <2>1, <2>2
<1>7. ASSUME NEW w \in Workers, Exhausted(w)
      PROVE  RefInv'
  BY <1>7, EndInv DEF Exhausted
<1>8. ASSUME NEW w \in Workers, Commit(w)
      PROVE  RefInv'
  <2>1. /\ step[w] = "inserted" /\ last[w] \in 1 .. MaxSequence
        /\ counter # Absent => counter \in Nat /\ counter < last[w]
    BY <1>0, <1>8 DEF Commit, RefTypeOK, Ahead
  <2>2. /\ counter' = last[w] /\ numbers' = numbers \union {last[w]}
        /\ issued' = issued \union {last[w]} /\ End(w)
    BY <1>8 DEF Commit
  <2>3. RefTypeOK' /\ HolderInv' /\ WaitingInv' /\ \A v \in Workers : Ahead(v)'
    BY <1>0, <2>1, <2>2, EndFrees DEF RefTypeOK, Ahead
  <2>4. \A n \in issued : n \in Nat /\ n < last[w]
    BY <1>0, <2>1 DEF CounterInv, RefTypeOK
  <2>5. CounterInv'
    <3>1. numbers' \subseteq Existing \union issued'
      BY <1>0, <2>2 DEF CounterInv
    <3>2. counter' # Absent /\ counter' \in issued'
      BY <2>1, <2>2
    <3>3. \A n \in issued' : n <= counter'
      BY <2>1, <2>2, <2>4
    <3> QED BY <3>1, <3>2, <3>3 DEF CounterInv
  <2>6. ASSUME NEW m \in issued', NEW n \in issued', NEW k \in m .. n
        PROVE  k \in issued' \union Existing
    <3>1. CASE m = last[w]
      BY <2>1, <2>2, <2>4, <2>6, <3>1
    <3>2. CASE m \in issued /\ n \in issued
      BY <1>0, <2>2, <3>2 DEF NoGaps
    <3>3. CASE m \in issued /\ n = last[w]
      <4>1. counter \in issued /\ counter \in Nat
        BY <1>0, <2>1, <3>3 DEF CounterInv
      <4>2. k \in Nat
        BY <2>1, <2>4, <3>3
      <4>3. CASE k <= counter
        BY <1>0, <2>2, <2>4, <3>3, <4>1, <4>2, <4>3 DEF NoGaps
      <4>4. CASE counter < k /\ k < last[w]
        BY <1>0, <2>1, <3>3, <4>2, <4>4 DEF Ahead
      <4>5. CASE k = last[w]
        BY <2>2, <4>5
      <4> QED BY <2>1, <3>3, <4>1, <4>2, <4>3, <4>4, <4>5
    <3> QED BY <2>2, <3>1, <3>2, <3>3
  <2>7. NoGaps'
    BY <2>6 DEF NoGaps
  <2> QED BY <2>3, <2>5, <2>7 DEF RefInv
<1>9. ASSUME NEW w \in Workers, Fail(w)
      PROVE  RefInv'
  BY <1>9, EndInv DEF Fail
<1>10. ASSUME NEW n \in 1 .. MaxSequence, Dispose(n)
       PROVE  RefInv'
  BY <1>0, <1>10
     DEF Dispose, RefInv, RefTypeOK, HolderInv, CounterInv, NoGaps, WaitingInv, Ahead
<1>11. CASE UNCHANGED refVars
  BY <1>0, <1>11
     DEF refVars, RefInv, RefTypeOK, HolderInv, CounterInv, NoGaps, WaitingInv, Ahead
<1> QED BY <1>1, <1>2, <1>3, <1>4, <1>5, <1>6, <1>7, <1>8, <1>9, <1>10, <1>11 DEF RefNext

-----------------------------------------------------------------------------
(* The theorems.                                                            *)

(* The invariant holds in every state.                                      *)
THEOREM RefInvariant == RefSpec => []RefInv
BY RefInitInv, RefNextInv, PTL DEF RefSpec

(* The allocator's rows keep their types: no number is beyond the last one, *)
(* and no creation tries more often than it may.                            *)
THEOREM RefTypes == RefSpec => []RefTypeOK
<1>1. RefInv => RefTypeOK
  BY DEF RefInv
<1> QED BY <1>1, RefInvariant, PTL

(* Workers collide with tickets numbered elsewhere only.                    *)
THEOREM CollisionTheorem == RefSpec => []CollidesOnlyWithExisting
<1>1. RefInv => CollidesOnlyWithExisting
  BY DEF RefInv, Ahead, CollidesOnlyWithExisting
<1> QED BY <1>1, RefInvariant, PTL

(* No number is burnt by a creation that fails.                             *)
THEOREM NoGapsTheorem == RefSpec => []NoGaps
<1>1. RefInv => NoGaps
  BY DEF RefInv
<1> QED BY <1>1, RefInvariant, PTL

(* No number is given to two tickets, even when the first was disposed of.  *)
THEOREM NeverReissuedTheorem == RefSpec => NeverReissued
<1>1. RefInv /\ [RefNext]_refVars =>
        [\A w \in Workers : Commit(w) => last[w] \notin issued]_refVars
  <2> SUFFICES ASSUME RefInv, NEW w \in Workers, Commit(w)
               PROVE  last[w] \notin issued
    OBVIOUS
  <2>1. step[w] = "inserted" /\ last[w] \in Nat
    BY SequenceAssumption DEF Commit, RefInv, RefTypeOK
  <2>2. counter = Absent => issued = {}
    BY DEF RefInv, CounterInv
  <2>3. counter # Absent => counter \in Nat /\ counter < last[w]
    BY <2>1 DEF RefInv, RefTypeOK, Ahead
  <2>4. \A n \in issued : n \in Nat /\ n <= counter
    BY SequenceAssumption DEF RefInv, RefTypeOK, CounterInv
  <2> QED BY <2>1, <2>2, <2>3, <2>4
<1> QED BY <1>1, RefInvariant, PTL DEF RefSpec, NeverReissued
=============================================================================
