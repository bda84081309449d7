------------------------ MODULE CustodyTimelineProofs ------------------------
(***************************************************************************)
(* The chain verifies and tells damage, the ledger tells the truth, and    *)
(* the two timelines show what happened, for any workflow, any number of   *)
(* requests and sweeps, and any moment of the deployment.                  *)
(***************************************************************************)
EXTENDS CustodyTimeline, FiniteSetTheorems, SequenceTheorems, TLAPS

-----------------------------------------------------------------------------
(* Sorting.  Sources have a time, a kind and an identifier, and are told   *)
(* apart by the last two.                                                  *)
Sortable(S, K) ==
  /\ \A m \in S : m[1] \in Int /\ m[2] \in 0 .. 3 /\ m[3] \in 0 .. K
  /\ \A m, n \in S : m[2] = n[2] /\ m[3] = n[3] => m = n

Below(S, m) == {x \in S : Before(x, m)}

LEMMA SortableFinite ==
  ASSUME NEW K \in Nat, NEW S, Sortable(S, K)
  PROVE  IsFiniteSet(S)
<1> DEFINE T == (0 .. 3) \X (0 .. K)
<1> DEFINE f == [m \in S |-> <<m[2], m[3]>>]
<1>1. IsFiniteSet(T)
  <2>1. \A k \in Int : IsFiniteSet(0 .. k)
    BY FS_Interval
  <2>2. 3 \in Int /\ K \in Int
    OBVIOUS
  <2>3. IsFiniteSet(0 .. 3) /\ IsFiniteSet(0 .. K)
    BY <2>1, <2>2, Zenon
  <2> QED BY <2>3, FS_Product
<1>2. f \in [S -> T]
  BY DEF Sortable
<1>3. \A m, n \in S : f[m] = f[n] => m = n
  BY DEF Sortable
<1>4. f \in Injection(S, T)
  BY <1>2, <1>3 DEF Injection, IsInjective
<1> HIDE DEF T, f
<1> QED BY <1>1, <1>4, FS_Injection

(* Before is a strict and total order of such sources.                     *)
LEMMA BeforeOrders ==
  ASSUME NEW K \in Nat, NEW S, Sortable(S, K)
  PROVE  /\ \A m \in S : ~Before(m, m)
         /\ \A m, n \in S : Before(m, n) => ~Before(n, m)
         /\ \A m, n, p \in S : Before(m, n) /\ Before(n, p) => Before(m, p)
         /\ \A m, n \in S : m = n \/ Before(m, n) \/ Before(n, m)
<1> SUFFICES ASSUME NEW m \in S, NEW n \in S, NEW p \in S
             PROVE  /\ ~Before(m, m)
                    /\ Before(m, n) => ~Before(n, m)
                    /\ Before(m, n) /\ Before(n, p) => Before(m, p)
                    /\ m = n \/ Before(m, n) \/ Before(n, m)
  OBVIOUS
<1>1. /\ m[1] \in Int /\ m[2] \in Int /\ m[3] \in Int
      /\ n[1] \in Int /\ n[2] \in Int /\ n[3] \in Int
      /\ p[1] \in Int /\ p[2] \in Int /\ p[3] \in Int
  BY DEF Sortable
<1>2. m[2] = n[2] /\ m[3] = n[3] => m = n
  BY DEF Sortable
<1> QED BY <1>1, <1>2 DEF Before

LEMMA BelowGrows ==
  ASSUME NEW K \in Nat, NEW S, Sortable(S, K), NEW m \in S, NEW n \in S, Before(m, n)
  PROVE  Cardinality(Below(S, m)) < Cardinality(Below(S, n))
<1>1. IsFiniteSet(S)
  BY SortableFinite
<1>2. IsFiniteSet(Below(S, n))
  BY <1>1, FS_Subset DEF Below
<1>3. Below(S, m) \subseteq Below(S, n) /\ m \in Below(S, n) /\ m \notin Below(S, m)
  BY BeforeOrders DEF Below
<1>4. /\ IsFiniteSet(Below(S, m))
      /\ Cardinality(Below(S, m)) <= Cardinality(Below(S, n))
      /\ Cardinality(Below(S, n)) = Cardinality(Below(S, m)) => Below(S, n) = Below(S, m)
  BY <1>2, <1>3, FS_Subset
<1>5. Cardinality(Below(S, m)) \in Nat /\ Cardinality(Below(S, n)) \in Nat
  BY <1>2, <1>4, FS_CardinalityType
<1> QED BY <1>3, <1>4, <1>5

(* e lists the sources of S in their order.                                *)
Lists(e, S) ==
  /\ e \in [1 .. Cardinality(S) -> S]
  /\ \A m \in S : \E i \in 1 .. Cardinality(S) : e[i] = m
  /\ \A i, j \in 1 .. Cardinality(S) : i < j <=> Before(e[i], e[j])
  /\ Sorted(S) = [i \in 1 .. Cardinality(S) |-> e[i][4]]

LEMMA SortedLists ==
  ASSUME NEW K \in Nat, NEW S, Sortable(S, K)
  PROVE  Cardinality(S) \in Nat /\ \E e : Lists(e, S)
<1> DEFINE n == Cardinality(S)
<1> DEFINE r == [m \in S |-> Cardinality(Below(S, m)) + 1]
<1>1. IsFiniteSet(S) /\ n \in Nat
  BY SortableFinite, FS_CardinalityType
<1>2. ASSUME NEW m \in S PROVE Cardinality(Below(S, m)) \in Nat /\ Cardinality(Below(S, m)) < n
  <2>1. Below(S, m) \subseteq S /\ m \notin Below(S, m)
    BY BeforeOrders DEF Below
  <2>2. IsFiniteSet(Below(S, m)) /\ Cardinality(Below(S, m)) <= n
        /\ (n = Cardinality(Below(S, m)) => S = Below(S, m))
    BY <1>1, <2>1, FS_Subset
  <2> QED BY <1>1, <2>1, <2>2, FS_CardinalityType
<1>3. r \in [S -> 1 .. n]
  BY <1>1, <1>2
<1>4. \A m, p \in S : Before(m, p) => r[m] < r[p]
  BY <1>2, BelowGrows
<1>5. r \in Injection(S, 1 .. n)
  <2>1. \A m, p \in S : r[m] = r[p] => m = p
    <3> SUFFICES ASSUME NEW m \in S, NEW p \in S, r[m] = r[p], m # p PROVE FALSE
      OBVIOUS
    <3>1. r[m] \in Int /\ r[p] \in Int
      BY <1>3
    <3> HIDE DEF r
    <3> QED BY <1>4, <3>1, BeforeOrders
  <2> HIDE DEF r, n
  <2> QED BY <1>3, <2>1 DEF Injection, IsInjective
<1>6. \A i \in 1 .. n : \E m \in S : r[m] = i
  <2>1. IsFiniteSet(1 .. n) /\ Cardinality(1 .. n) = n
    BY <1>1, FS_Interval
  <2> HIDE DEF r
  <2>2. r \in Surjection(S, 1 .. n)
    BY <1>5, <2>1, FS_Injection
  <2> QED BY <2>2 DEF Surjection
<1> DEFINE e == [i \in 1 .. n |-> CHOOSE m \in S : r[m] = i]
<1> HIDE DEF r
<1>7. \A i \in 1 .. n : e[i] \in S /\ r[e[i]] = i
  BY <1>6
<1>8. \A m \in S : r[m] \in 1 .. n /\ e[r[m]] = m
  <2> SUFFICES ASSUME NEW m \in S PROVE r[m] \in 1 .. n /\ e[r[m]] = m
    OBVIOUS
  <2>1. r[m] \in 1 .. n
    BY <1>3
  <2> QED BY <1>5, <1>7, <2>1 DEF Injection, IsInjective
<1>9. \A i, j \in 1 .. n : i < j <=> Before(e[i], e[j])
  <2> SUFFICES ASSUME NEW i \in 1 .. n, NEW j \in 1 .. n PROVE i < j <=> Before(e[i], e[j])
    OBVIOUS
  <2>1. e[i] \in S /\ e[j] \in S /\ r[e[i]] = i /\ r[e[j]] = j
    BY <1>7
  <2> HIDE DEF e
  <2>2. Before(e[i], e[j]) => i < j
    BY <1>4, <2>1
  <2>3. Before(e[j], e[i]) => j < i
    BY <1>4, <2>1
  <2>4. e[i] = e[j] => i = j
    BY <2>1
  <2>5. i \in Int /\ j \in Int
    BY <1>1
  <2> QED BY <2>1, <2>2, <2>3, <2>4, <2>5, BeforeOrders
<1>10. \A i \in 1 .. n : (CHOOSE m \in S : Cardinality({x \in S : Before(x, m)}) = i - 1) = e[i]
  <2> SUFFICES ASSUME NEW i \in 1 .. n
               PROVE  (CHOOSE m \in S : Cardinality({x \in S : Before(x, m)}) = i - 1) = e[i]
    OBVIOUS
  <2>1. \A m \in S : Cardinality({x \in S : Before(x, m)}) = i - 1 <=> r[m] = i
    BY <1>1, <1>2 DEF r, Below
  <2> QED BY <2>1, <1>7
<1> HIDE DEF e
<1>11. e \in [1 .. n -> S]
  BY <1>7 DEF e
<1>12. Sorted(S) = [i \in 1 .. n |-> e[i][4]]
  <2>1. Sorted(S) = [i \in 1 .. n |->
                       (CHOOSE m \in S : Cardinality({x \in S : Before(x, m)}) = i - 1)[4]]
    BY DEF Sorted
  <2> QED BY <1>10, <2>1, Zenon
<1>13. Lists(e, S)
  BY <1>8, <1>9, <1>11, <1>12 DEF Lists
<1> QED BY <1>1, <1>13

(* Any list of S in its order is the list.                                 *)
LEMMA ListIsSorted ==
  ASSUME NEW K \in Nat, NEW S, Sortable(S, K),
         NEW N \in Nat, NEW f \in [1 .. N -> S],
         \A m \in S : \E i \in 1 .. N : f[i] = m,
         \A i, j \in 1 .. N : i < j => Before(f[i], f[j])
  PROVE  Sorted(S) = [i \in 1 .. N |-> f[i][4]]
<1>1. \A i, j \in 1 .. N : f[i] = f[j] => i = j
  <2> SUFFICES ASSUME NEW i \in 1 .. N, NEW j \in 1 .. N, f[i] = f[j], i # j PROVE FALSE
    OBVIOUS
  <2>1. f[i] \in S /\ f[j] \in S /\ ~Before(f[i], f[j]) /\ ~Before(f[j], f[i])
    BY BeforeOrders
  <2>2. i < j \/ j < i
    OBVIOUS
  <2> QED BY <2>1, <2>2
<1>2. Cardinality(S) = N
  <2>1. f \in Bijection(1 .. N, S)
    BY <1>1 DEF Bijection, Injection, Surjection, IsInjective
  <2> QED BY <2>1, FS_CountingElements DEF ExistsBijection
<1>3. ASSUME NEW i \in 1 .. N PROVE Cardinality(Below(S, f[i])) = i - 1
  <2> DEFINE g == [j \in 1 .. i - 1 |-> f[j]]
  <2>1. \A j \in 1 .. i - 1 : j \in 1 .. N /\ j < i
    OBVIOUS
  <2>2. \A j \in 1 .. i - 1 : f[j] \in Below(S, f[i])
    BY <2>1 DEF Below
  <2>3. \A m \in Below(S, f[i]) : \E j \in 1 .. i - 1 : f[j] = m
    <3> SUFFICES ASSUME NEW m \in S, Before(m, f[i]) PROVE \E j \in 1 .. i - 1 : f[j] = m
      BY DEF Below
    <3>1. PICK j \in 1 .. N : f[j] = m
      OBVIOUS
    <3>2. f[i] \in S /\ ~Before(f[i], m) /\ m # f[i]
      BY BeforeOrders
    <3>3. ~(i < j) /\ i # j
      BY <3>1, <3>2
    <3> QED BY <3>1, <3>3
  <2>4. g \in Bijection(1 .. i - 1, Below(S, f[i]))
    <3>1. g \in [1 .. i - 1 -> Below(S, f[i])]
      BY <2>2
    <3>2. \A j, k \in 1 .. i - 1 : g[j] = g[k] => j = k
      BY <1>1, <2>1
    <3>3. \A m \in Below(S, f[i]) : \E j \in 1 .. i - 1 : g[j] = m
      BY <2>3
    <3> HIDE DEF g
    <3> QED BY <3>1, <3>2, <3>3 DEF Bijection, Injection, Surjection, IsInjective
  <2>5. i - 1 \in Nat
    OBVIOUS
  <2> HIDE DEF g
  <2> QED BY <2>4, <2>5, FS_CountingElements DEF ExistsBijection
<1>4. PICK e : Lists(e, S)
  BY SortedLists
<1>5. ASSUME NEW i \in 1 .. N
      PROVE  (CHOOSE m \in S : Cardinality({x \in S : Before(x, m)}) = i - 1) = f[i]
  <2>1. Cardinality({x \in S : Before(x, f[i])}) = i - 1
    BY <1>3 DEF Below
  <2>2. ASSUME NEW m \in S, Cardinality({x \in S : Before(x, m)}) = i - 1 PROVE m = f[i]
    <3>1. PICK j \in 1 .. N : f[j] = m
      OBVIOUS
    <3>2. j - 1 = i - 1
      BY <1>3, <2>2, <3>1 DEF Below
    <3> QED BY <3>1, <3>2
  <2> QED BY <2>1, <2>2
<1>6. Sorted(S) = [i \in 1 .. N |->
                     (CHOOSE m \in S : Cardinality({x \in S : Before(x, m)}) = i - 1)[4]]
  BY <1>2 DEF Sorted
<1> QED BY <1>5, <1>6, Zenon

-----------------------------------------------------------------------------
(* Types.                                                                  *)
Statuses == {Initial} \cup {e[2] : e \in Edges}
Owners == Staff \cup {Nobody}
Places == Queues \cup {Nobody}

EventTypes == {"created", "status_changed", "reopened", "closed", "escalated",
               "assigned", "unassigned", "reassigned", "queue_changed"}
Sources == {<<>>} \cup ({"workflow_transition", "audit_event"} \X Nat) \cup ({"sla_instance"} \X Clocks)
Said == {<<>>} \cup [status : Statuses] \cup [owner : Owners] \cup [queue : Places]

Inputs == [type : EventTypes, at : Nat, source : Sources, prev : Said, new : Said]
Payloads == [sequence : Nat, type : EventTypes, at : Nat, source : Sources, prev : Said, new : Said]
LedgerRows == [sequence : Nat, type : EventTypes, at : Nat, source : Sources, prev : Said, new : Said,
               previousHash : Seq(Payloads), eventHash : Seq(Payloads)]

-----------------------------------------------------------------------------
(* The chain.                                                              *)

SameEvent(row, input) ==
  /\ row.type = input.type /\ row.at = input.at /\ row.source = input.source
  /\ row.prev = input.prev /\ row.new = input.new

LEMMA LastHashBefore ==
  ASSUME NEW S, NEW l \in Seq(S), NEW i \in 1 .. Len(l)
  PROVE  LastHash(SubSeq(l, 1, i - 1)) = IF i = 1 THEN <<>> ELSE l[i - 1].eventHash
<1> DEFINE m == SubSeq(l, 1, i - 1)
<1>1. Len(m) = i - 1 /\ m \in Seq(S) /\ (i # 1 => m[i - 1] = l[i - 1])
  OBVIOUS
<1> HIDE DEF m
<1>2. CASE i = 1
  <2>1. m = <<>>
    BY <1>1, <1>2
  <2> QED BY <1>2, <2>1 DEF LastHash, m
<1>3. CASE i # 1
  <2>1. m # <<>> /\ Last(m) = l[i - 1]
    BY <1>1, <1>3 DEF Last
  <2> QED BY <1>3, <2>1 DEF LastHash, m
<1> QED BY <1>2, <1>3

(* One digest more.                                                        *)
LEMMA HashGrows ==
  ASSUME NEW P, NEW h \in Seq(P), NEW a \in Seq(P), NEW b \in Seq(P), NEW n \in Nat \ {0},
         Len(a) = n - 1, Len(b) = n, \A i \in 1 .. n - 1 : a[i] = b[i]
  PROVE  Append(h \o a, b[n]) = h \o b
<1> DEFINE x == h \o a
           y == h \o b
           c == Append(x, b[n])
           k == Len(h)
<1>1. b[n] \in P /\ k \in Nat /\ n \in Nat /\ n >= 1
  OBVIOUS
<1>2. /\ x \in Seq(P) /\ Len(x) = k + (n - 1)
      /\ \A i \in 1 .. k + (n - 1) : x[i] = IF i <= k THEN h[i] ELSE a[i - k]
  <2>1. /\ x \in Seq(P) /\ Len(x) = k + Len(a)
        /\ \A i \in 1 .. k + Len(a) : x[i] = IF i <= k THEN h[i] ELSE a[i - k]
    BY ConcatProperties
  <2> QED BY <2>1
<1>3. /\ y \in Seq(P) /\ Len(y) = k + n
      /\ \A i \in 1 .. k + n : y[i] = IF i <= k THEN h[i] ELSE b[i - k]
  <2>1. /\ y \in Seq(P) /\ Len(y) = k + Len(b)
        /\ \A i \in 1 .. k + Len(b) : y[i] = IF i <= k THEN h[i] ELSE b[i - k]
    BY ConcatProperties
  <2> QED BY <2>1
<1> HIDE DEF x, y
<1>4. /\ c \in Seq(P) /\ Len(c) = k + (n - 1) + 1
      /\ \A i \in 1 .. k + (n - 1) : c[i] = x[i]
      /\ c[k + (n - 1) + 1] = b[n]
  BY <1>1, <1>2
<1> HIDE DEF c, k
<1>5. ASSUME NEW i \in 1 .. k + n
      PROVE  c[i] = y[i]
  <2>1. CASE i <= k
    <3>1. i \in 1 .. k + (n - 1)
      BY <1>1, <2>1
    <3> QED BY <1>2, <1>3, <1>4, <2>1, <3>1
  <2>2. CASE i \in k + 1 .. k + (n - 1)
    <3>1. i - k \in 1 .. n - 1 /\ i - k \in 1 .. n /\ ~(i <= k) /\ i \in 1 .. k + (n - 1)
      BY <1>1, <2>2
    <3>2. a[i - k] = b[i - k]
      BY <3>1
    <3> QED BY <1>2, <1>3, <1>4, <3>1, <3>2
  <2>3. CASE i = k + n
    <3>1. i - k = n /\ ~(i <= k) /\ n \in 1 .. n /\ i = k + (n - 1) + 1
      BY <1>1, <2>3
    <3>2. y[i] = b[n]
      BY <1>3, <3>1
    <3> QED BY <1>4, <3>1, <3>2
  <2>4. i <= k \/ i \in k + 1 .. k + (n - 1) \/ i = k + n
    BY <1>1
  <2> QED BY <2>1, <2>2, <2>3, <2>4
<1>6. c = y
  <2>1. Len(c) = k + n
    BY <1>1, <1>4
  <2> QED BY <1>3, <1>4, <1>5, <2>1, SeqEqual
<1> QED BY <1>6 DEF c, x, y

(* What record_custody_events leaves: the old rows, then one for each      *)
(* input, chained to what was there.                                       *)
Grown(l, m, inputs) ==
  /\ m \in Seq(LedgerRows)
  /\ Len(m) = Len(l) + Len(inputs)
  /\ \A i \in 1 .. Len(l) : m[i] = l[i]
  /\ \A i \in 1 .. Len(inputs) : SameEvent(m[Len(l) + i], inputs[i])
  /\ VerifyCustodyChain(m)

LEMMA Recorded ==
  ASSUME NEW l \in Seq(LedgerRows), VerifyCustodyChain(l), NEW inputs \in Seq(Inputs)
  PROVE  Grown(l, RecordCustody(l, inputs), inputs)
<1> DEFINE k == Len(l)
           n == Len(inputs)
           f == [i \in 1 .. n |-> ChainPayload(Numbered(inputs[i], k + i))]
           hash(j) == LastHash(l) \o [i \in 1 .. j |-> f[i]]
           row(i) == Chained(Numbered(inputs[i], k + i), hash(i - 1))
           m == RecordCustody(l, inputs)
<1>1. k \in Nat /\ n \in Nat
  OBVIOUS
<1>2. LastSequence(l) = k
  <2>1. CASE l = <<>>
    BY <2>1 DEF LastSequence
  <2>2. CASE l # <<>>
    <3>1. k \in 1 .. k
      BY <2>2, <1>1
    <3> QED BY <2>2, <3>1 DEF LastSequence, Last, VerifyCustodyChain
  <2> QED BY <2>1, <2>2
<1>3. LastHash(l) \in Seq(Payloads)
  <2>1. CASE l = <<>>
    BY <2>1 DEF LastHash
  <2>2. CASE l # <<>>
    <3>1. l[k] \in LedgerRows
      BY <2>2
    <3> QED BY <2>2, <3>1 DEF LastHash, Last, LedgerRows
  <2> QED BY <2>1, <2>2
<1>4. ASSUME NEW i \in 1 .. n
      PROVE  /\ inputs[i] \in Inputs
             /\ Numbered(inputs[i], k + i) \in Payloads
             /\ ChainPayload(Numbered(inputs[i], k + i)) \in Payloads
  <2>1. inputs[i] \in Inputs /\ k + i \in Nat
    BY <1>1
  <2> QED BY <2>1 DEF Inputs, Payloads, Numbered, ChainPayload
<1>5. f \in [1 .. n -> Payloads]
  BY <1>4
<1> HIDE DEF k, n
<1>6. ASSUME NEW j \in 0 .. n PROVE hash(j) \in Seq(Payloads)
  <2>1. [i \in 1 .. j |-> f[i]] \in Seq(Payloads)
    <3>1. \A i \in 1 .. j : f[i] \in Payloads
      BY <1>1, <1>5
    <3> HIDE DEF f
    <3> QED BY <1>1, <3>1
  <2> HIDE DEF f
  <2> QED BY <1>3, <2>1
<1>7. m = l \o [i \in 1 .. n |-> row(i)]
  <2>1. ASSUME NEW i \in 1 .. n
        PROVE  [j \in 1 .. i - 1 |-> ChainPayload(Numbered(inputs[j], k + j))] = [j \in 1 .. i - 1 |-> f[j]]
    BY <1>1
  <2>2. m = l \o [i \in 1 .. n |->
                    Chained(Numbered(inputs[i], k + i),
                            LastHash(l) \o [j \in 1 .. i - 1 |-> ChainPayload(Numbered(inputs[j], k + j))])]
    BY <1>2 DEF RecordCustody, n
  <2> HIDE DEF f
  <2> QED BY <2>1, <2>2, Zenon
<1> HIDE DEF hash, m
<1>8. ASSUME NEW i \in 1 .. n PROVE row(i) \in LedgerRows
  <2>1. i - 1 \in 0 .. n
    BY <1>1
  <2>2. hash(i - 1) \in Seq(Payloads)
    BY <1>6, <2>1
  <2>3. EventHash(hash(i - 1), ChainPayload(Numbered(inputs[i], k + i))) \in Seq(Payloads)
    BY <1>4, <2>2 DEF EventHash
  <2> QED BY <1>4, <2>2, <2>3 DEF Chained, LedgerRows, Payloads
<1> DEFINE rest == [i \in 1 .. n |-> row(i)]
<1>9. rest \in Seq(LedgerRows) /\ Len(rest) = n /\ \A i \in 1 .. n : rest[i] = row(i)
  <2> HIDE DEF row
  <2> QED BY <1>1, <1>8
<1>10. m = l \o rest
  BY <1>7
<1> HIDE DEF rest, row
<1>11. /\ m \in Seq(LedgerRows) /\ Len(m) = k + n
       /\ \A i \in 1 .. k : m[i] = l[i]
       /\ \A i \in 1 .. n : m[k + i] = row(i)
  <2>1. /\ m \in Seq(LedgerRows) /\ Len(m) = k + n
        /\ \A i \in 1 .. k + n : m[i] = IF i <= k THEN l[i] ELSE rest[i - k]
    BY <1>9, <1>10, ConcatProperties DEF k
  <2>2. \A i \in 1 .. k : m[i] = l[i]
    BY <1>1, <2>1
  <2>3. ASSUME NEW i \in 1 .. n PROVE m[k + i] = row(i)
    <3>1. k + i \in 1 .. k + n /\ ~(k + i <= k) /\ (k + i) - k = i
      BY <1>1
    <3> QED BY <1>9, <2>1, <3>1
  <2> QED BY <2>1, <2>2, <2>3
<1>12. \A i \in 1 .. n : SameEvent(m[k + i], inputs[i])
  <2> SUFFICES ASSUME NEW i \in 1 .. n PROVE SameEvent(m[k + i], inputs[i])
    OBVIOUS
  <2>1. SameEvent(row(i), inputs[i])
    BY <1>4 DEF SameEvent, row, Chained, Numbered
  <2> QED BY <1>11, <2>1
<1>13. ASSUME NEW i \in 1 .. n
       PROVE  row(i).eventHash = hash(i)
  <2> DEFINE a == [j \in 1 .. i - 1 |-> f[j]]
             b == [j \in 1 .. i |-> f[j]]
  <2>1. /\ a \in Seq(Payloads) /\ Len(a) = i - 1
        /\ b \in Seq(Payloads) /\ Len(b) = i
        /\ \A j \in 1 .. i - 1 : a[j] = b[j]
        /\ b[i] = f[i]
    <3>1. \A j \in 1 .. i : f[j] \in Payloads
      BY <1>1, <1>5
    <3> HIDE DEF f
    <3> QED BY <1>1, <3>1
  <2>2. i \in Nat \ {0}
    BY <1>1
  <2>3. Append(LastHash(l) \o a, b[i]) = LastHash(l) \o b
    <3> HIDE DEF a, b
    <3> QED BY <1>3, <2>1, <2>2, HashGrows
  <2>4. Append(hash(i - 1), f[i]) = hash(i)
    <3> HIDE DEF f
    <3> QED BY <2>1, <2>3, Zenon DEF hash
  <2>5. row(i).eventHash = Append(hash(i - 1), ChainPayload(Numbered(inputs[i], k + i)))
    BY DEF row, Chained, EventHash
  <2> QED BY <2>4, <2>5 DEF f
<1>14. hash(0) = LastHash(l)
  <2>1. [i \in 1 .. 0 |-> f[i]] = <<>>
    OBVIOUS
  <2> QED BY <1>3, <2>1 DEF hash
<1>15. VerifyCustodyChain(m)
  <2> SUFFICES ASSUME NEW i \in 1 .. Len(m)
               PROVE  /\ m[i].sequence = i
                      /\ m[i].previousHash = LastHash(SubSeq(m, 1, i - 1))
                      /\ m[i].eventHash = EventHash(m[i].previousHash, ChainPayload(m[i]))
    BY DEF VerifyCustodyChain
  <2>1. LastHash(SubSeq(m, 1, i - 1)) = IF i = 1 THEN <<>> ELSE m[i - 1].eventHash
    BY <1>11, LastHashBefore
  <2>2. CASE i \in 1 .. k
    <3>1. LastHash(SubSeq(l, 1, i - 1)) = IF i = 1 THEN <<>> ELSE l[i - 1].eventHash
      BY <2>2, LastHashBefore DEF k
    <3>2. m[i] = l[i] /\ (i # 1 => m[i - 1] = l[i - 1])
      BY <1>1, <1>11, <2>2
    <3>3. /\ l[i].sequence = i
          /\ l[i].previousHash = LastHash(SubSeq(l, 1, i - 1))
          /\ l[i].eventHash = EventHash(l[i].previousHash, ChainPayload(l[i]))
      BY <2>2 DEF VerifyCustodyChain, k
    <3> QED BY <2>1, <3>1, <3>2, <3>3
  <2>3. CASE i \in k + 1 .. k + n
    <3> DEFINE j == i - k
    <3>1. j \in 1 .. n /\ i = k + j /\ i # 0
      BY <1>1, <2>3
    <3> HIDE DEF j
    <3>2. m[i] = row(j)
      BY <1>11, <3>1
    <3>3. /\ row(j).sequence = k + j
          /\ row(j).previousHash = hash(j - 1)
          /\ row(j).eventHash = EventHash(row(j).previousHash, ChainPayload(row(j)))
      BY DEF row, Chained, Numbered, ChainPayload
    <3>4. hash(j - 1) = IF i = 1 THEN <<>> ELSE m[i - 1].eventHash
      <4>1. CASE j = 1 /\ k = 0
        BY <1>14, <3>1, <4>1 DEF LastHash, k
      <4>2. CASE j = 1 /\ k # 0
        <5>1. i - 1 = k /\ i # 1 /\ k \in 1 .. k
          BY <1>1, <3>1, <4>2
        <5>2. LastHash(l) = l[k].eventHash
          BY <4>2 DEF LastHash, Last, k
        <5> QED BY <1>11, <1>14, <4>2, <5>1, <5>2
      <4>3. CASE j # 1
        <5>1. j - 1 \in 1 .. n /\ i - 1 = k + (j - 1) /\ i # 1
          BY <1>1, <3>1, <4>3
        <5>2. m[i - 1] = row(j - 1)
          BY <1>11, <5>1
        <5> QED BY <1>13, <5>1, <5>2
      <4> QED BY <4>1, <4>2, <4>3
    <3> QED BY <2>1, <3>1, <3>2, <3>3, <3>4
  <2> QED BY <1>1, <1>11, <2>2, <2>3
<1> QED BY <1>11, <1>12, <1>15 DEF m, k, n, Grown

-----------------------------------------------------------------------------
(* The invariant.                                                          *)
HistoryRows == [from : Statuses \cup {Nobody}, to : Statuses, at : Nat]
Fields == ({"owner"} \X Owners \X Owners) \cup ({"queue"} \X Places \X Places)
Actions == {"ticket.created", "ticket.work_state.changed", "ticket.assignment.changed",
            "ticket.routing.changed"}
AuditRows == [action : Actions, at : Nat, fields : SUBSET Fields]
Tickets == [status : Statuses \cup {Nobody}, owner : Owners, queue : Places, createdAt : Nat]

TypesInv ==
  /\ app \in {"old", "new"} /\ schema \in {"none", "table", "filled"}
  /\ now \in Nat
  /\ sweep = Nobody \/ sweep \in 0 .. now
  /\ ticket \in Tickets
  /\ history \in Seq(HistoryRows) /\ audits \in Seq(AuditRows) /\ ledger \in Seq(LedgerRows)

(* The older code writes no custody events, and what a backfill has read   *)
(* is as it was as long as there are none.                                 *)
DeploymentInv ==
  /\ app = "old" => schema = "none" /\ ledger = <<>> /\ sweep = Nobody
  /\ reading # Nobody => schema # "none"
  /\ reading # Nobody /\ ~reading.skip /\ ledger = <<>> =>
       Created /\ reading.history = history /\ reading.audits = audits

(* Transition rows follow each other in time and in status.                *)
HistoryInv ==
  /\ \A h \in 1 .. Len(history) : history[h].at <= now
  /\ \A g, h \in 1 .. Len(history) : g < h => history[g].at < history[h].at
  /\ \A h \in 1 .. Len(history) :
       IF h = 1 THEN history[1].from \in {Nobody, Initial} ELSE history[h].from = history[h - 1].to
  /\ history # <<>> =>
       IF history[1].from = Nobody THEN history[1].to = Initial /\ history[1].at = ticket.createdAt
       ELSE ticket.createdAt < history[1].at
  /\ IF Created
     THEN /\ ticket.status = IF history = <<>> THEN Initial ELSE history[Len(history)].to
          /\ ticket.createdAt <= now
     ELSE ticket = NotYet /\ history = <<>> /\ audits = <<>> /\ ledger = <<>>

(* So do audit rows, for the owner and for the queue.                      *)
Touches(audit, x) == \E f \in audit.fields : f[1] = x

AuditTells(A, n, x, v) ==
  \A a \in 1 .. n : \A f \in A[a].fields :
    f[1] = x /\ (\A b \in a + 1 .. n : ~Touches(A[b], x)) => f[3] = v

AuditInv ==
  /\ \A a \in 1 .. Len(audits) : audits[a].at <= now
  /\ \A a, b \in 1 .. Len(audits) : a < b => audits[a].at < audits[b].at
  /\ \A a \in 1 .. Len(audits) :
       IF audits[a].action = "ticket.created"
       THEN a = 1 /\ audits[a].fields = {} /\ audits[a].at = ticket.createdAt
       ELSE ticket.createdAt < audits[a].at
  /\ \A a \in 1 .. Len(audits) : \A f, g \in audits[a].fields : f[1] = g[1] => f = g
  /\ \A a \in 1 .. Len(audits) : \A f \in audits[a].fields : AuditTells(audits, a - 1, f[1], f[2])
  /\ AuditTells(audits, Len(audits), "owner", ticket.owner)
  /\ AuditTells(audits, Len(audits), "queue", ticket.queue)

(* What each event stands for: a transition row, the creation, a field of  *)
(* an audit row, or an escalation by the evaluator.                        *)
StandsForRow(e, h, H, T) ==
  /\ e.source = Transitioned(h) /\ e.new = [status |-> H[h].to]
  /\ e.at <= H[h].at
  /\ \A g \in 1 .. h - 1 : H[g].at < e.at
  /\ T.createdAt <= e.at /\ (H[h].from # Nobody => T.createdAt < e.at)
  /\ e.type = "created" <=> H[h].from = Nobody

StandsForCreation(e, H, A, T) ==
  /\ e.type = "created" /\ e.new = [status |-> Initial] /\ e.at = T.createdAt
  /\ Creations(H) = {}
  /\ \/ e.source = <<>>
     \/ e.source = Audited(1) /\ A # <<>> /\ A[1].action = "ticket.created"

StandsForField(e, a, f) ==
  /\ e.source = Audited(a) /\ e.type # "created"
  /\ DOMAIN e.new = {f[1]} /\ DOMAIN e.prev = {f[1]}

StandsForClock(e) ==
  /\ \E k \in Clocks : e.source = <<"sla_instance", k>>
  /\ e.type # "created" /\ e.new \in [status : Statuses]

Stands(e, H, A, T) ==
  \/ \E h \in 1 .. Len(H) : StandsForRow(e, h, H, T)
  \/ StandsForCreation(e, H, A, T)
  \/ \E a \in 1 .. Len(A) : \E f \in A[a].fields : StandsForField(e, a, f)
  \/ StandsForClock(e)

IsClock(e) == e.source # <<>> /\ e.source[1] = "sla_instance"

(* No two events stand for the same, and if there is an event for the      *)
(* creation, there is one for everything.                                  *)
Same(e, f) ==
  \/ e.type = "created" /\ f.type = "created"
  \/ ~IsClock(e) /\ e.source = f.source /\ DOMAIN e.new \cap DOMAIN f.new # {}

Once(l) == \A i, j \in 1 .. Len(l) : Same(l[i], l[j]) => i = j

EventsInv ==
  /\ \A i \in 1 .. Len(ledger) : Stands(ledger[i], history, audits, ticket) /\ ledger[i].at <= now
  /\ Once(ledger)

RowCovered(l, h) == \E i \in 1 .. Len(l) : l[i].source = Transitioned(h)
FieldCovered(l, a, x) == \E i \in 1 .. Len(l) : l[i].source = Audited(a) /\ x \in DOMAIN l[i].new

CoverageInv ==
  \A c \in 1 .. Len(ledger) : ledger[c].type = "created" =>
    /\ \A h \in 1 .. Len(history) : RowCovered(ledger, h)
    /\ \A a \in 1 .. Len(audits) : \A f \in audits[a].fields : FieldCovered(ledger, a, f[1])

(* The ledger tells what is so.                                            *)
LedgerTells(l, n, x, v) ==
  \A j \in 1 .. n :
    x \in DOMAIN l[j].new /\ (\A m \in j + 1 .. n : x \notin DOMAIN l[m].new) => l[j].new[x] = v

Aspects == {"status", "owner", "queue"}

TruthInv ==
  \A x \in Aspects :
    /\ \A i \in 1 .. Len(ledger) :
         x \in DOMAIN ledger[i].prev => LedgerTells(ledger, i - 1, x, ledger[i].prev[x])
    /\ LedgerTells(ledger, Len(ledger), x, ticket[x])

(* The last milestone is the status of now.                                *)
LastInv ==
  Created => \E m \in Milestones :
               m[4] = ticket.status /\ \A x \in Milestones : x = m \/ Before(x, m)

TimelineInv ==
  /\ TypesInv /\ DeploymentInv /\ HistoryInv /\ AuditInv
  /\ VerifyCustodyChain(ledger) /\ EventsInv /\ CoverageInv /\ TruthInv /\ LastInv

-----------------------------------------------------------------------------
(* What a transaction on a ticket does.  It changes the status or not, the *)
(* owner and queue or not, and the newer code records an event for each    *)
(* aspect that it changes.                                                 *)
NewEvent(e) ==
  /\ e.type # "created" /\ e.at \in now + 1 .. now'
  /\ \/ /\ history' # history /\ e.source = Transitioned(Len(history'))
        /\ e.prev = [status |-> ticket.status] /\ e.new = [status |-> ticket'.status]
     \/ /\ <<"owner", ticket.owner, ticket'.owner>> \in audits'[Len(audits')].fields
        /\ audits' # audits /\ e.source = Audited(Len(audits'))
        /\ e.prev = [owner |-> ticket.owner] /\ e.new = [owner |-> ticket'.owner]
     \/ /\ <<"queue", ticket.queue, ticket'.queue>> \in audits'[Len(audits')].fields
        /\ audits' # audits /\ e.source = Audited(Len(audits'))
        /\ e.prev = [queue |-> ticket.queue] /\ e.new = [queue |-> ticket'.queue]

Written(inputs) ==
  /\ inputs # <<>>
  /\ \A i \in 1 .. Len(inputs) : NewEvent(inputs[i])
  /\ \A i, j \in 1 .. Len(inputs) : DOMAIN inputs[i].new \cap DOMAIN inputs[j].new # {} => i = j
  /\ history' # history => \E i \in 1 .. Len(inputs) : "status" \in DOMAIN inputs[i].new
  /\ ticket'.owner # ticket.owner => \E i \in 1 .. Len(inputs) : "owner" \in DOMAIN inputs[i].new
  /\ ticket'.queue # ticket.queue => \E i \in 1 .. Len(inputs) : "queue" \in DOMAIN inputs[i].new

StatusPart ==
  \/ history' = history /\ ticket'.status = ticket.status
  \/ history' = Append(history, Row(ticket.status, ticket'.status, now'))

WorkPart ==
  \/ audits' = audits /\ ticket'.owner = ticket.owner /\ ticket'.queue = ticket.queue
  \/ \E action \in Actions \ {"ticket.created"} :
       audits' = Append(audits, Audit(action, now', ticket'.owner, ticket'.queue))

LedgerPart ==
  \/ app = "old" /\ ledger' = ledger
  \/ /\ app = "new"
     /\ \E inputs \in Seq(Inputs) : Written(inputs) /\ ledger' = RecordCustody(ledger, inputs)

Change ==
  /\ Created /\ ticket' \in Tickets /\ ticket'.status \in Statuses
  /\ ticket'.createdAt = ticket.createdAt
  /\ now' \in Nat /\ now < now'
  /\ StatusPart /\ WorkPart /\ LedgerPart
  /\ UNCHANGED <<system, sweep>>

LEMMA NoStatusIsNobody == Nobody \notin Statuses
BY TimelineAssumption DEF Statuses

LEMMA OneEvent ==
  ASSUME NEW e \in Inputs
  PROVE  /\ <<e>> \in Seq(Inputs) /\ Len(<<e>>) = 1 /\ <<e>> # <<>>
         /\ \A i \in 1 .. 1 : <<e>>[i] = e
OBVIOUS

LEMMA TwoEvents ==
  ASSUME NEW e \in Inputs, NEW f \in Inputs
  PROVE  /\ <<e>> \o <<f>> \in Seq(Inputs) /\ Len(<<e>> \o <<f>>) = 2 /\ <<e>> \o <<f>> # <<>>
         /\ (<<e>> \o <<f>>)[1] = e /\ (<<e>> \o <<f>>)[2] = f
OBVIOUS

LEMMA WrittenTwo ==
  ASSUME NEW e \in Inputs, NEW f \in Inputs, NewEvent(e), NewEvent(f),
         NEW x, NEW y, x # y, DOMAIN e.new = {x}, DOMAIN f.new = {y},
         history' # history => "status" \in {x, y},
         ticket'.owner # ticket.owner => "owner" \in {x, y},
         ticket'.queue # ticket.queue => "queue" \in {x, y}
  PROVE  Written(<<e>> \o <<f>>)
<1> DEFINE p == <<e>> \o <<f>>
<1>1. p # <<>> /\ Len(p) = 2 /\ p[1] = e /\ p[2] = f
  BY TwoEvents
<1> HIDE DEF p
<1>2. 1 \in 1 .. Len(p) /\ 2 \in 1 .. Len(p) /\ \A i \in 1 .. Len(p) : i = 1 \/ i = 2
  BY <1>1
<1>3. \A i \in 1 .. Len(p) : NewEvent(p[i])
  BY <1>1, <1>2, Zenon
<1>4. ASSUME NEW z \in {x, y} PROVE \E i \in 1 .. Len(p) : z \in DOMAIN p[i].new
  BY <1>1, <1>2
<1>5. \A i, j \in 1 .. Len(p) : DOMAIN p[i].new \cap DOMAIN p[j].new # {} => i = j
  BY <1>1, <1>2
<1>6. Written(p)
  BY <1>1, <1>3, <1>4, <1>5 DEF Written
<1> QED BY <1>6 DEF p

LEMMA StatusInput ==
  ASSUME NEW type \in EventTypes, NEW at \in Nat, NEW n \in Nat,
         NEW from \in Statuses, NEW to \in Statuses, NEW t \in Nat
  PROVE  StatusEvent(type, at, n, Row(from, to, t)) \in Inputs
BY DEF StatusEvent, Event, Row, Inputs, Sources, Said, Transitioned

LEMMA OwnerInput ==
  ASSUME NEW at \in Nat, NEW n \in Nat, NEW before \in Owners, NEW after \in Owners
  PROVE  /\ OwnerEvent(at, n, before, after) \in Inputs
         /\ OwnerEvent(at, n, before, after).type # "created"
BY DEF OwnerEvent, Event, Inputs, Sources, Said, Audited, EventTypes

LEMMA QueueInput ==
  ASSUME NEW at \in Nat, NEW n \in Nat, NEW before \in Places, NEW after \in Places
  PROVE  /\ QueueEvent(at, n, before, after) \in Inputs
         /\ QueueEvent(at, n, before, after).type # "created"
BY DEF QueueEvent, Event, Inputs, Sources, Said, Audited, EventTypes

LEMMA LegacyTransitionChanges == TimelineInv /\ LegacyTransition => Change
<1> SUFFICES ASSUME TimelineInv, LegacyTransition PROVE Change
  OBVIOUS
<1>1. PICK to \in {e[2] : e \in {e \in Edges : e[1] = ticket.status}} :
        /\ ticket' = [ticket EXCEPT !.status = to]
        /\ history' = Append(history, Row(ticket.status, to, now'))
  BY DEF LegacyTransition
<1>2. to \in Statuses
  BY <1>1 DEF Statuses
<1>3. ticket \in Tickets /\ now \in Nat
  BY DEF TimelineInv, TypesInv
<1>4. ticket' \in Tickets /\ ticket'.status = to /\ ticket'.createdAt = ticket.createdAt
      /\ ticket'.owner = ticket.owner /\ ticket'.queue = ticket.queue
  BY <1>1, <1>2, <1>3 DEF Tickets
<1> QED BY <1>1, <1>2, <1>3, <1>4 DEF LegacyTransition, Tick, Change, StatusPart, WorkPart, LedgerPart

LEMMA LegacyChangeChanges == TimelineInv /\ LegacyChange => Change
<1> SUFFICES ASSUME TimelineInv, LegacyChange PROVE Change
  OBVIOUS
<1>1. PICK owner \in Owners, queue \in Places :
        /\ \E action \in {"ticket.work_state.changed", "ticket.assignment.changed"} :
             audits' = Append(audits, Audit(action, now', owner, queue))
        /\ ticket' = [ticket EXCEPT !.owner = owner, !.queue = queue]
  BY DEF LegacyChange, Owners, Places
<1>3. ticket \in Tickets /\ now \in Nat /\ ticket.status # Nobody
  BY DEF TimelineInv, TypesInv, LegacyChange, Created
<1>4. ticket' \in Tickets /\ ticket'.status = ticket.status /\ ticket'.createdAt = ticket.createdAt
      /\ ticket'.owner = owner /\ ticket'.queue = queue /\ ticket.status \in Statuses
  BY <1>1, <1>3 DEF Tickets
<1>5. WorkPart
  BY <1>1, <1>4 DEF WorkPart, Actions
<1> QED BY <1>3, <1>4, <1>5 DEF LegacyChange, Tick, Change, StatusPart, LedgerPart

LEMMA AppendedRow ==
  ASSUME TypesInv, now' \in Nat, NEW to \in Statuses, Created,
         history' = Append(history, Row(ticket.status, to, now'))
  PROVE  /\ history' \in Seq(HistoryRows) /\ Len(history') = Len(history) + 1 /\ history' # history
         /\ \A h \in 1 .. Len(history) : history'[h] = history[h]
         /\ history'[Len(history')] = Row(ticket.status, to, now')
<1>1. Row(ticket.status, to, now') \in HistoryRows /\ history \in Seq(HistoryRows)
  BY DEF TypesInv, Row, HistoryRows, Tickets
<1> HIDE DEF Row, HistoryRows
<1> QED BY <1>1

LEMMA AppendedAudit ==
  ASSUME TypesInv, now' \in Nat, NEW action \in Actions, NEW owner \in Owners, NEW queue \in Places,
         audits' = Append(audits, Audit(action, now', owner, queue))
  PROVE  /\ audits' \in Seq(AuditRows) /\ Len(audits') = Len(audits) + 1 /\ audits' # audits
         /\ \A a \in 1 .. Len(audits) : audits'[a] = audits[a]
         /\ audits'[Len(audits')] = Audit(action, now', owner, queue)
         /\ audits'[Len(audits')].fields
              = {x \in {<<"owner", ticket.owner, owner>>, <<"queue", ticket.queue, queue>>} : x[2] # x[3]}
<1>1. ticket.owner \in Owners /\ ticket.queue \in Places /\ audits \in Seq(AuditRows)
  BY DEF TypesInv, Tickets
<1>2. {x \in {<<"owner", ticket.owner, owner>>, <<"queue", ticket.queue, queue>>} : x[2] # x[3]} \subseteq Fields
  BY <1>1 DEF Fields
<1>3. Audit(action, now', owner, queue) \in AuditRows
  BY <1>2 DEF Audit, AuditRows
<1>4. /\ audits' \in Seq(AuditRows) /\ Len(audits') = Len(audits) + 1 /\ audits' # audits
      /\ \A a \in 1 .. Len(audits) : audits'[a] = audits[a]
      /\ audits'[Len(audits')] = Audit(action, now', owner, queue)
  <2> HIDE DEF Audit, AuditRows
  <2> QED BY <1>1, <1>3
<1> QED BY <1>4 DEF Audit

LEMMA TransitionChanges == TimelineInv /\ Transition => Change
<1> SUFFICES ASSUME TimelineInv, Transition PROVE Change
  OBVIOUS
<1>1. PICK to \in {e[2] : e \in {e \in Edges : e[1] = ticket.status}} \ {"escalated"} :
        LET row == Row(ticket.status, to, now')
        IN  /\ ticket' = [ticket EXCEPT !.status = to]
            /\ history' = Append(history, row)
            /\ ledger' = RecordCustody(ledger,
                 <<StatusEvent(TypeForTransition(to), now', Len(history'), row)>>)
  BY DEF Transition
<1>2. to \in Statuses
  BY <1>1 DEF Statuses
<1>3. TypesInv /\ ticket \in Tickets /\ now \in Nat /\ ticket.status \in Statuses /\ Created
  BY DEF TimelineInv, TypesInv, Tickets, Transition, Created
<1>4. ticket' \in Tickets /\ ticket'.status = to /\ ticket'.createdAt = ticket.createdAt
      /\ ticket'.owner = ticket.owner /\ ticket'.queue = ticket.queue
  BY <1>1, <1>2, <1>3 DEF Tickets
<1>5. now' \in Nat /\ now < now' /\ now' \in now + 1 .. now'
  BY <1>3 DEF Transition, Tick
<1>6. Len(history') \in Nat /\ history' # history
  BY <1>1, <1>2, <1>3, <1>5, AppendedRow
<1> DEFINE row == Row(ticket.status, to, now')
           e == StatusEvent(TypeForTransition(to), now', Len(history'), row)
<1>7. TypeForTransition(to) \in EventTypes /\ TypeForTransition(to) # "created"
  BY DEF TypeForTransition, EventTypes
<1>8. e \in Inputs
  BY <1>2, <1>3, <1>5, <1>6, <1>7, StatusInput
<1>9. NewEvent(e) /\ "status" \in DOMAIN e.new
  BY <1>4, <1>5, <1>6, <1>7 DEF NewEvent, StatusEvent, Event, Row
<1> HIDE DEF e
<1>10. Written(<<e>>)
  BY <1>4, <1>8, <1>9, OneEvent DEF Written
<1>11. LedgerPart
  BY <1>1, <1>8, <1>10, OneEvent DEF Transition, Live, LedgerPart, e
<1>12. StatusPart /\ WorkPart
  BY <1>1, <1>4 DEF Transition, StatusPart, WorkPart
<1> QED BY <1>2, <1>3, <1>4, <1>5, <1>11, <1>12 DEF Transition, Change

LEMMA AssignTicketChanges == TimelineInv /\ AssignTicket => Change
<1> SUFFICES ASSUME TimelineInv, AssignTicket PROVE Change
  OBVIOUS
<1>1. PICK owner \in Owners \ {ticket.owner} :
        /\ ticket' = [ticket EXCEPT !.owner = owner]
        /\ audits' = Append(audits, Audit("ticket.assignment.changed", now', owner, ticket.queue))
        /\ ledger' = RecordCustody(ledger, <<OwnerEvent(now', Len(audits'), ticket.owner, owner)>>)
  BY DEF AssignTicket, Owners
<1>3. TypesInv /\ ticket \in Tickets /\ now \in Nat /\ ticket.status \in Statuses /\ Created
      /\ ticket.owner \in Owners /\ ticket.queue \in Places
  BY DEF TimelineInv, TypesInv, Tickets, AssignTicket, Created
<1>4. ticket' \in Tickets /\ ticket'.status = ticket.status /\ ticket'.createdAt = ticket.createdAt
      /\ ticket'.owner = owner /\ ticket'.queue = ticket.queue
  BY <1>1, <1>3 DEF Tickets
<1>5. now' \in Nat /\ now < now' /\ now' \in now + 1 .. now'
  BY <1>3 DEF AssignTicket, Tick
<1>6. /\ Len(audits') \in Nat /\ audits' # audits
      /\ audits'[Len(audits')].fields
           = {x \in {<<"owner", ticket.owner, owner>>, <<"queue", ticket.queue, ticket.queue>>} : x[2] # x[3]}
  <2>1. "ticket.assignment.changed" \in Actions
    BY DEF Actions
  <2> QED BY <1>1, <1>3, <1>5, <2>1, AppendedAudit
<1>7. <<"owner", ticket.owner, owner>> \in audits'[Len(audits')].fields
  BY <1>6
<1> DEFINE e == OwnerEvent(now', Len(audits'), ticket.owner, owner)
<1>8. e \in Inputs /\ e.type # "created"
  BY <1>3, <1>5, <1>6, OwnerInput
<1>9. NewEvent(e) /\ "owner" \in DOMAIN e.new
  <2>1. e.at = now' /\ e.source = Audited(Len(audits')) /\ e.prev = [owner |-> ticket.owner] /\ e.new = [owner |-> owner]
    BY DEF OwnerEvent, Event
  <2> QED BY <1>4, <1>5, <1>6, <1>7, <1>8, <2>1 DEF NewEvent
<1> HIDE DEF e
<1>10. Written(<<e>>)
  BY <1>4, <1>8, <1>9, OneEvent DEF Written, AssignTicket
<1>11. LedgerPart
  BY <1>1, <1>8, <1>10, OneEvent DEF AssignTicket, Live, LedgerPart, e
<1>12. StatusPart /\ WorkPart
  BY <1>1, <1>4 DEF AssignTicket, StatusPart, WorkPart, Actions
<1> QED BY <1>3, <1>4, <1>5, <1>11, <1>12 DEF AssignTicket, Change

LEMMA EscalateChanges == TimelineInv /\ Escalate => Change
<1> SUFFICES ASSUME TimelineInv, Escalate PROVE Change
  OBVIOUS
<1>1. PICK supervisor \in Staff :
        LET row == Row(ticket.status, "escalated", now')
            changed == supervisor # ticket.owner
        IN  /\ ticket' = [ticket EXCEPT !.status = "escalated", !.owner = supervisor]
            /\ history' = Append(history, row)
            /\ audits' = IF changed
                         THEN Append(audits, Audit("ticket.assignment.changed", now', supervisor, ticket.queue))
                         ELSE audits
            /\ ledger' = RecordCustody(ledger,
                 (IF changed THEN <<OwnerEvent(now + 1, Len(audits'), ticket.owner, supervisor)>> ELSE <<>>)
                 \o <<StatusEvent("escalated", now + 1, Len(history'), row)>>)
  BY DEF Escalate
<1>2. "escalated" \in Statuses
  BY DEF Escalate, Statuses
<1>3. TypesInv /\ ticket \in Tickets /\ now \in Nat /\ ticket.status \in Statuses /\ Created
      /\ ticket.owner \in Owners /\ ticket.queue \in Places /\ supervisor \in Owners
  BY DEF TimelineInv, TypesInv, Tickets, Escalate, Created, Owners
<1>4. ticket' \in Tickets /\ ticket'.status = "escalated" /\ ticket'.createdAt = ticket.createdAt
      /\ ticket'.owner = supervisor /\ ticket'.queue = ticket.queue
  BY <1>1, <1>2, <1>3 DEF Tickets
<1>5. now' \in Nat /\ now < now' /\ now + 1 \in now + 1 .. now' /\ now + 1 \in Nat
  BY <1>3 DEF Escalate, Tick
<1>6. Len(history') \in Nat /\ history' # history
  BY <1>1, <1>2, <1>3, <1>5, AppendedRow
<1> DEFINE row == Row(ticket.status, "escalated", now')
           e == StatusEvent("escalated", now + 1, Len(history'), row)
           o == OwnerEvent(now + 1, Len(audits'), ticket.owner, supervisor)
<1>8. e \in Inputs
  <2>1. "escalated" \in EventTypes
    BY DEF EventTypes
  <2> QED BY <1>2, <1>3, <1>5, <1>6, <2>1, StatusInput
<1>9. NewEvent(e) /\ DOMAIN e.new = {"status"}
  BY <1>4, <1>5, <1>6 DEF NewEvent, StatusEvent, Event, Row
<1>10. CASE supervisor = ticket.owner
  <2>1. <<>> \o <<e>> = <<e>>
    <3> HIDE DEF e
    <3> QED BY <1>8
  <2>2. ledger' = RecordCustody(ledger, <<e>>) /\ audits' = audits
    BY <1>1, <1>10, <2>1
  <2> HIDE DEF e
  <2>3. Written(<<e>>)
    BY <1>4, <1>8, <1>9, <1>10, OneEvent DEF Written
  <2>4. LedgerPart
    BY <1>8, <2>2, <2>3, OneEvent DEF Escalate, Live, LedgerPart
  <2>5. StatusPart /\ WorkPart
    BY <1>1, <1>4, <1>10, <2>2 DEF StatusPart, WorkPart
  <2> QED BY <1>2, <1>3, <1>4, <1>5, <2>4, <2>5 DEF Escalate, Change
<1>11. CASE supervisor # ticket.owner
  <2>1. /\ ledger' = RecordCustody(ledger, <<o>> \o <<e>>)
        /\ audits' = Append(audits, Audit("ticket.assignment.changed", now', supervisor, ticket.queue))
    BY <1>1, <1>11
  <2>2. /\ Len(audits') \in Nat /\ audits' # audits
        /\ audits'[Len(audits')].fields
             = {x \in {<<"owner", ticket.owner, supervisor>>, <<"queue", ticket.queue, ticket.queue>>} : x[2] # x[3]}
    <3>1. "ticket.assignment.changed" \in Actions
      BY DEF Actions
    <3> QED BY <1>3, <1>5, <2>1, <3>1, AppendedAudit
  <2>3. <<"owner", ticket.owner, supervisor>> \in audits'[Len(audits')].fields
    BY <1>11, <2>2
  <2>4. o \in Inputs /\ o.type # "created"
    BY <1>3, <1>5, <2>2, OwnerInput
  <2>5. NewEvent(o) /\ DOMAIN o.new = {"owner"}
    <3>1. o.at = now + 1 /\ o.source = Audited(Len(audits')) /\ o.prev = [owner |-> ticket.owner]
          /\ o.new = [owner |-> supervisor]
      BY DEF OwnerEvent, Event
    <3> QED BY <1>4, <1>5, <2>2, <2>3, <2>4, <3>1 DEF NewEvent
  <2> HIDE DEF e, o
  <2>6. Written(<<o>> \o <<e>>)
    BY <1>4, <1>8, <1>9, <2>4, <2>5, WrittenTwo
  <2>7. LedgerPart
    BY <1>8, <2>1, <2>4, <2>6, TwoEvents DEF Escalate, Live, LedgerPart
  <2>8. StatusPart /\ WorkPart
    BY <1>1, <1>4, <2>1 DEF StatusPart, WorkPart, Actions
  <2> QED BY <1>2, <1>3, <1>4, <1>5, <2>7, <2>8 DEF Escalate, Change
<1> QED BY <1>10, <1>11

LEMMA RouteTicketChanges == TimelineInv /\ RouteTicket => Change
<1> SUFFICES ASSUME TimelineInv, RouteTicket PROVE Change
  OBVIOUS
<1>1. PICK owner \in Owners, queue \in Places :
        /\ <<owner, queue>> # <<ticket.owner, ticket.queue>>
        /\ ticket' = [ticket EXCEPT !.owner = owner, !.queue = queue]
        /\ audits' = Append(audits, Audit("ticket.routing.changed", now', owner, queue))
        /\ ledger' = RecordCustody(ledger,
             (IF queue # ticket.queue THEN <<QueueEvent(now', Len(audits'), ticket.queue, queue)>> ELSE <<>>)
             \o (IF owner # ticket.owner THEN <<OwnerEvent(now', Len(audits'), ticket.owner, owner)>> ELSE <<>>))
  BY DEF RouteTicket, Owners, Places
<1>3. TypesInv /\ ticket \in Tickets /\ now \in Nat /\ ticket.status \in Statuses /\ Created
      /\ ticket.owner \in Owners /\ ticket.queue \in Places
  BY DEF TimelineInv, TypesInv, Tickets, RouteTicket, Created
<1>4. ticket' \in Tickets /\ ticket'.status = ticket.status /\ ticket'.createdAt = ticket.createdAt
      /\ ticket'.owner = owner /\ ticket'.queue = queue
  BY <1>1, <1>3 DEF Tickets
<1>5. now' \in Nat /\ now < now' /\ now' \in now + 1 .. now'
  BY <1>3 DEF RouteTicket, Tick
<1>6. /\ Len(audits') \in Nat /\ audits' # audits
      /\ audits'[Len(audits')].fields
           = {x \in {<<"owner", ticket.owner, owner>>, <<"queue", ticket.queue, queue>>} : x[2] # x[3]}
  <2>1. "ticket.routing.changed" \in Actions
    BY DEF Actions
  <2> QED BY <1>1, <1>3, <1>5, <2>1, AppendedAudit
<1> DEFINE o == OwnerEvent(now', Len(audits'), ticket.owner, owner)
           q == QueueEvent(now', Len(audits'), ticket.queue, queue)
<1>7. o \in Inputs /\ o.type # "created" /\ q \in Inputs /\ q.type # "created"
  BY <1>3, <1>5, <1>6, OwnerInput, QueueInput
<1>8. /\ o.at = now' /\ o.source = Audited(Len(audits')) /\ o.prev = [owner |-> ticket.owner]
      /\ o.new = [owner |-> owner] /\ DOMAIN o.new = {"owner"}
      /\ q.at = now' /\ q.source = Audited(Len(audits')) /\ q.prev = [queue |-> ticket.queue]
      /\ q.new = [queue |-> queue] /\ DOMAIN q.new = {"queue"}
  BY DEF OwnerEvent, QueueEvent, Event
<1> HIDE DEF o, q
<1>9. owner # ticket.owner => NewEvent(o)
  BY <1>4, <1>5, <1>6, <1>7, <1>8 DEF NewEvent
<1>10. queue # ticket.queue => NewEvent(q)
  BY <1>4, <1>5, <1>6, <1>7, <1>8 DEF NewEvent
<1>11. history' = history
  BY DEF RouteTicket
<1>12. \E inputs \in Seq(Inputs) : Written(inputs) /\ ledger' = RecordCustody(ledger, inputs)
  <2>1. CASE queue # ticket.queue /\ owner # ticket.owner
    <3>1. ledger' = RecordCustody(ledger, <<q>> \o <<o>>)
      BY <1>1, <2>1 DEF o, q
    <3>3. Written(<<q>> \o <<o>>)
      BY <1>7, <1>8, <1>9, <1>10, <1>11, <2>1, WrittenTwo
    <3> QED BY <1>7, <3>1, <3>3, TwoEvents
  <2>2. CASE queue # ticket.queue /\ owner = ticket.owner
    <3>1. ledger' = RecordCustody(ledger, <<q>> \o <<>>)
      BY <1>1, <2>2 DEF q
    <3>2. <<q>> \o <<>> = <<q>>
      BY <1>7
    <3>3. Written(<<q>>)
      BY <1>4, <1>7, <1>8, <1>10, <1>11, <2>2, OneEvent DEF Written
    <3> QED BY <1>7, <3>1, <3>2, <3>3, OneEvent
  <2>3. CASE queue = ticket.queue
    <3>1. owner # ticket.owner
      BY <1>1, <2>3
    <3>2. ledger' = RecordCustody(ledger, <<>> \o <<o>>)
      BY <1>1, <2>3, <3>1 DEF o
    <3>3. <<>> \o <<o>> = <<o>>
      BY <1>7
    <3>4. Written(<<o>>)
      BY <1>4, <1>7, <1>8, <1>9, <1>11, <2>3, <3>1, OneEvent DEF Written
    <3> QED BY <1>7, <3>2, <3>3, <3>4, OneEvent
  <2> QED BY <2>1, <2>2, <2>3
<1>13. StatusPart /\ WorkPart /\ LedgerPart
  BY <1>1, <1>4, <1>11, <1>12 DEF StatusPart, WorkPart, Actions, RouteTicket, Live, LedgerPart
<1> QED BY <1>3, <1>4, <1>5, <1>13 DEF RouteTicket, Change

-----------------------------------------------------------------------------
(* A transaction keeps the types, the rows and the deployment.             *)
LEMMA GrownAt ==
  ASSUME NEW l \in Seq(LedgerRows), NEW m, NEW inputs \in Seq(Inputs), Grown(l, m, inputs),
         NEW j \in 1 .. Len(m)
  PROVE  \/ j \in 1 .. Len(l) /\ m[j] = l[j]
         \/ /\ j \in Len(l) + 1 .. Len(m)
            /\ \E i \in 1 .. Len(inputs) : j = Len(l) + i /\ SameEvent(m[j], inputs[i])
<1>1. CASE j <= Len(l)
  BY <1>1 DEF Grown
<1>2. CASE ~(j <= Len(l))
  <2>1. j - Len(l) \in 1 .. Len(inputs) /\ j = Len(l) + (j - Len(l)) /\ j \in Len(l) + 1 .. Len(m)
    BY <1>2 DEF Grown
  <2> QED BY <2>1 DEF Grown
<1> QED BY <1>1, <1>2

LEMMA ChangeLedger ==
  ASSUME TimelineInv, Change
  PROVE  \/ ledger' = ledger /\ ledger = <<>>
         \/ \E inputs \in Seq(Inputs) : Written(inputs) /\ Grown(ledger, ledger', inputs)
<1>1. CASE app = "old" /\ ledger' = ledger
  BY <1>1 DEF TimelineInv, DeploymentInv
<1>2. CASE \E inputs \in Seq(Inputs) : Written(inputs) /\ ledger' = RecordCustody(ledger, inputs)
  <2>1. PICK inputs \in Seq(Inputs) : Written(inputs) /\ ledger' = RecordCustody(ledger, inputs)
    BY <1>2
  <2>2. ledger \in Seq(LedgerRows) /\ VerifyCustodyChain(ledger)
    BY DEF TimelineInv, TypesInv
  <2>3. Grown(ledger, ledger', inputs)
    BY <2>1, <2>2, Recorded
  <2> QED BY <2>1, <2>3
<1> QED BY <1>1, <1>2 DEF Change, LedgerPart

LEMMA ChangeRows ==
  ASSUME TimelineInv, Change
  PROVE  /\ history' \in Seq(HistoryRows) /\ audits' \in Seq(AuditRows)
         /\ Len(history) <= Len(history') /\ Len(audits) <= Len(audits')
         /\ \A h \in 1 .. Len(history) : h \in 1 .. Len(history') /\ history'[h] = history[h]
         /\ \A a \in 1 .. Len(audits) : a \in 1 .. Len(audits') /\ audits'[a] = audits[a]
<1>1. TypesInv /\ Created /\ now' \in Nat /\ ticket'.status \in Statuses
      /\ ticket'.owner \in Owners /\ ticket'.queue \in Places
  BY DEF TimelineInv, Change, Tickets
<1>2. history \in Seq(HistoryRows) /\ audits \in Seq(AuditRows)
  BY <1>1 DEF TypesInv
<1>3. /\ history' \in Seq(HistoryRows) /\ Len(history) <= Len(history')
      /\ \A h \in 1 .. Len(history) : h \in 1 .. Len(history') /\ history'[h] = history[h]
  <2>1. CASE history' = history
    BY <1>2, <2>1
  <2>2. CASE history' = Append(history, Row(ticket.status, ticket'.status, now'))
    <3>1. /\ history' \in Seq(HistoryRows) /\ Len(history') = Len(history) + 1
          /\ \A h \in 1 .. Len(history) : history'[h] = history[h]
      BY <1>1, <2>2, AppendedRow
    <3> QED BY <1>2, <3>1
  <2> QED BY <2>1, <2>2 DEF Change, StatusPart
<1>4. /\ audits' \in Seq(AuditRows) /\ Len(audits) <= Len(audits')
      /\ \A a \in 1 .. Len(audits) : a \in 1 .. Len(audits') /\ audits'[a] = audits[a]
  <2>1. CASE audits' = audits
    BY <1>2, <2>1
  <2>2. CASE \E action \in Actions \ {"ticket.created"} :
               audits' = Append(audits, Audit(action, now', ticket'.owner, ticket'.queue))
    <3>1. PICK action \in Actions : audits' = Append(audits, Audit(action, now', ticket'.owner, ticket'.queue))
      BY <2>2
    <3>2. /\ audits' \in Seq(AuditRows) /\ Len(audits') = Len(audits) + 1
          /\ \A a \in 1 .. Len(audits) : audits'[a] = audits[a]
      BY <1>1, <3>1, AppendedAudit
    <3> QED BY <1>2, <3>2
  <2> QED BY <2>1, <2>2 DEF Change, WorkPart
<1> QED BY <1>3, <1>4

LEMMA ChangeTypes ==
  ASSUME TimelineInv, Change
  PROVE  TypesInv' /\ DeploymentInv' /\ VerifyCustodyChain(ledger')
<1>1. TypesInv /\ DeploymentInv /\ VerifyCustodyChain(ledger)
  BY DEF TimelineInv
<1>2. ledger' \in Seq(LedgerRows) /\ VerifyCustodyChain(ledger') /\ (ledger' = <<>> => ledger' = ledger /\ app = "old")
  <2>1. CASE app = "old" /\ ledger' = ledger
    BY <1>1, <2>1 DEF TypesInv
  <2>2. CASE \E inputs \in Seq(Inputs) : Written(inputs) /\ ledger' = RecordCustody(ledger, inputs)
    <3>1. PICK inputs \in Seq(Inputs) : Written(inputs) /\ ledger' = RecordCustody(ledger, inputs)
      BY <2>2
    <3>2. ledger \in Seq(LedgerRows)
      BY <1>1 DEF TypesInv
    <3>3. Grown(ledger, ledger', inputs)
      BY <1>1, <3>1, <3>2, Recorded
    <3>4. Len(ledger') # 0
      BY <3>1, <3>2, <3>3 DEF Grown, Written
    <3>5. ledger' # <<>>
      BY <3>4
    <3> QED BY <3>3, <3>5 DEF Grown
  <2> QED BY <2>1, <2>2 DEF Change, LedgerPart
<1>3. TypesInv'
  BY <1>1, <1>2, ChangeRows DEF TypesInv, Change, system
<1>4. DeploymentInv'
  <2>1. app' = app /\ schema' = schema /\ reading' = reading /\ sweep' = sweep
    BY DEF Change, system
  <2>2. app = "old" => ledger' = ledger
    BY DEF Change, LedgerPart
  <2> QED BY <1>1, <1>2, <2>1, <2>2 DEF DeploymentInv
<1> QED BY <1>2, <1>3, <1>4

LEMMA ChangeHistory ==
  ASSUME TimelineInv, Change
  PROVE  HistoryInv' /\ (history' # history => Len(history') = Len(history) + 1
                                               /\ history'[Len(history')] = Row(ticket.status, ticket'.status, now'))
<1>1. /\ TypesInv /\ HistoryInv /\ Created /\ Created'
      /\ now \in Nat /\ now' \in Nat /\ now < now' /\ ticket'.createdAt = ticket.createdAt
      /\ ticket.createdAt \in Nat /\ ticket'.status \in Statuses
  BY NoStatusIsNobody DEF TimelineInv, TypesInv, Tickets, Change, Created
<1>2. history \in Seq(HistoryRows) /\ \A h \in 1 .. Len(history) : history[h].at \in Nat
  <2>1. history \in Seq(HistoryRows)
    BY <1>1 DEF TypesInv
  <2>2. \A h \in 1 .. Len(history) : history[h] \in HistoryRows
    BY <2>1
  <2> QED BY <2>1, <2>2 DEF HistoryRows
<1>3. CASE history' = history /\ ticket'.status = ticket.status
  <2>1. HistoryInv'
    BY <1>1, <1>2, <1>3 DEF HistoryInv, Created
  <2> QED BY <1>3, <2>1
<1>4. CASE history' = Append(history, Row(ticket.status, ticket'.status, now'))
  <2> DEFINE n == Len(history)
  <2>1. /\ Len(history') = n + 1 /\ n \in Nat /\ history' # <<>>
        /\ \A h \in 1 .. n : history'[h] = history[h]
        /\ history'[n + 1].from = ticket.status /\ history'[n + 1].to = ticket'.status
        /\ history'[n + 1].at = now' /\ history'[n + 1] = Row(ticket.status, ticket'.status, now')
    <3>1. history' \in Seq(HistoryRows) /\ Len(history') = n + 1
          /\ (\A h \in 1 .. n : history'[h] = history[h])
          /\ history'[Len(history')] = Row(ticket.status, ticket'.status, now')
      BY <1>1, <1>4, AppendedRow
    <3> QED BY <1>2, <3>1 DEF Row
  <2>2. \A h \in 1 .. n + 1 : h \in 1 .. n \/ h = n + 1
    BY <2>1
  <2>3. \A h \in 1 .. Len(history') : history'[h].at <= now'
    BY <1>1, <1>2, <2>1, <2>2 DEF HistoryInv
  <2>4. \A g, h \in 1 .. Len(history') : g < h => history'[g].at < history'[h].at
    <3> SUFFICES ASSUME NEW g \in 1 .. n + 1, NEW h \in 1 .. n + 1, g < h
                 PROVE  history'[g].at < history'[h].at
      BY <2>1
    <3>1. g \in 1 .. n /\ (h \in 1 .. n \/ h = n + 1)
      BY <2>1
    <3> QED BY <1>1, <1>2, <2>1, <3>1 DEF HistoryInv
  <2>5. ticket.status = IF n = 0 THEN Initial ELSE history[n].to
    BY <1>1, <1>2 DEF HistoryInv
  <2>6. \A h \in 1 .. Len(history') :
          IF h = 1 THEN history'[1].from \in {Nobody, Initial} ELSE history'[h].from = history'[h - 1].to
    <3> SUFFICES ASSUME NEW h \in 1 .. n + 1
                 PROVE  IF h = 1 THEN history'[1].from \in {Nobody, Initial}
                        ELSE history'[h].from = history'[h - 1].to
      BY <2>1
    <3>1. CASE h \in 1 .. n
      <4>1. history'[h] = history[h] /\ (h # 1 => history'[h - 1] = history[h - 1])
        BY <2>1, <3>1
      <4> QED BY <1>1, <3>1, <4>1 DEF HistoryInv
    <3>2. CASE h = n + 1
      <4>1. n # 0 => h # 1 /\ h - 1 = n /\ n \in 1 .. n
        BY <2>1, <3>2
      <4>2. n = 0 => h = 1
        BY <3>2
      <4> QED BY <2>1, <2>5, <3>2, <4>1, <4>2
    <3> QED BY <2>2, <3>1, <3>2
  <2>7. IF history'[1].from = Nobody THEN history'[1].to = Initial /\ history'[1].at = ticket'.createdAt
        ELSE ticket'.createdAt < history'[1].at
    <3>1. CASE n = 0
      BY <1>1, <2>1, <2>5, <3>1, TimelineAssumption DEF HistoryInv
    <3>2. CASE n # 0
      <4>1. history'[1] = history[1] /\ history # <<>>
        BY <1>2, <2>1, <3>2
      <4> QED BY <1>1, <4>1 DEF HistoryInv
    <3> QED BY <3>1, <3>2
  <2>8. ticket'.createdAt <= now'
    BY <1>1 DEF HistoryInv
  <2> HIDE DEF n
  <2>9. HistoryInv'
    BY <1>1, <2>1, <2>3, <2>4, <2>6, <2>7, <2>8 DEF HistoryInv
  <2> QED BY <2>1, <2>9 DEF n
<1> QED BY <1>3, <1>4 DEF Change, StatusPart

LEMMA ChangeAudits ==
  ASSUME TimelineInv, Change
  PROVE  /\ AuditInv'
         /\ audits' # audits =>
              /\ Len(audits') = Len(audits) + 1
              /\ audits'[Len(audits')].fields
                   = {x \in {<<"owner", ticket.owner, ticket'.owner>>, <<"queue", ticket.queue, ticket'.queue>>} :
                        x[2] # x[3]}
<1>1. /\ TypesInv /\ HistoryInv /\ AuditInv /\ Created
      /\ now \in Nat /\ now' \in Nat /\ now < now' /\ ticket'.createdAt = ticket.createdAt
      /\ ticket.createdAt \in Nat /\ ticket'.owner \in Owners /\ ticket'.queue \in Places
      /\ ticket.createdAt <= now
  BY DEF TimelineInv, TypesInv, Tickets, Change, HistoryInv
<1>2. audits \in Seq(AuditRows) /\ \A a \in 1 .. Len(audits) : audits[a].at \in Nat
  <2>1. audits \in Seq(AuditRows)
    BY <1>1 DEF TypesInv
  <2>2. \A a \in 1 .. Len(audits) : audits[a] \in AuditRows
    BY <2>1
  <2> QED BY <2>1, <2>2 DEF AuditRows
<1>3. CASE audits' = audits /\ ticket'.owner = ticket.owner /\ ticket'.queue = ticket.queue
  <2>1. /\ \A a \in 1 .. Len(audits') : audits'[a].at <= now'
        /\ AuditTells(audits', Len(audits'), "owner", ticket'.owner)
        /\ AuditTells(audits', Len(audits'), "queue", ticket'.queue)
    BY <1>1, <1>2, <1>3 DEF AuditInv
  <2>2. AuditInv'
    BY <1>1, <1>3, <2>1 DEF AuditInv
  <2> QED BY <1>3, <2>2
<1>4. CASE \E action \in Actions \ {"ticket.created"} :
             audits' = Append(audits, Audit(action, now', ticket'.owner, ticket'.queue))
  <2> DEFINE n == Len(audits)
             new == {x \in {<<"owner", ticket.owner, ticket'.owner>>, <<"queue", ticket.queue, ticket'.queue>>} :
                       x[2] # x[3]}
  <2>1. PICK action \in Actions \ {"ticket.created"} :
          audits' = Append(audits, Audit(action, now', ticket'.owner, ticket'.queue))
    BY <1>4
  <2>2. /\ Len(audits') = n + 1 /\ n \in Nat
        /\ \A a \in 1 .. n : audits'[a] = audits[a]
        /\ audits'[n + 1].action = action /\ audits'[n + 1].at = now'
        /\ audits'[n + 1].fields = new
    <3>1. /\ Len(audits') = n + 1
          /\ \A a \in 1 .. n : audits'[a] = audits[a]
          /\ audits'[Len(audits')] = Audit(action, now', ticket'.owner, ticket'.queue)
          /\ audits'[Len(audits')].fields = new
      BY <1>1, <2>1, AppendedAudit
    <3> QED BY <1>2, <3>1 DEF Audit
  <2>3. \A a \in 1 .. n + 1 : a \in 1 .. n \/ a = n + 1
    BY <2>2
  <2>4. \A f \in new : \/ f = <<"owner", ticket.owner, ticket'.owner>> /\ ticket.owner # ticket'.owner
                       \/ f = <<"queue", ticket.queue, ticket'.queue>> /\ ticket.queue # ticket'.queue
    OBVIOUS
  <2>5. /\ ticket.owner # ticket'.owner => <<"owner", ticket.owner, ticket'.owner>> \in new
        /\ ticket.queue # ticket'.queue => <<"queue", ticket.queue, ticket'.queue>> \in new
    OBVIOUS
  <2> HIDE DEF new
  <2>6. \A a \in 1 .. Len(audits') : audits'[a].at <= now'
    BY <1>1, <1>2, <2>2, <2>3 DEF AuditInv
  <2>7. \A a, b \in 1 .. Len(audits') : a < b => audits'[a].at < audits'[b].at
    <3> SUFFICES ASSUME NEW a \in 1 .. n + 1, NEW b \in 1 .. n + 1, a < b
                 PROVE  audits'[a].at < audits'[b].at
      BY <2>2
    <3>1. a \in 1 .. n /\ (b \in 1 .. n \/ b = n + 1)
      BY <2>2
    <3> QED BY <1>1, <1>2, <2>2, <3>1 DEF AuditInv
  <2>8. \A a \in 1 .. Len(audits') :
          IF audits'[a].action = "ticket.created"
          THEN a = 1 /\ audits'[a].fields = {} /\ audits'[a].at = ticket'.createdAt
          ELSE ticket'.createdAt < audits'[a].at
    <3> SUFFICES ASSUME NEW a \in 1 .. n + 1
                 PROVE  IF audits'[a].action = "ticket.created"
                        THEN a = 1 /\ audits'[a].fields = {} /\ audits'[a].at = ticket'.createdAt
                        ELSE ticket'.createdAt < audits'[a].at
      BY <2>2
    <3>1. CASE a \in 1 .. n
      BY <1>1, <2>2, <3>1 DEF AuditInv
    <3>2. CASE a = n + 1
      BY <1>1, <2>1, <2>2, <3>2
    <3> QED BY <2>3, <3>1, <3>2
  <2>9. \A a \in 1 .. Len(audits') : \A f, g \in audits'[a].fields : f[1] = g[1] => f = g
    <3> SUFFICES ASSUME NEW a \in 1 .. n + 1
                 PROVE  \A f, g \in audits'[a].fields : f[1] = g[1] => f = g
      BY <2>2
    <3>1. CASE a \in 1 .. n
      BY <1>1, <2>2, <3>1 DEF AuditInv
    <3>2. CASE a = n + 1
      BY <2>2, <2>4, <3>2
    <3> QED BY <2>3, <3>1, <3>2
  <2>10. ASSUME NEW a \in 0 .. n, NEW x, NEW v, AuditTells(audits, a, x, v)
         PROVE  AuditTells(audits', a, x, v)
    <3> SUFFICES ASSUME NEW b \in 1 .. a, NEW f \in audits'[b].fields, f[1] = x,
                        \A c \in b + 1 .. a : ~Touches(audits'[c], x)
                 PROVE  f[3] = v
      BY DEF AuditTells
    <3>1. audits'[b] = audits[b] /\ \A c \in b + 1 .. a : audits'[c] = audits[c]
      BY <2>2
    <3>2. \A c \in b + 1 .. a : ~Touches(audits[c], x)
      BY <3>1, Zenon
    <3> QED BY <2>10, <3>1, <3>2 DEF AuditTells
  <2>11. \A a \in 1 .. Len(audits') : \A f \in audits'[a].fields : AuditTells(audits', a - 1, f[1], f[2])
    <3> SUFFICES ASSUME NEW a \in 1 .. n + 1, NEW f \in audits'[a].fields
                 PROVE  AuditTells(audits', a - 1, f[1], f[2])
      BY <2>2
    <3>1. CASE a \in 1 .. n
      <4>1. a - 1 \in 0 .. n /\ audits'[a] = audits[a]
        BY <2>2, <3>1
      <4>2. AuditTells(audits, a - 1, f[1], f[2])
        BY <1>1, <3>1, <4>1 DEF AuditInv
      <4> QED BY <2>10, <4>1, <4>2
    <3>2. CASE a = n + 1
      <4>1. a - 1 = n /\ n \in 0 .. n
        BY <2>2, <3>2
      <4>2. AuditTells(audits, n, f[1], f[2])
        BY <1>1, <2>2, <2>4, <3>2 DEF AuditInv
      <4> QED BY <2>10, <4>1, <4>2
    <3> QED BY <2>3, <3>1, <3>2
  <2>12. ASSUME NEW x, NEW v, NEW w, AuditTells(audits, n, x, v),
                \A f \in new : f[1] = x => f[3] = w, v # w => \E f \in new : f[1] = x
         PROVE  AuditTells(audits', n + 1, x, w)
    <3> SUFFICES ASSUME NEW b \in 1 .. n + 1, NEW f \in audits'[b].fields, f[1] = x,
                        \A c \in b + 1 .. n + 1 : ~Touches(audits'[c], x)
                 PROVE  f[3] = w
      BY DEF AuditTells
    <3>1. CASE b = n + 1
      BY <2>2, <2>12, <3>1
    <3>2. CASE b \in 1 .. n
      <4>1. n + 1 \in b + 1 .. n + 1
        BY <2>2, <3>2
      <4>2. ~\E g \in new : g[1] = x
        BY <2>2, <4>1 DEF Touches
      <4>3. \A c \in b + 1 .. n : ~Touches(audits'[c], x)
        BY <2>2, <3>2
      <4>4. n \in 0 .. n
        BY <2>2
      <4>5. AuditTells(audits', n, x, v)
        BY <2>10, <2>12, <4>4
      <4> QED BY <2>12, <3>2, <4>2, <4>3, <4>5 DEF AuditTells
    <3> QED BY <2>3, <3>1, <3>2
  <2>13. AuditTells(audits', Len(audits'), "owner", ticket'.owner)
    <3>1. AuditTells(audits, n, "owner", ticket.owner)
      BY <1>1 DEF AuditInv
    <3>2. /\ \A f \in new : f[1] = "owner" => f[3] = ticket'.owner
          /\ ticket.owner # ticket'.owner => \E f \in new : f[1] = "owner"
      BY <2>4, <2>5
    <3> QED BY <2>2, <2>12, <3>1, <3>2
  <2>14. AuditTells(audits', Len(audits'), "queue", ticket'.queue)
    <3>1. AuditTells(audits, n, "queue", ticket.queue)
      BY <1>1 DEF AuditInv
    <3>2. /\ \A f \in new : f[1] = "queue" => f[3] = ticket'.queue
          /\ ticket.queue # ticket'.queue => \E f \in new : f[1] = "queue"
      BY <2>4, <2>5
    <3> QED BY <2>2, <2>12, <3>1, <3>2
  <2> HIDE DEF n
  <2>15. AuditInv'
    BY <2>6, <2>7, <2>8, <2>9, <2>11, <2>13, <2>14 DEF AuditInv
  <2> QED BY <2>2, <2>15 DEF n, new
<1> QED BY <1>3, <1>4 DEF Change, WorkPart

-----------------------------------------------------------------------------
(* A transaction keeps the events and what they stand for.                 *)
LEMMA LedgerGrows ==
  ASSUME TimelineInv, Change
  PROVE  \/ ledger' = ledger /\ ledger = <<>>
         \/ /\ Len(ledger) < Len(ledger')
            /\ \A j \in 1 .. Len(ledger) : ledger'[j] = ledger[j]
            /\ \A j \in Len(ledger) + 1 .. Len(ledger') : NewEvent(ledger'[j])
            /\ \A i, j \in Len(ledger) + 1 .. Len(ledger') :
                 DOMAIN ledger'[i].new \cap DOMAIN ledger'[j].new # {} => i = j
            /\ history' # history =>
                 \E j \in Len(ledger) + 1 .. Len(ledger') : "status" \in DOMAIN ledger'[j].new
            /\ ticket'.owner # ticket.owner =>
                 \E j \in Len(ledger) + 1 .. Len(ledger') : "owner" \in DOMAIN ledger'[j].new
            /\ ticket'.queue # ticket.queue =>
                 \E j \in Len(ledger) + 1 .. Len(ledger') : "queue" \in DOMAIN ledger'[j].new
<1> SUFFICES ASSUME NEW inputs \in Seq(Inputs), Written(inputs), Grown(ledger, ledger', inputs)
             PROVE  /\ Len(ledger) < Len(ledger')
                    /\ \A j \in 1 .. Len(ledger) : ledger'[j] = ledger[j]
                    /\ \A j \in Len(ledger) + 1 .. Len(ledger') : NewEvent(ledger'[j])
                    /\ \A i, j \in Len(ledger) + 1 .. Len(ledger') :
                         DOMAIN ledger'[i].new \cap DOMAIN ledger'[j].new # {} => i = j
                    /\ history' # history =>
                         \E j \in Len(ledger) + 1 .. Len(ledger') : "status" \in DOMAIN ledger'[j].new
                    /\ ticket'.owner # ticket.owner =>
                         \E j \in Len(ledger) + 1 .. Len(ledger') : "owner" \in DOMAIN ledger'[j].new
                    /\ ticket'.queue # ticket.queue =>
                         \E j \in Len(ledger) + 1 .. Len(ledger') : "queue" \in DOMAIN ledger'[j].new
  BY ChangeLedger
<1> DEFINE k == Len(ledger)
           n == Len(inputs)
<1>1. /\ k \in Nat /\ n \in Nat /\ n # 0 /\ Len(ledger') = k + n
      /\ \A j \in 1 .. k : ledger'[j] = ledger[j]
      /\ \A i \in 1 .. n : SameEvent(ledger'[k + i], inputs[i])
  BY DEF Grown, Written, TimelineInv, TypesInv
<1>2. ASSUME NEW j \in k + 1 .. k + n
      PROVE  \E i \in 1 .. n : j = k + i /\ NewEvent(ledger'[j]) /\ ledger'[j].new = inputs[i].new
  <2>1. j - k \in 1 .. n /\ j = k + (j - k)
    BY <1>1
  <2>2. SameEvent(ledger'[j], inputs[j - k])
    BY <1>1, <2>1
  <2>3. NewEvent(inputs[j - k])
    BY <2>1 DEF Written
  <2>4. NewEvent(ledger'[j]) /\ ledger'[j].new = inputs[j - k].new
    BY <2>2, <2>3 DEF SameEvent, NewEvent
  <2> QED BY <2>1, <2>4
<1>3. \A i, j \in k + 1 .. k + n : DOMAIN ledger'[i].new \cap DOMAIN ledger'[j].new # {} => i = j
  <2> SUFFICES ASSUME NEW i \in k + 1 .. k + n, NEW j \in k + 1 .. k + n,
                      DOMAIN ledger'[i].new \cap DOMAIN ledger'[j].new # {}
               PROVE  i = j
    OBVIOUS
  <2>1. PICK p \in 1 .. n : i = k + p /\ ledger'[i].new = inputs[p].new
    BY <1>2
  <2>2. PICK q \in 1 .. n : j = k + q /\ ledger'[j].new = inputs[q].new
    BY <1>2
  <2>3. p = q
    BY <2>1, <2>2 DEF Written
  <2> QED BY <2>1, <2>2, <2>3
<1>4. ASSUME NEW x, \E i \in 1 .. n : x \in DOMAIN inputs[i].new
      PROVE  \E j \in k + 1 .. k + n : x \in DOMAIN ledger'[j].new
  <2>1. PICK i \in 1 .. n : x \in DOMAIN inputs[i].new
    BY <1>4
  <2>2. k + i \in k + 1 .. k + n /\ ledger'[k + i].new = inputs[i].new
    BY <1>1 DEF SameEvent
  <2> QED BY <2>1, <2>2
<1>5. k < k + n
  BY <1>1
<1> QED BY <1>1, <1>2, <1>3, <1>4, <1>5 DEF Written

LEMMA StandsStill ==
  ASSUME NEW H \in Seq(HistoryRows), NEW J \in Seq(HistoryRows),
         NEW A \in Seq(AuditRows), NEW B \in Seq(AuditRows), NEW T, NEW U,
         \A h \in 1 .. Len(H) : h \in 1 .. Len(J) /\ J[h] = H[h],
         \A a \in 1 .. Len(A) : a \in 1 .. Len(B) /\ B[a] = A[a],
         U.createdAt = T.createdAt, Creations(H) = {} => Creations(J) = {},
         NEW e, Stands(e, H, A, T)
  PROVE  Stands(e, J, B, U)
<1>1. CASE \E h \in 1 .. Len(H) : StandsForRow(e, h, H, T)
  <2>1. PICK h \in 1 .. Len(H) : StandsForRow(e, h, H, T)
    BY <1>1
  <2>2. h \in 1 .. Len(J) /\ J[h] = H[h] /\ \A g \in 1 .. h - 1 : J[g] = H[g]
    <3>1. \A g \in 1 .. h - 1 : g \in 1 .. Len(H)
      OBVIOUS
    <3> QED BY <3>1
  <2>3. StandsForRow(e, h, J, U)
    BY <2>1, <2>2 DEF StandsForRow
  <2> QED BY <2>2, <2>3 DEF Stands
<1>2. CASE StandsForCreation(e, H, A, T)
  <2>1. A # <<>> => B # <<>> /\ B[1] = A[1]
    <3> SUFFICES ASSUME A # <<>> PROVE B # <<>> /\ B[1] = A[1]
      OBVIOUS
    <3>1. 1 \in 1 .. Len(A)
      OBVIOUS
    <3> QED BY <3>1
  <2>2. StandsForCreation(e, J, B, U)
    BY <1>2, <2>1 DEF StandsForCreation
  <2> QED BY <2>2 DEF Stands
<1>3. CASE \E a \in 1 .. Len(A) : \E f \in A[a].fields : StandsForField(e, a, f)
  BY <1>3 DEF Stands
<1>4. CASE StandsForClock(e)
  BY <1>4 DEF Stands
<1> QED BY <1>1, <1>2, <1>3, <1>4 DEF Stands

(* What the source of an event says.                                       *)
LEMMA SourceTells ==
  ASSUME NEW H \in Seq(HistoryRows), NEW A \in Seq(AuditRows), NEW T, NEW e, Stands(e, H, A, T)
  PROVE  /\ \A h : e.source = Transitioned(h) => h \in 1 .. Len(H)
         /\ \A a : e.source = Audited(a) => a \in 1 .. Len(A)
         /\ IsClock(e) <=> StandsForClock(e)
<1>1. CASE \E h \in 1 .. Len(H) : StandsForRow(e, h, H, T)
  BY <1>1 DEF StandsForRow, StandsForClock, IsClock, Transitioned, Audited
<1>2. CASE StandsForCreation(e, H, A, T)
  <2>1. A # <<>> => 1 \in 1 .. Len(A)
    OBVIOUS
  <2>2. CASE e.source = <<>>
    BY <1>2, <2>2 DEF StandsForClock, IsClock, Transitioned, Audited
  <2>3. CASE e.source = Audited(1) /\ A # <<>>
    BY <2>1, <2>3 DEF StandsForClock, IsClock, Transitioned, Audited
  <2> QED BY <1>2, <2>2, <2>3 DEF StandsForCreation
<1>3. CASE \E a \in 1 .. Len(A) : \E f \in A[a].fields : StandsForField(e, a, f)
  BY <1>3 DEF StandsForField, StandsForClock, IsClock, Transitioned, Audited
<1>4. CASE StandsForClock(e)
  BY <1>4 DEF StandsForClock, IsClock, Transitioned, Audited
<1> QED BY <1>1, <1>2, <1>3, <1>4 DEF Stands

LEMMA NewEventStands ==
  ASSUME TimelineInv, Change, NEW e, NewEvent(e)
  PROVE  Stands(e, history', audits', ticket') /\ e.at <= now' /\ ~IsClock(e)
<1>1. /\ HistoryInv /\ now \in Nat /\ now' \in Nat /\ Created
      /\ ticket'.createdAt = ticket.createdAt /\ ticket.createdAt \in Nat /\ ticket.createdAt <= now
      /\ history \in Seq(HistoryRows)
  BY DEF TimelineInv, TypesInv, Tickets, Change, HistoryInv
<1>2. e.at \in Nat /\ now < e.at /\ e.at <= now' /\ e.type # "created"
  BY <1>1 DEF NewEvent
<1>3. CASE /\ history' # history /\ e.source = Transitioned(Len(history'))
           /\ e.prev = [status |-> ticket.status] /\ e.new = [status |-> ticket'.status]
  <2> DEFINE n == Len(history')
  <2>1. n = Len(history) + 1 /\ history'[n] = Row(ticket.status, ticket'.status, now')
    BY <1>3, ChangeHistory
  <2>2. \A g \in 1 .. n - 1 : history'[g].at \in Nat /\ history'[g].at <= now
    <3>1. \A g \in 1 .. Len(history) : history'[g] = history[g]
      BY ChangeRows
    <3>2. \A g \in 1 .. Len(history) : history[g] \in HistoryRows
      BY <1>1
    <3>3. \A g \in 1 .. n - 1 : g \in 1 .. Len(history)
      BY <1>1, <2>1
    <3> QED BY <1>1, <3>1, <3>2, <3>3 DEF HistoryInv, HistoryRows
  <2>3. n \in 1 .. Len(history')
    BY <1>1, <2>1
  <2>4. /\ e.new = [status |-> history'[n].to] /\ e.at <= history'[n].at /\ history'[n].from # Nobody
    BY <1>1, <1>2, <1>3, <2>1 DEF Row, Created
  <2>5. StandsForRow(e, n, history', ticket')
    <3> HIDE DEF n
    <3>1. \A g \in 1 .. n - 1 : history'[g].at < e.at
      BY <1>1, <1>2, <2>2
    <3> QED BY <1>1, <1>2, <1>3, <2>4, <3>1 DEF StandsForRow, n
  <2> QED BY <1>2, <1>3, <2>3, <2>5 DEF Stands, IsClock, Transitioned
<1>4. ASSUME NEW f \in audits'[Len(audits')].fields, audits' # audits, e.source = Audited(Len(audits')),
             DOMAIN e.new = {f[1]}, DOMAIN e.prev = {f[1]}
      PROVE  Stands(e, history', audits', ticket') /\ ~IsClock(e)
  <2>1. Len(audits') \in 1 .. Len(audits')
    <3>1. Len(audits') = Len(audits) + 1 /\ Len(audits) \in Nat
      BY <1>4, ChangeAudits DEF TimelineInv, TypesInv
    <3> QED BY <3>1
  <2>2. StandsForField(e, Len(audits'), f)
    BY <1>2, <1>4 DEF StandsForField
  <2> QED BY <1>4, <2>1, <2>2 DEF Stands, IsClock, Audited
<1>5. CASE /\ <<"owner", ticket.owner, ticket'.owner>> \in audits'[Len(audits')].fields
           /\ audits' # audits /\ e.source = Audited(Len(audits'))
           /\ e.prev = [owner |-> ticket.owner] /\ e.new = [owner |-> ticket'.owner]
  BY <1>2, <1>4, <1>5
<1>6. CASE /\ <<"queue", ticket.queue, ticket'.queue>> \in audits'[Len(audits')].fields
           /\ audits' # audits /\ e.source = Audited(Len(audits'))
           /\ e.prev = [queue |-> ticket.queue] /\ e.new = [queue |-> ticket'.queue]
  BY <1>2, <1>4, <1>6
<1> QED BY <1>2, <1>3, <1>5, <1>6 DEF NewEvent

LEMMA ChangeEvents ==
  ASSUME TimelineInv, Change
  PROVE  EventsInv'
<1>1. /\ EventsInv /\ now \in Nat /\ now' \in Nat /\ now < now' /\ Created
      /\ history \in Seq(HistoryRows) /\ audits \in Seq(AuditRows)
      /\ history' \in Seq(HistoryRows) /\ audits' \in Seq(AuditRows)
      /\ ledger \in Seq(LedgerRows) /\ ledger' \in Seq(LedgerRows)
      /\ ticket'.createdAt = ticket.createdAt
  BY ChangeTypes DEF TimelineInv, TypesInv, Change
<1>2. Creations(history) = {} => Creations(history') = {}
  <2> SUFFICES ASSUME Creations(history) = {}, NEW h \in Creations(history') PROVE FALSE
    OBVIOUS
  <2>1. h \in 1 .. Len(history') /\ history'[h].from = Nobody
    BY DEF Creations
  <2>2. CASE h \in 1 .. Len(history)
    BY <2>1, <2>2, ChangeRows DEF Creations
  <2>3. CASE h \notin 1 .. Len(history)
    <3>1. history' # history
      BY <2>1, <2>3
    <3>2. Len(history') = Len(history) + 1 /\ history'[Len(history')].from = ticket.status
      BY <3>1, ChangeHistory DEF Row
    <3>3. h = Len(history')
      BY <1>1, <2>1, <2>3, <3>2
    <3> QED BY <1>1, <2>1, <3>2, <3>3 DEF Created
  <2> QED BY <2>2, <2>3
<1>3. ASSUME NEW e, Stands(e, history, audits, ticket)
      PROVE  Stands(e, history', audits', ticket')
  BY <1>1, <1>2, <1>3, ChangeRows, StandsStill
<1>4. CASE ledger' = ledger /\ ledger = <<>>
  BY <1>4 DEF EventsInv, Once
<1>5. CASE Len(ledger) < Len(ledger')
  <2> DEFINE k == Len(ledger)
             n == Len(ledger')
  <2>1. /\ k \in Nat /\ n \in Nat /\ k < n
        /\ \A j \in 1 .. k : ledger'[j] = ledger[j]
        /\ \A j \in k + 1 .. n : NewEvent(ledger'[j])
        /\ \A i, j \in k + 1 .. n : DOMAIN ledger'[i].new \cap DOMAIN ledger'[j].new # {} => i = j
    BY <1>1, <1>5, LedgerGrows
  <2>2. \A j \in 1 .. n : j \in 1 .. k \/ j \in k + 1 .. n
    BY <2>1
  <2> HIDE DEF k, n
  <2>3. ASSUME NEW j \in 1 .. n
        PROVE  Stands(ledger'[j], history', audits', ticket') /\ ledger'[j].at <= now'
    <3>1. CASE j \in 1 .. k
      <4>1. Stands(ledger[j], history, audits, ticket) /\ ledger[j].at <= now /\ ledger[j].at \in Nat
        <5>1. ledger[j] \in LedgerRows
          BY <1>1, <3>1 DEF k
        <5> QED BY <1>1, <3>1, <5>1 DEF EventsInv, k, LedgerRows
      <4> QED BY <1>1, <1>3, <2>1, <3>1, <4>1
    <3>2. CASE j \in k + 1 .. n
      BY <2>1, <3>2, NewEventStands
    <3> QED BY <2>2, <3>1, <3>2
  <2>4. ASSUME NEW i \in 1 .. k, NEW j \in k + 1 .. n
        PROVE  ~Same(ledger'[i], ledger'[j]) /\ ~Same(ledger'[j], ledger'[i])
    <3> DEFINE e == ledger'[i]
               f == ledger'[j]
    <3>1. Stands(e, history, audits, ticket)
      BY <1>1, <2>1 DEF EventsInv, k
    <3>2. NewEvent(f)
      BY <2>1
    <3> HIDE DEF e, f
    <3>3. f.type # "created"
      BY <3>2 DEF NewEvent
    <3>4. e.source # f.source
      <4>1. CASE history' # history /\ f.source = Transitioned(Len(history'))
        <5>1. Len(history') \notin 1 .. Len(history)
          <6>1. Len(history') = Len(history) + 1 /\ Len(history) \in Nat
            BY <1>1, <4>1, ChangeHistory
          <6> QED BY <6>1
        <5> QED BY <1>1, <3>1, <4>1, <5>1, SourceTells
      <4>2. CASE audits' # audits /\ f.source = Audited(Len(audits'))
        <5>1. Len(audits') \notin 1 .. Len(audits)
          <6>1. Len(audits') = Len(audits) + 1 /\ Len(audits) \in Nat
            BY <1>1, <4>2, ChangeAudits
          <6> QED BY <6>1
        <5> QED BY <1>1, <3>1, <4>2, <5>1, SourceTells
      <4> QED BY <3>2, <4>1, <4>2 DEF NewEvent
    <3> QED BY <3>3, <3>4 DEF Same, e, f
  <2>5. ASSUME NEW i \in 1 .. n, NEW j \in 1 .. n, Same(ledger'[i], ledger'[j]) PROVE i = j
    <3>1. CASE i \in 1 .. k /\ j \in 1 .. k
      BY <1>1, <2>1, <2>5, <3>1 DEF EventsInv, Once, k
    <3>2. CASE i \in k + 1 .. n /\ j \in k + 1 .. n
      <4>1. ledger'[i].type # "created"
        BY <2>1, <3>2 DEF NewEvent
      <4> QED BY <2>1, <2>5, <3>2, <4>1 DEF Same
    <3> QED BY <2>2, <2>4, <2>5, <3>1, <3>2
  <2> QED BY <2>3, <2>5 DEF EventsInv, Once, n
<1> QED BY <1>4, <1>5, LedgerGrows

LEMMA NewSays ==
  ASSUME NEW e, NewEvent(e), NEW x, x \in DOMAIN e.new \/ x \in DOMAIN e.prev
  PROVE  /\ x \in Aspects /\ DOMAIN e.new = {x} /\ DOMAIN e.prev = {x}
         /\ e.prev[x] = ticket[x] /\ e.new[x] = ticket'[x]
         /\ x = "status" => history' # history /\ e.source = Transitioned(Len(history'))
         /\ x # "status" => audits' # audits /\ e.source = Audited(Len(audits'))
<1>1. CASE /\ history' # history /\ e.source = Transitioned(Len(history'))
           /\ e.prev = [status |-> ticket.status] /\ e.new = [status |-> ticket'.status]
  BY <1>1 DEF Aspects
<1>2. CASE /\ audits' # audits /\ e.source = Audited(Len(audits'))
           /\ e.prev = [owner |-> ticket.owner] /\ e.new = [owner |-> ticket'.owner]
  BY <1>2 DEF Aspects
<1>3. CASE /\ audits' # audits /\ e.source = Audited(Len(audits'))
           /\ e.prev = [queue |-> ticket.queue] /\ e.new = [queue |-> ticket'.queue]
  BY <1>3 DEF Aspects
<1> QED BY <1>1, <1>2, <1>3 DEF NewEvent

LEMMA ChangeCoverage ==
  ASSUME TimelineInv, Change
  PROVE  CoverageInv'
<1> SUFFICES ASSUME NEW c \in 1 .. Len(ledger'), ledger'[c].type = "created"
             PROVE  /\ \A h \in 1 .. Len(history') : RowCovered(ledger', h)
                    /\ \A a \in 1 .. Len(audits') : \A f \in audits'[a].fields : FieldCovered(ledger', a, f[1])
  BY DEF CoverageInv
<1> DEFINE k == Len(ledger)
           n == Len(ledger')
<1>1. k \in Nat /\ n \in Nat /\ CoverageInv
      /\ history \in Seq(HistoryRows) /\ audits \in Seq(AuditRows)
      /\ history' \in Seq(HistoryRows) /\ audits' \in Seq(AuditRows)
  BY ChangeTypes DEF TimelineInv, TypesInv
<1>2. /\ k < n
      /\ \A j \in 1 .. k : j \in 1 .. n /\ ledger'[j] = ledger[j]
      /\ \A j \in k + 1 .. n : j \in 1 .. n /\ NewEvent(ledger'[j])
      /\ history' # history => \E j \in k + 1 .. n : "status" \in DOMAIN ledger'[j].new
      /\ ticket'.owner # ticket.owner => \E j \in k + 1 .. n : "owner" \in DOMAIN ledger'[j].new
      /\ ticket'.queue # ticket.queue => \E j \in k + 1 .. n : "queue" \in DOMAIN ledger'[j].new
  <2>1. c \in 1 .. 0 \/ ~(ledger' = <<>>)
    OBVIOUS
  <2> QED BY <1>1, <2>1, LedgerGrows
<1> HIDE DEF k, n
<1>3. c \in 1 .. k /\ ledger[c].type = "created"
  <2>1. c \notin k + 1 .. n
    BY <1>2 DEF NewEvent
  <2>2. c \in 1 .. k
    BY <1>1, <1>2, <2>1 DEF n
  <2> QED BY <1>2, <2>2
<1>4. ASSUME NEW h \in 1 .. Len(history') PROVE RowCovered(ledger', h)
  <2>1. CASE h \in 1 .. Len(history)
    <3>1. PICK j \in 1 .. k : ledger[j].source = Transitioned(h)
      BY <1>1, <1>3, <2>1 DEF CoverageInv, RowCovered, k
    <3> QED BY <1>2, <3>1 DEF RowCovered, n
  <2>2. CASE h \notin 1 .. Len(history)
    <3>1. history' # history
      BY <2>2
    <3>2. h = Len(history')
      <4>1. Len(history') = Len(history) + 1
        BY <3>1, ChangeHistory
      <4> QED BY <1>1, <2>2, <4>1
    <3>3. PICK j \in k + 1 .. n : "status" \in DOMAIN ledger'[j].new
      BY <1>2, <3>1
    <3>4. ledger'[j].source = Transitioned(h)
      BY <1>2, <3>2, <3>3, NewSays
    <3> QED BY <1>2, <3>4 DEF RowCovered, n
  <2> QED BY <2>1, <2>2
<1>5. ASSUME NEW a \in 1 .. Len(audits'), NEW f \in audits'[a].fields PROVE FieldCovered(ledger', a, f[1])
  <2>1. CASE a \in 1 .. Len(audits)
    <3>1. f \in audits[a].fields
      BY <2>1, ChangeRows
    <3>2. PICK j \in 1 .. k : ledger[j].source = Audited(a) /\ f[1] \in DOMAIN ledger[j].new
      BY <1>1, <1>3, <2>1, <3>1 DEF CoverageInv, FieldCovered, k
    <3> QED BY <1>2, <3>2 DEF FieldCovered, n
  <2>2. CASE a \notin 1 .. Len(audits)
    <3>1. audits' # audits
      BY <2>2
    <3>2. a = Len(audits')
      <4>1. Len(audits') = Len(audits) + 1
        BY <3>1, ChangeAudits
      <4> QED BY <1>1, <2>2, <4>1
    <3>3. f \in {x \in {<<"owner", ticket.owner, ticket'.owner>>, <<"queue", ticket.queue, ticket'.queue>>} :
                  x[2] # x[3]}
      BY <3>1, <3>2, ChangeAudits
    <3>4. \/ f[1] = "owner" /\ ticket'.owner # ticket.owner
          \/ f[1] = "queue" /\ ticket'.queue # ticket.queue
      BY <3>3
    <3>5. PICK j \in k + 1 .. n : f[1] \in DOMAIN ledger'[j].new
      BY <1>2, <3>4
    <3>6. f[1] # "status"
      BY <3>4
    <3>7. ledger'[j].source = Audited(a)
      BY <1>2, <3>2, <3>5, <3>6, NewSays
    <3> QED BY <1>2, <3>5, <3>7 DEF FieldCovered, n
  <2> QED BY <2>1, <2>2
<1> QED BY <1>4, <1>5

(* What was told is told as long as nothing else is said.                  *)
LEMMA TellsStill ==
  ASSUME NEW l, NEW m, NEW k \in Nat, NEW p \in Nat, k <= p, NEW x, NEW v,
         \A j \in 1 .. k : m[j] = l[j],
         \A j \in k + 1 .. p : x \notin DOMAIN m[j].new,
         LedgerTells(l, k, x, v)
  PROVE  LedgerTells(m, p, x, v)
<1> SUFFICES ASSUME NEW j \in 1 .. p, x \in DOMAIN m[j].new,
                    \A i \in j + 1 .. p : x \notin DOMAIN m[i].new
             PROVE  m[j].new[x] = v
  BY DEF LedgerTells
<1>1. j \in 1 .. k
  OBVIOUS
<1>2. m[j] = l[j]
  BY <1>1
<1>3. \A i \in j + 1 .. k : i \in j + 1 .. p /\ m[i] = l[i]
  OBVIOUS
<1> QED BY <1>1, <1>2, <1>3 DEF LedgerTells

LEMMA ChangeTruth ==
  ASSUME TimelineInv, Change
  PROVE  TruthInv'
<1> SUFFICES ASSUME NEW x \in Aspects
             PROVE  /\ \A i \in 1 .. Len(ledger') :
                         x \in DOMAIN ledger'[i].prev => LedgerTells(ledger', i - 1, x, ledger'[i].prev[x])
                    /\ LedgerTells(ledger', Len(ledger'), x, ticket'[x])
  BY DEF TruthInv
<1> DEFINE k == Len(ledger)
           n == Len(ledger')
<1>1. /\ k \in Nat /\ n \in Nat /\ TruthInv
  BY ChangeTypes DEF TimelineInv, TypesInv
<1>2. CASE ledger' = ledger /\ ledger = <<>>
  BY <1>2 DEF LedgerTells
<1>3. CASE k < n
  <2>1. /\ \A j \in 1 .. k : j \in 1 .. n /\ ledger'[j] = ledger[j]
        /\ \A j \in k + 1 .. n : j \in 1 .. n /\ NewEvent(ledger'[j])
        /\ \A i, j \in k + 1 .. n : DOMAIN ledger'[i].new \cap DOMAIN ledger'[j].new # {} => i = j
        /\ history' # history => \E j \in k + 1 .. n : "status" \in DOMAIN ledger'[j].new
        /\ ticket'.owner # ticket.owner => \E j \in k + 1 .. n : "owner" \in DOMAIN ledger'[j].new
        /\ ticket'.queue # ticket.queue => \E j \in k + 1 .. n : "queue" \in DOMAIN ledger'[j].new
    BY <1>1, <1>3, LedgerGrows
  <2>2. LedgerTells(ledger, k, x, ticket[x])
    BY <1>1 DEF TruthInv
  <2> HIDE DEF k, n
  <2>3. \A j \in 1 .. k : ledger'[j] = ledger[j]
    BY <2>1
  <2>4. ASSUME NEW i \in 1 .. n, x \in DOMAIN ledger'[i].prev
        PROVE  LedgerTells(ledger', i - 1, x, ledger'[i].prev[x])
    <3>1. CASE i \in 1 .. k
      <4>1. i - 1 \in Nat /\ (\A j \in 1 .. i - 1 : ledger'[j] = ledger[j]) /\ i - 1 <= i - 1
            /\ \A j \in (i - 1) + 1 .. i - 1 : x \notin DOMAIN ledger'[j].new
        BY <1>1, <2>1, <3>1
      <4>2. LedgerTells(ledger, i - 1, x, ledger'[i].prev[x])
        BY <1>1, <2>1, <2>4, <3>1 DEF TruthInv, k
      <4> QED BY <4>1, <4>2, TellsStill
    <3>2. CASE i \in k + 1 .. n
      <4>1. NewEvent(ledger'[i])
        BY <2>1, <3>2
      <4>2. DOMAIN ledger'[i].new = {x} /\ ledger'[i].prev[x] = ticket[x]
        BY <2>4, <4>1, NewSays
      <4>3. i - 1 \in Nat /\ k <= i - 1 /\ \A j \in k + 1 .. i - 1 : j \in k + 1 .. n /\ j # i
        BY <1>1, <3>2
      <4>4. \A j \in k + 1 .. i - 1 : x \notin DOMAIN ledger'[j].new
        BY <2>1, <3>2, <4>2, <4>3
      <4>5. LedgerTells(ledger', i - 1, x, ticket[x])
        BY <1>1, <2>2, <2>3, <4>3, <4>4, TellsStill
      <4> QED BY <4>2, <4>5
    <3> QED BY <1>1, <3>1, <3>2
  <2>5. LedgerTells(ledger', n, x, ticket'[x])
    <3>1. CASE \E j \in k + 1 .. n : x \in DOMAIN ledger'[j].new
      <4>1. PICK j \in k + 1 .. n : x \in DOMAIN ledger'[j].new
        BY <3>1
      <4>2. ledger'[j].new[x] = ticket'[x] /\ DOMAIN ledger'[j].new = {x}
        BY <2>1, <4>1, NewSays
      <4>3. \A i \in 1 .. n : i = j \/ i \in k + 1 .. n \/ j \in i + 1 .. n
        BY <1>1, <4>1
      <4>4. \A i \in k + 1 .. n : x \in DOMAIN ledger'[i].new => i = j
        BY <2>1, <4>1
      <4>5. ASSUME NEW i \in 1 .. n, x \in DOMAIN ledger'[i].new,
                   \A h \in i + 1 .. n : x \notin DOMAIN ledger'[h].new
            PROVE  i = j
        BY <4>1, <4>3, <4>4, <4>5
      <4> QED BY <4>2, <4>5 DEF LedgerTells
    <3>2. CASE ~\E j \in k + 1 .. n : x \in DOMAIN ledger'[j].new
      <4>1. ticket'[x] = ticket[x]
        <5>1. CASE x = "status"
          <6>1. history' = history
            BY <2>1, <3>2, <5>1
          <6>2. history \in Seq(HistoryRows)
            BY DEF TimelineInv, TypesInv
          <6>3. history' # Append(history, Row(ticket.status, ticket'.status, now'))
            BY <6>1, <6>2
          <6> QED BY <5>1, <6>3 DEF Change, StatusPart
        <5>2. CASE x = "owner"
          BY <2>1, <3>2, <5>2
        <5>3. CASE x = "queue"
          BY <2>1, <3>2, <5>3
        <5> QED BY <5>1, <5>2, <5>3 DEF Aspects
      <4>2. k <= n /\ \A j \in k + 1 .. n : x \notin DOMAIN ledger'[j].new
        BY <1>1, <1>3, <3>2 DEF k, n
      <4>3. LedgerTells(ledger', n, x, ticket[x])
        BY <1>1, <2>2, <2>3, <4>2, TellsStill
      <4> QED BY <4>1, <4>3
    <3> QED BY <3>1, <3>2
  <2> QED BY <2>4, <2>5 DEF n
<1> QED BY <1>2, <1>3, LedgerGrows

-----------------------------------------------------------------------------
(* The milestones, of any ledger and any rows.                             *)
LedgerMilestones(l) ==
  {<<l[i].at, 1, i, l[i].new["status"]>> : i \in {i \in 1 .. Len(l) : "status" \in DOMAIN l[i].new}}
RowMilestones(l, H) == {<<H[i].at, 2, i, H[i].to>> : i \in {i \in 1 .. Len(H) : ~RowCovered(l, i)}}
TicketMilestone(T) == <<T.createdAt, 3, 0, T.status>>

MilestonesOf(l, H, T) ==
  IF LedgerMilestones(l) \cup RowMilestones(l, H) # {}
  THEN LedgerMilestones(l) \cup RowMilestones(l, H) ELSE {TicketMilestone(T)}

EndsWith(S, v) == \E m \in S : m[4] = v /\ \A x \in S : x = m \/ Before(x, m)

LEMMA RowsRepresented ==
  ASSUME NEW l \in Seq(LedgerRows), NEW H,
         NEW R, R = {e.source[2] : e \in {e \in Range(l) : e.source # <<>> /\ e.source[1] = "workflow_transition"}}
  PROVE  RowMilestones(l, H) = {<<H[i].at, 2, i, H[i].to>> : i \in 1 .. Len(H) \ R}
<1>1. ASSUME NEW h PROVE h \in R <=> RowCovered(l, h)
  <2>1. ASSUME h \in R PROVE RowCovered(l, h)
    <3>1. PICK i \in 1 .. Len(l) :
            l[i].source # <<>> /\ l[i].source[1] = "workflow_transition" /\ l[i].source[2] = h
      BY <2>1 DEF Range
    <3>2. l[i].source \in Sources
      <4>1. l[i] \in LedgerRows
        OBVIOUS
      <4> QED BY <4>1 DEF LedgerRows
    <3>3. l[i].source = Transitioned(h)
      BY <3>1, <3>2 DEF Sources, Transitioned
    <3> QED BY <3>3 DEF RowCovered
  <2>2. ASSUME RowCovered(l, h) PROVE h \in R
    <3>1. PICK i \in 1 .. Len(l) : l[i].source = Transitioned(h)
      BY <2>2 DEF RowCovered
    <3>2. l[i] \in Range(l)
      BY DEF Range
    <3>3. l[i].source # <<>> /\ l[i].source[1] = "workflow_transition" /\ l[i].source[2] = h
      BY <3>1 DEF Transitioned
    <3> QED BY <3>2, <3>3
  <2> QED BY <2>1, <2>2
<1>2. 1 .. Len(H) \ R = {i \in 1 .. Len(H) : ~RowCovered(l, i)}
  BY <1>1
<1> QED BY <1>2 DEF RowMilestones

LEMMA MilestonesNow ==
  ASSUME ledger \in Seq(LedgerRows)
  PROVE  Milestones = MilestonesOf(ledger, history, ticket)
<1>1. OfLedger = LedgerMilestones(ledger) /\ OfTicket = {TicketMilestone(ticket)}
  BY DEF OfLedger, LedgerMilestones, OfTicket, TicketMilestone
<1>2. OfHistory = RowMilestones(ledger, history)
  BY RowsRepresented DEF OfHistory, Represented
<1> QED BY <1>1, <1>2 DEF Milestones, MilestonesOf

LEMMA MilestonesThen ==
  ASSUME ledger' \in Seq(LedgerRows)
  PROVE  Milestones' = MilestonesOf(ledger', history', ticket')
<1>1. OfLedger' = LedgerMilestones(ledger') /\ OfTicket' = {TicketMilestone(ticket')}
  BY DEF OfLedger, LedgerMilestones, OfTicket, TicketMilestone
<1>2. OfHistory' = RowMilestones(ledger', history')
  BY RowsRepresented DEF OfHistory, Represented
<1> QED BY <1>1, <1>2 DEF Milestones, MilestonesOf

LEMMA ChangeLast ==
  ASSUME TimelineInv, Change
  PROVE  LastInv'
<1> DEFINE k == Len(ledger)
           n == Len(ledger')
           S == MilestonesOf(ledger, history, ticket)
           U == MilestonesOf(ledger', history', ticket')
<1>1. /\ k \in Nat /\ n \in Nat /\ Created /\ EventsInv /\ HistoryInv
      /\ now \in Nat /\ now' \in Nat /\ now < now'
      /\ history \in Seq(HistoryRows) /\ history' \in Seq(HistoryRows)
      /\ ledger \in Seq(LedgerRows) /\ ledger' \in Seq(LedgerRows)
      /\ ticket'.createdAt = ticket.createdAt
  BY ChangeTypes DEF TimelineInv, TypesInv, Change
<1>2. Milestones = S /\ Milestones' = U
  BY <1>1, MilestonesNow, MilestonesThen
<1>3. EndsWith(S, ticket.status)
  BY <1>1, <1>2 DEF TimelineInv, LastInv, EndsWith
<1> SUFFICES EndsWith(U, ticket'.status)
  BY <1>2 DEF LastInv, EndsWith
<1>4. ASSUME NEW v, NEW m \in U, m[4] = v, m[1] \in Nat, m[1] > now,
             \A x \in U : x = m \/ (x[1] \in Nat /\ x[1] <= now)
      PROVE  EndsWith(U, v)
  <2>1. \A x \in U : x = m \/ x[1] < m[1]
    BY <1>1, <1>4
  <2> HIDE DEF U
  <2> QED BY <1>4, <2>1 DEF EndsWith, Before
<1>5. \A i \in 1 .. k : ledger[i].at \in Nat /\ ledger[i].at <= now
  <2>1. \A i \in 1 .. k : ledger[i] \in LedgerRows
    BY <1>1
  <2> QED BY <1>1, <2>1 DEF EventsInv, LedgerRows
<1>6. \A h \in 1 .. Len(history) : history'[h] = history[h] /\ history[h].at \in Nat /\ history[h].at <= now
  <2>1. \A i \in 1 .. Len(history) : history[i] \in HistoryRows
    BY <1>1
  <2> QED BY <1>1, <2>1, ChangeRows DEF HistoryInv, HistoryRows
<1>7. CASE ledger' = ledger /\ ledger = <<>>
  <2>1. LedgerMilestones(ledger') = {} /\ LedgerMilestones(ledger) = {}
    BY <1>7 DEF LedgerMilestones
  <2>2. CASE history' = history
    <3>1. ticket'.status = ticket.status
      <4>1. history' # Append(history, Row(ticket.status, ticket'.status, now'))
        BY <1>1, <2>2
      <4> QED BY <4>1 DEF Change, StatusPart
    <3>2. U = S
      BY <1>1, <1>7, <2>2, <3>1 DEF MilestonesOf, TicketMilestone
    <3> QED BY <1>3, <3>1, <3>2
  <2>3. CASE history' # history
    <3> DEFINE h == Len(history')
               m == <<history'[h].at, 2, h, history'[h].to>>
    <3>1. h = Len(history) + 1 /\ history'[h] = Row(ticket.status, ticket'.status, now')
      BY <2>3, ChangeHistory
    <3>2. RowMilestones(ledger', history') = {<<history'[i].at, 2, i, history'[i].to>> : i \in 1 .. Len(history')}
      BY <1>7 DEF RowMilestones, RowCovered
    <3>3. h \in 1 .. Len(history')
      BY <1>1, <3>1
    <3>4. m \in U /\ U = RowMilestones(ledger', history')
      BY <2>1, <3>2, <3>3 DEF MilestonesOf
    <3>5. m[4] = ticket'.status /\ m[1] = now'
      BY <3>1 DEF Row
    <3>6. ASSUME NEW x \in U PROVE x = m \/ (x[1] \in Nat /\ x[1] <= now)
      <4>1. PICK i \in 1 .. Len(history') : x = <<history'[i].at, 2, i, history'[i].to>>
        BY <3>2, <3>4
      <4>2. i = h \/ i \in 1 .. Len(history)
        BY <1>1, <3>1
      <4>3. CASE i = h
        BY <4>1, <4>3
      <4>4. CASE i \in 1 .. Len(history)
        BY <1>6, <4>1, <4>4
      <4> QED BY <4>2, <4>3, <4>4
    <3> HIDE DEF m, U
    <3> QED BY <1>1, <1>4, <3>4, <3>5, <3>6
  <2> QED BY <2>2, <2>3
<1>8. CASE k < n
  <2>1. /\ \A j \in 1 .. k : j \in 1 .. n /\ ledger'[j] = ledger[j]
        /\ \A j \in k + 1 .. n : j \in 1 .. n /\ NewEvent(ledger'[j])
        /\ \A i, j \in k + 1 .. n : DOMAIN ledger'[i].new \cap DOMAIN ledger'[j].new # {} => i = j
        /\ history' # history => \E j \in k + 1 .. n : "status" \in DOMAIN ledger'[j].new
        /\ \A j \in 1 .. n : j \in 1 .. k \/ j \in k + 1 .. n
    BY <1>1, <1>8, LedgerGrows
  <2> HIDE DEF S, U, k, n
  <2>2. CASE history' = history
    <3>1. ticket'.status = ticket.status
      <4>1. history' # Append(history, Row(ticket.status, ticket'.status, now'))
        BY <1>1, <2>2
      <4> QED BY <4>1 DEF Change, StatusPart
    <3>2. \A j \in k + 1 .. n : "status" \notin DOMAIN ledger'[j].new
      BY <2>1, <2>2, NewSays
    <3>3. LedgerMilestones(ledger') = LedgerMilestones(ledger)
      <4>1. {i \in 1 .. n : "status" \in DOMAIN ledger'[i].new} = {i \in 1 .. k : "status" \in DOMAIN ledger[i].new}
        BY <2>1, <3>2
      <4>2. \A i \in {i \in 1 .. k : "status" \in DOMAIN ledger[i].new} : ledger'[i] = ledger[i]
        BY <2>1
      <4> QED BY <4>1, <4>2 DEF LedgerMilestones, k, n
    <3>4. \A h : RowCovered(ledger', h) <=> RowCovered(ledger, h)
      <4>1. ASSUME NEW h, NEW j \in k + 1 .. n PROVE ledger'[j].source # Transitioned(h)
        <5>1. NewEvent(ledger'[j])
          BY <2>1
        <5> QED BY <2>2, <5>1 DEF NewEvent, Transitioned, Audited
      <4> QED BY <2>1, <4>1 DEF RowCovered, k, n
    <3>5. RowMilestones(ledger', history') = RowMilestones(ledger, history)
      BY <2>2, <3>4 DEF RowMilestones
    <3>6. U = S
      BY <1>1, <3>1, <3>3, <3>5 DEF MilestonesOf, TicketMilestone, U, S
    <3> QED BY <1>3, <3>1, <3>6
  <2>3. CASE history' # history
    <3>1. PICK j \in k + 1 .. n : "status" \in DOMAIN ledger'[j].new
      BY <2>1, <2>3
    <3> DEFINE m == <<ledger'[j].at, 1, j, ledger'[j].new["status"]>>
    <3>2. /\ ledger'[j].new["status"] = ticket'.status /\ DOMAIN ledger'[j].new = {"status"}
          /\ ledger'[j].source = Transitioned(Len(history'))
      BY <2>1, <3>1, NewSays
    <3>3. ledger'[j].at \in Nat /\ ledger'[j].at > now
      <4>1. NewEvent(ledger'[j])
        BY <2>1
      <4>2. ledger'[j].at \in now + 1 .. now'
        BY <4>1 DEF NewEvent
      <4> QED BY <1>1, <4>2
    <3>4. m \in LedgerMilestones(ledger')
      BY <2>1, <3>1 DEF LedgerMilestones, n
    <3>5. m \in U /\ U = LedgerMilestones(ledger') \cup RowMilestones(ledger', history')
      <4> HIDE DEF m
      <4> QED BY <3>4 DEF U, MilestonesOf
    <3>6. ASSUME NEW x \in LedgerMilestones(ledger')
          PROVE  x = m \/ (x[1] \in Nat /\ x[1] <= now)
      <4>1. PICK i \in 1 .. n : x = <<ledger'[i].at, 1, i, ledger'[i].new["status"]>>
                                /\ "status" \in DOMAIN ledger'[i].new
        BY <3>6 DEF LedgerMilestones, n
      <4>2. CASE i \in 1 .. k
        BY <1>5, <2>1, <4>1, <4>2
      <4>3. CASE i \in k + 1 .. n
        <5>1. i = j
          BY <2>1, <3>1, <4>1, <4>3
        <5> QED BY <4>1, <5>1
      <4> QED BY <2>1, <4>2, <4>3
    <3>7. ASSUME NEW x \in RowMilestones(ledger', history')
          PROVE  x[1] \in Nat /\ x[1] <= now
      <4>1. PICK h \in 1 .. Len(history') : x = <<history'[h].at, 2, h, history'[h].to>> /\ ~RowCovered(ledger', h)
        BY <3>7 DEF RowMilestones
      <4>2. h # Len(history')
        BY <2>1, <3>1, <3>2, <4>1 DEF RowCovered, n
      <4>3. h \in 1 .. Len(history)
        <5>1. Len(history') = Len(history) + 1
          BY <2>3, ChangeHistory
        <5> QED BY <1>1, <4>2, <5>1
      <4> QED BY <1>6, <4>1, <4>3
    <3>8. m[4] = ticket'.status /\ m[1] = ledger'[j].at
      BY <3>2
    <3> HIDE DEF m
    <3> QED BY <1>4, <3>3, <3>5, <3>6, <3>7, <3>8
  <2> QED BY <2>2, <2>3
<1> QED BY <1>1, <1>7, <1>8, LedgerGrows

LEMMA ChangeKeeps == TimelineInv /\ Change => TimelineInv'
<1> SUFFICES ASSUME TimelineInv, Change PROVE TimelineInv'
  OBVIOUS
<1> QED BY ChangeTypes, ChangeHistory, ChangeAudits, ChangeEvents, ChangeCoverage, ChangeTruth, ChangeLast
        DEF TimelineInv

-----------------------------------------------------------------------------
(* The creation of the ticket.                                             *)
LEMMA LegacyCreateKeeps == TimelineInv /\ LegacyCreate => TimelineInv'
<1> SUFFICES ASSUME TimelineInv, LegacyCreate PROVE TimelineInv'
  OBVIOUS
<1>1. PICK queue \in Places, audited \in BOOLEAN, logged \in BOOLEAN :
        /\ ticket' = [status |-> Initial, owner |-> Nobody, queue |-> queue, createdAt |-> now']
        /\ audits' = IF audited THEN <<[action |-> "ticket.created", at |-> now', fields |-> {}]>> ELSE <<>>
        /\ history' = IF logged THEN <<Row(Nobody, Initial, now')>> ELSE <<>>
  BY DEF LegacyCreate, Places
<1>2. /\ now \in Nat /\ now' \in Nat /\ now < now' /\ app = "old" /\ app' = app /\ schema' = schema
      /\ reading' = reading /\ sweep' = sweep /\ ledger' = ledger /\ ledger = <<>>
      /\ sweep = Nobody \/ sweep \in 0 .. now
  BY DEF TimelineInv, TypesInv, DeploymentInv, LegacyCreate, Tick, system
<1>3. /\ ticket' \in Tickets /\ ticket'.status = Initial /\ ticket'.createdAt = now'
      /\ ticket'.owner = Nobody
  BY <1>1, <1>2 DEF Tickets, Statuses, Owners, Places
<1>4. \/ history' = <<>>
      \/ /\ history' \in Seq(HistoryRows) /\ Len(history') = 1 /\ history' # <<>>
         /\ history'[1] = Row(Nobody, Initial, now')
  <2>1. Row(Nobody, Initial, now') \in HistoryRows
    BY <1>2 DEF Row, HistoryRows, Statuses
  <2> HIDE DEF Row, HistoryRows
  <2> QED BY <1>1, <2>1
<1>5. \/ audits' = <<>>
      \/ /\ audits' \in Seq(AuditRows) /\ Len(audits') = 1
         /\ audits'[1] = [action |-> "ticket.created", at |-> now', fields |-> {}]
  <2>1. [action |-> "ticket.created", at |-> now', fields |-> {}] \in AuditRows
    BY <1>2 DEF AuditRows, Actions
  <2> HIDE DEF AuditRows
  <2> QED BY <1>1, <2>1
<1>6. TypesInv'
  <2>1. history' \in Seq(HistoryRows) /\ audits' \in Seq(AuditRows)
    <3>1. <<>> \in Seq(HistoryRows) /\ <<>> \in Seq(AuditRows)
      OBVIOUS
    <3> QED BY <1>4, <1>5, <3>1, Zenon
  <2>2. app' \in {"old", "new"} /\ schema' \in {"none", "table", "filled"} /\ ledger' \in Seq(LedgerRows)
    BY <1>2 DEF TypesInv, TimelineInv
  <2>3. sweep' = Nobody \/ sweep' \in 0 .. now'
    BY <1>2
  <2> QED BY <1>2, <1>3, <2>1, <2>2, <2>3 DEF TypesInv
<1>7. DeploymentInv'
  BY <1>2 DEF TimelineInv, DeploymentInv
<1>8. Initial # Nobody
  BY TimelineAssumption
<1>9. HistoryInv'
  BY <1>2, <1>3, <1>4, <1>8 DEF HistoryInv, Created, Row
<1>10. AuditInv'
  <2>1. CASE audits' = <<>>
    BY <2>1 DEF AuditInv, AuditTells
  <2>2. CASE Len(audits') = 1 /\ audits'[1] = [action |-> "ticket.created", at |-> now', fields |-> {}]
    <3>1. \A a \in 1 .. Len(audits') :
            a = 1 /\ audits'[a].action = "ticket.created" /\ audits'[a].at = now' /\ audits'[a].fields = {}
      BY <2>2
    <3>2. \A x, v : AuditTells(audits', Len(audits'), x, v)
      BY <3>1 DEF AuditTells
    <3> QED BY <1>2, <1>3, <3>1, <3>2 DEF AuditInv
  <2> QED BY <1>5, <2>1, <2>2
<1>11. VerifyCustodyChain(ledger') /\ EventsInv' /\ CoverageInv' /\ TruthInv'
  <2>1. ledger' = <<>>
    BY <1>2
  <2> QED BY <2>1 DEF VerifyCustodyChain, EventsInv, Once, CoverageInv, TruthInv, LedgerTells
<1>12. LastInv'
  <2>1. Milestones' = MilestonesOf(ledger', history', ticket')
    BY <1>6, MilestonesThen DEF TypesInv
  <2>2. LedgerMilestones(ledger') = {}
    BY <1>2 DEF LedgerMilestones
  <2>3. CASE history' = <<>>
    <3>1. RowMilestones(ledger', history') = {}
      BY <2>3 DEF RowMilestones
    <3>2. Milestones' = {TicketMilestone(ticket')}
      BY <2>1, <2>2, <3>1 DEF MilestonesOf
    <3>3. TicketMilestone(ticket')[4] = ticket'.status
      BY DEF TicketMilestone
    <3> QED BY <3>2, <3>3 DEF LastInv
  <2>4. CASE Len(history') = 1 /\ history'[1] = Row(Nobody, Initial, now')
    <3>1. RowMilestones(ledger', history') = {<<history'[1].at, 2, 1, history'[1].to>>}
      <4>1. {i \in 1 .. Len(history') : ~RowCovered(ledger', i)} = {1}
        BY <1>2, <2>4 DEF RowCovered
      <4> QED BY <4>1 DEF RowMilestones
    <3>2. Milestones' = {<<history'[1].at, 2, 1, history'[1].to>>}
      BY <2>1, <2>2, <3>1 DEF MilestonesOf
    <3>3. history'[1].to = ticket'.status
      BY <1>3, <2>4 DEF Row
    <3> QED BY <3>2, <3>3 DEF LastInv
  <2> QED BY <1>4, <2>3, <2>4
<1> QED BY <1>6, <1>7, <1>9, <1>10, <1>11, <1>12 DEF TimelineInv

LEMMA CreateKeeps == TimelineInv /\ Create => TimelineInv'
<1> SUFFICES ASSUME TimelineInv, Create PROVE TimelineInv'
  OBVIOUS
<1> DEFINE e == Event("created", now', Transitioned(1), <<>>, [status |-> Initial])
           r == Row(Nobody, Initial, now')
           a == [action |-> "ticket.created", at |-> now', fields |-> {}]
<1>1. /\ ticket' = [status |-> Initial, owner |-> Nobody, queue |-> Nobody, createdAt |-> now']
      /\ ledger' = RecordCustody(ledger, <<e>>) /\ history' = <<r>> /\ audits' = <<a>>
  BY DEF Create
<1>2. /\ now \in Nat /\ now' \in Nat /\ now < now' /\ app = "new" /\ app' = app
      /\ schema' = schema /\ reading' = reading /\ sweep' = sweep /\ ledger = <<>>
      /\ sweep = Nobody \/ sweep \in 0 .. now
  BY DEF TimelineInv, TypesInv, HistoryInv, Create, Live, Tick, system
<1>3. /\ ticket' \in Tickets /\ ticket'.status = Initial /\ ticket'.createdAt = now'
  BY <1>1, <1>2 DEF Tickets, Statuses, Owners, Places
<1>4. e \in Inputs /\ r \in HistoryRows /\ a \in AuditRows /\ Initial # Nobody
  BY <1>2, TimelineAssumption
     DEF Event, Inputs, EventTypes, Sources, Said, Statuses, Transitioned, Row, HistoryRows, AuditRows, Actions
<1>5. /\ e.type = "created" /\ e.at = now' /\ e.source = Transitioned(1)
      /\ e.prev = <<>> /\ e.new = [status |-> Initial]
      /\ r.from = Nobody /\ r.to = Initial /\ r.at = now'
      /\ a.action = "ticket.created" /\ a.at = now' /\ a.fields = {}
  BY DEF Event, Row
<1> HIDE DEF e, r, a
<1>6. history' \in Seq(HistoryRows) /\ Len(history') = 1 /\ history'[1] = r /\ history' # <<>>
  BY <1>1, <1>4
<1>7. audits' \in Seq(AuditRows) /\ Len(audits') = 1 /\ audits'[1] = a
  BY <1>1, <1>4
<1>8. /\ ledger' \in Seq(LedgerRows) /\ Len(ledger') = 1 /\ SameEvent(ledger'[1], e)
      /\ VerifyCustodyChain(ledger') /\ ledger' # <<>>
  <2>1. VerifyCustodyChain(ledger) /\ ledger \in Seq(LedgerRows)
    BY DEF TimelineInv, TypesInv
  <2>2. <<e>> \in Seq(Inputs) /\ Len(<<e>>) = 1 /\ <<e>>[1] = e
    BY <1>4, OneEvent
  <2>3. Grown(ledger, ledger', <<e>>)
    BY <1>1, <2>1, <2>2, Recorded
  <2>4. Len(ledger) = 0
    BY <1>2
  <2>5. /\ ledger' \in Seq(LedgerRows) /\ Len(ledger') = 1 /\ VerifyCustodyChain(ledger')
        /\ SameEvent(ledger'[0 + 1], <<e>>[1])
    BY <2>2, <2>3, <2>4 DEF Grown
  <2> QED BY <2>2, <2>5
<1>9. /\ ledger'[1].type = "created" /\ ledger'[1].at = now' /\ ledger'[1].source = Transitioned(1)
      /\ ledger'[1].prev = <<>> /\ ledger'[1].new = [status |-> Initial]
      /\ \A i \in 1 .. Len(ledger') : i = 1
  BY <1>5, <1>8 DEF SameEvent
<1>10. TypesInv'
  BY <1>2, <1>3, <1>6, <1>7, <1>8 DEF TypesInv, TimelineInv
<1>11. DeploymentInv'
  BY <1>2, <1>8 DEF TimelineInv, DeploymentInv
<1>12. HistoryInv'
  BY <1>2, <1>3, <1>4, <1>5, <1>6 DEF HistoryInv, Created
<1>13. AuditInv'
  <2>1. \A i \in 1 .. Len(audits') :
          i = 1 /\ audits'[i].action = "ticket.created" /\ audits'[i].at = now' /\ audits'[i].fields = {}
    BY <1>5, <1>7
  <2>2. \A x, v : AuditTells(audits', Len(audits'), x, v)
    BY <2>1 DEF AuditTells
  <2> QED BY <1>2, <1>3, <2>1, <2>2 DEF AuditInv
<1>14. EventsInv'
  <2>1. StandsForRow(ledger'[1], 1, history', ticket')
    BY <1>2, <1>3, <1>5, <1>6, <1>9 DEF StandsForRow
  <2>2. Stands(ledger'[1], history', audits', ticket')
    BY <1>6, <2>1 DEF Stands
  <2> QED BY <1>2, <1>9, <2>2 DEF EventsInv, Once
<1>15. CoverageInv'
  <2>1. RowCovered(ledger', 1)
    BY <1>8, <1>9 DEF RowCovered
  <2> QED BY <1>5, <1>6, <1>7, <2>1 DEF CoverageInv
<1>16. TruthInv'
  <2>1. \A x \in Aspects : x \notin DOMAIN ledger'[1].prev
    BY <1>9 DEF Aspects
  <2>2. \A x \in Aspects : x \in DOMAIN ledger'[1].new => ledger'[1].new[x] = ticket'[x]
    BY <1>3, <1>9 DEF Aspects
  <2> QED BY <1>9, <2>1, <2>2 DEF TruthInv, LedgerTells
<1>17. LastInv'
  <2>1. Milestones' = MilestonesOf(ledger', history', ticket')
    BY <1>8, MilestonesThen
  <2>2. LedgerMilestones(ledger') = {<<ledger'[1].at, 1, 1, ledger'[1].new["status"]>>}
    <3>1. {i \in 1 .. Len(ledger') : "status" \in DOMAIN ledger'[i].new} = {1}
      BY <1>8, <1>9
    <3> QED BY <3>1 DEF LedgerMilestones
  <2>3. RowMilestones(ledger', history') = {}
    BY <1>6, <1>8, <1>9 DEF RowMilestones, RowCovered
  <2>4. Milestones' = {<<ledger'[1].at, 1, 1, ledger'[1].new["status"]>>}
    BY <2>1, <2>2, <2>3 DEF MilestonesOf
  <2>5. ledger'[1].new["status"] = ticket'.status
    BY <1>3, <1>9
  <2> QED BY <2>4, <2>5 DEF LastInv
<1> QED BY <1>8, <1>10, <1>11, <1>12, <1>13, <1>14, <1>15, <1>16, <1>17 DEF TimelineInv

-----------------------------------------------------------------------------
(* An escalation by the evaluator, at a time that may lie before others.   *)
LEMMA MilestonesSortable ==
  ASSUME NEW l \in Seq(LedgerRows), NEW H \in Seq(HistoryRows), NEW T, T.createdAt \in Nat
  PROVE  Sortable(MilestonesOf(l, H, T), Len(l) + Len(H)) /\ Len(l) + Len(H) \in Nat
<1> DEFINE K == Len(l) + Len(H)
           S == MilestonesOf(l, H, T)
<1>1. Len(l) \in Nat /\ Len(H) \in Nat /\ K \in Nat
  OBVIOUS
<1>2. ASSUME NEW m \in LedgerMilestones(l)
      PROVE  m[1] \in Int /\ m[2] = 1 /\ m[3] \in 1 .. Len(l)
             /\ m = <<l[m[3]].at, 1, m[3], l[m[3]].new["status"]>>
  <2>1. PICK i \in 1 .. Len(l) : m = <<l[i].at, 1, i, l[i].new["status"]>>
    BY DEF LedgerMilestones
  <2>2. l[i] \in LedgerRows
    OBVIOUS
  <2> QED BY <2>1, <2>2 DEF LedgerRows
<1>3. ASSUME NEW m \in RowMilestones(l, H)
      PROVE  m[1] \in Int /\ m[2] = 2 /\ m[3] \in 1 .. Len(H)
             /\ m = <<H[m[3]].at, 2, m[3], H[m[3]].to>>
  <2>1. PICK i \in 1 .. Len(H) : m = <<H[i].at, 2, i, H[i].to>>
    BY DEF RowMilestones
  <2>2. H[i] \in HistoryRows
    OBVIOUS
  <2> QED BY <2>1, <2>2 DEF HistoryRows
<1>4. \A m \in S : \/ m \in LedgerMilestones(l) \/ m \in RowMilestones(l, H)
                   \/ m = TicketMilestone(T)
  BY DEF MilestonesOf
<1>5. LET m == TicketMilestone(T) IN m[1] \in Int /\ m[2] = 3 /\ m[3] = 0
  BY DEF TicketMilestone
<1> HIDE DEF S
<1>6. ASSUME NEW m \in S PROVE m[1] \in Int /\ m[2] \in 0 .. 3 /\ m[3] \in 0 .. K
  <2>1. CASE m \in LedgerMilestones(l)
    BY <1>1, <1>2, <2>1
  <2>2. CASE m \in RowMilestones(l, H)
    BY <1>1, <1>3, <2>2
  <2>3. CASE m = TicketMilestone(T)
    BY <1>1, <1>5, <2>3
  <2> QED BY <1>4, <2>1, <2>2, <2>3
<1>7. ASSUME NEW m \in S, NEW n \in S, m[2] = n[2], m[3] = n[3] PROVE m = n
  <2>1. CASE m \in LedgerMilestones(l)
    <3>1. n \in LedgerMilestones(l)
      BY <1>2, <1>3, <1>4, <1>5, <1>7, <2>1
    <3> QED BY <1>2, <1>7, <2>1, <3>1
  <2>2. CASE m \in RowMilestones(l, H)
    <3>1. n \in RowMilestones(l, H)
      BY <1>2, <1>3, <1>4, <1>5, <1>7, <2>2
    <3> QED BY <1>3, <1>7, <2>2, <3>1
  <2>3. CASE m = TicketMilestone(T)
    <3>1. n = TicketMilestone(T)
      BY <1>2, <1>3, <1>4, <1>5, <1>7, <2>3
    <3> QED BY <2>3, <3>1
  <2> QED BY <1>4, <2>1, <2>2, <2>3
<1> QED BY <1>1, <1>6, <1>7 DEF Sortable, S, K

LEMMA RecordEscalationKeeps == TimelineInv /\ RecordEscalation => TimelineInv'
<1> SUFFICES ASSUME TimelineInv, RecordEscalation PROVE TimelineInv'
  OBVIOUS
<1>1. PICK c \in Clocks :
        ledger' = RecordCustody(ledger, <<Event("escalated", sweep, <<"sla_instance", c>>,
                                                [status |-> ticket.status], [status |-> ticket.status])>>)
  BY DEF RecordEscalation
<1> DEFINE e == Event("escalated", sweep, <<"sla_instance", c>>,
                      [status |-> ticket.status], [status |-> ticket.status])
           k == Len(ledger)
           n == k + 1
<1>2. /\ now \in Nat /\ now' = now /\ app' = app /\ schema' = schema /\ reading' = reading
      /\ sweep' = sweep /\ ticket' = ticket /\ history' = history /\ audits' = audits
      /\ Created /\ ticket \in Tickets /\ ticket.status \in Statuses
      /\ sweep \in 0 .. now /\ sweep \in Nat /\ app # "old"
      /\ history \in Seq(HistoryRows) /\ audits \in Seq(AuditRows)
      /\ ledger \in Seq(LedgerRows) /\ VerifyCustodyChain(ledger) /\ k \in Nat
  BY DEF TimelineInv, TypesInv, DeploymentInv, RecordEscalation, Created, Tickets, system
<1>3. e \in Inputs
  BY <1>2 DEF Event, Inputs, EventTypes, Sources, Said
<1>4. /\ e.type # "created" /\ e.at = sweep /\ e.source = <<"sla_instance", c>>
      /\ e.prev = [status |-> ticket.status] /\ e.new = [status |-> ticket.status]
  BY DEF Event
<1>5. ledger' = RecordCustody(ledger, <<e>>)
  BY <1>1
<1> HIDE DEF e
<1>6. /\ ledger' \in Seq(LedgerRows) /\ Len(ledger') = n /\ SameEvent(ledger'[n], e)
      /\ VerifyCustodyChain(ledger')
      /\ \A j \in 1 .. k : ledger'[j] = ledger[j]
  <2>1. <<e>> \in Seq(Inputs) /\ Len(<<e>>) = 1 /\ <<e>>[1] = e
    BY <1>3, OneEvent
  <2>2. Grown(ledger, ledger', <<e>>)
    BY <1>2, <1>5, <2>1, Recorded
  <2> QED BY <2>1, <2>2 DEF Grown
<1>7. /\ n \in Nat /\ n = k + 1 /\ n \in 1 .. n /\ ledger' # <<>>
      /\ \A j \in 1 .. n : j \in 1 .. k \/ j = n
      /\ \A j \in 1 .. k : j \in 1 .. n
  BY <1>2, <1>6
<1> HIDE DEF n, k
<1>8. /\ ledger'[n].type # "created" /\ ledger'[n].at = sweep /\ ledger'[n].source = <<"sla_instance", c>>
      /\ ledger'[n].prev = [status |-> ticket.status] /\ ledger'[n].new = [status |-> ticket.status]
  BY <1>4, <1>6 DEF SameEvent
<1>9. TypesInv'
  BY <1>2, <1>6 DEF TimelineInv, TypesInv
<1>10. DeploymentInv'
  BY <1>2, <1>7 DEF TimelineInv, DeploymentInv
<1>11. HistoryInv'
  BY <1>2 DEF TimelineInv, HistoryInv, Created
<1>12. AuditInv'
  BY <1>2 DEF TimelineInv, AuditInv
<1>13. EventsInv'
  <2>1. EventsInv
    BY DEF TimelineInv
  <2>2. StandsForClock(ledger'[n]) /\ IsClock(ledger'[n])
    BY <1>2, <1>8 DEF StandsForClock, IsClock
  <2>3. ASSUME NEW j \in 1 .. n
        PROVE  Stands(ledger'[j], history', audits', ticket') /\ ledger'[j].at <= now'
    <3>1. CASE j = n
      BY <1>2, <1>8, <2>2, <3>1 DEF Stands
    <3>2. CASE j \in 1 .. k
      BY <1>2, <1>6, <2>1, <3>2 DEF EventsInv, k
    <3> QED BY <1>7, <3>1, <3>2
  <2>4. ASSUME NEW i \in 1 .. n, NEW j \in 1 .. n, Same(ledger'[i], ledger'[j]) PROVE i = j
    <3>1. CASE i \in 1 .. k /\ j \in 1 .. k
      BY <1>6, <2>1, <2>4, <3>1 DEF EventsInv, Once, k
    <3>2. CASE i \in 1 .. k /\ j = n
      BY <1>8, <2>2, <2>4, <3>2 DEF Same, IsClock
    <3>3. CASE i = n /\ j \in 1 .. k
      BY <1>8, <2>2, <2>4, <3>3 DEF Same
    <3> QED BY <1>7, <3>1, <3>2, <3>3
  <2> QED BY <1>6, <2>3, <2>4 DEF EventsInv, Once
<1>14. CoverageInv'
  <2> SUFFICES ASSUME NEW d \in 1 .. n, ledger'[d].type = "created"
               PROVE  /\ \A h \in 1 .. Len(history) : RowCovered(ledger', h)
                      /\ \A a \in 1 .. Len(audits) : \A f \in audits[a].fields : FieldCovered(ledger', a, f[1])
    BY <1>2, <1>6 DEF CoverageInv
  <2>1. d \in 1 .. k /\ ledger[d].type = "created"
    BY <1>6, <1>7, <1>8
  <2>2. /\ \A h \in 1 .. Len(history) : RowCovered(ledger, h)
        /\ \A a \in 1 .. Len(audits) : \A f \in audits[a].fields : FieldCovered(ledger, a, f[1])
    BY <2>1 DEF TimelineInv, CoverageInv, k
  <2>3. ASSUME NEW h, RowCovered(ledger, h) PROVE RowCovered(ledger', h)
    BY <1>6, <1>7, <2>3 DEF RowCovered, k
  <2>4. ASSUME NEW a, NEW x, FieldCovered(ledger, a, x) PROVE FieldCovered(ledger', a, x)
    BY <1>6, <1>7, <2>4 DEF FieldCovered, k
  <2> QED BY <2>2, <2>3, <2>4
<1>15. TruthInv'
  <2> SUFFICES ASSUME NEW x \in Aspects
               PROVE  /\ \A i \in 1 .. n :
                           x \in DOMAIN ledger'[i].prev => LedgerTells(ledger', i - 1, x, ledger'[i].prev[x])
                      /\ LedgerTells(ledger', n, x, ticket[x])
    BY <1>2, <1>6 DEF TruthInv
  <2>1. /\ \A i \in 1 .. k : x \in DOMAIN ledger[i].prev => LedgerTells(ledger, i - 1, x, ledger[i].prev[x])
        /\ LedgerTells(ledger, k, x, ticket[x])
    BY DEF TimelineInv, TruthInv, k
  <2>2. LedgerTells(ledger', k, x, ticket[x])
    <3>1. k <= k /\ k \in Nat /\ \A j \in k + 1 .. k : x \notin DOMAIN ledger'[j].new
      BY <1>2
    <3> QED BY <1>6, <2>1, <3>1, TellsStill
  <2>3. ASSUME NEW i \in 1 .. n, x \in DOMAIN ledger'[i].prev
        PROVE  LedgerTells(ledger', i - 1, x, ledger'[i].prev[x])
    <3>1. CASE i \in 1 .. k
      <4>1. i - 1 \in Nat /\ i - 1 <= i - 1 /\ (\A j \in 1 .. i - 1 : ledger'[j] = ledger[j])
            /\ \A j \in (i - 1) + 1 .. i - 1 : x \notin DOMAIN ledger'[j].new
        BY <1>2, <1>6, <3>1
      <4>2. LedgerTells(ledger, i - 1, x, ledger'[i].prev[x])
        <5>1. ledger'[i] = ledger[i]
          BY <1>6, <3>1
        <5>2. x \in DOMAIN ledger[i].prev
          BY <2>3, <5>1
        <5>3. LedgerTells(ledger, i - 1, x, ledger[i].prev[x])
          BY <2>1, <3>1, <5>2
        <5> QED BY <5>1, <5>3
      <4> DEFINE p == i - 1
                 v == ledger'[i].prev[x]
      <4>3. LedgerTells(ledger, p, x, v) /\ p \in Nat /\ p <= p /\ (\A j \in 1 .. p : ledger'[j] = ledger[j])
            /\ \A j \in p + 1 .. p : x \notin DOMAIN ledger'[j].new
        BY <4>1, <4>2
      <4> HIDE DEF p, v
      <4>4. LedgerTells(ledger', p, x, v)
        BY <4>3, TellsStill
      <4> QED BY <4>4 DEF p, v
    <3>2. CASE i = n
      <4>1. i - 1 = k /\ x = "status" /\ ledger'[i].prev[x] = ticket[x]
        BY <1>2, <1>7, <1>8, <2>3, <3>2
      <4> QED BY <2>2, <4>1
    <3> QED BY <1>7, <3>1, <3>2
  <2>4. LedgerTells(ledger', n, x, ticket[x])
    <3>1. CASE x = "status"
      <4>1. ledger'[n].new[x] = ticket[x] /\ x \in DOMAIN ledger'[n].new
        BY <1>8, <3>1
      <4>2. \A j \in 1 .. n : j = n \/ n \in j + 1 .. n
        BY <1>2, <1>7
      <4> QED BY <4>1, <4>2 DEF LedgerTells
    <3>2. CASE x # "status"
      <4>1. x \notin DOMAIN ledger'[n].new
        BY <1>8, <3>2
      <4>2. k \in Nat /\ k <= n /\ \A j \in k + 1 .. n : x \notin DOMAIN ledger'[j].new
        BY <1>2, <1>7, <4>1
      <4> QED BY <1>6, <1>7, <2>1, <4>2, TellsStill
    <3> QED BY <3>1, <3>2
  <2> QED BY <2>3, <2>4
<1>16. LastInv'
  <2> DEFINE S == MilestonesOf(ledger, history, ticket)
             U == MilestonesOf(ledger', history, ticket)
             m == <<sweep, 1, n, ticket.status>>
             W == LedgerMilestones(ledger) \cup RowMilestones(ledger, history)
  <2>1. Milestones = S /\ Milestones' = U
    BY <1>2, <1>6, MilestonesNow, MilestonesThen
  <2>2. PICK s \in S : s[4] = ticket.status /\ \A x \in S : x = s \/ Before(x, s)
    BY <1>2, <2>1 DEF TimelineInv, LastInv
  <2>3. LedgerMilestones(ledger') = LedgerMilestones(ledger) \cup {m}
    <3>1. ASSUME NEW x \in LedgerMilestones(ledger') PROVE x \in LedgerMilestones(ledger) \cup {m}
      <4>1. PICK i \in 1 .. n : "status" \in DOMAIN ledger'[i].new
                                /\ x = <<ledger'[i].at, 1, i, ledger'[i].new["status"]>>
        BY <1>6, <3>1 DEF LedgerMilestones
      <4>2. CASE i = n
        BY <1>8, <4>1, <4>2
      <4>3. CASE i \in 1 .. k
        BY <1>6, <4>1, <4>3 DEF LedgerMilestones, k
      <4> QED BY <1>7, <4>2, <4>3
    <3>2. m \in LedgerMilestones(ledger')
      BY <1>6, <1>7, <1>8 DEF LedgerMilestones
    <3>3. LedgerMilestones(ledger) \subseteq LedgerMilestones(ledger')
      <4> SUFFICES ASSUME NEW i \in 1 .. k, "status" \in DOMAIN ledger[i].new
                   PROVE  <<ledger[i].at, 1, i, ledger[i].new["status"]>> \in LedgerMilestones(ledger')
        BY DEF LedgerMilestones, k
      <4>1. ledger'[i] = ledger[i] /\ i \in 1 .. Len(ledger')
        BY <1>6, <1>7
      <4> QED BY <4>1 DEF LedgerMilestones
    <3> QED BY <3>1, <3>2, <3>3
  <2>4. RowMilestones(ledger', history) = RowMilestones(ledger, history)
    <3>1. \A h : RowCovered(ledger', h) <=> RowCovered(ledger, h)
      <4>1. \A h : ledger'[n].source # Transitioned(h)
        BY <1>8 DEF Transitioned
      <4> QED BY <1>6, <1>7, <4>1 DEF RowCovered, k
    <3> QED BY <3>1 DEF RowMilestones
  <2> HIDE DEF m
  <2>5. U = W \cup {m} /\ m \in U
    BY <2>3, <2>4 DEF MilestonesOf
  <2>6. CASE W = {}
    <3>1. U = {m} /\ m[4] = ticket.status
      BY <2>5, <2>6 DEF m
    <3> QED BY <1>2, <2>1, <3>1 DEF LastInv
  <2>7. CASE W # {}
    <3>1. S = W
      BY <2>7 DEF MilestonesOf
    <3>2. Sortable(U, Len(ledger') + Len(history)) /\ Len(ledger') + Len(history) \in Nat
      <4>1. ticket.createdAt \in Nat
        BY <1>2 DEF Tickets
      <4> QED BY <1>2, <1>6, <4>1, MilestonesSortable
    <3>3. s \in U /\ U = S \cup {m}
      BY <2>5, <3>1
    <3> HIDE DEF U, S, W
    <3>4. s = m \/ Before(s, m) \/ Before(m, s)
      BY <2>5, <3>2, <3>3, BeforeOrders
    <3>5. CASE Before(m, s)
      BY <1>2, <2>1, <2>2, <3>3, <3>5 DEF LastInv
    <3>6. CASE Before(s, m) \/ s = m
      <4>1. m[4] = ticket.status
        BY DEF m
      <4>2. ASSUME NEW x \in U PROVE x = m \/ Before(x, m)
        <5>1. x = m \/ x = s \/ Before(x, s)
          BY <2>2, <3>3
        <5>2. Before(x, s) /\ Before(s, m) => Before(x, m)
          BY <2>5, <3>2, <3>3, BeforeOrders
        <5> QED BY <3>6, <5>1, <5>2
      <4> QED BY <1>2, <2>1, <2>5, <4>1, <4>2 DEF LastInv
    <3> QED BY <3>4, <3>5, <3>6
  <2> QED BY <2>6, <2>7
<1> QED BY <1>6, <1>9, <1>10, <1>11, <1>12, <1>13, <1>14, <1>15, <1>16 DEF TimelineInv

-----------------------------------------------------------------------------
(* The backfill.                                                           *)
FieldSource(a, f) ==
  IF f[1] = "owner" THEN <<audits[a].at, 2, a, OwnerEvent(audits[a].at, a, f[2], f[3])>>
                    ELSE <<audits[a].at, 1, a, QueueEvent(audits[a].at, a, f[2], f[3])>>

RowSource(h) ==
  <<history[h].at, 3, h, StatusEvent(TypeForTransition(history[h].to), history[h].at, h, history[h])>>

CreatedSource(r) == <<CreatedEvent(r).at, 0, 0, CreatedEvent(r)>>

LEMMA SourcesAre ==
  ASSUME TypesInv, NEW r, r.history = history, r.audits = audits, NEW m
  PROVE  m \in BackfillSources(r) <=>
           \/ m = CreatedSource(r)
           \/ \E a \in 1 .. Len(audits) : \E f \in audits[a].fields : m = FieldSource(a, f)
           \/ \E h \in 1 .. Len(history) \ Creations(history) : m = RowSource(h)
<1> DEFINE OldField(a, f) ==
             CASE f[1] = "owner" -> <<r.audits[a].at, 2, a, OwnerEvent(r.audits[a].at, a, f[2], f[3])>>
               [] f[1] = "queue" -> <<r.audits[a].at, 1, a, QueueEvent(r.audits[a].at, a, f[2], f[3])>>
           OldAudit(a) == {OldField(a, f) : f \in r.audits[a].fields}
           OldRow(h) == <<r.history[h].at, 3, h,
                          StatusEvent(TypeForTransition(r.history[h].to), r.history[h].at, h, r.history[h])>>
<1>1. BackfillSources(r) =
        {CreatedSource(r)} \cup (UNION {OldAudit(a) : a \in 1 .. Len(r.audits)})
          \cup {OldRow(h) : h \in 1 .. Len(r.history) \ Creations(r.history)}
  BY DEF BackfillSources, CreatedSource
<1>2. ASSUME NEW a \in 1 .. Len(audits), NEW f \in audits[a].fields
      PROVE  OldField(a, f) = FieldSource(a, f)
  <2>1. audits[a] \in AuditRows
    BY DEF TypesInv
  <2>2. f[1] = "owner" \/ f[1] = "queue"
    BY <2>1 DEF AuditRows, Fields
  <2> QED BY <2>2 DEF FieldSource
<1>3. ASSUME NEW h PROVE OldRow(h) = RowSource(h)
  BY DEF RowSource
<1> HIDE DEF OldField, OldRow
<1>4. ASSUME NEW a \in 1 .. Len(audits)
      PROVE  m \in OldAudit(a) <=> \E f \in audits[a].fields : m = FieldSource(a, f)
  BY <1>2
<1> HIDE DEF OldAudit
<1>5. m \in UNION {OldAudit(a) : a \in 1 .. Len(r.audits)}
        <=> \E a \in 1 .. Len(audits) : \E f \in audits[a].fields : m = FieldSource(a, f)
  BY <1>4
<1>6. m \in {OldRow(h) : h \in 1 .. Len(r.history) \ Creations(r.history)}
        <=> \E h \in 1 .. Len(history) \ Creations(history) : m = RowSource(h)
  BY <1>3
<1> DEFINE P == UNION {OldAudit(a) : a \in 1 .. Len(r.audits)}
           Q == {OldRow(h) : h \in 1 .. Len(r.history) \ Creations(r.history)}
<1>7. m \in BackfillSources(r) <=> m = CreatedSource(r) \/ m \in P \/ m \in Q
  <2>1. BackfillSources(r) = {CreatedSource(r)} \cup P \cup Q
    BY <1>1
  <2> HIDE DEF P, Q
  <2> QED BY <2>1
<1> QED BY <1>5, <1>6, <1>7, Zenon

LEMMA CreationFirst ==
  ASSUME TypesInv, HistoryInv
  PROVE  /\ Creations(history) = {} \/ (Creations(history) = {1} /\ 1 \in 1 .. Len(history))
         /\ \A h \in 1 .. Len(history) : history[h] \in HistoryRows /\ history[h].at \in Nat
         /\ 1 \in Creations(history) => history[1].to = Initial /\ history[1].at = ticket.createdAt
<1>1. \A h \in 1 .. Len(history) : history[h] \in HistoryRows /\ history[h].at \in Nat /\ history[h].to \in Statuses
  <2>1. \A h \in 1 .. Len(history) : history[h] \in HistoryRows
    BY DEF TypesInv
  <2> QED BY <2>1 DEF HistoryRows
<1>2. ASSUME NEW h \in 1 .. Len(history), h # 1 PROVE history[h].from # Nobody
  <2>1. h - 1 \in 1 .. Len(history) /\ history[h].from = history[h - 1].to
    BY <1>2 DEF HistoryInv
  <2> QED BY <1>1, <2>1, NoStatusIsNobody
<1>3. 1 \in Creations(history) => history # <<>> /\ 1 \in 1 .. Len(history) /\ history[1].from = Nobody
  BY DEF Creations
<1>4. \A h \in Creations(history) : h = 1
  BY <1>2 DEF Creations
<1>5. 1 \in Creations(history) => history[1].to = Initial /\ history[1].at = ticket.createdAt
  BY <1>3 DEF HistoryInv
<1> QED BY <1>1, <1>3, <1>4, <1>5

(* The source of the creation.                                             *)
LEMMA CreatedSourceIs ==
  ASSUME TypesInv, HistoryInv, AuditInv, Created, NEW r, r.history = history, r.audits = audits
  PROVE  LET e == CreatedEvent(r)
         IN  /\ e \in Inputs /\ e.type = "created" /\ e.at = ticket.createdAt
             /\ e.prev = <<>> /\ e.new = [status |-> Initial]
             /\ \/ 1 \in Creations(history) /\ e.source = Transitioned(1)
                \/ /\ Creations(history) = {}
                   /\ \/ e.source = <<>>
                      \/ /\ e.source = Audited(1) /\ audits # <<>>
                         /\ audits[1].action = "ticket.created" /\ audits[1].fields = {}
<1> DEFINE audit == {i \in 1 .. Len(audits) : audits[i].action = "ticket.created"}
           e == CreatedEvent(r)
<1>1. Min({1}) = 1
  BY DEF Min
<1>2. audit = {} \/ (audit = {1} /\ 1 \in 1 .. Len(audits))
  <2>1. \A i \in audit : i = 1
    BY DEF AuditInv
  <2> QED BY <2>1
<1>3. audit = {1} => audits # <<>> /\ audits[1].action = "ticket.created"
                     /\ audits[1].at = ticket.createdAt /\ audits[1].fields = {}
  <2> SUFFICES ASSUME audit = {1} PROVE audits # <<>> /\ audits[1].action = "ticket.created"
                     /\ audits[1].at = ticket.createdAt /\ audits[1].fields = {}
    OBVIOUS
  <2>1. 1 \in 1 .. Len(audits) /\ audits[1].action = "ticket.created"
    OBVIOUS
  <2> HIDE DEF audit
  <2> QED BY <2>1 DEF AuditInv
<1>4. e = Event("created",
                IF audit = {} THEN ticket.createdAt ELSE audits[Min(audit)].at,
                IF Creations(history) # {} THEN Transitioned(Min(Creations(history)))
                ELSE IF audit # {} THEN Audited(Min(audit)) ELSE <<>>,
                <<>>,
                [status |-> IF Creations(history) = {} THEN Initial ELSE history[Min(Creations(history))].to])
  BY DEF CreatedEvent
<1> HIDE DEF audit, e
<1>5. /\ e.type = "created" /\ e.at = ticket.createdAt /\ e.prev = <<>> /\ e.new = [status |-> Initial]
  BY <1>1, <1>2, <1>3, <1>4, CreationFirst DEF Event
<1>6. \/ 1 \in Creations(history) /\ e.source = Transitioned(1)
      \/ /\ Creations(history) = {}
         /\ \/ e.source = <<>>
            \/ /\ e.source = Audited(1) /\ audits # <<>>
               /\ audits[1].action = "ticket.created" /\ audits[1].fields = {}
  BY <1>1, <1>2, <1>3, <1>4, CreationFirst DEF Event
<1>7. e \in Inputs
  <2>1. e.source \in Sources
    <3>1. <<>> \in Sources /\ Transitioned(1) \in Sources /\ Audited(1) \in Sources
      BY DEF Sources, Transitioned, Audited
    <3> QED BY <1>6, <3>1, Zenon
  <2>2. ticket.createdAt \in Nat
    BY DEF TypesInv, Tickets
  <2>3. [status |-> Initial] \in Said /\ <<>> \in Said /\ "created" \in EventTypes
    BY DEF Said, Statuses, EventTypes
  <2>4. e = [type |-> e.type, at |-> e.at, source |-> e.source, prev |-> e.prev, new |-> e.new]
    BY <1>4 DEF Event
  <2> QED BY <1>5, <2>1, <2>2, <2>3, <2>4 DEF Inputs
<1> QED BY <1>5, <1>6, <1>7 DEF e

(* The source of a transition row.                                         *)
LEMMA RowSourceIs ==
  ASSUME TypesInv, HistoryInv, NEW h \in 1 .. Len(history) \ Creations(history)
  PROVE  LET e == RowSource(h)[4]
         IN  /\ e \in Inputs /\ e.type # "created" /\ e.at = history[h].at /\ e.source = Transitioned(h)
             /\ e.prev = [status |-> history[h].from] /\ e.new = [status |-> history[h].to]
             /\ RowSource(h)[1] = history[h].at /\ RowSource(h)[2] = 3 /\ RowSource(h)[3] = h
             /\ ticket.createdAt < history[h].at /\ history[h].from # Nobody
<1>1. /\ history[h] \in HistoryRows /\ history[h].at \in Nat /\ history[h].from # Nobody
      /\ history # <<>> /\ ticket.createdAt \in Nat
  BY CreationFirst DEF Creations, TypesInv, Tickets
<1>2. history[h].from \in Statuses /\ history[h].to \in Statuses
  BY <1>1 DEF HistoryRows
<1>3. ticket.createdAt < history[h].at
  <2>1. 1 \in 1 .. Len(history) /\ history[1].at \in Nat
    <3>1. 1 \in 1 .. Len(history)
      OBVIOUS
    <3> QED BY <3>1, CreationFirst
  <2>2. h = 1 => ticket.createdAt < history[1].at
    BY <1>1 DEF HistoryInv
  <2>3. h # 1 => history[1].at < history[h].at
    BY <2>1 DEF HistoryInv
  <2>4. ticket.createdAt <= history[1].at
    BY <1>1, <2>1 DEF HistoryInv
  <2> QED BY <1>1, <2>1, <2>2, <2>3, <2>4
<1>4. TypeForTransition(history[h].to) \in EventTypes /\ TypeForTransition(history[h].to) # "created"
  BY DEF TypeForTransition, EventTypes
<1> DEFINE e == RowSource(h)[4]
<1>5. e = Event(TypeForTransition(history[h].to), history[h].at, Transitioned(h),
                [status |-> history[h].from], [status |-> history[h].to])
  BY DEF RowSource, StatusEvent
<1>6. RowSource(h)[1] = history[h].at /\ RowSource(h)[2] = 3 /\ RowSource(h)[3] = h
  BY DEF RowSource
<1> HIDE DEF e
<1>7. /\ e.type # "created" /\ e.at = history[h].at /\ e.source = Transitioned(h)
      /\ e.prev = [status |-> history[h].from] /\ e.new = [status |-> history[h].to]
  BY <1>4, <1>5 DEF Event
<1>8. e \in Inputs
  <2>1. Transitioned(h) \in Sources
    BY DEF Sources, Transitioned
  <2>2. [status |-> history[h].from] \in Said /\ [status |-> history[h].to] \in Said
    BY <1>2 DEF Said
  <2> QED BY <1>1, <1>4, <1>5, <2>1, <2>2 DEF Event, Inputs
<1> QED BY <1>1, <1>3, <1>6, <1>7, <1>8 DEF e

(* The source of a field of an audit row.                                  *)
Kind(x) == IF x = "owner" THEN 2 ELSE 1

LEMMA FieldSourceIs ==
  ASSUME TypesInv, AuditInv, NEW a \in 1 .. Len(audits), NEW f \in audits[a].fields
  PROVE  LET e == FieldSource(a, f)[4]
         IN  /\ f[1] \in {"owner", "queue"} /\ f = <<f[1], f[2], f[3]>>
             /\ audits[a].at \in Nat /\ audits[a].action # "ticket.created"
             /\ e \in Inputs /\ e.type # "created" /\ e.at = audits[a].at /\ e.source = Audited(a)
             /\ DOMAIN e.prev = {f[1]} /\ DOMAIN e.new = {f[1]}
             /\ e.prev[f[1]] = f[2] /\ e.new[f[1]] = f[3]
             /\ FieldSource(a, f)[1] = audits[a].at /\ FieldSource(a, f)[2] = Kind(f[1])
             /\ FieldSource(a, f)[3] = a
<1>1. audits[a] \in AuditRows
  BY DEF TypesInv
<1>2. /\ f \in Fields /\ audits[a].at \in Nat
  BY <1>1 DEF AuditRows
<1>3. audits[a].action # "ticket.created"
  BY DEF AuditInv
<1>4. CASE f \in {"owner"} \X Owners \X Owners
  <2>1. f[1] = "owner" /\ f[2] \in Owners /\ f[3] \in Owners /\ f = <<f[1], f[2], f[3]>>
    BY <1>4
  <2> DEFINE e == OwnerEvent(audits[a].at, a, f[2], f[3])
  <2>2. FieldSource(a, f) = <<audits[a].at, 2, a, e>>
    BY <2>1 DEF FieldSource
  <2>3. e \in Inputs /\ e.type # "created"
    BY <1>2, <2>1, OwnerInput
  <2>4. e.at = audits[a].at /\ e.source = Audited(a) /\ e.prev = [owner |-> f[2]] /\ e.new = [owner |-> f[3]]
    BY DEF OwnerEvent, Event
  <2> HIDE DEF e
  <2> QED BY <1>2, <1>3, <2>1, <2>2, <2>3, <2>4 DEF Kind
<1>5. CASE f \in {"queue"} \X Places \X Places
  <2>1. f[1] = "queue" /\ f[2] \in Places /\ f[3] \in Places /\ f = <<f[1], f[2], f[3]>>
    BY <1>5
  <2> DEFINE e == QueueEvent(audits[a].at, a, f[2], f[3])
  <2>2. FieldSource(a, f) = <<audits[a].at, 1, a, e>>
    BY <2>1 DEF FieldSource
  <2>3. e \in Inputs /\ e.type # "created"
    BY <1>2, <2>1, QueueInput
  <2>4. e.at = audits[a].at /\ e.source = Audited(a) /\ e.prev = [queue |-> f[2]] /\ e.new = [queue |-> f[3]]
    BY DEF QueueEvent, Event
  <2> HIDE DEF e
  <2> QED BY <1>2, <1>3, <2>1, <2>2, <2>3, <2>4 DEF Kind
<1> QED BY <1>2, <1>4, <1>5 DEF Fields

(* What the backfill finds: sources in a total order, each standing for    *)
(* something, and no two for the same.                                     *)
FromRows(r) ==
  /\ TypesInv /\ HistoryInv /\ AuditInv /\ Created
  /\ r.history = history /\ r.audits = audits

LEMMA SourceCases ==
  ASSUME NEW r, FromRows(r), NEW m \in BackfillSources(r)
  PROVE  \/ /\ m = CreatedSource(r) /\ m[1] = ticket.createdAt /\ m[2] = 0 /\ m[3] = 0
            /\ m[4].type = "created" /\ m[4].new = [status |-> Initial] /\ m[4].prev = <<>>
         \/ \E a \in 1 .. Len(audits) : \E f \in audits[a].fields :
              /\ m = FieldSource(a, f) /\ m[1] = audits[a].at /\ m[2] = Kind(f[1]) /\ m[3] = a
              /\ m[4].type # "created" /\ f[1] \in {"owner", "queue"}
              /\ DOMAIN m[4].new = {f[1]} /\ DOMAIN m[4].prev = {f[1]}
              /\ m[4].prev[f[1]] = f[2] /\ m[4].new[f[1]] = f[3]
         \/ \E h \in 1 .. Len(history) \ Creations(history) :
              /\ m = RowSource(h) /\ m[1] = history[h].at /\ m[2] = 3 /\ m[3] = h
              /\ m[4].type # "created" /\ m[4].source = Transitioned(h)
              /\ m[4].new = [status |-> history[h].to] /\ m[4].prev = [status |-> history[h].from]
<1>1. TypesInv /\ HistoryInv /\ AuditInv /\ Created /\ r.history = history /\ r.audits = audits
  BY DEF FromRows
<1>2. CASE m = CreatedSource(r)
  <2>1. m[1] = CreatedEvent(r).at /\ m[2] = 0 /\ m[3] = 0 /\ m[4] = CreatedEvent(r)
    BY <1>2 DEF CreatedSource
  <2> QED BY <1>1, <1>2, <2>1, CreatedSourceIs
<1>3. CASE \E a \in 1 .. Len(audits) : \E f \in audits[a].fields : m = FieldSource(a, f)
  <2>1a. PICK a \in 1 .. Len(audits) : \E f \in audits[a].fields : m = FieldSource(a, f)
    BY <1>3
  <2>1. PICK f \in audits[a].fields : m = FieldSource(a, f)
    BY <2>1a
  <2> QED BY <1>1, <2>1, FieldSourceIs
<1>4. CASE \E h \in 1 .. Len(history) \ Creations(history) : m = RowSource(h)
  <2>1. PICK h \in 1 .. Len(history) \ Creations(history) : m = RowSource(h)
    BY <1>4
  <2> QED BY <1>1, <2>1, RowSourceIs
<1> QED BY <1>1, <1>2, <1>3, <1>4, SourcesAre

LEMMA KindTells ==
  ASSUME NEW r, FromRows(r), NEW m \in BackfillSources(r)
  PROVE  /\ m[2] = 0 => m = CreatedSource(r)
         /\ m[2] = 3 => m[3] \in 1 .. Len(history) \ Creations(history) /\ m = RowSource(m[3])
         /\ m[2] # 0 /\ m[2] # 3 =>
              \E a \in 1 .. Len(audits) : \E f \in audits[a].fields :
                m = FieldSource(a, f) /\ m[2] = Kind(f[1]) /\ m[3] = a /\ f[1] \in {"owner", "queue"}
<1>1. TypesInv /\ HistoryInv /\ AuditInv /\ Created /\ r.history = history /\ r.audits = audits
  BY DEF FromRows
<1>2. CASE m = CreatedSource(r)
  <2>1. m[2] = 0
    BY <1>2 DEF CreatedSource
  <2> QED BY <1>2, <2>1
<1>3. CASE \E a \in 1 .. Len(audits) : \E f \in audits[a].fields : m = FieldSource(a, f)
  <2>1a. PICK a \in 1 .. Len(audits) : \E f \in audits[a].fields : m = FieldSource(a, f)
    BY <1>3
  <2>1. PICK f \in audits[a].fields : m = FieldSource(a, f)
    BY <2>1a
  <2>2. m[2] = Kind(f[1]) /\ m[3] = a /\ f[1] \in {"owner", "queue"}
    BY <1>1, <2>1, FieldSourceIs
  <2>3. m[2] # 0 /\ m[2] # 3
    BY <2>2 DEF Kind
  <2> QED BY <2>1, <2>2, <2>3
<1>4. CASE \E h \in 1 .. Len(history) \ Creations(history) : m = RowSource(h)
  <2>1. PICK h \in 1 .. Len(history) \ Creations(history) : m = RowSource(h)
    BY <1>4
  <2>2. m[2] = 3 /\ m[3] = h
    BY <1>1, <2>1, RowSourceIs
  <2> QED BY <2>1, <2>2
<1> QED BY <1>1, <1>2, <1>3, <1>4, SourcesAre

LEMMA SourcesSortable ==
  ASSUME NEW r, FromRows(r)
  PROVE  /\ Len(history) + Len(audits) \in Nat
         /\ Sortable(BackfillSources(r), Len(history) + Len(audits))
         /\ \A m \in BackfillSources(r) : m[4] \in Inputs /\ m[4].at = m[1] /\ m[1] \in Nat /\ m[1] <= now
<1> DEFINE K == Len(history) + Len(audits)
           S == BackfillSources(r)
<1>1. /\ TypesInv /\ HistoryInv /\ AuditInv /\ Created /\ r.history = history /\ r.audits = audits
      /\ Len(history) \in Nat /\ Len(audits) \in Nat /\ K \in Nat
      /\ ticket.createdAt \in Nat /\ ticket.createdAt <= now
  BY DEF FromRows, TypesInv, Tickets, HistoryInv
<1>2. ASSUME NEW m \in S
      PROVE  /\ m[4] \in Inputs /\ m[4].at = m[1] /\ m[1] \in Nat /\ m[1] <= now
             /\ m[2] \in 0 .. 3 /\ m[3] \in 0 .. K
  <2>1. CASE m = CreatedSource(r)
    <3>1. m[1] = CreatedEvent(r).at /\ m[2] = 0 /\ m[3] = 0 /\ m[4] = CreatedEvent(r)
      BY <2>1 DEF CreatedSource
    <3> QED BY <1>1, <3>1, CreatedSourceIs
  <2>2. CASE \E a \in 1 .. Len(audits) : \E f \in audits[a].fields : m = FieldSource(a, f)
    <3>1a. PICK a \in 1 .. Len(audits) : \E f \in audits[a].fields : m = FieldSource(a, f)
      BY <2>2
    <3>1. PICK f \in audits[a].fields : m = FieldSource(a, f)
      BY <3>1a
    <3>2. /\ m[4] \in Inputs /\ m[4].at = audits[a].at /\ m[1] = audits[a].at /\ audits[a].at \in Nat
          /\ m[2] = Kind(f[1]) /\ m[3] = a
      BY <1>1, <3>1, FieldSourceIs
    <3>3. audits[a].at <= now /\ a \in 0 .. K
      BY <1>1 DEF AuditInv
    <3> QED BY <3>2, <3>3 DEF Kind
  <2>3. CASE \E h \in 1 .. Len(history) \ Creations(history) : m = RowSource(h)
    <3>1. PICK h \in 1 .. Len(history) \ Creations(history) : m = RowSource(h)
      BY <2>3
    <3>2. /\ m[4] \in Inputs /\ m[4].at = history[h].at /\ m[1] = history[h].at /\ m[2] = 3 /\ m[3] = h
      BY <1>1, <3>1, RowSourceIs
    <3>3. history[h].at <= now /\ history[h].at \in Nat /\ h \in 0 .. K
      BY <1>1, CreationFirst DEF HistoryInv
    <3> QED BY <3>2, <3>3
  <2> QED BY <1>1, <2>1, <2>2, <2>3, SourcesAre
<1>3. ASSUME NEW m \in S, NEW n \in S, m[2] = n[2], m[3] = n[3] PROVE m = n
  <2>1. CASE m[2] = 0
    BY <1>3, <2>1, KindTells
  <2>2. CASE m[2] = 3
    BY <1>3, <2>2, KindTells
  <2>3. CASE m[2] # 0 /\ m[2] # 3
    <3>1a. PICK a \in 1 .. Len(audits) : \E f \in audits[a].fields :
            m = FieldSource(a, f) /\ m[2] = Kind(f[1]) /\ m[3] = a /\ f[1] \in {"owner", "queue"}
      BY <2>3, KindTells
    <3>1. PICK f \in audits[a].fields :
            m = FieldSource(a, f) /\ m[2] = Kind(f[1]) /\ m[3] = a /\ f[1] \in {"owner", "queue"}
      BY <3>1a
    <3>2a. PICK b \in 1 .. Len(audits) : \E g \in audits[b].fields :
            n = FieldSource(b, g) /\ n[2] = Kind(g[1]) /\ n[3] = b /\ g[1] \in {"owner", "queue"}
      BY <1>3, <2>3, KindTells
    <3>2. PICK g \in audits[b].fields :
            n = FieldSource(b, g) /\ n[2] = Kind(g[1]) /\ n[3] = b /\ g[1] \in {"owner", "queue"}
      BY <3>2a
    <3>3. a = b /\ f[1] = g[1]
      BY <1>3, <3>1, <3>2 DEF Kind
    <3>4. f = g
      BY <1>1, <3>3 DEF AuditInv
    <3> QED BY <3>1, <3>2, <3>3, <3>4
  <2> QED BY <2>1, <2>2, <2>3
<1>4. Sortable(S, K)
  <2> HIDE DEF S, K
  <2>1. \A m \in S : m[1] \in Int
    BY <1>2
  <2> QED BY <1>2, <1>3, <2>1 DEF Sortable
<1> QED BY <1>1, <1>2, <1>4

LEMMA SourcesStand ==
  ASSUME NEW r, FromRows(r), NEW m \in BackfillSources(r)
  PROVE  Stands(m[4], history, audits, ticket) /\ ~IsClock(m[4])
<1>1. /\ TypesInv /\ HistoryInv /\ AuditInv /\ Created /\ r.history = history /\ r.audits = audits
  BY DEF FromRows
<1>2. CASE m = CreatedSource(r)
  <2> DEFINE e == CreatedEvent(r)
  <2>1. m[4] = e
    BY <1>2 DEF CreatedSource
  <2>2. /\ e.type = "created" /\ e.at = ticket.createdAt /\ e.new = [status |-> Initial]
        /\ \/ 1 \in Creations(history) /\ e.source = Transitioned(1)
           \/ /\ Creations(history) = {}
              /\ \/ e.source = <<>>
                 \/ e.source = Audited(1) /\ audits # <<>> /\ audits[1].action = "ticket.created"
    BY <1>1, CreatedSourceIs
  <2> HIDE DEF e
  <2>3. CASE 1 \in Creations(history) /\ e.source = Transitioned(1)
    <3>1. 1 \in 1 .. Len(history) /\ history[1].from = Nobody /\ history[1].to = Initial
          /\ history[1].at = ticket.createdAt /\ ticket.createdAt \in Nat
      BY <1>1, <2>3, CreationFirst DEF Creations, TypesInv, Tickets
    <3>2. StandsForRow(e, 1, history, ticket)
      BY <2>2, <2>3, <3>1 DEF StandsForRow
    <3> QED BY <2>1, <2>3, <3>1, <3>2 DEF Stands, IsClock, Transitioned
  <2>4. CASE /\ Creations(history) = {}
             /\ \/ e.source = <<>>
                \/ e.source = Audited(1) /\ audits # <<>> /\ audits[1].action = "ticket.created"
    <3>1. StandsForCreation(e, history, audits, ticket)
      BY <2>2, <2>4 DEF StandsForCreation
    <3>2. ~IsClock(e)
      BY <2>4 DEF IsClock, Audited
    <3> QED BY <2>1, <3>1, <3>2 DEF Stands
  <2> QED BY <2>2, <2>3, <2>4
<1>3. CASE \E a \in 1 .. Len(audits) : \E f \in audits[a].fields : m = FieldSource(a, f)
  <2>1a. PICK a \in 1 .. Len(audits) : \E f \in audits[a].fields : m = FieldSource(a, f)
    BY <1>3
  <2>1. PICK f \in audits[a].fields : m = FieldSource(a, f)
    BY <2>1a
  <2>2. StandsForField(m[4], a, f) /\ m[4].source = Audited(a)
    BY <1>1, <2>1, FieldSourceIs DEF StandsForField
  <2> QED BY <2>1, <2>2 DEF Stands, IsClock, Audited
<1>4. CASE \E h \in 1 .. Len(history) \ Creations(history) : m = RowSource(h)
  <2>1. PICK h \in 1 .. Len(history) \ Creations(history) : m = RowSource(h)
    BY <1>4
  <2> DEFINE e == m[4]
  <2>2. /\ e.type # "created" /\ e.at = history[h].at /\ e.source = Transitioned(h)
        /\ e.new = [status |-> history[h].to] /\ ticket.createdAt < history[h].at /\ history[h].from # Nobody
    BY <1>1, <2>1, RowSourceIs
  <2> HIDE DEF e
  <2>3. \A g \in 1 .. h - 1 : history[g].at < history[h].at
    BY <1>1 DEF HistoryInv, TypesInv
  <2>4. history[h].at \in Nat /\ ticket.createdAt \in Nat
    BY <1>1, CreationFirst DEF TypesInv, Tickets
  <2>5. StandsForRow(e, h, history, ticket)
    BY <2>2, <2>3, <2>4 DEF StandsForRow
  <2> QED BY <2>2, <2>5 DEF Stands, IsClock, Transitioned, e
<1> QED BY <1>1, <1>2, <1>3, <1>4, SourcesAre

LEMMA SourcesDiffer ==
  /\ \A x, y : Transitioned(x) = Transitioned(y) => x = y
  /\ \A x, y : Audited(x) = Audited(y) => x = y
  /\ \A x, y : Transitioned(x) # Audited(y)
BY DEF Transitioned, Audited

LEMMA SourcesOnce ==
  ASSUME NEW r, FromRows(r), NEW m \in BackfillSources(r), NEW n \in BackfillSources(r), Same(m[4], n[4])
  PROVE  m = n
<1>1. /\ TypesInv /\ HistoryInv /\ AuditInv /\ Created /\ r.history = history /\ r.audits = audits
  BY DEF FromRows
<1>2. ASSUME NEW x \in BackfillSources(r), NEW y \in BackfillSources(r), Same(x[4], y[4]), x = CreatedSource(r)
      PROVE  y = CreatedSource(r)
  <2> DEFINE e == CreatedEvent(r)
  <2>1. x[4] = e
    BY <1>2 DEF CreatedSource
  <2>2. /\ e.type = "created" /\ e.new = [status |-> Initial]
        /\ \/ 1 \in Creations(history) /\ e.source = Transitioned(1)
           \/ /\ Creations(history) = {}
              /\ \/ e.source = <<>>
                 \/ e.source = Audited(1) /\ audits[1].fields = {}
    BY <1>1, CreatedSourceIs
  <2> HIDE DEF e
  <2>3. CASE \E a \in 1 .. Len(audits) : \E f \in audits[a].fields : y = FieldSource(a, f)
    <3>1a. PICK a \in 1 .. Len(audits) : \E f \in audits[a].fields : y = FieldSource(a, f)
      BY <2>3
    <3>1. PICK f \in audits[a].fields : y = FieldSource(a, f)
      BY <3>1a
    <3>2. y[4].type # "created" /\ DOMAIN y[4].new = {f[1]} /\ f[1] \in {"owner", "queue"}
      BY <1>1, <3>1, FieldSourceIs
    <3>3. DOMAIN e.new = {"status"}
      BY <2>2
    <3> QED BY <1>2, <2>1, <3>2, <3>3 DEF Same
  <2>4. CASE \E h \in 1 .. Len(history) \ Creations(history) : y = RowSource(h)
    <3>1. PICK h \in 1 .. Len(history) \ Creations(history) : y = RowSource(h)
      BY <2>4
    <3>2. y[4].type # "created" /\ y[4].source = Transitioned(h)
      BY <1>1, <3>1, RowSourceIs
    <3>3. e.source = Transitioned(h)
      BY <1>2, <2>1, <3>2 DEF Same
    <3>4. 1 \in Creations(history) => h # 1
      BY <3>1
    <3> QED BY <2>2, <3>3, <3>4 DEF Transitioned, Audited
  <2> QED BY <1>1, <1>2, <2>3, <2>4, SourcesAre
<1>3. Same(n[4], m[4])
  <2>1. ~IsClock(m[4]) /\ ~IsClock(n[4])
    BY SourcesStand
  <2> QED BY <2>1 DEF Same
<1>4. CASE m = CreatedSource(r) \/ n = CreatedSource(r)
  BY <1>2, <1>3, <1>4
<1>5. CASE m # CreatedSource(r) /\ n # CreatedSource(r)
  <2>1. m[4].type # "created" /\ n[4].type # "created"
    BY <1>5, SourceCases
  <2>2. m[4].source = n[4].source
    BY <2>1 DEF Same
  <2>5. DOMAIN m[4].new \cap DOMAIN n[4].new # {}
    BY <2>1 DEF Same
  <2>3. CASE \E a \in 1 .. Len(audits) : \E f \in audits[a].fields : m = FieldSource(a, f)
    <3>1a. PICK a \in 1 .. Len(audits) : \E f \in audits[a].fields : m = FieldSource(a, f)
      BY <2>3
    <3>1. PICK f \in audits[a].fields : m = FieldSource(a, f)
      BY <3>1a
    <3>2. m[4].source = Audited(a) /\ DOMAIN m[4].new = {f[1]}
      BY <1>1, <3>1, FieldSourceIs
    <3>3. CASE \E b \in 1 .. Len(audits) : \E g \in audits[b].fields : n = FieldSource(b, g)
      <4>1a. PICK b \in 1 .. Len(audits) : \E g \in audits[b].fields : n = FieldSource(b, g)
        BY <3>3
      <4>1. PICK g \in audits[b].fields : n = FieldSource(b, g)
        BY <4>1a
      <4>2. n[4].source = Audited(b) /\ DOMAIN n[4].new = {g[1]}
        BY <1>1, <4>1, FieldSourceIs
      <4>3. a = b /\ f[1] = g[1]
        BY <2>2, <2>5, <3>2, <4>2 DEF Audited
      <4>4. f = g
        BY <1>1, <4>3 DEF AuditInv
      <4> QED BY <3>1, <4>1, <4>3, <4>4
    <3>4. CASE \E h \in 1 .. Len(history) \ Creations(history) : n = RowSource(h)
      <4>1. PICK h \in 1 .. Len(history) \ Creations(history) : n = RowSource(h)
        BY <3>4
      <4>2. n[4].source = Transitioned(h)
        BY <1>1, <4>1, RowSourceIs
      <4> QED BY <2>2, <3>2, <4>2, SourcesDiffer, Zenon
    <3> QED BY <1>1, <1>5, <3>3, <3>4, SourcesAre
  <2>4. CASE \E h \in 1 .. Len(history) \ Creations(history) : m = RowSource(h)
    <3>1. PICK h \in 1 .. Len(history) \ Creations(history) : m = RowSource(h)
      BY <2>4
    <3>2. m[4].source = Transitioned(h)
      BY <1>1, <3>1, RowSourceIs
    <3>3. CASE \E b \in 1 .. Len(audits) : \E g \in audits[b].fields : n = FieldSource(b, g)
      <4>1a. PICK b \in 1 .. Len(audits) : \E g \in audits[b].fields : n = FieldSource(b, g)
        BY <3>3
      <4>1. PICK g \in audits[b].fields : n = FieldSource(b, g)
        BY <4>1a
      <4>2. n[4].source = Audited(b)
        BY <1>1, <4>1, FieldSourceIs
      <4> QED BY <2>2, <3>2, <4>2, SourcesDiffer, Zenon
    <3>4. CASE \E g \in 1 .. Len(history) \ Creations(history) : n = RowSource(g)
      <4>1. PICK g \in 1 .. Len(history) \ Creations(history) : n = RowSource(g)
        BY <3>4
      <4>2. n[4].source = Transitioned(g)
        BY <1>1, <4>1, RowSourceIs
      <4>3. g = h
        BY <2>2, <3>2, <4>2, SourcesDiffer, Zenon
      <4> QED BY <3>1, <4>1, <4>3
    <3> QED BY <1>1, <1>5, <3>3, <3>4, SourcesAre
  <2> QED BY <1>1, <1>5, <2>3, <2>4, SourcesAre
<1> QED BY <1>4, <1>5

(* The order of sources is the order of the rows that they come from.      *)
LEMMA RowSourcesOrder ==
  ASSUME NEW r, FromRows(r)
  PROVE  /\ \A g, h \in 1 .. Len(history) \ Creations(history) :
              Before(RowSource(g), RowSource(h)) <=> g < h
         /\ \A h \in 1 .. Len(history) \ Creations(history) :
              /\ RowSource(h) \in BackfillSources(r)
              /\ Before(CreatedSource(r), RowSource(h)) /\ ~Before(RowSource(h), CreatedSource(r))
         /\ CreatedSource(r) \in BackfillSources(r)
<1>1. /\ TypesInv /\ HistoryInv /\ AuditInv /\ Created /\ r.history = history /\ r.audits = audits
      /\ ticket.createdAt \in Nat
  BY DEF FromRows, TypesInv, Tickets
<1>2. ASSUME NEW h \in 1 .. Len(history) \ Creations(history)
      PROVE  /\ RowSource(h)[1] = history[h].at /\ RowSource(h)[2] = 3 /\ RowSource(h)[3] = h
             /\ history[h].at \in Nat /\ ticket.createdAt < history[h].at
             /\ h \in Int
  <2>1. h \in 1 .. Len(history) /\ h \in Int
    BY <1>1
  <2>2. history[h].at \in Nat
    BY <1>1, <2>1, CreationFirst
  <2> QED BY <1>1, <2>1, <2>2, RowSourceIs
<1>3. CreatedSource(r)[1] = ticket.createdAt
  BY <1>1, CreatedSourceIs DEF CreatedSource
<1>4. ASSUME NEW g \in 1 .. Len(history) \ Creations(history),
             NEW h \in 1 .. Len(history) \ Creations(history)
      PROVE  Before(RowSource(g), RowSource(h)) <=> g < h
  <2>1. g < h => history[g].at < history[h].at
    BY <1>1 DEF HistoryInv
  <2>2. h < g => history[h].at < history[g].at
    BY <1>1 DEF HistoryInv
  <2>3. g = h \/ g < h \/ h < g
    BY <1>2
  <2> QED BY <1>2, <2>1, <2>2, <2>3 DEF Before
<1>5. ASSUME NEW h \in 1 .. Len(history) \ Creations(history)
      PROVE  Before(CreatedSource(r), RowSource(h)) /\ ~Before(RowSource(h), CreatedSource(r))
  BY <1>1, <1>2, <1>3 DEF Before
<1> QED BY <1>1, <1>4, <1>5, SourcesAre

LEMMA FieldSourcesOrder ==
  ASSUME NEW r, FromRows(r),
         NEW a \in 1 .. Len(audits), NEW f \in audits[a].fields,
         NEW b \in 1 .. Len(audits), NEW g \in audits[b].fields, f[1] = g[1]
  PROVE  /\ Before(FieldSource(a, f), FieldSource(b, g)) <=> a < b
         /\ FieldSource(a, f) \in BackfillSources(r)
<1>1. /\ TypesInv /\ HistoryInv /\ AuditInv /\ Created /\ r.history = history /\ r.audits = audits
  BY DEF FromRows
<1>2. /\ FieldSource(a, f)[1] = audits[a].at /\ FieldSource(a, f)[2] = Kind(f[1]) /\ FieldSource(a, f)[3] = a
      /\ FieldSource(b, g)[1] = audits[b].at /\ FieldSource(b, g)[2] = Kind(f[1]) /\ FieldSource(b, g)[3] = b
      /\ audits[a].at \in Nat /\ audits[b].at \in Nat /\ Kind(f[1]) \in Int
  BY <1>1, FieldSourceIs DEF Kind
<1>3. a < b => audits[a].at < audits[b].at
  BY <1>1 DEF AuditInv
<1>4. b < a => audits[b].at < audits[a].at
  BY <1>1 DEF AuditInv
<1>5. a = b \/ a < b \/ b < a
  OBVIOUS
<1>6. Before(FieldSource(a, f), FieldSource(b, g)) <=> a < b
  BY <1>2, <1>3, <1>4, <1>5 DEF Before
<1> QED BY <1>1, <1>6, SourcesAre

(* Which sources speak of an aspect.                                       *)
Speaks(m, x) == x \in DOMAIN m[4].new

LEMMA StatusSpeakers ==
  ASSUME NEW r, FromRows(r), NEW m \in BackfillSources(r),
         Speaks(m, "status") \/ "status" \in DOMAIN m[4].prev
  PROVE  \/ m = CreatedSource(r) /\ m[4].new["status"] = Initial /\ "status" \notin DOMAIN m[4].prev
         \/ \E h \in 1 .. Len(history) \ Creations(history) :
              /\ m = RowSource(h) /\ m[4].new["status"] = history[h].to
              /\ m[4].prev["status"] = history[h].from
<1>1. TypesInv /\ HistoryInv /\ AuditInv /\ Created /\ r.history = history /\ r.audits = audits
  BY DEF FromRows
<1>2. CASE m = CreatedSource(r)
  <2>1. m[4] = CreatedEvent(r)
    BY <1>2 DEF CreatedSource
  <2>2. m[4].prev = <<>> /\ m[4].new = [status |-> Initial]
    BY <1>1, <2>1, CreatedSourceIs
  <2> QED BY <1>2, <2>2
<1>3. CASE \E a \in 1 .. Len(audits) : \E f \in audits[a].fields : m = FieldSource(a, f)
  <2>1a. PICK a \in 1 .. Len(audits) : \E f \in audits[a].fields : m = FieldSource(a, f)
    BY <1>3
  <2>1. PICK f \in audits[a].fields : m = FieldSource(a, f)
    BY <2>1a
  <2>2. DOMAIN m[4].new = {f[1]} /\ DOMAIN m[4].prev = {f[1]} /\ f[1] \in {"owner", "queue"}
    BY <1>1, <2>1, FieldSourceIs
  <2> QED BY <2>2 DEF Speaks
<1>4. CASE \E h \in 1 .. Len(history) \ Creations(history) : m = RowSource(h)
  <2>1. PICK h \in 1 .. Len(history) \ Creations(history) : m = RowSource(h)
    BY <1>4
  <2>2. m[4].new = [status |-> history[h].to] /\ m[4].prev = [status |-> history[h].from]
    BY <1>1, <2>1, RowSourceIs
  <2> QED BY <2>1, <2>2
<1> QED BY <1>1, <1>2, <1>3, <1>4, SourcesAre

LEMMA FieldSpeakers ==
  ASSUME NEW r, FromRows(r), NEW m \in BackfillSources(r), NEW x \in {"owner", "queue"},
         Speaks(m, x) \/ x \in DOMAIN m[4].prev
  PROVE  \E a \in 1 .. Len(audits) : \E f \in audits[a].fields :
           m = FieldSource(a, f) /\ f[1] = x /\ m[4].new[x] = f[3] /\ m[4].prev[x] = f[2]
<1>1. TypesInv /\ HistoryInv /\ AuditInv /\ Created /\ r.history = history /\ r.audits = audits
  BY DEF FromRows
<1>2. CASE m = CreatedSource(r)
  <2>1. m[4] = CreatedEvent(r)
    BY <1>2 DEF CreatedSource
  <2>2. m[4].prev = <<>> /\ m[4].new = [status |-> Initial]
    BY <1>1, <2>1, CreatedSourceIs
  <2> QED BY <2>2 DEF Speaks
<1>3. CASE \E a \in 1 .. Len(audits) : \E f \in audits[a].fields : m = FieldSource(a, f)
  <2>1a. PICK a \in 1 .. Len(audits) : \E f \in audits[a].fields : m = FieldSource(a, f)
    BY <1>3
  <2>1. PICK f \in audits[a].fields : m = FieldSource(a, f)
    BY <2>1a
  <2>2. /\ DOMAIN m[4].new = {f[1]} /\ DOMAIN m[4].prev = {f[1]}
        /\ m[4].new[f[1]] = f[3] /\ m[4].prev[f[1]] = f[2]
    BY <1>1, <2>1, FieldSourceIs
  <2>3. f[1] = x
    BY <2>2 DEF Speaks
  <2> QED BY <2>1, <2>2, <2>3
<1>4. CASE \E h \in 1 .. Len(history) \ Creations(history) : m = RowSource(h)
  <2>1. PICK h \in 1 .. Len(history) \ Creations(history) : m = RowSource(h)
    BY <1>4
  <2>2. m[4].new = [status |-> history[h].to] /\ m[4].prev = [status |-> history[h].from]
    BY <1>1, <2>1, RowSourceIs
  <2> QED BY <2>2 DEF Speaks
<1> QED BY <1>1, <1>2, <1>3, <1>4, SourcesAre

LEMMA SpeakersAre ==
  ASSUME NEW r, FromRows(r)
  PROVE  /\ Speaks(CreatedSource(r), "status")
         /\ \A h \in 1 .. Len(history) \ Creations(history) : Speaks(RowSource(h), "status")
         /\ \A a \in 1 .. Len(audits) : \A f \in audits[a].fields : Speaks(FieldSource(a, f), f[1])
<1>1. /\ TypesInv /\ HistoryInv /\ AuditInv /\ Created /\ r.history = history /\ r.audits = audits
  BY DEF FromRows
<1>2. Speaks(CreatedSource(r), "status")
  BY <1>1, CreatedSourceIs DEF CreatedSource, Speaks
<1>3. ASSUME NEW h \in 1 .. Len(history) \ Creations(history) PROVE Speaks(RowSource(h), "status")
  <2>1. RowSource(h)[4].new = [status |-> history[h].to]
    BY <1>1, RowSourceIs
  <2> QED BY <2>1 DEF Speaks
<1>4. ASSUME NEW a \in 1 .. Len(audits), NEW f \in audits[a].fields PROVE Speaks(FieldSource(a, f), f[1])
  BY <1>1, FieldSourceIs DEF Speaks
<1> QED BY <1>2, <1>3, <1>4

(* What is said before a change of an aspect is what the last source says  *)
(* that speaks of it, and so is what holds now.                            *)
SourcesTellBefore(S, x) ==
  \A m, p \in S :
    /\ x \in DOMAIN m[4].prev /\ Speaks(p, x) /\ Before(p, m)
    /\ \A q \in S : Speaks(q, x) /\ Before(p, q) => ~Before(q, m)
    => p[4].new[x] = m[4].prev[x]

SourcesTellNow(S, x, v) ==
  \A p \in S : Speaks(p, x) /\ (\A q \in S : Speaks(q, x) => ~Before(p, q)) => p[4].new[x] = v

LEMMA StatusTold ==
  ASSUME NEW r, FromRows(r)
  PROVE  /\ SourcesTellBefore(BackfillSources(r), "status")
         /\ SourcesTellNow(BackfillSources(r), "status", ticket.status)
<1> DEFINE S == BackfillSources(r)
           Rows == 1 .. Len(history) \ Creations(history)
           c == CreatedSource(r)
           n == Len(history)
<1>1. /\ TypesInv /\ HistoryInv /\ AuditInv /\ Created /\ n \in Nat
  BY DEF FromRows, TypesInv
<1>2. /\ Creations(history) = {} \/ Creations(history) = {1}
      /\ 1 \in Creations(history) => history[1].to = Initial
  BY <1>1, CreationFirst
<1>3. \A h \in 1 .. n : h # 1 => h \in Rows /\ h - 1 \in 1 .. n /\ history[h].from = history[h - 1].to
  BY <1>1, <1>2 DEF HistoryInv
<1>4. /\ \A g, h \in Rows : Before(RowSource(g), RowSource(h)) <=> g < h
      /\ \A h \in Rows : RowSource(h) \in S /\ Before(c, RowSource(h)) /\ ~Before(RowSource(h), c)
      /\ \A h \in Rows : Speaks(RowSource(h), "status")
  BY RowSourcesOrder, SpeakersAre
<1>5. \A m \in S : Speaks(m, "status") \/ "status" \in DOMAIN m[4].prev =>
        \/ m = c /\ m[4].new["status"] = Initial /\ "status" \notin DOMAIN m[4].prev
        \/ \E h \in Rows : m = RowSource(h) /\ m[4].new["status"] = history[h].to
                           /\ m[4].prev["status"] = history[h].from
  BY StatusSpeakers
<1>6. Rows \subseteq 1 .. n /\ \A h \in Rows : h \in Int
  BY <1>1
<1>7. 1 \in Rows => history[1].from = Initial
  <2>1. 1 \in Rows => history[1].from # Nobody /\ history[1].from \in {Nobody, Initial}
    BY <1>1 DEF Creations, HistoryInv
  <2> QED BY <2>1
<1>8. ticket.status = IF n = 0 THEN Initial ELSE history[n].to
  BY <1>1 DEF HistoryInv, TypesInv
<1>9. \A h \in 1 .. n : h \notin Rows => h = 1 /\ history[1].to = Initial
  BY <1>2
<1> HIDE DEF S, Rows, c, n
<1>10. SourcesTellBefore(S, "status")
  <2> SUFFICES ASSUME NEW m \in S, NEW p \in S,
                      "status" \in DOMAIN m[4].prev, Speaks(p, "status"), Before(p, m),
                      \A q \in S : Speaks(q, "status") /\ Before(p, q) => ~Before(q, m)
               PROVE  p[4].new["status"] = m[4].prev["status"]
    BY Zenon DEF SourcesTellBefore
  <2>1. PICK h \in Rows : m = RowSource(h) /\ m[4].prev["status"] = history[h].from
    BY <1>5
  <2>2. CASE p = c /\ p[4].new["status"] = Initial
    <3>1. CASE h = 1
      BY <1>7, <2>1, <2>2, <3>1
    <3>2. CASE h # 1
      <4>1. h - 1 \in 1 .. n /\ history[h].from = history[h - 1].to /\ h - 1 < h
        BY <1>3, <1>6, <3>2
      <4>2. h - 1 \notin Rows
        <5> SUFFICES ASSUME h - 1 \in Rows PROVE FALSE
          OBVIOUS
        <5>1. RowSource(h - 1) \in S /\ Speaks(RowSource(h - 1), "status") /\ Before(p, RowSource(h - 1))
              /\ Before(RowSource(h - 1), m)
          BY <1>4, <2>1, <2>2, <4>1
        <5> QED BY <5>1
      <4>3. h - 1 = 1 /\ history[h - 1].to = Initial
        BY <1>9, <4>1, <4>2
      <4> QED BY <2>1, <2>2, <4>1, <4>3
    <3> QED BY <3>1, <3>2
  <2>3. CASE \E g \in Rows : p = RowSource(g) /\ p[4].new["status"] = history[g].to
    <3>1. PICK g \in Rows : p = RowSource(g) /\ p[4].new["status"] = history[g].to
      BY <2>3
    <3>2. g < h
      BY <1>4, <2>1, <3>1
    <3>3. g \in 1 .. n /\ h \in 1 .. n /\ h # 1 /\ history[h].from = history[h - 1].to
      BY <1>1, <1>3, <1>6, <3>2
    <3>4. ~(g < h - 1)
      <4> SUFFICES ASSUME g < h - 1 PROVE FALSE
        OBVIOUS
      <4>1. h - 1 \in Rows /\ h - 1 < h
        BY <1>1, <1>3, <3>3
      <4>2. RowSource(h - 1) \in S /\ Speaks(RowSource(h - 1), "status") /\ Before(p, RowSource(h - 1))
            /\ Before(RowSource(h - 1), m)
        BY <1>4, <2>1, <3>1, <4>1
      <4> QED BY <4>2
    <3>5. g = h - 1
      BY <1>1, <3>2, <3>3, <3>4
    <3> QED BY <2>1, <3>1, <3>3, <3>5
  <2> QED BY <1>5, <2>2, <2>3
<1>11. SourcesTellNow(S, "status", ticket.status)
  <2> SUFFICES ASSUME NEW p \in S, Speaks(p, "status"), \A q \in S : Speaks(q, "status") => ~Before(p, q)
               PROVE  p[4].new["status"] = ticket.status
    BY Zenon DEF SourcesTellNow
  <2>1. CASE p = c /\ p[4].new["status"] = Initial
    <3>1. CASE n = 0
      BY <1>8, <2>1, <3>1
    <3>2. CASE n # 0
      <4>1. n \in 1 .. n
        BY <1>1, <3>2
      <4>2. n \notin Rows
        BY <1>4, <2>1
      <4> QED BY <1>8, <1>9, <2>1, <3>2, <4>1, <4>2
    <3> QED BY <3>1, <3>2
  <2>2. CASE \E g \in Rows : p = RowSource(g) /\ p[4].new["status"] = history[g].to
    <3>1. PICK g \in Rows : p = RowSource(g) /\ p[4].new["status"] = history[g].to
      BY <2>2
    <3>2. g \in 1 .. n
      BY <1>6
    <3>3. ~(g < n)
      <4> SUFFICES ASSUME g < n PROVE FALSE
        OBVIOUS
      <4>1. n \in Rows
        BY <1>1, <1>3, <3>2
      <4> QED BY <1>4, <3>1, <4>1
    <3>4. g = n /\ n # 0
      BY <1>1, <3>2, <3>3
    <3> QED BY <1>8, <3>1, <3>4
  <2> QED BY <1>5, <2>1, <2>2
<1> QED BY <1>10, <1>11 DEF S

LEMMA FieldTold ==
  ASSUME NEW r, FromRows(r), NEW x \in {"owner", "queue"}
  PROVE  /\ SourcesTellBefore(BackfillSources(r), x)
         /\ SourcesTellNow(BackfillSources(r), x, ticket[x])
<1> DEFINE S == BackfillSources(r)
<1>1. /\ TypesInv /\ AuditInv /\ Len(audits) \in Nat
  BY DEF FromRows, TypesInv
<1>2. ASSUME NEW m \in S, Speaks(m, x) \/ x \in DOMAIN m[4].prev
      PROVE  \E a \in 1 .. Len(audits) : \E f \in audits[a].fields :
               m = FieldSource(a, f) /\ f[1] = x /\ m[4].new[x] = f[3] /\ m[4].prev[x] = f[2]
  BY <1>2, FieldSpeakers
<1>3. ASSUME NEW a \in 1 .. Len(audits), NEW f \in audits[a].fields, f[1] = x
      PROVE  FieldSource(a, f) \in S /\ Speaks(FieldSource(a, f), x)
  BY <1>3, FieldSourcesOrder, SpeakersAre
<1>4. ASSUME NEW a \in 1 .. Len(audits), NEW f \in audits[a].fields, f[1] = x,
             NEW b \in 1 .. Len(audits), NEW g \in audits[b].fields, g[1] = x
      PROVE  Before(FieldSource(a, f), FieldSource(b, g)) <=> a < b
  BY <1>4, FieldSourcesOrder
<1>5. ASSUME NEW n \in 0 .. Len(audits), NEW v, AuditTells(audits, n, x, v),
             NEW b \in 1 .. n, NEW g \in audits[b].fields, g[1] = x,
             \A c \in b + 1 .. n : \A f \in audits[c].fields : f[1] # x
      PROVE  g[3] = v
  BY <1>5 DEF AuditTells, Touches
<1> HIDE DEF S
<1>6. SourcesTellBefore(S, x)
  <2> SUFFICES ASSUME NEW m \in S, NEW p \in S,
                      x \in DOMAIN m[4].prev, Speaks(p, x), Before(p, m),
                      \A q \in S : Speaks(q, x) /\ Before(p, q) => ~Before(q, m)
               PROVE  p[4].new[x] = m[4].prev[x]
    BY Zenon DEF SourcesTellBefore
  <2>1a. PICK a \in 1 .. Len(audits) : \E f \in audits[a].fields :
           m = FieldSource(a, f) /\ f[1] = x /\ m[4].prev[x] = f[2]
    BY <1>2
  <2>1. PICK f \in audits[a].fields : m = FieldSource(a, f) /\ f[1] = x /\ m[4].prev[x] = f[2]
    BY <2>1a
  <2>2a. PICK b \in 1 .. Len(audits) : \E g \in audits[b].fields :
           p = FieldSource(b, g) /\ g[1] = x /\ p[4].new[x] = g[3]
    BY <1>2
  <2>2. PICK g \in audits[b].fields : p = FieldSource(b, g) /\ g[1] = x /\ p[4].new[x] = g[3]
    BY <2>2a
  <2>3. b < a
    BY <1>4, <2>1, <2>2
  <2>4. a - 1 \in 0 .. Len(audits) /\ b \in 1 .. a - 1
    BY <1>1, <2>3
  <2>5. AuditTells(audits, a - 1, x, f[2])
    BY <1>1, <2>1 DEF AuditInv
  <2>6. ASSUME NEW c \in b + 1 .. a - 1, NEW h \in audits[c].fields, h[1] = x PROVE FALSE
    <3>1. c \in 1 .. Len(audits) /\ b < c /\ c < a
      BY <1>1, <2>4
    <3>2. FieldSource(c, h) \in S /\ Speaks(FieldSource(c, h), x)
      BY <1>3, <2>6, <3>1
    <3>3. Before(p, FieldSource(c, h)) /\ Before(FieldSource(c, h), m)
      BY <1>4, <2>1, <2>2, <2>6, <3>1
    <3> QED BY <3>2, <3>3
  <2>7. g[3] = f[2]
    <3>1. \A c \in b + 1 .. a - 1 : \A h \in audits[c].fields : h[1] # x
      BY <2>6
    <3> QED BY <1>5, <2>2, <2>4, <2>5, <3>1
  <2> QED BY <2>1, <2>2, <2>7
<1>7. SourcesTellNow(S, x, ticket[x])
  <2> SUFFICES ASSUME NEW p \in S, Speaks(p, x), \A q \in S : Speaks(q, x) => ~Before(p, q)
               PROVE  p[4].new[x] = ticket[x]
    BY Zenon DEF SourcesTellNow
  <2>1a. PICK b \in 1 .. Len(audits) : \E g \in audits[b].fields :
           p = FieldSource(b, g) /\ g[1] = x /\ p[4].new[x] = g[3]
    BY <1>2
  <2>1. PICK g \in audits[b].fields : p = FieldSource(b, g) /\ g[1] = x /\ p[4].new[x] = g[3]
    BY <2>1a
  <2>2. AuditTells(audits, Len(audits), x, ticket[x])
    BY <1>1 DEF AuditInv
  <2>3. ASSUME NEW c \in b + 1 .. Len(audits), NEW h \in audits[c].fields, h[1] = x PROVE FALSE
    <3>1. c \in 1 .. Len(audits) /\ b < c
      BY <1>1
    <3>2. FieldSource(c, h) \in S /\ Speaks(FieldSource(c, h), x)
      BY <1>3, <2>3, <3>1
    <3>3. Before(p, FieldSource(c, h))
      BY <1>4, <2>1, <2>3, <3>1
    <3> QED BY <3>2, <3>3
  <2>4. Len(audits) \in 0 .. Len(audits)
    BY <1>1
  <2>5. g[3] = ticket[x]
    BY <1>5, <2>1, <2>2, <2>3, <2>4
  <2> QED BY <2>1, <2>5
<1> QED BY <1>6, <1>7 DEF S

LEMMA SameStands ==
  ASSUME NEW e, NEW f, SameEvent(e, f), NEW H, NEW A, NEW T, Stands(f, H, A, T)
  PROVE  Stands(e, H, A, T)
<1>1. e.type = f.type /\ e.at = f.at /\ e.source = f.source /\ e.prev = f.prev /\ e.new = f.new
  BY DEF SameEvent
<1>2. \A h : StandsForRow(f, h, H, T) => StandsForRow(e, h, H, T)
  BY <1>1 DEF StandsForRow
<1>3. StandsForCreation(f, H, A, T) => StandsForCreation(e, H, A, T)
  BY <1>1 DEF StandsForCreation
<1>4. \A a, x : StandsForField(f, a, x) => StandsForField(e, a, x)
  BY <1>1 DEF StandsForField
<1>5. StandsForClock(f) => StandsForClock(e)
  BY <1>1 DEF StandsForClock
<1> QED BY <1>2, <1>3, <1>4, <1>5 DEF Stands

(* The ledger that the backfill writes.                                    *)
Filled(l, r, e) ==
  /\ l \in Seq(LedgerRows) /\ Len(l) = Cardinality(BackfillSources(r))
  /\ Lists(e, BackfillSources(r))
  /\ \A i \in 1 .. Len(l) : SameEvent(l[i], e[i][4])

LEMMA FilledIs ==
  ASSUME NEW r, FromRows(r), NEW l, NEW e, Filled(l, r, e)
  PROVE  /\ Len(l) \in Nat
         /\ \A i \in 1 .. Len(l) :
              /\ e[i] \in BackfillSources(r) /\ l[i].at = e[i][1] /\ l[i].type = e[i][4].type
              /\ l[i].source = e[i][4].source /\ l[i].prev = e[i][4].prev /\ l[i].new = e[i][4].new
              /\ e[i][1] \in Nat /\ e[i][1] <= now
         /\ \A m \in BackfillSources(r) : \E i \in 1 .. Len(l) : e[i] = m
         /\ \A i, j \in 1 .. Len(l) : i < j <=> Before(e[i], e[j])
         /\ \A i, j \in 1 .. Len(l) : e[i] = e[j] => i = j
<1> DEFINE S == BackfillSources(r)
           n == Len(l)
<1>1. n \in Nat /\ n = Cardinality(S)
  BY DEF Filled
<1>2. /\ e \in [1 .. n -> S]
      /\ \A m \in S : \E i \in 1 .. n : e[i] = m
      /\ \A i, j \in 1 .. n : i < j <=> Before(e[i], e[j])
  BY <1>1 DEF Filled, Lists
<1>3. \A m \in S : m[4].at = m[1] /\ m[1] \in Nat /\ m[1] <= now
  BY SourcesSortable
<1> HIDE DEF S
<1>4. ASSUME NEW i \in 1 .. n
      PROVE  /\ e[i] \in S /\ l[i].at = e[i][1] /\ l[i].type = e[i][4].type
             /\ l[i].source = e[i][4].source /\ l[i].prev = e[i][4].prev /\ l[i].new = e[i][4].new
             /\ e[i][1] \in Nat /\ e[i][1] <= now
  <2>1. e[i] \in S
    BY <1>2
  <2>2. SameEvent(l[i], e[i][4])
    BY DEF Filled
  <2> QED BY <1>3, <2>1, <2>2 DEF SameEvent
<1>5. ASSUME NEW i \in 1 .. n, NEW j \in 1 .. n, e[i] = e[j] PROVE i = j
  <2>1. ~(i < j) /\ ~(j < i)
    <3>1. ~(i < i) /\ ~(j < j)
      BY <1>1
    <3> QED BY <1>2, <1>5, <3>1
  <2> QED BY <1>1, <2>1
<1> QED BY <1>1, <1>2, <1>4, <1>5 DEF S

LEMMA FilledEvents ==
  ASSUME NEW r, FromRows(r), NEW l, NEW e, Filled(l, r, e)
  PROVE  /\ \A i \in 1 .. Len(l) : Stands(l[i], history, audits, ticket) /\ l[i].at <= now
         /\ Once(l)
<1>1. ASSUME NEW i \in 1 .. Len(l) PROVE Stands(l[i], history, audits, ticket) /\ l[i].at <= now
  <2>1. e[i] \in BackfillSources(r) /\ l[i].at <= now
    BY FilledIs
  <2>2. Stands(e[i][4], history, audits, ticket)
    BY <2>1, SourcesStand
  <2>3. SameEvent(l[i], e[i][4])
    BY DEF Filled
  <2> QED BY <2>1, <2>2, <2>3, SameStands
<1>2. ASSUME NEW i \in 1 .. Len(l), NEW j \in 1 .. Len(l), Same(l[i], l[j]) PROVE i = j
  <2>1. /\ e[i] \in BackfillSources(r) /\ e[j] \in BackfillSources(r)
        /\ l[i].type = e[i][4].type /\ l[i].source = e[i][4].source /\ l[i].new = e[i][4].new
        /\ l[j].type = e[j][4].type /\ l[j].source = e[j][4].source /\ l[j].new = e[j][4].new
    BY FilledIs
  <2>2. Same(e[i][4], e[j][4])
    BY <1>2, <2>1 DEF Same, IsClock
  <2>3. e[i] = e[j]
    BY <2>1, <2>2, SourcesOnce
  <2> QED BY <2>3, FilledIs
<1> QED BY <1>1, <1>2 DEF Once

LEMMA FilledCoverage ==
  ASSUME NEW r, FromRows(r), NEW l, NEW e, Filled(l, r, e)
  PROVE  /\ \A h \in 1 .. Len(history) : RowCovered(l, h)
         /\ \A a \in 1 .. Len(audits) : \A f \in audits[a].fields : FieldCovered(l, a, f[1])
<1>1. /\ TypesInv /\ HistoryInv /\ AuditInv /\ Created /\ r.history = history /\ r.audits = audits
  BY DEF FromRows
<1>2. ASSUME NEW m \in BackfillSources(r)
      PROVE  \E i \in 1 .. Len(l) : l[i].source = m[4].source /\ l[i].new = m[4].new
  <2>1. PICK i \in 1 .. Len(l) : e[i] = m
    BY FilledIs
  <2> QED BY <2>1, FilledIs
<1>3. ASSUME NEW h \in 1 .. Len(history) PROVE RowCovered(l, h)
  <2>1. CASE h \in Creations(history)
    <3>1. h = 1 /\ CreatedSource(r) \in BackfillSources(r)
      BY <1>1, <2>1, CreationFirst, RowSourcesOrder
    <3>2. CreatedSource(r)[4] = CreatedEvent(r)
      BY DEF CreatedSource
    <3>3. CreatedSource(r)[4].source = Transitioned(1)
      BY <1>1, <2>1, <3>1, <3>2, CreatedSourceIs
    <3>4. PICK i \in 1 .. Len(l) : l[i].source = CreatedSource(r)[4].source
      BY <1>2, <3>1
    <3> QED BY <3>1, <3>3, <3>4 DEF RowCovered
  <2>2. CASE h \notin Creations(history)
    <3>1. RowSource(h) \in BackfillSources(r)
      BY <2>2, RowSourcesOrder
    <3>2. RowSource(h)[4].source = Transitioned(h)
      BY <1>1, <2>2, RowSourceIs
    <3>3. PICK i \in 1 .. Len(l) : l[i].source = RowSource(h)[4].source
      BY <1>2, <3>1
    <3> QED BY <3>2, <3>3 DEF RowCovered
  <2> QED BY <2>1, <2>2
<1>4. ASSUME NEW a \in 1 .. Len(audits), NEW f \in audits[a].fields PROVE FieldCovered(l, a, f[1])
  <2>1. FieldSource(a, f) \in BackfillSources(r)
    BY FieldSourcesOrder
  <2>2. FieldSource(a, f)[4].source = Audited(a) /\ DOMAIN FieldSource(a, f)[4].new = {f[1]}
    BY <1>1, FieldSourceIs
  <2>3. PICK i \in 1 .. Len(l) :
          l[i].source = FieldSource(a, f)[4].source /\ l[i].new = FieldSource(a, f)[4].new
    BY <1>2, <2>1
  <2> QED BY <2>2, <2>3 DEF FieldCovered
<1> QED BY <1>3, <1>4

LEMMA FilledTruth ==
  ASSUME NEW r, FromRows(r), NEW l, NEW e, Filled(l, r, e), NEW x \in Aspects
  PROVE  /\ \A i \in 1 .. Len(l) : x \in DOMAIN l[i].prev => LedgerTells(l, i - 1, x, l[i].prev[x])
         /\ LedgerTells(l, Len(l), x, ticket[x])
<1> DEFINE S == BackfillSources(r)
           n == Len(l)
<1>1. SourcesTellBefore(S, x) /\ SourcesTellNow(S, x, ticket[x])
  <2>1. CASE x = "status"
    BY <2>1, StatusTold
  <2>2. CASE x \in {"owner", "queue"}
    BY <2>2, FieldTold
  <2> QED BY <2>1, <2>2 DEF Aspects
<1>2. /\ n \in Nat
      /\ \A i \in 1 .. n : e[i] \in S /\ l[i].prev = e[i][4].prev /\ l[i].new = e[i][4].new
      /\ \A m \in S : \E i \in 1 .. n : e[i] = m
      /\ \A i, j \in 1 .. n : i < j <=> Before(e[i], e[j])
  BY FilledIs
<1> HIDE DEF S, n
<1>3. ASSUME NEW i \in 1 .. n, x \in DOMAIN l[i].prev,
             NEW j \in 1 .. i - 1, x \in DOMAIN l[j].new, \A k \in j + 1 .. i - 1 : x \notin DOMAIN l[k].new
      PROVE  l[j].new[x] = l[i].prev[x]
  <2>1. j \in 1 .. n /\ j < i
    BY <1>2
  <2>2. Before(e[j], e[i]) /\ Speaks(e[j], x) /\ x \in DOMAIN e[i][4].prev
    BY <1>2, <1>3, <2>1 DEF Speaks
  <2>3. ASSUME NEW q \in S, Speaks(q, x), Before(e[j], q), Before(q, e[i]) PROVE FALSE
    <3>1. PICK k \in 1 .. n : e[k] = q
      BY <1>2
    <3>2. j < k /\ k < i
      BY <1>2, <2>1, <2>3, <3>1
    <3>3. k \in j + 1 .. i - 1
      BY <1>2, <2>1, <3>2
    <3>4. x \in DOMAIN l[k].new
      BY <1>2, <2>3, <3>1 DEF Speaks
    <3> QED BY <1>3, <3>3, <3>4
  <2>4. e[j] \in S /\ e[i] \in S
    BY <1>2, <2>1
  <2>5. e[j][4].new[x] = e[i][4].prev[x]
    BY <1>1, <2>2, <2>3, <2>4 DEF SourcesTellBefore
  <2> QED BY <1>2, <2>1, <2>5
<1>4. ASSUME NEW j \in 1 .. n, x \in DOMAIN l[j].new, \A k \in j + 1 .. n : x \notin DOMAIN l[k].new
      PROVE  l[j].new[x] = ticket[x]
  <2>1. e[j] \in S /\ Speaks(e[j], x)
    BY <1>2, <1>4 DEF Speaks
  <2>2. ASSUME NEW q \in S, Speaks(q, x), Before(e[j], q) PROVE FALSE
    <3>1. PICK k \in 1 .. n : e[k] = q
      BY <1>2
    <3>2. k \in j + 1 .. n
      <4>1. j < k
        BY <1>2, <2>2, <3>1
      <4> QED BY <1>2, <4>1
    <3>3. x \in DOMAIN l[k].new
      BY <1>2, <2>2, <3>1 DEF Speaks
    <3> QED BY <1>4, <3>2, <3>3
  <2>3. e[j][4].new[x] = ticket[x]
    BY <1>1, <2>1, <2>2 DEF SourcesTellNow
  <2> QED BY <1>2, <2>3
<1>5. ASSUME NEW i \in 1 .. n, x \in DOMAIN l[i].prev PROVE LedgerTells(l, i - 1, x, l[i].prev[x])
  BY <1>3, <1>5 DEF LedgerTells
<1>6. LedgerTells(l, n, x, ticket[x])
  BY <1>4 DEF LedgerTells
<1> QED BY <1>5, <1>6 DEF n

LEMMA FilledLast ==
  ASSUME NEW r, FromRows(r), NEW l, NEW e, Filled(l, r, e)
  PROVE  EndsWith(MilestonesOf(l, history, ticket), ticket.status)
<1> DEFINE S == BackfillSources(r)
           n == Len(l)
           N == Len(history)
           Rows == 1 .. Len(history) \ Creations(history)
           M == IF N \in Rows THEN RowSource(N) ELSE CreatedSource(r)
<1>1. /\ n \in Nat
      /\ \A i \in 1 .. n : e[i] \in S /\ l[i].at = e[i][1] /\ l[i].prev = e[i][4].prev /\ l[i].new = e[i][4].new
                           /\ e[i][1] \in Nat
      /\ \A m \in S : \E i \in 1 .. n : e[i] = m
      /\ \A i, j \in 1 .. n : i < j <=> Before(e[i], e[j])
      /\ \A i, j \in 1 .. n : e[i] = e[j] => i = j
  BY FilledIs
<1>2. /\ M \in S /\ Speaks(M, "status")
      /\ \A m \in S : Speaks(m, "status") => m = M \/ Before(m, M)
  <2>1. N \in Nat /\ \A h \in Rows : h \in 1 .. N /\ h \in Int
    BY DEF FromRows, TypesInv
  <2>2. /\ CreatedSource(r) \in S /\ Speaks(CreatedSource(r), "status")
        /\ \A h \in Rows : /\ RowSource(h) \in S /\ Speaks(RowSource(h), "status")
                           /\ Before(CreatedSource(r), RowSource(h))
        /\ \A g, h \in Rows : Before(RowSource(g), RowSource(h)) <=> g < h
    BY RowSourcesOrder, SpeakersAre
  <2>3. \A m \in S : Speaks(m, "status") => m = CreatedSource(r) \/ \E h \in Rows : m = RowSource(h)
    BY StatusSpeakers
  <2>4. N \notin Rows => Rows = {}
    <3>1. Creations(history) = {} \/ Creations(history) = {1}
      BY CreationFirst DEF FromRows
    <3> QED BY <2>1, <3>1
  <2> HIDE DEF S, Rows, N
  <2> QED BY <2>1, <2>2, <2>3, <2>4
<1> HIDE DEF S, n, M
<1>3. PICK j \in 1 .. n : e[j] = M
  BY <1>1, <1>2
<1>4. "status" \in DOMAIN l[j].new
  BY <1>1, <1>2, <1>3 DEF Speaks
<1>5. \A i \in 1 .. n : "status" \in DOMAIN l[i].new => i = j \/ i < j
  <2> SUFFICES ASSUME NEW i \in 1 .. n, "status" \in DOMAIN l[i].new PROVE i = j \/ i < j
    OBVIOUS
  <2>1. e[i] \in S /\ Speaks(e[i], "status")
    BY <1>1 DEF Speaks
  <2>2. e[i] = e[j] \/ Before(e[i], e[j])
    BY <1>2, <1>3, <2>1
  <2> QED BY <1>1, <2>2
<1>6. l[j].new["status"] = ticket.status
  <2>1. LedgerTells(l, n, "status", ticket["status"])
    BY FilledTruth DEF Aspects, n
  <2>2. \A i \in j + 1 .. n : "status" \notin DOMAIN l[i].new
    <3>1. \A i \in j + 1 .. n : i \in 1 .. n /\ i # j /\ ~(i < j)
      BY <1>1
    <3> QED BY <1>5, <3>1
  <2> QED BY <1>4, <2>1, <2>2 DEF LedgerTells
<1> DEFINE m == <<l[j].at, 1, j, l[j].new["status"]>>
           U == MilestonesOf(l, history, ticket)
<1>7. RowMilestones(l, history) = {}
  BY FilledCoverage DEF RowMilestones
<1>8. m \in LedgerMilestones(l)
  BY <1>4 DEF LedgerMilestones, n
<1>9. U = LedgerMilestones(l)
  <2> HIDE DEF m
  <2> QED BY <1>7, <1>8 DEF MilestonesOf
<1>10. ASSUME NEW x \in LedgerMilestones(l) PROVE x = m \/ Before(x, m)
  <2>1. PICK i \in 1 .. n : x = <<l[i].at, 1, i, l[i].new["status"]>> /\ "status" \in DOMAIN l[i].new
    BY DEF LedgerMilestones, n
  <2>2. CASE i = j
    BY <2>1, <2>2
  <2>3. CASE i < j
    <3>1. Before(e[i], e[j])
      BY <1>1, <2>3
    <3>2. l[i].at <= l[j].at /\ l[i].at \in Nat /\ l[j].at \in Nat
      BY <1>1, <3>1 DEF Before
    <3> QED BY <1>1, <2>1, <2>3, <3>2 DEF Before
  <2> QED BY <1>5, <2>1, <2>2, <2>3
<1>11. m[4] = ticket.status
  BY <1>6
<1> HIDE DEF m, U
<1> QED BY <1>8, <1>9, <1>10, <1>11 DEF EndsWith, U

LEMMA BackfillFills ==
  ASSUME TimelineInv, BackfillWrite, ~reading.skip, ledger = <<>>
  PROVE  /\ FromRows(reading) /\ \E e : Filled(ledger', reading, e)
         /\ VerifyCustodyChain(ledger') /\ ledger' # <<>>
<1> DEFINE r == reading
           S == BackfillSources(r)
           inputs == Sorted(S)
<1>1. ledger' = RecordCustody(<<>>, inputs) /\ FromRows(r)
  BY DEF BackfillWrite, Backfilled, FromRows, TimelineInv, DeploymentInv
<1>2. /\ Len(history) + Len(audits) \in Nat /\ Sortable(S, Len(history) + Len(audits))
      /\ \A m \in S : m[4] \in Inputs
      /\ CreatedSource(r) \in S
  BY <1>1, SourcesSortable, RowSourcesOrder
<1> HIDE DEF r, S
<1>3. Cardinality(S) \in Nat /\ \E e : Lists(e, S)
  BY <1>2, SortedLists
<1>4. PICK e : Lists(e, S)
  BY <1>3
<1> DEFINE n == Cardinality(S)
<1>5. /\ e \in [1 .. n -> S] /\ inputs = [i \in 1 .. n |-> e[i][4]]
      /\ \A m \in S : \E i \in 1 .. n : e[i] = m
  BY <1>4 DEF Lists
<1>6. inputs \in Seq(Inputs) /\ Len(inputs) = n /\ \A i \in 1 .. n : inputs[i] = e[i][4]
  <2>1. \A i \in 1 .. n : e[i][4] \in Inputs
    BY <1>2, <1>5
  <2> HIDE DEF inputs
  <2> QED BY <1>3, <1>5, <2>1
<1> HIDE DEF inputs
<1>7. Grown(<<>>, ledger', inputs)
  <2>1. <<>> \in Seq(LedgerRows) /\ VerifyCustodyChain(<<>>)
    BY DEF VerifyCustodyChain
  <2> QED BY <1>1, <1>6, <2>1, Recorded
<1>8. ledger' \in Seq(LedgerRows) /\ Len(ledger') = n /\ VerifyCustodyChain(ledger')
      /\ \A i \in 1 .. n : SameEvent(ledger'[i], e[i][4])
  <2>1. Len(<<>>) = 0
    OBVIOUS
  <2>2. /\ ledger' \in Seq(LedgerRows) /\ Len(ledger') = 0 + n /\ VerifyCustodyChain(ledger')
        /\ \A i \in 1 .. n : SameEvent(ledger'[0 + i], inputs[i])
    BY <1>6, <1>7, <2>1 DEF Grown
  <2> QED BY <1>3, <1>6, <2>2
<1>9. n # 0
  BY <1>2, <1>5
<1>10. ledger' # <<>>
  BY <1>8, <1>9
<1> QED BY <1>1, <1>4, <1>8, <1>10 DEF Filled, r, S

LEMMA BackfillFilledKeeps ==
  ASSUME TimelineInv, BackfillWrite, ~reading.skip, ledger = <<>>
  PROVE  TimelineInv'
<1>1. PICK e : Filled(ledger', reading, e)
  BY BackfillFills
<1>2. FromRows(reading) /\ VerifyCustodyChain(ledger') /\ ledger' # <<>>
  BY BackfillFills
<1>3. /\ app' = app /\ now' = now /\ sweep' = sweep /\ ticket' = ticket
      /\ history' = history /\ audits' = audits /\ schema' = "filled" /\ reading' = Nobody
      /\ app # "old"
  BY DEF BackfillWrite, TimelineInv, DeploymentInv
<1>4. TypesInv'
  BY <1>1, <1>3 DEF Filled, TimelineInv, TypesInv
<1>5. DeploymentInv'
  BY <1>3 DEF DeploymentInv
<1>6. HistoryInv'
  BY <1>2, <1>3 DEF TimelineInv, HistoryInv, Created, FromRows
<1>7. AuditInv'
  BY <1>3 DEF TimelineInv, AuditInv
<1>8. EventsInv'
  BY <1>1, <1>2, <1>3, FilledEvents DEF EventsInv
<1>9. CoverageInv'
  BY <1>1, <1>2, <1>3, FilledCoverage DEF CoverageInv
<1>10. TruthInv'
  BY <1>1, <1>2, <1>3, FilledTruth DEF TruthInv
<1>11. LastInv'
  <2>1. Milestones' = MilestonesOf(ledger', history, ticket)
    BY <1>1, <1>3, MilestonesThen DEF Filled
  <2> QED BY <1>1, <1>2, <2>1, <1>3, FilledLast DEF LastInv, EndsWith
<1> QED BY <1>2, <1>4, <1>5, <1>6, <1>7, <1>8, <1>9, <1>10, <1>11 DEF TimelineInv

-----------------------------------------------------------------------------
(* The steps that leave the ticket and its rows alone: the deployment, a   *)
(* backfill that reads, skips or is rolled back, and a sweep.              *)
LEMMA QuietKeeps ==
  ASSUME TimelineInv, UNCHANGED <<ticket, history, audits, ledger>>, now <= now',
         TypesInv', DeploymentInv'
  PROVE  TimelineInv'
<1>1. /\ ticket' = ticket /\ history' = history /\ audits' = audits /\ ledger' = ledger
      /\ now \in Nat /\ now' \in Nat /\ ticket \in Tickets
      /\ history \in Seq(HistoryRows) /\ audits \in Seq(AuditRows) /\ ledger \in Seq(LedgerRows)
  BY DEF TimelineInv, TypesInv
<1>2. HistoryInv'
  <2>1. \A h \in 1 .. Len(history) : history[h].at \in Nat
    <3>1. \A h \in 1 .. Len(history) : history[h] \in HistoryRows
      BY <1>1
    <3> QED BY <3>1 DEF HistoryRows
  <2>2. ticket.createdAt \in Nat
    BY <1>1 DEF Tickets
  <2>3. HistoryInv
    BY DEF TimelineInv
  <2>4. \A h \in 1 .. Len(history) : history[h].at <= now'
    BY <1>1, <2>1, <2>3 DEF HistoryInv
  <2>5. Created => ticket.createdAt <= now'
    BY <1>1, <2>2, <2>3 DEF HistoryInv
  <2> QED BY <1>1, <2>3, <2>4, <2>5 DEF HistoryInv, Created
<1>3. AuditInv'
  <2>1. \A a \in 1 .. Len(audits) : audits[a].at \in Nat
    <3>1. \A a \in 1 .. Len(audits) : audits[a] \in AuditRows
      BY <1>1
    <3> QED BY <3>1 DEF AuditRows
  <2>2. AuditInv
    BY DEF TimelineInv
  <2>3. \A a \in 1 .. Len(audits) : audits[a].at <= now'
    BY <1>1, <2>1, <2>2 DEF AuditInv
  <2> QED BY <1>1, <2>2, <2>3 DEF AuditInv
<1>4. EventsInv'
  <2>1. \A i \in 1 .. Len(ledger) : ledger[i].at \in Nat
    <3>1. \A i \in 1 .. Len(ledger) : ledger[i] \in LedgerRows
      BY <1>1
    <3> QED BY <3>1 DEF LedgerRows
  <2>2. EventsInv
    BY DEF TimelineInv
  <2>3. \A i \in 1 .. Len(ledger) : ledger[i].at <= now'
    BY <1>1, <2>1, <2>2 DEF EventsInv
  <2> QED BY <1>1, <2>2, <2>3 DEF EventsInv
<1>5. CoverageInv' /\ TruthInv' /\ VerifyCustodyChain(ledger)'
  BY <1>1 DEF TimelineInv, CoverageInv, TruthInv
<1>6. LastInv'
  <2>1. Milestones' = Milestones
    BY <1>1 DEF Milestones, OfLedger, OfHistory, OfTicket, Represented
  <2> QED BY <1>1, <2>1 DEF TimelineInv, LastInv, Created
<1> QED BY <1>2, <1>3, <1>4, <1>5, <1>6 DEF TimelineInv

LEMMA DeploymentKeeps ==
  ASSUME TimelineInv, Deploy \/ CreateTable \/ BackfillRead PROVE TimelineInv'
<1>1. /\ ticket' = ticket /\ history' = history /\ audits' = audits /\ ledger' = ledger
      /\ now' = now /\ sweep' = sweep /\ now \in Nat
  BY DEF TimelineInv, TypesInv, Deploy, CreateTable, BackfillRead
<1>2. TypesInv'
  <2>1. app' \in {"old", "new"} /\ schema' \in {"none", "table", "filled"}
    BY DEF TimelineInv, TypesInv, Deploy, CreateTable, BackfillRead
  <2> QED BY <1>1, <2>1 DEF TimelineInv, TypesInv
<1>3. DeploymentInv'
  <2>1. CASE Deploy
    BY <1>1, <2>1 DEF TimelineInv, DeploymentInv, Deploy, Created
  <2>2. CASE CreateTable
    BY <1>1, <2>2 DEF TimelineInv, DeploymentInv, CreateTable, Created
  <2>3. CASE BackfillRead
    <3>1. /\ app' = app /\ schema' = schema /\ schema = "table"
          /\ reading' = [history |-> history, audits |-> audits, skip |-> ledger # <<>> \/ ~Created]
      BY <2>3 DEF BackfillRead
    <3>2. /\ reading'.history = history /\ reading'.audits = audits
          /\ reading'.skip <=> (ledger # <<>> \/ ~Created)
      BY <3>1
    <3>3. app = "old" => schema = "none"
      BY DEF TimelineInv, DeploymentInv
    <3> QED BY <1>1, <3>1, <3>2, <3>3 DEF DeploymentInv, Created
  <2> QED BY <2>1, <2>2, <2>3
<1> QED BY <1>1, <1>2, <1>3, QuietKeeps

LEMMA BackfillSkippedKeeps ==
  ASSUME TimelineInv, BackfillWrite, reading.skip \/ ledger # <<>> PROVE TimelineInv'
<1>1. /\ ticket' = ticket /\ history' = history /\ audits' = audits /\ ledger' = ledger
      /\ now' = now /\ sweep' = sweep /\ app' = app /\ schema' \in {schema, "filled"}
      /\ reading # Nobody /\ reading' = Nobody /\ now \in Nat
  BY DEF TimelineInv, TypesInv, BackfillWrite
<1>2. TypesInv'
  BY <1>1 DEF TimelineInv, TypesInv
<1>3. DeploymentInv'
  BY <1>1 DEF TimelineInv, DeploymentInv
<1> QED BY <1>1, <1>2, <1>3, QuietKeeps

LEMMA BackfillWriteKeeps == TimelineInv /\ BackfillWrite => TimelineInv'
BY BackfillFilledKeeps, BackfillSkippedKeeps

LEMMA SweepKeeps ==
  ASSUME TimelineInv, SweepStart \/ SweepEnd PROVE TimelineInv'
<1>1. /\ ticket' = ticket /\ history' = history /\ audits' = audits /\ ledger' = ledger
      /\ now \in Nat /\ now' \in Nat /\ now <= now'
      /\ app' = app /\ schema' = schema /\ reading' = reading
  BY DEF TimelineInv, TypesInv, SweepStart, SweepEnd, Tick, system
<1>2. TypesInv'
  <2>1. sweep' = Nobody \/ sweep' \in 0 .. now'
    BY <1>1 DEF SweepStart, SweepEnd
  <2> QED BY <1>1, <2>1 DEF TimelineInv, TypesInv
<1>3. DeploymentInv'
  BY <1>1 DEF TimelineInv, DeploymentInv, SweepStart, SweepEnd, Live, Created
<1> QED BY <1>1, <1>2, <1>3, QuietKeeps

LEMMA TimelineInit == Init => TimelineInv
<1> SUFFICES ASSUME Init PROVE TimelineInv
  OBVIOUS
<1>1. /\ app = "old" /\ schema = "none" /\ reading = Nobody /\ now = 0 /\ sweep = Nobody
      /\ ticket = NotYet /\ history = <<>> /\ audits = <<>> /\ ledger = <<>>
  BY DEF Init
<1>2. ~Created
  BY <1>1 DEF Created, NotYet
<1>3. TypesInv
  <2>1. NotYet \in Tickets
    BY DEF NotYet, Tickets, Owners, Places
  <2>2. <<>> \in Seq(HistoryRows) /\ <<>> \in Seq(AuditRows) /\ <<>> \in Seq(LedgerRows)
    OBVIOUS
  <2> QED BY <1>1, <2>1, <2>2 DEF TypesInv
<1>4. DeploymentInv
  BY <1>1 DEF DeploymentInv
<1>5. HistoryInv
  BY <1>1, <1>2 DEF HistoryInv
<1>6. AuditInv
  BY <1>1 DEF AuditInv, AuditTells
<1>7. VerifyCustodyChain(ledger) /\ EventsInv /\ CoverageInv /\ TruthInv
  BY <1>1 DEF VerifyCustodyChain, EventsInv, Once, CoverageInv, TruthInv, LedgerTells
<1>8. LastInv
  BY <1>2 DEF LastInv
<1> QED BY <1>3, <1>4, <1>5, <1>6, <1>7, <1>8 DEF TimelineInv

(* The invariant of the timelines holds, whatever the workflow, the number *)
(* of requests and sweeps and the moment of the deployment.                *)
THEOREM TimelineInvariant == TimelineSpec => []TimelineInv
<1>1. Init => TimelineInv
  BY TimelineInit
<1>2. TimelineInv /\ [Next]_vars => TimelineInv'
  <2> SUFFICES ASSUME TimelineInv, [Next]_vars PROVE TimelineInv'
    OBVIOUS
  <2>1. CASE LegacyCreate
    BY <2>1, LegacyCreateKeeps
  <2>2. CASE LegacyTransition
    BY <2>2, LegacyTransitionChanges, ChangeKeeps
  <2>3. CASE LegacyChange
    BY <2>3, LegacyChangeChanges, ChangeKeeps
  <2>4. CASE Deploy \/ CreateTable \/ BackfillRead
    BY <2>4, DeploymentKeeps
  <2>5. CASE BackfillWrite
    BY <2>5, BackfillWriteKeeps
  <2>6. CASE Create
    BY <2>6, CreateKeeps
  <2>7. CASE Transition
    BY <2>7, TransitionChanges, ChangeKeeps
  <2>8. CASE Escalate
    BY <2>8, EscalateChanges, ChangeKeeps
  <2>9. CASE AssignTicket
    BY <2>9, AssignTicketChanges, ChangeKeeps
  <2>10. CASE RouteTicket
    BY <2>10, RouteTicketChanges, ChangeKeeps
  <2>11. CASE SweepStart \/ SweepEnd
    BY <2>11, SweepKeeps
  <2>12. CASE RecordEscalation
    BY <2>12, RecordEscalationKeeps
  <2>13. CASE UNCHANGED vars
    <3>1. /\ ticket' = ticket /\ history' = history /\ audits' = audits /\ ledger' = ledger
          /\ now' = now /\ sweep' = sweep /\ app' = app /\ schema' = schema /\ reading' = reading
          /\ now \in Nat
      BY <2>13 DEF vars, TimelineInv, TypesInv
    <3>2. TypesInv' /\ DeploymentInv'
      BY <3>1 DEF TimelineInv, TypesInv, DeploymentInv, Created
    <3> QED BY <3>1, <3>2, QuietKeeps
  <2> QED BY <2>1, <2>2, <2>3, <2>4, <2>5, <2>6, <2>7, <2>8, <2>9, <2>10, <2>11, <2>12, <2>13
          DEF Next
<1> QED BY <1>1, <1>2, PTL DEF TimelineSpec

(* Damage.  A value that went into a digest cannot be replaced and leave   *)
(* the digest as it was.                                                   *)
Hashed(row) == row.eventHash = EventHash(row.previousHash, ChainPayload(row))

LEMMA DigestIsInjective ==
  ASSUME NEW P, NEW g \in Seq(P), NEW h \in Seq(P), NEW p \in P, NEW q \in P,
         EventHash(g, p) = EventHash(h, q)
  PROVE  g = h /\ p = q
<1> DEFINE s == Append(g, p)
           t == Append(h, q)
<1>1. /\ s \in Seq(P) /\ Len(s) = Len(g) + 1 /\ s[Len(g) + 1] = p
      /\ \A i \in 1 .. Len(g) : s[i] = g[i]
  OBVIOUS
<1>2. /\ t \in Seq(P) /\ Len(t) = Len(h) + 1 /\ t[Len(h) + 1] = q
      /\ \A i \in 1 .. Len(h) : t[i] = h[i]
  OBVIOUS
<1>3. s = t
  BY DEF EventHash
<1>4. Len(g) \in Nat /\ Len(h) \in Nat
  OBVIOUS
<1> HIDE DEF s, t
<1>5. Len(g) = Len(h)
  BY <1>1, <1>2, <1>3, <1>4
<1>6. g = h
  <2>1. \A i \in 1 .. Len(g) : g[i] = h[i]
    BY <1>1, <1>2, <1>3, <1>5
  <2> QED BY <1>5, <2>1, SeqEqual
<1> QED BY <1>1, <1>2, <1>3, <1>5, <1>6

LEMMA PayloadTyped ==
  ASSUME NEW r \in LedgerRows
  PROVE  /\ ChainPayload(r) \in Payloads /\ r.previousHash \in Seq(Payloads) /\ r.eventHash \in Seq(Payloads)
BY DEF LedgerRows, ChainPayload, Payloads

LEMMA AlteredRow ==
  ASSUME NEW r \in LedgerRows, NEW v \in LedgerRows,
         NEW f \in Columns,
         Hashed(r), Hashed([r EXCEPT ![f] = v[f]])
  PROVE  [r EXCEPT ![f] = v[f]] = r
<1> DEFINE s == [r EXCEPT ![f] = v[f]]
<1>1. s \in LedgerRows
  BY DEF LedgerRows
<1>2. Hashed(s)
  OBVIOUS
<1>3. f \in DOMAIN r /\ s[f] = v[f] /\ \A g \in DOMAIN r \ {f} : s[g] = r[g]
  BY DEF LedgerRows, Columns
<1>4. r = [x \in DOMAIN r |-> r[x]] /\ s = [x \in DOMAIN r |-> s[x]]
  BY DEF LedgerRows
<1>5. DOMAIN r = Columns
  BY DEF LedgerRows, Columns
<1> SUFFICES s[f] = r[f]
  BY <1>3, <1>4
<1> HIDE DEF s
<1>6. ChainPayload(r) \in Payloads /\ r.previousHash \in Seq(Payloads) /\ r.eventHash \in Seq(Payloads)
  BY PayloadTyped
<1>7. ChainPayload(s) \in Payloads /\ s.previousHash \in Seq(Payloads) /\ s.eventHash \in Seq(Payloads)
  BY <1>1, PayloadTyped
<1>8. r.eventHash = EventHash(r.previousHash, ChainPayload(r))
      /\ s.eventHash = EventHash(s.previousHash, ChainPayload(s))
  BY <1>2 DEF Hashed
<1>9. CASE f = "eventHash"
  <2>1. /\ s.sequence = r.sequence /\ s.type = r.type /\ s.at = r.at /\ s.source = r.source
        /\ s.prev = r.prev /\ s.new = r.new /\ s.previousHash = r.previousHash
    BY <1>3, <1>5, <1>9 DEF Columns
  <2>2. ChainPayload(s) = ChainPayload(r)
    BY <2>1 DEF ChainPayload
  <2> QED BY <1>8, <1>9, <2>1, <2>2
<1>10. CASE f # "eventHash"
  <2>1. s.eventHash = r.eventHash
    BY <1>3, <1>5, <1>10 DEF Columns
  <2>2. s.previousHash = r.previousHash /\ ChainPayload(s) = ChainPayload(r)
    <3>1. EventHash(s.previousHash, ChainPayload(s)) = EventHash(r.previousHash, ChainPayload(r))
      BY <1>8, <2>1
    <3> QED BY <1>6, <1>7, <3>1, DigestIsInjective
  <2>3. /\ s.sequence = r.sequence /\ s.type = r.type /\ s.at = r.at /\ s.source = r.source
        /\ s.prev = r.prev /\ s.new = r.new
    BY <2>2 DEF ChainPayload
  <2> QED BY <1>10, <2>2, <2>3 DEF Columns
<1> QED BY <1>9, <1>10

Altered(l, i, f, v) == [l EXCEPT ![i][f] = v]

LEMMA AlterationTold ==
  ASSUME NEW l \in Seq(LedgerRows), VerifyCustodyChain(l),
         NEW i \in 1 .. Len(l), NEW j \in 1 .. Len(l),
         NEW f \in Columns,
         VerifyCustodyChain(Altered(l, i, f, l[j][f]))
  PROVE  Altered(l, i, f, l[j][f]) = l
<1> DEFINE m == Altered(l, i, f, l[j][f])
           s == [l[i] EXCEPT ![f] = l[j][f]]
<1>1. m = [l EXCEPT ![i] = s]
  BY DEF Altered
<1>2. l[i] \in LedgerRows /\ l[j] \in LedgerRows
  OBVIOUS
<1>3. s \in LedgerRows
  BY <1>2 DEF LedgerRows
<1> HIDE DEF m, s
<1>4. m \in Seq(LedgerRows) /\ Len(m) = Len(l) /\ m[i] = s
      /\ \A k \in 1 .. Len(l) : k # i => m[k] = l[k]
  BY <1>1, <1>3
<1>5. VerifyCustodyChain(m)
  BY DEF m
<1>6. Hashed(l[i]) /\ Hashed(s)
  BY <1>4, <1>5 DEF VerifyCustodyChain, Hashed
<1>7. s = l[i]
  BY <1>2, <1>6, AlteredRow DEF s
<1>8. \A k \in 1 .. Len(l) : m[k] = l[k]
  BY <1>4, <1>7
<1>9. m = l
  BY <1>4, <1>8, SeqEqual
<1> QED BY <1>9 DEF m

LEMMA LossTold ==
  ASSUME NEW l \in Seq(LedgerRows), VerifyCustodyChain(l), NEW i \in 1 .. Len(l) - 1
  PROVE  ~VerifyCustodyChain(RemoveAt(l, i))
<1> DEFINE a == SubSeq(l, 1, i - 1)
           b == SubSeq(l, i + 1, Len(l))
           m == a \o b
<1>1. a \in Seq(LedgerRows) /\ Len(a) = i - 1
  OBVIOUS
<1>2. b \in Seq(LedgerRows) /\ Len(b) = Len(l) - i /\ b[1] = l[i + 1]
  OBVIOUS
<1> HIDE DEF a, b
<1>3. /\ Len(m) = Len(a) + Len(b)
      /\ \A k \in 1 .. Len(a) + Len(b) : m[k] = IF k <= Len(a) THEN a[k] ELSE b[k - Len(a)]
  BY <1>1, <1>2, ConcatProperties
<1>4. i \in 1 .. Len(m) /\ m[i] = b[1]
  <2>1. i \in 1 .. Len(a) + Len(b) /\ ~(i <= Len(a)) /\ i - Len(a) = 1
    BY <1>1, <1>2
  <2> HIDE DEF m
  <2> QED BY <1>3, <2>1
<1> HIDE DEF m
<1>5. l[i + 1].sequence = i + 1
  BY DEF VerifyCustodyChain
<1>6. m[i].sequence # i
  BY <1>2, <1>4, <1>5
<1>7. ~VerifyCustodyChain(m)
  BY <1>4, <1>6 DEF VerifyCustodyChain
<1> QED BY <1>7 DEF RemoveAt, m, a, b

LEMMA DamageTold ==
  ASSUME TimelineInv
  PROVE  ChainTellsDamage
<1>1. ledger \in Seq(LedgerRows) /\ VerifyCustodyChain(ledger)
  BY DEF TimelineInv, TypesInv
<1>2. ASSUME NEW l \in Damaged(ledger) \ {ledger} PROVE ~VerifyCustodyChain(l)
  <2>1. \/ \E i, j \in 1 .. Len(ledger), f \in Columns :
             l = [ledger EXCEPT ![i][f] = ledger[j][f]]
        \/ \E i \in 1 .. Len(ledger) - 1 : l = RemoveAt(ledger, i)
    BY <1>2 DEF Damaged
  <2>2. CASE \E i, j \in 1 .. Len(ledger), f \in Columns :
               l = [ledger EXCEPT ![i][f] = ledger[j][f]]
    <3>1. PICK i \in 1 .. Len(ledger), j \in 1 .. Len(ledger),
               f \in Columns :
                 l = [ledger EXCEPT ![i][f] = ledger[j][f]]
      BY <2>2
    <3>2. VerifyCustodyChain(Altered(ledger, i, f, ledger[j][f]))
            => Altered(ledger, i, f, ledger[j][f]) = ledger
      BY <1>1, AlterationTold
    <3>3. l = Altered(ledger, i, f, ledger[j][f])
      BY <3>1 DEF Altered
    <3> QED BY <1>2, <3>2, <3>3, Zenon
  <2>3. CASE \E i \in 1 .. Len(ledger) - 1 : l = RemoveAt(ledger, i)
    BY <1>1, <2>3, LossTold
  <2> QED BY <2>1, <2>2, <2>3
<1> QED BY <1>1, <1>2 DEF ChainTellsDamage

(* The ledger verifies at every moment, and no alteration of one of the    *)
(* values that went into a digest, no exchange of a hash and no loss of a  *)
(* row other than the last leaves it verifying.                            *)
THEOREM ChainTheorem == TimelineSpec => []ChainTellsDamage
<1>1. TimelineInv => ChainTellsDamage
  BY DamageTold
<1> QED BY <1>1, TimelineInvariant, PTL

-----------------------------------------------------------------------------
(* The greatest of some indices, by way of their order.                    *)
LEMMA GreatestIndex ==
  ASSUME NEW n \in Nat, NEW I \in SUBSET (1 .. n), I # {}
  PROVE  Max(I) \in I /\ \A i \in I : Max(I) >= i
<1> DEFINE S == {<<i, 0, i, i>> : i \in I}
<1>1. Sortable(S, n)
  BY DEF Sortable
<1>2. Cardinality(S) \in Nat /\ \E e : Lists(e, S)
  BY <1>1, SortedLists
<1>3. PICK e : Lists(e, S)
  BY <1>2
<1> DEFINE c == Cardinality(S)
<1>4. /\ e \in [1 .. c -> S]
      /\ \A m \in S : \E k \in 1 .. c : e[k] = m
      /\ \A k, j \in 1 .. c : k < j <=> Before(e[k], e[j])
  BY <1>3 DEF Lists
<1>5. c \in Nat
  BY <1>2
<1>6. \A i \in I : <<i, 0, i, i>> \in S
  OBVIOUS
<1>7. PICK p \in S : TRUE
  BY <1>6
<1>8. \A m \in S : m[1] \in I /\ m = <<m[1], 0, m[1], m[1]>>
  OBVIOUS
<1> HIDE DEF S, c
<1>9. c \in 1 .. c
  BY <1>4, <1>5, <1>7
<1>10. e[c] \in S
  BY <1>4, <1>9
<1>11. ASSUME NEW i \in I PROVE e[c][1] >= i
  <2>1. PICK k \in 1 .. c : e[k] = <<i, 0, i, i>>
    BY <1>4, <1>6
  <2>2. k = c \/ Before(e[k], e[c])
    BY <1>4, <1>5, <1>9
  <2>3. e[c][1] \in I /\ e[c] = <<e[c][1], 0, e[c][1], e[c][1]>>
    BY <1>8, <1>10
  <2> DEFINE g == e[c][1]
  <2>4. g \in 1 .. n /\ i \in 1 .. n
    BY <2>3
  <2>5. k = c \/ Before(<<i, 0, i, i>>, <<g, 0, g, g>>)
    BY <2>1, <2>2, <2>3
  <2>6. k = c => g = i
    BY <2>1
  <2> HIDE DEF g
  <2>7. i < g \/ g = i
    BY <2>4, <2>5, <2>6 DEF Before
  <2>8. g >= i
    BY <2>4, <2>7
  <2> QED BY <2>8 DEF g
<1>12. \E g \in I : \A i \in I : g >= i
  BY <1>8, <1>10, <1>11
<1> QED BY <1>12 DEF Max

LEMMA LastSaying ==
  ASSUME NEW x, NEW n \in Nat, NEW v, LedgerTells(ledger, n, x, v), Sayings(n, x) # {}
  PROVE  ledger[Max(Sayings(n, x))].new[x] = v
<1> DEFINE g == Max(Sayings(n, x))
<1>1. Sayings(n, x) \in SUBSET (1 .. n) /\ \A i \in 1 .. n : i \in Sayings(n, x) <=> x \in DOMAIN ledger[i].new
  BY DEF Sayings
<1>2. g \in Sayings(n, x) /\ \A i \in Sayings(n, x) : g >= i
  BY <1>1, GreatestIndex
<1> HIDE DEF g
<1>3. g \in 1 .. n /\ x \in DOMAIN ledger[g].new
  BY <1>1, <1>2
<1>4. ASSUME NEW m \in g + 1 .. n PROVE x \notin DOMAIN ledger[m].new
  <2>1. m \in 1 .. n /\ ~(g >= m)
    BY <1>3
  <2> QED BY <1>1, <1>2, <2>1
<1>5. ledger[g].new[x] = v
  BY <1>3, <1>4 DEF LedgerTells
<1> QED BY <1>5 DEF g

LEMMA TruthTold == TimelineInv => LedgerTellsTruth
<1> SUFFICES ASSUME TimelineInv, NEW x \in Aspects
             PROVE  /\ \A i \in 1 .. Len(ledger) :
                         (x \in DOMAIN ledger[i].prev /\ Sayings(i - 1, x) # {})
                           => ledger[i].prev[x] = ledger[Max(Sayings(i - 1, x))].new[x]
                    /\ Sayings(Len(ledger), x) # {}
                         => ledger[Max(Sayings(Len(ledger), x))].new[x] = ticket[x]
  BY DEF LedgerTellsTruth, Aspects
<1>1. Len(ledger) \in Nat
  BY DEF TimelineInv, TypesInv
<1>2. /\ \A i \in 1 .. Len(ledger) :
           x \in DOMAIN ledger[i].prev => LedgerTells(ledger, i - 1, x, ledger[i].prev[x])
      /\ LedgerTells(ledger, Len(ledger), x, ticket[x])
  BY DEF TimelineInv, TruthInv
<1>3. ASSUME NEW i \in 1 .. Len(ledger), x \in DOMAIN ledger[i].prev, Sayings(i - 1, x) # {}
      PROVE  ledger[i].prev[x] = ledger[Max(Sayings(i - 1, x))].new[x]
  <2> DEFINE n == i - 1
             v == ledger[i].prev[x]
  <2>1. n \in Nat /\ LedgerTells(ledger, n, x, v) /\ Sayings(n, x) # {}
    BY <1>1, <1>2, <1>3
  <2> HIDE DEF n, v
  <2>2. ledger[Max(Sayings(n, x))].new[x] = v
    BY <2>1, LastSaying
  <2> QED BY <2>2 DEF n, v
<1>4. ASSUME Sayings(Len(ledger), x) # {}
      PROVE  ledger[Max(Sayings(Len(ledger), x))].new[x] = ticket[x]
  <2> DEFINE n == Len(ledger)
             v == ticket[x]
  <2>1. n \in Nat /\ LedgerTells(ledger, n, x, v) /\ Sayings(n, x) # {}
    BY <1>1, <1>2, <1>4
  <2> HIDE DEF n, v
  <2>2. ledger[Max(Sayings(n, x))].new[x] = v
    BY <2>1, LastSaying
  <2> QED BY <2>2 DEF n, v
<1> QED BY <1>3, <1>4

(* What an event says was so before is what the ledger last said, and what *)
(* the ledger last said is so.                                             *)
THEOREM LedgerTheorem == TimelineSpec => []LedgerTellsTruth
BY TimelineInvariant, TruthTold, PTL

-----------------------------------------------------------------------------
(* The activity.                                                           *)
RowItem(i) == [item |-> <<"transition", i>>, shows |-> {<<"status", Transitioned(i)>>}]

AuditItem(i) ==
  [item |-> Audited(i),
   shows |-> ({f[1] : f \in audits[i].fields} \ CustodyAuditFields(i)) \X {Audited(i)}]

EventItem(i) ==
  [item |-> <<"custody", i>>,
   shows |-> IF ledger[i].source = <<>> \/ ledger[i].source[1] = "sla_instance" THEN {}
             ELSE (DOMAIN ledger[i].new) \X {ledger[i].source}]

LEMMA ItemsAre ==
  ASSUME NEW a \in Activity
  PROVE  \/ \E i \in 1 .. Len(history) \ Represented : a = RowItem(i)
         \/ \E i \in 1 .. Len(audits) : a = AuditItem(i)
         \/ \E i \in 1 .. Len(ledger) : a = EventItem(i)
BY DEF Activity, RowItem, AuditItem, EventItem

LEMMA EventsShown ==
  ASSUME NEW i \in 1 .. Len(ledger)
  PROVE  EventItem(i) \in Activity
BY DEF Activity, EventItem

(* Which item shows a change, if one does.                                 *)
LEMMA RowShows ==
  ASSUME NEW i \in 1 .. Len(history) \ Represented, NEW s, s \in RowItem(i).shows
  PROVE  /\ s = <<"status", Transitioned(i)>>
         /\ \A k \in 1 .. Len(ledger) : ledger[k].source # Transitioned(i)
<1>1. ASSUME NEW k \in 1 .. Len(ledger), ledger[k].source = Transitioned(i) PROVE FALSE
  <2>1. ledger[k] \in Range(ledger)
    BY DEF Range
  <2>2. ledger[k].source # <<>> /\ ledger[k].source[1] = "workflow_transition"
        /\ ledger[k].source[2] = i
    BY <1>1 DEF Transitioned
  <2>3. i \in Represented
    BY <2>1, <2>2 DEF Represented
  <2> QED BY <2>3
<1> QED BY <1>1 DEF RowItem

LEMMA AuditShows ==
  ASSUME NEW i, NEW s, s \in AuditItem(i).shows
  PROVE  \E x : /\ s = <<x, Audited(i)>>
                /\ \A k \in 1 .. Len(ledger) :
                     ~(ledger[k].source = Audited(i) /\ x \in DOMAIN ledger[k].new)
<1>1. PICK x \in {f[1] : f \in audits[i].fields} \ CustodyAuditFields(i) : s = <<x, Audited(i)>>
  BY DEF AuditItem
<1>2. ASSUME NEW k \in 1 .. Len(ledger), ledger[k].source = Audited(i), x \in DOMAIN ledger[k].new
      PROVE  FALSE
  <2>1. ledger[k] \in Range(ledger)
    BY DEF Range
  <2>2. x \in CustodyAuditFields(i)
    BY <1>2, <2>1 DEF CustodyAuditFields
  <2> QED BY <2>2
<1> QED BY <1>1, <1>2

LEMMA EventShows ==
  ASSUME NEW i, NEW s, s \in EventItem(i).shows
  PROVE  /\ ~IsClock(ledger[i])
         /\ \E x : s = <<x, ledger[i].source>> /\ x \in DOMAIN ledger[i].new
BY DEF EventItem, IsClock

LEMMA ShownOnce ==
  ASSUME Once(ledger), NEW a \in Activity, NEW b \in Activity, NEW s, s \in a.shows, s \in b.shows
  PROVE  a = b
<1>1. \A i, j : Transitioned(i) # Audited(j)
  BY DEF Transitioned, Audited
<1>2. \A i, j : (Transitioned(i) = Transitioned(j) => i = j) /\ (Audited(i) = Audited(j) => i = j)
  BY DEF Transitioned, Audited
<1>3. CASE \E i \in 1 .. Len(history) \ Represented : a = RowItem(i)
  <2>1. PICK i \in 1 .. Len(history) \ Represented : a = RowItem(i)
    BY <1>3
  <2>2. /\ s = <<"status", Transitioned(i)>>
        /\ \A k \in 1 .. Len(ledger) : ledger[k].source # Transitioned(i)
    BY <2>1, RowShows
  <2>3. CASE \E j \in 1 .. Len(history) \ Represented : b = RowItem(j)
    BY <1>2, <2>1, <2>2, <2>3, RowShows
  <2>4. CASE \E j \in 1 .. Len(audits) : b = AuditItem(j)
    BY <1>1, <2>2, <2>4, AuditShows
  <2>5. CASE \E j \in 1 .. Len(ledger) : b = EventItem(j)
    BY <2>2, <2>5, EventShows
  <2> QED BY <2>3, <2>4, <2>5, ItemsAre
<1>4. CASE \E i \in 1 .. Len(audits) : a = AuditItem(i)
  <2>1. PICK i \in 1 .. Len(audits) : a = AuditItem(i)
    BY <1>4
  <2>2. PICK x : /\ s = <<x, Audited(i)>>
                 /\ \A k \in 1 .. Len(ledger) :
                      ~(ledger[k].source = Audited(i) /\ x \in DOMAIN ledger[k].new)
    BY <2>1, AuditShows
  <2>3. CASE \E j \in 1 .. Len(history) \ Represented : b = RowItem(j)
    BY <1>1, <2>2, <2>3, RowShows
  <2>4. CASE \E j \in 1 .. Len(audits) : b = AuditItem(j)
    BY <1>2, <2>1, <2>2, <2>4, AuditShows
  <2>5. CASE \E j \in 1 .. Len(ledger) : b = EventItem(j)
    BY <2>2, <2>5, EventShows
  <2> QED BY <2>3, <2>4, <2>5, ItemsAre
<1>5. CASE \E i \in 1 .. Len(ledger) : a = EventItem(i)
  <2>1. PICK i \in 1 .. Len(ledger) : a = EventItem(i)
    BY <1>5
  <2>2. PICK x : s = <<x, ledger[i].source>> /\ x \in DOMAIN ledger[i].new
    BY <2>1, EventShows
  <2>3. CASE \E j \in 1 .. Len(history) \ Represented : b = RowItem(j)
    BY <2>2, <2>3, RowShows
  <2>4. CASE \E j \in 1 .. Len(audits) : b = AuditItem(j)
    BY <2>2, <2>4, AuditShows
  <2>5. CASE \E j \in 1 .. Len(ledger) : b = EventItem(j)
    <3>1. PICK j \in 1 .. Len(ledger) : b = EventItem(j)
      BY <2>5
    <3>2. PICK y : s = <<y, ledger[j].source>> /\ y \in DOMAIN ledger[j].new
      BY <3>1, EventShows
    <3>3. ~IsClock(ledger[i])
      BY <2>1, EventShows
    <3>4. Same(ledger[i], ledger[j])
      BY <2>2, <3>2, <3>3 DEF Same
    <3> QED BY <2>1, <3>1, <3>4 DEF Once
  <2> QED BY <2>3, <2>4, <2>5, ItemsAre
<1> QED BY <1>3, <1>4, <1>5, ItemsAre

LEMMA ActivityTold == TimelineInv => ActivityShowsEachOnce
<1> SUFFICES ASSUME TimelineInv PROVE ActivityShowsEachOnce
  OBVIOUS
<1>1. ASSUME NEW a \in Activity, NEW b \in Activity, a.item # b.item
      PROVE  a.shows \cap b.shows = {}
  <2>1. Once(ledger)
    BY DEF TimelineInv, EventsInv
  <2> QED BY <1>1, <2>1, ShownOnce
<1>2. ASSUME NEW c \in 1 .. Len(ledger), ledger[c].type = "created", NEW x \in Changes
      PROVE  \E a \in Activity : x \in a.shows
  <2>1. ledger \in Seq(LedgerRows)
    BY DEF TimelineInv, TypesInv
  <2>2. /\ \A h \in 1 .. Len(history) : RowCovered(ledger, h)
        /\ \A a \in 1 .. Len(audits) : \A f \in audits[a].fields : FieldCovered(ledger, a, f[1])
    BY <1>2 DEF TimelineInv, CoverageInv
  <2>3. CASE \E h \in 1 .. Len(history) : x = <<"status", Transitioned(h)>>
    <3>1. PICK h \in 1 .. Len(history) : x = <<"status", Transitioned(h)>>
      BY <2>3
    <3>2. PICK i \in 1 .. Len(ledger) : ledger[i].source = Transitioned(h)
      BY <2>2 DEF RowCovered
    <3>3. Stands(ledger[i], history, audits, ticket)
      BY DEF TimelineInv, EventsInv
    <3>4. "status" \in DOMAIN ledger[i].new
      <4>1. \A a : Transitioned(h) # Audited(a)
        BY DEF Transitioned, Audited
      <4>2. \A k : Transitioned(h) # <<"sla_instance", k>> /\ Transitioned(h) # <<>>
        BY DEF Transitioned
      <4>3. \E g \in 1 .. Len(history) : StandsForRow(ledger[i], g, history, ticket)
        BY <3>2, <3>3, <4>1, <4>2 DEF Stands, StandsForCreation, StandsForField, StandsForClock
      <4>4. \E g : ledger[i].new = [status |-> history[g].to]
        BY <4>3 DEF StandsForRow
      <4> QED BY <4>4
    <3>5. ledger[i].source # <<>> /\ ledger[i].source[1] # "sla_instance"
      BY <3>2 DEF Transitioned
    <3>6. x \in EventItem(i).shows
      BY <3>1, <3>2, <3>4, <3>5 DEF EventItem
    <3> QED BY <3>6, EventsShown
  <2>4. CASE \E a \in 1 .. Len(audits) : \E f \in audits[a].fields : x = <<f[1], Audited(a)>>
    <3>1. PICK a \in 1 .. Len(audits) : \E f \in audits[a].fields : x = <<f[1], Audited(a)>>
      BY <2>4
    <3>2. PICK f \in audits[a].fields : x = <<f[1], Audited(a)>>
      BY <3>1
    <3>3. PICK i \in 1 .. Len(ledger) : ledger[i].source = Audited(a) /\ f[1] \in DOMAIN ledger[i].new
      BY <2>2 DEF FieldCovered
    <3>4. ledger[i].source # <<>> /\ ledger[i].source[1] # "sla_instance"
      BY <3>3 DEF Audited
    <3>5. x \in EventItem(i).shows
      BY <3>2, <3>3, <3>4 DEF EventItem
    <3> QED BY <3>5, EventsShown
  <2>5. \/ \E h \in 1 .. Len(history) : x = <<"status", Transitioned(h)>>
        \/ \E a \in 1 .. Len(audits) : \E f \in audits[a].fields : x = <<f[1], Audited(a)>>
    BY <1>2 DEF Changes
  <2> QED BY <2>3, <2>4, <2>5
<1>3. ASSUME NEW e \in Range(ledger), e.type = "created"
      PROVE  Changes \subseteq UNION {a.shows : a \in Activity}
  <2>1. PICK c \in 1 .. Len(ledger) : e = ledger[c]
    BY DEF Range
  <2> QED BY <1>2, <1>3, <2>1
<1> QED BY <1>1, <1>3 DEF ActivityShowsEachOnce

(* The activity of a ticket shows no change twice, and once its ledger has *)
(* a beginning it shows every change.                                      *)
THEOREM ActivityTheorem == TimelineSpec => []ActivityShowsEachOnce
BY TimelineInvariant, ActivityTold, PTL

-----------------------------------------------------------------------------
(* The progress.  A sorted list ends with the greatest source, and leaving *)
(* out repeated labels does not change what a list ends with.              *)
LEMMA LeastIndex ==
  ASSUME NEW n \in Nat, NEW I \in SUBSET (1 .. n), I # {}
  PROVE  \E g \in I : \A i \in I : g <= i
<1> DEFINE J == {n + 1 - i : i \in I}
<1>1. J \in SUBSET (1 .. n) /\ J # {}
  <2>1. \A i \in I : n + 1 - i \in 1 .. n
    <3>1. \A i \in 1 .. n : n + 1 - i \in 1 .. n
      OBVIOUS
    <3> QED BY <3>1
  <2>2. PICK i : i \in I
    OBVIOUS
  <2>3. n + 1 - i \in J
    BY <2>2
  <2> QED BY <2>1, <2>3
<1>2. \A i \in I : n + 1 - i \in J
  OBVIOUS
<1>3. \A j \in J : \E i \in I : j = n + 1 - i
  OBVIOUS
<1> HIDE DEF J
<1>4. Max(J) \in J /\ \A j \in J : Max(J) >= j
  BY <1>1, GreatestIndex
<1>5. PICK g \in I : Max(J) = n + 1 - g
  BY <1>3, <1>4
<1>6. ASSUME NEW i \in I PROVE g <= i
  <2>1. n + 1 - g >= n + 1 - i
    BY <1>2, <1>4, <1>5
  <2> QED BY <2>1
<1> QED BY <1>6

LEMMA LastSorted ==
  ASSUME NEW K \in Nat, NEW S, Sortable(S, K), NEW m \in S, \A x \in S : x = m \/ Before(x, m)
  PROVE  /\ Sorted(S) \in Seq({x[4] : x \in S}) /\ Len(Sorted(S)) \in Nat \ {0}
         /\ Sorted(S)[Len(Sorted(S))] = m[4]
<1> DEFINE n == Cardinality(S)
<1>1. n \in Nat /\ \E e : Lists(e, S)
  BY SortedLists
<1>2. PICK e : Lists(e, S)
  BY <1>1
<1>3. /\ e \in [1 .. n -> S]
      /\ \A x \in S : \E i \in 1 .. n : e[i] = x
      /\ \A i, j \in 1 .. n : i < j <=> Before(e[i], e[j])
      /\ Sorted(S) = [i \in 1 .. n |-> e[i][4]]
  BY <1>2 DEF Lists
<1> HIDE DEF n
<1>4. PICK i \in 1 .. n : e[i] = m
  BY <1>3
<1>5. n \in 1 .. n /\ e[n] \in S
  BY <1>1, <1>3, <1>4
<1>6. ~(i < n)
  <2>1. ~Before(m, e[n])
    <3>1. e[n] = m \/ Before(e[n], m)
      BY <1>5
    <3> QED BY <1>5, <3>1, BeforeOrders
  <2> QED BY <1>3, <1>4, <1>5, <2>1
<1>7. e[n] = m
  BY <1>4, <1>5, <1>6
<1>8. Sorted(S) \in [1 .. n -> {x[4] : x \in S}]
  BY <1>3
<1>9. Sorted(S) \in Seq({x[4] : x \in S}) /\ Len(Sorted(S)) = n
  BY <1>1, <1>8
<1> QED BY <1>1, <1>3, <1>5, <1>7, <1>9

LEMMA CollapseEnds ==
  ASSUME NEW C, NEW codes \in Seq(C), Len(codes) # 0
  PROVE  Last(Collapse(codes)) = TrackingStatusFor(codes[Len(codes)])
<1> DEFINE n == Len(codes)
           Label(i) == TrackingStatusFor(codes[i])
           kept == {i \in 1 .. n : i = 1 \/ Label(i) # Label(i - 1)}
           S == {<<i, 0, i, Label(i)>> : i \in kept}
           g == Max(kept)
           m == <<g, 0, g, Label(g)>>
<1>1. n \in Nat /\ n >= 1
  OBVIOUS
<1>2. Collapse(codes) = Sorted(S)
  BY DEF Collapse
<1> HIDE DEF n, Label
<1>3. kept \in SUBSET (1 .. n) /\ 1 \in kept
  BY <1>1
<1>4. \A i \in 1 .. n : i \in kept <=> (i = 1 \/ Label(i) # Label(i - 1))
  OBVIOUS
<1> HIDE DEF kept
<1>5. g \in kept /\ \A i \in kept : g >= i
  BY <1>1, <1>3, GreatestIndex
<1> HIDE DEF g
<1>6. g \in 1 .. n
  BY <1>3, <1>5
<1>7. Sortable(S, n)
  BY <1>1, <1>3 DEF Sortable
<1>8. m \in S
  BY <1>5
<1>9. ASSUME NEW x \in S PROVE x = m \/ Before(x, m)
  <2>1. PICK i \in kept : x = <<i, 0, i, Label(i)>>
    OBVIOUS
  <2>2. i \in 1 .. n /\ g >= i
    BY <1>3, <1>5
  <2>3. CASE i = g
    BY <2>1, <2>3
  <2>4. CASE i < g
    BY <2>1, <2>4 DEF Before
  <2> QED BY <1>6, <2>2, <2>3, <2>4
<1> HIDE DEF S
<1>10. /\ Sorted(S) \in Seq({x[4] : x \in S}) /\ Len(Sorted(S)) \in Nat \ {0}
       /\ Sorted(S)[Len(Sorted(S))] = m[4]
  BY <1>1, <1>7, <1>8, <1>9, LastSorted
<1>11. Last(Sorted(S)) = Label(g)
  BY <1>10 DEF Last
<1>12. Label(n) = Label(g)
  <2> SUFFICES ASSUME Label(n) # Label(g) PROVE FALSE
    OBVIOUS
  <2> DEFINE I == {k \in 1 .. n : k > g /\ Label(k) # Label(g)}
  <2>1. I \in SUBSET (1 .. n) /\ n \in I
    BY <1>1, <1>6
  <2>2. PICK k \in I : \A i \in I : k <= i
    BY <1>1, <2>1, LeastIndex
  <2>3. k \in 1 .. n /\ k > g /\ Label(k) # Label(g)
    OBVIOUS
  <2> DEFINE h == k - 1
  <2>4. h \in 1 .. n /\ h >= g /\ h < k
    BY <1>1, <1>6, <2>3
  <2>5. h \notin I
    BY <2>2, <2>4
  <2>6. Label(h) = Label(g)
    <3>1. CASE h = g
      BY <3>1
    <3>2. CASE h > g
      BY <2>4, <2>5, <3>2
    <3> QED BY <1>6, <2>4, <3>1, <3>2
  <2>7. k \notin kept
    BY <1>5, <1>6, <2>3
  <2>8. Label(k) = Label(h)
    BY <1>4, <2>3, <2>7
  <2> QED BY <2>3, <2>6, <2>8
<1> QED BY <1>2, <1>11, <1>12 DEF Label, n

LEMMA ProgressEnds ==
  ASSUME TimelineInv, Created
  PROVE  Last(Progress(Milestones)) = TrackingStatusFor(ticket.status)
<1>1. /\ ledger \in Seq(LedgerRows) /\ history \in Seq(HistoryRows) /\ ticket.createdAt \in Nat
  BY DEF TimelineInv, TypesInv, Tickets
<1> DEFINE K == Len(ledger) + Len(history)
<1>2. Milestones = MilestonesOf(ledger, history, ticket)
  BY <1>1, MilestonesNow
<1>3. Sortable(Milestones, K) /\ K \in Nat
  BY <1>1, <1>2, MilestonesSortable
<1>4. PICK m \in Milestones : m[4] = ticket.status /\ \A x \in Milestones : x = m \/ Before(x, m)
  BY DEF TimelineInv, LastInv
<1> HIDE DEF K
<1> DEFINE codes == Sorted(Milestones)
<1>5. /\ codes \in Seq({x[4] : x \in Milestones}) /\ Len(codes) \in Nat \ {0}
      /\ codes[Len(codes)] = ticket.status
  BY <1>3, <1>4, LastSorted
<1> HIDE DEF codes
<1>6. Last(Collapse(codes)) = TrackingStatusFor(ticket.status)
  BY <1>5, CollapseEnds
<1> QED BY <1>6 DEF Progress, codes

(* The milestones that are no restatements: one for each transition row,   *)
(* of an event or of the row itself, and one for a creation without a row. *)
EventMilestone(i) == <<ledger[i].at, 1, i, ledger[i].new["status"]>>
HistoryMilestone(h) == <<history[h].at, 2, h, history[h].to>>

TellsRow(m, h) ==
  \/ \E i \in 1 .. Len(ledger) : m = EventMilestone(i) /\ ledger[i].source = Transitioned(h)
  \/ m = HistoryMilestone(h) /\ ~RowCovered(ledger, h)

TellsCreation(m) ==
  \E i \in 1 .. Len(ledger) :
    m = EventMilestone(i) /\ StandsForCreation(ledger[i], history, audits, ticket)

LEMMA RowEvents ==
  ASSUME TimelineInv, NEW i \in 1 .. Len(ledger), NEW h, ledger[i].source = Transitioned(h)
  PROVE  h \in 1 .. Len(history) /\ StandsForRow(ledger[i], h, history, ticket)
<1>1. Stands(ledger[i], history, audits, ticket)
  BY DEF TimelineInv, EventsInv
<1>2. /\ \A a : Transitioned(h) # Audited(a)
      /\ \A k : Transitioned(h) # <<"sla_instance", k>> /\ Transitioned(h) # <<>>
      /\ \A g : Transitioned(h) = Transitioned(g) => g = h
  BY DEF Transitioned, Audited
<1>3. PICK g \in 1 .. Len(history) : StandsForRow(ledger[i], g, history, ticket)
  BY <1>1, <1>2 DEF Stands, StandsForCreation, StandsForField, StandsForClock
<1>4. g = h
  BY <1>2, <1>3 DEF StandsForRow
<1> QED BY <1>3, <1>4

LEMMA StatusEvents ==
  ASSUME TimelineInv, NEW i \in 1 .. Len(ledger), ~IsClock(ledger[i]),
         "status" \in DOMAIN ledger[i].new
  PROVE  \/ \E h \in 1 .. Len(history) : ledger[i].source = Transitioned(h)
         \/ StandsForCreation(ledger[i], history, audits, ticket)
<1>1. Stands(ledger[i], history, audits, ticket)
  BY DEF TimelineInv, EventsInv
<1>2. ~StandsForClock(ledger[i])
  <2>1. \A k : <<"sla_instance", k>> # <<>> /\ <<"sla_instance", k>>[1] = "sla_instance"
    OBVIOUS
  <2> QED BY <2>1 DEF StandsForClock, IsClock
<1>3. ASSUME NEW a \in 1 .. Len(audits), NEW f \in audits[a].fields, StandsForField(ledger[i], a, f)
      PROVE  FALSE
  <2>1. audits[a] \in AuditRows
    BY DEF TimelineInv, TypesInv
  <2>2. f[1] # "status"
    BY <2>1 DEF AuditRows, Fields
  <2> QED BY <1>3, <2>2 DEF StandsForField
<1>4. \A h \in 1 .. Len(history) :
        StandsForRow(ledger[i], h, history, ticket) => ledger[i].source = Transitioned(h)
  BY DEF StandsForRow
<1> QED BY <1>1, <1>2, <1>3, <1>4 DEF Stands

LEMMA CreationEvents ==
  ASSUME NEW i \in 1 .. Len(ledger), StandsForCreation(ledger[i], history, audits, ticket)
  PROVE  /\ ~IsClock(ledger[i]) /\ ledger[i].new = [status |-> Initial] /\ ledger[i].type = "created"
         /\ ledger[i].at = ticket.createdAt /\ Creations(history) = {}
BY DEF StandsForCreation, IsClock, Audited

LEMMA RowTold ==
  ASSUME TimelineInv, NEW h \in 1 .. Len(history), NEW m, TellsRow(m, h)
  PROVE  /\ m[1] \in Nat /\ m[4] = history[h].to /\ m[1] <= history[h].at
         /\ \A g \in 1 .. h - 1 : history[g].at < m[1]
         /\ history[h].from # Nobody => ticket.createdAt < m[1]
<1>1. CASE \E i \in 1 .. Len(ledger) : m = EventMilestone(i) /\ ledger[i].source = Transitioned(h)
  <2>1. PICK i \in 1 .. Len(ledger) : m = EventMilestone(i) /\ ledger[i].source = Transitioned(h)
    BY <1>1
  <2>2. StandsForRow(ledger[i], h, history, ticket)
    BY <2>1, RowEvents
  <2>3. ledger[i].at \in Nat
    <3>1. ledger[i] \in LedgerRows
      BY DEF TimelineInv, TypesInv
    <3> QED BY <3>1 DEF LedgerRows
  <2>4. m[1] = ledger[i].at /\ m[4] = ledger[i].new["status"]
    BY <2>1 DEF EventMilestone
  <2> QED BY <2>2, <2>3, <2>4 DEF StandsForRow
<1>2. CASE m = HistoryMilestone(h)
  <2>1. m[1] = history[h].at /\ m[4] = history[h].to
    BY <1>2 DEF HistoryMilestone
  <2>2. history \in Seq(HistoryRows) /\ ticket.createdAt \in Nat
    BY DEF TimelineInv, TypesInv, Tickets
  <2>3. \A g \in 1 .. Len(history) : history[g].at \in Nat
    <3>1. \A g \in 1 .. Len(history) : history[g] \in HistoryRows
      BY <2>2
    <3> QED BY <3>1 DEF HistoryRows
  <2>4. \A g, k \in 1 .. Len(history) : g < k => history[g].at < history[k].at
    BY DEF TimelineInv, HistoryInv
  <2>5. \A g \in 1 .. h - 1 : history[g].at < history[h].at
    <3>1. \A g \in 1 .. h - 1 : g \in 1 .. Len(history) /\ g < h
      BY <2>2
    <3> QED BY <2>4, <3>1
  <2>6. history[h].from # Nobody => ticket.createdAt < history[h].at
    <3> SUFFICES ASSUME history[h].from # Nobody PROVE ticket.createdAt < history[h].at
      OBVIOUS
    <3>1. history # <<>> /\ 1 \in 1 .. Len(history)
      BY <2>2
    <3>2. IF history[1].from = Nobody THEN history[1].at = ticket.createdAt
          ELSE ticket.createdAt < history[1].at
      BY <3>1 DEF TimelineInv, HistoryInv
    <3>3. h = 1 \/ 1 \in 1 .. h - 1
      BY <2>2
    <3> QED BY <2>2, <2>3, <2>5, <3>1, <3>2, <3>3
  <2> QED BY <2>1, <2>3, <2>5, <2>6
<1> QED BY <1>1, <1>2 DEF TellsRow

LEMMA RowToldOnce ==
  ASSUME TimelineInv, NEW h \in 1 .. Len(history),
         NEW m, TellsRow(m, h), NEW n, TellsRow(n, h)
  PROVE  m = n
<1>1. ASSUME NEW i \in 1 .. Len(ledger), ledger[i].source = Transitioned(h),
             NEW j \in 1 .. Len(ledger), ledger[j].source = Transitioned(h)
      PROVE  i = j
  <2>1. ledger[i].new = [status |-> history[h].to] /\ ledger[j].new = [status |-> history[h].to]
    BY <1>1, RowEvents DEF StandsForRow
  <2>2. ~IsClock(ledger[i])
    BY <1>1 DEF IsClock, Transitioned
  <2>3. DOMAIN ledger[i].new \cap DOMAIN ledger[j].new # {}
    BY <2>1
  <2>4. Same(ledger[i], ledger[j])
    BY <1>1, <2>2, <2>3 DEF Same
  <2> QED BY <2>4 DEF TimelineInv, EventsInv, Once
<1> QED BY <1>1 DEF TellsRow, RowCovered

LEMMA RowIsTold ==
  ASSUME NEW h \in 1 .. Len(history)
  PROVE  \E m : TellsRow(m, h)
BY DEF TellsRow, RowCovered

LEMMA CreationToldOnce ==
  ASSUME TimelineInv, NEW m, TellsCreation(m), NEW n, TellsCreation(n)
  PROVE  m = n
<1>1. PICK i \in 1 .. Len(ledger) :
        m = EventMilestone(i) /\ StandsForCreation(ledger[i], history, audits, ticket)
  BY DEF TellsCreation
<1>2. PICK j \in 1 .. Len(ledger) :
        n = EventMilestone(j) /\ StandsForCreation(ledger[j], history, audits, ticket)
  BY DEF TellsCreation
<1>3. ledger[i].type = "created" /\ ledger[j].type = "created"
  BY <1>1, <1>2, CreationEvents
<1>4. i = j
  BY <1>3 DEF TimelineInv, EventsInv, Once, Same
<1> QED BY <1>1, <1>2, <1>4

LEMMA MilestonesAre ==
  ASSUME TimelineInv, LedgerMilestones(ledger) \cup RowMilestones(ledger, history) # {}
  PROVE  \A m : m \in Milestones \ Restatements
                  <=> (\E h \in 1 .. Len(history) : TellsRow(m, h)) \/ TellsCreation(m)
<1>1. Milestones = LedgerMilestones(ledger) \cup RowMilestones(ledger, history)
  <2>1. ledger \in Seq(LedgerRows)
    BY DEF TimelineInv, TypesInv
  <2> QED BY <2>1, MilestonesNow DEF MilestonesOf
<1>2. \A m : m \in LedgerMilestones(ledger)
               <=> \E i \in 1 .. Len(ledger) : "status" \in DOMAIN ledger[i].new /\ m = EventMilestone(i)
  BY DEF LedgerMilestones, EventMilestone
<1>3. \A m : m \in RowMilestones(ledger, history)
               <=> \E h \in 1 .. Len(history) : ~RowCovered(ledger, h) /\ m = HistoryMilestone(h)
  BY DEF RowMilestones, HistoryMilestone
<1>4. \A m : m \in Restatements
               <=> \E i \in 1 .. Len(ledger) : IsClock(ledger[i]) /\ m = EventMilestone(i)
  BY DEF Restatements, EventMilestone, IsClock
<1>5. /\ \A i, j : EventMilestone(i) = EventMilestone(j) => i = j
      /\ \A i, h : EventMilestone(i) # HistoryMilestone(h)
  BY DEF EventMilestone, HistoryMilestone
<1>6. ASSUME NEW m \in Milestones \ Restatements
      PROVE  (\E h \in 1 .. Len(history) : TellsRow(m, h)) \/ TellsCreation(m)
  <2>1. CASE m \in RowMilestones(ledger, history)
    BY <1>3, <2>1 DEF TellsRow
  <2>2. CASE m \in LedgerMilestones(ledger)
    <3>1. PICK i \in 1 .. Len(ledger) : "status" \in DOMAIN ledger[i].new /\ m = EventMilestone(i)
      BY <1>2, <2>2
    <3>2. ~IsClock(ledger[i])
      BY <1>4, <3>1
    <3>3. \/ \E h \in 1 .. Len(history) : ledger[i].source = Transitioned(h)
          \/ StandsForCreation(ledger[i], history, audits, ticket)
      BY <3>1, <3>2, StatusEvents
    <3> QED BY <3>1, <3>3 DEF TellsRow, TellsCreation
  <2> QED BY <1>1, <2>1, <2>2
<1>7. ASSUME NEW i \in 1 .. Len(ledger), "status" \in DOMAIN ledger[i].new, ~IsClock(ledger[i])
      PROVE  EventMilestone(i) \in Milestones \ Restatements
  <2>1. EventMilestone(i) \in LedgerMilestones(ledger)
    BY <1>2, <1>7
  <2>2. EventMilestone(i) \notin Restatements
    BY <1>4, <1>5, <1>7
  <2> QED BY <1>1, <2>1, <2>2
<1>8. ASSUME NEW m, NEW h \in 1 .. Len(history), TellsRow(m, h)
      PROVE  m \in Milestones \ Restatements
  <2>1. CASE m = HistoryMilestone(h) /\ ~RowCovered(ledger, h)
    BY <1>1, <1>3, <1>4, <1>5, <2>1
  <2>2. CASE \E i \in 1 .. Len(ledger) : m = EventMilestone(i) /\ ledger[i].source = Transitioned(h)
    <3>1. PICK i \in 1 .. Len(ledger) : m = EventMilestone(i) /\ ledger[i].source = Transitioned(h)
      BY <2>2
    <3>2. "status" \in DOMAIN ledger[i].new
      <4>1. ledger[i].new = [status |-> history[h].to]
        BY <3>1, RowEvents DEF StandsForRow
      <4> QED BY <4>1
    <3>3. ~IsClock(ledger[i])
      BY <3>1 DEF IsClock, Transitioned
    <3> QED BY <1>7, <3>1, <3>2, <3>3
  <2> QED BY <1>8, <2>1, <2>2 DEF TellsRow
<1>9. ASSUME NEW m, TellsCreation(m) PROVE m \in Milestones \ Restatements
  <2>1. PICK i \in 1 .. Len(ledger) :
          m = EventMilestone(i) /\ StandsForCreation(ledger[i], history, audits, ticket)
    BY <1>9 DEF TellsCreation
  <2>2. ~IsClock(ledger[i]) /\ ledger[i].new = [status |-> Initial]
    BY <2>1, CreationEvents
  <2> QED BY <1>7, <2>1, <2>2
<1> QED BY <1>6, <1>8, <1>9

(* In their order they are the statuses entered.                           *)
Rows == [h \in 1 .. Len(history) |-> history[h].to]

LEMMA RowsInOrder ==
  ASSUME TimelineInv, NEW F, \A h \in 1 .. Len(history) : TellsRow(F[h], h),
         NEW g \in 1 .. Len(history), NEW h \in 1 .. Len(history), g < h
  PROVE  Before(F[g], F[h])
<1>1. F[g][1] \in Nat /\ F[g][1] <= history[g].at
  BY RowTold
<1>2. F[h][1] \in Nat /\ history[g].at < F[h][1]
  <2>1. g \in 1 .. h - 1
    OBVIOUS
  <2> QED BY <2>1, RowTold
<1>3. history[g].at \in Nat
  <2>1. history[g] \in HistoryRows
    BY DEF TimelineInv, TypesInv
  <2> QED BY <2>1 DEF HistoryRows
<1>4. F[g][1] < F[h][1]
  BY <1>1, <1>2, <1>3
<1> QED BY <1>4 DEF Before

LEMMA EnteredWithCreation ==
  ASSUME TimelineInv, LedgerMilestones(ledger) \cup RowMilestones(ledger, history) # {},
         NEW c, TellsCreation(c)
  PROVE  Sorted(Milestones \ Restatements) = Entered /\ CreationRecorded
<1> DEFINE N == Len(history)
           S == Milestones \ Restatements
           F == [h \in 1 .. N |-> CHOOSE m : TellsRow(m, h)]
           f == [p \in 1 .. N + 1 |-> IF p = 1 THEN c ELSE F[p - 1]]
           K == Len(ledger) + N
<1>1. /\ ledger \in Seq(LedgerRows) /\ history \in Seq(HistoryRows) /\ ticket.createdAt \in Nat
      /\ N \in Nat
  BY DEF TimelineInv, TypesInv, Tickets
<1>2. Sortable(S, K) /\ K \in Nat
  <2>1. Sortable(Milestones, K) /\ K \in Nat
    BY <1>1, MilestonesNow, MilestonesSortable
  <2> QED BY <2>1 DEF Sortable
<1>3. \A h \in 1 .. N : TellsRow(F[h], h)
  BY RowIsTold
<1>4. \A m : m \in S <=> (\E h \in 1 .. N : TellsRow(m, h)) \/ TellsCreation(m)
  BY MilestonesAre
<1>5. PICK i \in 1 .. Len(ledger) :
        c = EventMilestone(i) /\ StandsForCreation(ledger[i], history, audits, ticket)
  BY DEF TellsCreation
<1>6. /\ ledger[i].new = [status |-> Initial] /\ ledger[i].type = "created"
      /\ ledger[i].at = ticket.createdAt /\ Creations(history) = {}
  BY <1>5, CreationEvents
<1>7. c[1] = ticket.createdAt /\ c[4] = Initial
  BY <1>5, <1>6 DEF EventMilestone
<1> HIDE DEF N, S, F, K
<1>8. \A p \in 1 .. N + 1 : p = 1 \/ p - 1 \in 1 .. N
  BY <1>1
<1>9. f \in [1 .. N + 1 -> S]
  BY <1>3, <1>4, <1>8
<1>10. /\ f[1] = c
       /\ \A h \in 1 .. N : h + 1 \in 1 .. N + 1 /\ f[h + 1] = F[h]
  BY <1>1
<1> HIDE DEF f
<1>11. \A m \in S : \E p \in 1 .. N + 1 : f[p] = m
  <2> SUFFICES ASSUME NEW m \in S PROVE \E p \in 1 .. N + 1 : f[p] = m
    OBVIOUS
  <2>1. CASE TellsCreation(m)
    <3>1. m = c
      BY <2>1, CreationToldOnce
    <3>2. 1 \in 1 .. N + 1
      BY <1>1
    <3> QED BY <1>10, <3>1, <3>2
  <2>2. CASE \E h \in 1 .. N : TellsRow(m, h)
    <3>1. PICK h \in 1 .. N : TellsRow(m, h)
      BY <2>2
    <3>2. m = F[h]
      BY <1>3, <3>1, RowToldOnce DEF N
    <3> QED BY <1>10, <3>2
  <2> QED BY <1>4, <2>1, <2>2
<1>12. \A p, q \in 1 .. N + 1 : p < q => Before(f[p], f[q])
  <2> SUFFICES ASSUME NEW p \in 1 .. N + 1, NEW q \in 1 .. N + 1, p < q PROVE Before(f[p], f[q])
    OBVIOUS
  <2> DEFINE h == q - 1
             g == p - 1
  <2>1. h \in 1 .. N /\ f[q] = F[h]
    <3>1. q - 1 \in 1 .. N /\ (q - 1) + 1 = q
      BY <1>1
    <3> QED BY <1>10, <3>1
  <2>2. CASE p = 1
    <3>1. history[h].from # Nobody
      BY <1>6, <2>1 DEF Creations, N
    <3> HIDE DEF h
    <3>2. F[h][1] \in Nat /\ ticket.createdAt < F[h][1]
      BY <1>3, <2>1, <3>1, RowTold DEF N
    <3> QED BY <1>1, <1>7, <1>10, <2>1, <2>2, <3>2 DEF Before
  <2>3. CASE p # 1
    <3>1. g \in 1 .. N /\ f[p] = F[g] /\ g < h
      <4>1. p - 1 \in 1 .. N /\ (p - 1) + 1 = p /\ p - 1 < q - 1
        BY <1>1, <2>3
      <4> QED BY <1>10, <4>1
    <3> HIDE DEF g, h
    <3>2. Before(F[g], F[h])
      BY <1>3, <2>1, <3>1, RowsInOrder DEF N
    <3> QED BY <2>1, <3>1, <3>2
  <2> QED BY <2>2, <2>3
<1>13. Sorted(S) = [p \in 1 .. N + 1 |-> f[p][4]]
  <2>1. N + 1 \in Nat
    BY <1>1
  <2> QED BY <1>2, <1>9, <1>11, <1>12, <2>1, ListIsSorted
<1>14. Entered = <<Initial>> \o Rows
  BY <1>6 DEF Entered, Rows
<1>15. Sorted(S) = <<Initial>> \o Rows
  <2> DEFINE T == {Initial} \cup {history[h].to : h \in 1 .. N}
             s == Sorted(S)
             e == <<Initial>> \o Rows
  <2>1. Rows \in Seq(T) /\ Len(Rows) = N /\ \A h \in 1 .. N : Rows[h] = history[h].to
    BY <1>1 DEF Rows, N
  <2>2. <<Initial>> \in Seq(T) /\ Len(<<Initial>>) = 1
    OBVIOUS
  <2>3. \A h \in 1 .. N : F[h][4] = history[h].to
    BY <1>3, RowTold DEF N
  <2>4. \A p \in 1 .. N + 1 : f[p][4] = IF p = 1 THEN Initial ELSE history[p - 1].to
    <3> SUFFICES ASSUME NEW p \in 1 .. N + 1
                 PROVE  f[p][4] = IF p = 1 THEN Initial ELSE history[p - 1].to
      OBVIOUS
    <3>1. CASE p = 1
      BY <1>7, <1>10, <3>1
    <3>2. CASE p # 1
      <4>1. p - 1 \in 1 .. N /\ (p - 1) + 1 = p
        BY <1>1, <3>2
      <4> QED BY <1>10, <2>3, <3>2, <4>1
    <3> QED BY <3>1, <3>2
  <2>5. \A p \in 1 .. N + 1 : f[p][4] \in T
    BY <1>8, <2>4
  <2> HIDE DEF T
  <2>6. s \in Seq(T) /\ Len(s) = N + 1 /\ \A p \in 1 .. N + 1 : s[p] = f[p][4]
    <3>1. s \in [1 .. N + 1 -> T]
      BY <1>13, <2>5
    <3> QED BY <1>1, <1>13, <3>1
  <2>7. /\ e \in Seq(T) /\ Len(e) = 1 + N
        /\ \A p \in 1 .. 1 + N : e[p] = IF p <= 1 THEN <<Initial>>[p] ELSE Rows[p - 1]
    BY <2>1, <2>2, ConcatProperties
  <2> HIDE DEF s, e
  <2>8. \A p \in 1 .. N + 1 : s[p] = e[p]
    <3> SUFFICES ASSUME NEW p \in 1 .. N + 1 PROVE s[p] = e[p]
      OBVIOUS
    <3>1. s[p] = IF p = 1 THEN Initial ELSE history[p - 1].to
      BY <2>4, <2>6
    <3>2. CASE p = 1
      <4>1. e[1] = <<Initial>>[1] /\ <<Initial>>[1] = Initial
        BY <1>1, <2>7
      <4> QED BY <3>1, <3>2, <4>1
    <3>3. CASE p # 1
      <4>1. p - 1 \in 1 .. N /\ p \in 1 .. 1 + N /\ ~(p <= 1)
        BY <1>1, <3>3
      <4>2. e[p] = Rows[p - 1]
        BY <2>7, <4>1
      <4>3. Rows[p - 1] = history[p - 1].to
        BY <2>1, <4>1
      <4> QED BY <3>1, <3>3, <4>2, <4>3
    <3> QED BY <3>2, <3>3
  <2>9. Len(e) = N + 1
    BY <1>1, <2>7
  <2>10. s = e
    BY <2>6, <2>7, <2>8, <2>9, SeqEqual
  <2> QED BY <2>10 DEF s, e
<1>16. CreationRecorded
  BY <1>6 DEF CreationRecorded, Range
<1> QED BY <1>14, <1>15, <1>16 DEF S

LEMMA EnteredWithoutCreation ==
  ASSUME TimelineInv, LedgerMilestones(ledger) \cup RowMilestones(ledger, history) # {},
         ~\E c : TellsCreation(c)
  PROVE  Sorted(Milestones \ Restatements) = Rows
<1> DEFINE N == Len(history)
           S == Milestones \ Restatements
           F == [h \in 1 .. N |-> CHOOSE m : TellsRow(m, h)]
           K == Len(ledger) + N
<1>1. /\ ledger \in Seq(LedgerRows) /\ history \in Seq(HistoryRows) /\ ticket.createdAt \in Nat
      /\ N \in Nat
  BY DEF TimelineInv, TypesInv, Tickets
<1>2. Sortable(S, K) /\ K \in Nat
  <2>1. Sortable(Milestones, K) /\ K \in Nat
    BY <1>1, MilestonesNow, MilestonesSortable
  <2> QED BY <2>1 DEF Sortable
<1>3. \A h \in 1 .. N : TellsRow(F[h], h)
  BY RowIsTold
<1>4. \A m : m \in S <=> (\E h \in 1 .. N : TellsRow(m, h))
  BY MilestonesAre
<1>5. F \in [1 .. N -> S]
  BY <1>3, <1>4
<1> HIDE DEF N, S, F, K
<1>6. \A m \in S : \E h \in 1 .. N : F[h] = m
  BY <1>3, <1>4, RowToldOnce DEF N
<1>7. \A g, h \in 1 .. N : g < h => Before(F[g], F[h])
  BY <1>3, RowsInOrder DEF N
<1>8. Sorted(S) = [h \in 1 .. N |-> F[h][4]]
  <2>1. N \in Nat
    BY <1>1
  <2> QED BY <1>2, <1>5, <1>6, <1>7, <2>1, ListIsSorted
<1>9. \A h \in 1 .. N : F[h][4] = history[h].to
  BY <1>3, RowTold DEF N
<1> QED BY <1>8, <1>9 DEF Rows, N, S

LEMMA ProgressInOrder ==
  ASSUME TimelineInv, Created, Milestones \ Restatements # {}
  PROVE  Sorted(Milestones \ Restatements)
           = IF CreationRecorded \/ Len(Entered) = 1 THEN Entered ELSE Tail(Entered)
<1> DEFINE N == Len(history)
           T == {history[h].to : h \in 1 .. N}
<1>1. history \in Seq(HistoryRows) /\ ledger \in Seq(LedgerRows) /\ N \in Nat
  BY DEF TimelineInv, TypesInv
<1>2. Rows \in Seq(T) /\ Len(Rows) = N
  BY <1>1 DEF Rows
<1>3. CASE LedgerMilestones(ledger) \cup RowMilestones(ledger, history) # {}
  <2>1. CASE \E c : TellsCreation(c)
    BY <1>3, <2>1, EnteredWithCreation
  <2>2. CASE ~\E c : TellsCreation(c)
    <3>1. Sorted(Milestones \ Restatements) = Rows
      BY <1>3, <2>2, EnteredWithoutCreation
    <3>2. CASE Creations(history) # {}
      <4>1. CreationRecorded
        BY <3>2 DEF CreationRecorded
      <4>2. Entered = <<>> \o Rows
        BY <3>2 DEF Entered, Rows
      <4>3. <<>> \o Rows = Rows
        BY <1>2
      <4> QED BY <3>1, <4>1, <4>2, <4>3
    <3>3. CASE Creations(history) = {}
      <4>1. ~CreationRecorded
        <5> SUFFICES ASSUME NEW e \in Range(ledger), e.type = "created" PROVE FALSE
          BY <3>3 DEF CreationRecorded
        <5>1. PICK i \in 1 .. Len(ledger) : e = ledger[i]
          BY DEF Range
        <5>2. ~StandsForCreation(ledger[i], history, audits, ticket)
          BY <2>2 DEF TellsCreation
        <5>3. Stands(ledger[i], history, audits, ticket)
          BY DEF TimelineInv, EventsInv
        <5>4. ~StandsForClock(ledger[i]) /\ \A a, f : ~StandsForField(ledger[i], a, f)
          BY <5>1 DEF StandsForClock, StandsForField
        <5>5. PICK h \in 1 .. Len(history) : StandsForRow(ledger[i], h, history, ticket)
          BY <5>2, <5>3, <5>4 DEF Stands
        <5>6. history[h].from = Nobody
          BY <5>1, <5>5 DEF StandsForRow
        <5> QED BY <3>3, <5>6 DEF Creations
      <4>2. PICK m : m \in Milestones \ Restatements
        OBVIOUS
      <4>3. \E h \in 1 .. N : TellsRow(m, h)
        BY <1>3, <2>2, <4>2, MilestonesAre
      <4>4. N # 0
        BY <1>1, <4>3
      <4>5. Entered = <<Initial>> \o Rows
        BY <3>3 DEF Entered, Rows
      <4>6. Len(<<Initial>> \o Rows) = 1 + N /\ Tail(<<Initial>> \o Rows) = Rows
        <5> DEFINE U == T \cup {Initial}
        <5>1. Rows \in Seq(U) /\ <<Initial>> \in Seq(U) /\ Len(<<Initial>>) = 1
          BY <1>2
        <5> HIDE DEF U, T
        <5> DEFINE e == <<Initial>> \o Rows
        <5>2. /\ e \in Seq(U) /\ Len(e) = 1 + N
              /\ \A p \in 1 .. 1 + N : e[p] = IF p <= 1 THEN <<Initial>>[p] ELSE Rows[p - 1]
          BY <1>2, <5>1, ConcatProperties
        <5> HIDE DEF e
        <5>3. Tail(e) \in Seq(U) /\ Len(Tail(e)) = N /\ \A p \in 1 .. N : Tail(e)[p] = e[p + 1]
          BY <1>1, <5>2
        <5>4. \A p \in 1 .. N : Tail(e)[p] = Rows[p]
          <6> SUFFICES ASSUME NEW p \in 1 .. N PROVE Tail(e)[p] = Rows[p]
            OBVIOUS
          <6> DEFINE q == p + 1
          <6>1. q \in 1 .. 1 + N /\ ~(q <= 1) /\ q - 1 = p
            BY <1>1
          <6>2. Tail(e)[p] = e[q]
            BY <5>3
          <6> HIDE DEF q
          <6>3. e[q] = Rows[q - 1]
            BY <5>2, <6>1
          <6> QED BY <6>1, <6>2, <6>3
        <5>5. Tail(e) = Rows
          BY <1>2, <5>1, <5>3, <5>4, SeqEqual
        <5> QED BY <5>2, <5>5 DEF e
      <4>7. Len(Entered) # 1 /\ Tail(Entered) = Rows
        BY <1>1, <4>4, <4>5, <4>6
      <4> QED BY <3>1, <4>1, <4>7
    <3> QED BY <3>2, <3>3
  <2> QED BY <2>1, <2>2
<1>4. CASE LedgerMilestones(ledger) \cup RowMilestones(ledger, history) = {}
  <2> DEFINE m == TicketMilestone(ticket)
  <2>1. Milestones = {m}
    BY <1>1, <1>4, MilestonesNow DEF MilestonesOf
  <2>2. Milestones \ Restatements = {m}
    BY <2>1
  <2>3. history = <<>>
    <3> SUFFICES ASSUME history # <<>> PROVE FALSE
      OBVIOUS
    <3>1. 1 \in 1 .. Len(history)
      BY <1>1
    <3>2. CASE RowCovered(ledger, 1)
      <4>1. PICK i \in 1 .. Len(ledger) : ledger[i].source = Transitioned(1)
        BY <3>2 DEF RowCovered
      <4>2. ledger[i].new = [status |-> history[1].to]
        BY <4>1, RowEvents DEF StandsForRow
      <4>3. "status" \in DOMAIN ledger[i].new
        BY <4>2
      <4> QED BY <1>4, <4>3 DEF LedgerMilestones
    <3>3. CASE ~RowCovered(ledger, 1)
      BY <1>4, <3>1, <3>3 DEF RowMilestones
    <3> QED BY <3>2, <3>3
  <2>4. ticket.status = Initial
    BY <2>3 DEF TimelineInv, HistoryInv
  <2>5. Creations(history) = {}
    BY <2>3 DEF Creations
  <2>6. Entered = <<Initial>>
    <3>1. Rows = <<>>
      BY <2>3 DEF Rows
    <3>2. Entered = <<Initial>> \o Rows
      BY <2>5 DEF Entered, Rows
    <3>3. <<Initial>> \o <<>> = <<Initial>>
      OBVIOUS
    <3> QED BY <3>1, <3>2, <3>3
  <2>7. Len(Entered) = 1
    BY <2>6
  <2>8. Sorted({m}) = <<Initial>>
    <3>1. m[1] \in Nat /\ m[2] = 3 /\ m[3] = 0 /\ m[4] = Initial
      BY <2>4 DEF TicketMilestone, TimelineInv, TypesInv, Tickets
    <3> HIDE DEF m
    <3> DEFINE S == {m}
               n == 1
               f == [i \in 1 .. n |-> m]
    <3>2. Sortable(S, 0) /\ 0 \in Nat /\ n \in Nat
      BY <3>1 DEF Sortable
    <3>3. f \in [1 .. n -> S]
      OBVIOUS
    <3>4. \A x \in S : \E i \in 1 .. n : f[i] = x
      OBVIOUS
    <3>5. \A i, j \in 1 .. n : i < j => Before(f[i], f[j])
      OBVIOUS
    <3>6. \A i \in 1 .. n : f[i][4] = Initial
      BY <3>1
    <3> HIDE DEF f, S, n
    <3>7. Sorted(S) = [i \in 1 .. n |-> f[i][4]]
      BY <3>2, <3>3, <3>4, <3>5, ListIsSorted
    <3>8. Sorted({m}) = [i \in 1 .. 1 |-> Initial]
      BY <3>6, <3>7 DEF S, n
    <3> QED BY <3>8
  <2> QED BY <2>2, <2>6, <2>7, <2>8
<1> QED BY <1>3, <1>4

LEMMA ProgressTold == TimelineInv => ProgressIsTrue
<1> SUFFICES ASSUME TimelineInv, Created PROVE ProgressIsTrue
  BY DEF ProgressIsTrue
<1>1. Last(Progress(Milestones)) = TrackingStatusFor(ticket.status)
  BY ProgressEnds
<1>2. ASSUME Milestones \ Restatements # {}
      PROVE  Progress(Milestones \ Restatements)
               = IF CreationRecorded \/ Len(Entered) = 1 THEN Collapse(Entered) ELSE Collapse(Tail(Entered))
  BY <1>2, ProgressInOrder DEF Progress
<1> QED BY <1>1, <1>2 DEF ProgressIsTrue

(* The requester's progress ends with the status of now, and without the   *)
(* evaluator's restatements it is the statuses in the order entered.       *)
THEOREM ProgressTheorem == TimelineSpec => []ProgressIsTrue
BY TimelineInvariant, ProgressTold, PTL

=============================================================================
