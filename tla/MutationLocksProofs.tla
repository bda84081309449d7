------------------------ MODULE MutationLocksProofs ------------------------
(***************************************************************************)
(* For any number of workers, users and requests: the locks of identity    *)
(* rows and tickets never deadlock but for the returns of IT children, and *)
(* no request commits on authority that has been withdrawn, unless it      *)
(* creates an IT child.                                                    *)
(*                                                                         *)
(* The invariant says that a transaction holds exactly the rows among the  *)
(* steps it has done, and that those come before all it still has to do.   *)
(* In a circle, the row awaited in the latest stage is held by a worker    *)
(* that awaits a later one.                                                *)
(***************************************************************************)
EXTENDS MutationLocks, WellFoundedInduction, TLAPS

DoneSteps(w) == Steps(serving[w]) \ todo[w]

IdleInv(w) == todo[w] = {} /\ \A x \in Rows : holder[x] # w

OrderInv(w) ==
  /\ todo[w] \subseteq Steps(serving[w])
  /\ \A x \in DoneSteps(w), y \in todo[w] : Stage(serving[w], x) < Stage(serving[w], y)

HoldInv(w) == \A x \in Rows : holder[x] = w <=> x \in DoneSteps(w)

Rechecked(w) ==
  serving[w] # Idle /\ serving[w].op \in {"mutate", "return"} /\ Recheck \notin todo[w]

RecheckInv(w) == Rechecked(w) => authority[serving[w].actor]

WorkerInv(w) ==
  IF serving[w] = Idle THEN IdleInv(w) ELSE OrderInv(w) /\ HoldInv(w) /\ RecheckInv(w)

LockInv == LockTypeOK /\ \A w \in Workers : WorkerInv(w)

-----------------------------------------------------------------------------
(* The steps of a request and their stages.                                 *)

LEMMA LengthIsNat == Len(LockOrder) \in Nat /\ DOMAIN LockOrder = 1 .. Len(LockOrder)
BY OrderAssumption

LEMMA PositionIsNat ==
  ASSUME NEW x \in AuthorityRows
  PROVE  Position[x] \in 1 .. Len(LockOrder) /\ LockOrder[Position[x]] = x
BY LengthIsNat DEF AuthorityRows, Position

LEMMA AuthorityIsRows ==
  ASSUME NEW us \in SUBSET Users
  PROVE  AuthorityOf(us) \subseteq AuthorityRows
BY OrderAssumption DEF AuthorityOf

LEMMA StepKinds ==
  ASSUME NEW r \in Requests, NEW x \in Steps(r)
  PROVE  \/ x = r.ticket /\ x \in Tickets
         \/ x \in AuthorityRows /\ x # r.ticket
         \/ x = Recheck /\ x # r.ticket
         \/ r.op = "return" /\ x = ParentOf[r.ticket] /\ x \in Tickets /\ x # r.ticket
<1>1. /\ r.op \in {"mutate", "return", "create_child", "authority"}
      /\ r.actor \in Users /\ r.users \in SUBSET Users
      /\ r.op = "return" => r.ticket \in DOMAIN ParentOf /\ ParentOf[r.ticket] # r.ticket
  BY RequestAssumption
<1>2. r.ticket \in Tickets /\ r.ticket \notin AuthorityRows /\ r.ticket # Recheck
  BY OrderAssumption DEF Tickets, Rows
<1>3. /\ AuthorityOf({r.actor} \union r.users) \subseteq AuthorityRows
      /\ AuthorityOf({r.actor}) \subseteq AuthorityRows
      /\ AuthorityOf(r.users) \subseteq AuthorityRows
  <2>1. {r.actor} \union r.users \in SUBSET Users /\ {r.actor} \in SUBSET Users
    BY <1>1
  <2> QED BY <1>1, <2>1, AuthorityIsRows
<1>4. r.op = "return" => ParentOf[r.ticket] \in Tickets
  BY <1>1 DEF Tickets
<1> QED BY <1>1, <1>2, <1>3, <1>4 DEF Steps

LEMMA StepIsRow ==
  ASSUME NEW r \in Requests
  PROVE  Steps(r) \subseteq Rows \union {Recheck}
BY StepKinds DEF Rows

(* Every step of a request has a stage of its own.                          *)
LEMMA StageIsNat ==
  ASSUME NEW r \in Requests, NEW x \in Steps(r)
  PROVE  Stage(r, x) \in 0 .. Len(LockOrder) + 2
BY StepKinds, PositionIsNat, LengthIsNat DEF Stage

LEMMA StageIsUnique ==
  ASSUME NEW r \in Requests, NEW x \in Steps(r), NEW y \in Steps(r), Stage(r, x) = Stage(r, y)
  PROVE  x = y
<1> DEFINE Kind(z) == \/ z = r.ticket /\ Stage(r, z) = 0
                      \/ /\ Stage(r, z) \in 1 .. Len(LockOrder)
                         /\ LockOrder[Stage(r, z)] = z
                      \/ z = Recheck /\ Stage(r, z) = Len(LockOrder) + 1
                      \/ z = ParentOf[r.ticket] /\ Stage(r, z) = Len(LockOrder) + 2
<1>1. ASSUME NEW z \in Steps(r) PROVE Kind(z)
  <2>1. /\ Recheck \notin AuthorityRows
        /\ \A t \in Tickets : t \notin AuthorityRows /\ t # Recheck
        /\ r.ticket \in Tickets
    BY OrderAssumption DEF Rows, Tickets
  <2>2. CASE z = r.ticket
    BY <2>1, <2>2 DEF Stage
  <2>3. CASE z \in AuthorityRows /\ z # r.ticket
    <3>1. Stage(r, z) = Position[z]
      BY <2>1, <2>3 DEF Stage
    <3>2. Position[z] \in 1 .. Len(LockOrder) /\ LockOrder[Position[z]] = z
      BY <2>3, PositionIsNat
    <3> QED BY <3>1, <3>2
  <2>4. CASE z = Recheck /\ z # r.ticket
    BY <2>1, <2>4 DEF Stage
  <2>5. CASE r.op = "return" /\ z = ParentOf[r.ticket] /\ z \in Tickets /\ z # r.ticket
    BY <2>1, <2>5 DEF Stage
  <2>6. \/ z = r.ticket
        \/ z \in AuthorityRows /\ z # r.ticket
        \/ z = Recheck /\ z # r.ticket
        \/ r.op = "return" /\ z = ParentOf[r.ticket] /\ z \in Tickets /\ z # r.ticket
    BY StepKinds
  <2> QED BY ONLY <2>2, <2>3, <2>4, <2>5, <2>6
<1>2. Kind(x) /\ Kind(y)
  BY <1>1
<1> QED BY <1>2, LengthIsNat

(* Requests other than returns agree on the stage of a row they share.      *)
LEMMA StageIsShared ==
  ASSUME NEW q \in Requests, NEW r \in Requests, NEW x,
         x \in Steps(q), x \in Steps(r), x # Recheck, q.op # "return", r.op # "return"
  PROVE  Stage(q, x) = Stage(r, x)
<1>1. Recheck \notin AuthorityRows /\ \A t \in Tickets : t \notin AuthorityRows
  BY OrderAssumption DEF Rows
<1>2. /\ (x = q.ticket /\ x \in Tickets) \/ (x \in AuthorityRows /\ x # q.ticket)
      /\ (x = r.ticket /\ x \in Tickets) \/ (x \in AuthorityRows /\ x # r.ticket)
  BY StepKinds
<1> QED BY <1>1, <1>2 DEF Stage

-----------------------------------------------------------------------------
(* The invariant.                                                           *)

LEMMA IdleIsNoRequest == Idle \notin Requests
BY RequestAssumption DEF Idle

LEMMA LockInitInv == LockInit => LockInv
BY WorkerAssumption DEF LockInit, LockInv, LockTypeOK, WorkerInv, IdleInv

(* What one worker does leaves the others' part of the invariant alone.     *)
LEMMA OthersKeep ==
  ASSUME NEW w \in Workers, NEW v \in Workers, v # w, WorkerInv(v),
         serving'[v] = serving[v], todo'[v] = todo[v],
         \A x \in Rows : holder'[x] = v <=> holder[x] = v,
         Rechecked(v) /\ authority[serving[v].actor] => authority'[serving[v].actor]
  PROVE  WorkerInv(v)'
<1>1. CASE serving[v] = Idle
  BY <1>1 DEF WorkerInv, IdleInv
<1>2. CASE serving[v] # Idle
  <2>1. OrderInv(v)'
    BY <1>2 DEF WorkerInv, OrderInv, DoneSteps
  <2>2. HoldInv(v)'
    BY <1>2 DEF WorkerInv, HoldInv, DoneSteps
  <2>3. RecheckInv(v)'
    BY <1>2 DEF WorkerInv, RecheckInv, Rechecked
  <2> QED BY <1>2, <2>1, <2>2, <2>3 DEF WorkerInv
<1> QED BY <1>1, <1>2

LEMMA BeginKeeps ==
  ASSUME LockInv, NEW w \in Workers, NEW r \in Requests, Begin(w, r)
  PROVE  LockInv'
<1>1. LockTypeOK'
  BY StepIsRow DEF LockInv, LockTypeOK, Begin
<1>2. serving'[w] = r /\ todo'[w] = Steps(r) /\ r # Idle /\ serving[w] = Idle
  BY IdleIsNoRequest DEF LockInv, LockTypeOK, Begin
<1>3. WorkerInv(w)'
  <2>1. DoneSteps(w)' = {}
    BY <1>2 DEF DoneSteps
  <2>2. OrderInv(w)'
    BY <1>2, <2>1 DEF OrderInv
  <2>3. HoldInv(w)'
    BY <1>2, <2>1 DEF HoldInv, LockInv, WorkerInv, IdleInv, Begin
  <2>4. RecheckInv(w)'
    BY <1>2 DEF RecheckInv, Rechecked, Steps
  <2> QED BY <1>2, <2>2, <2>3, <2>4 DEF WorkerInv
<1>4. ASSUME NEW v \in Workers, v # w PROVE WorkerInv(v)'
  BY <1>4, OthersKeep DEF LockInv, LockTypeOK, Begin
<1> QED BY <1>1, <1>3, <1>4 DEF LockInv

(* Doing the next step keeps the order.                                     *)
LEMMA NextStepKeepsOrder ==
  ASSUME LockTypeOK, NEW w \in Workers, serving[w] # Idle, OrderInv(w), NEW x, IsNext(w, x),
         serving'[w] = serving[w], todo'[w] = todo[w] \ {x}
  PROVE  OrderInv(w)' /\ DoneSteps(w)' = DoneSteps(w) \union {x}
<1> DEFINE r == serving[w]
<1>1. r \in Requests /\ x \in todo[w] /\ todo[w] \subseteq Steps(r)
  BY DEF LockTypeOK, IsNext, OrderInv
<1>2. DoneSteps(w)' = DoneSteps(w) \union {x}
  BY <1>1 DEF DoneSteps
<1>3. ASSUME NEW y \in todo[w] \ {x} PROVE Stage(r, x) < Stage(r, y)
  <2>1. Stage(r, x) <= Stage(r, y)
    BY DEF IsNext
  <2>2. Stage(r, x) \in Nat /\ Stage(r, y) \in Nat
    BY <1>1, StageIsNat, LengthIsNat
  <2>3. Stage(r, x) # Stage(r, y)
    BY <1>1, StageIsUnique
  <2> QED BY <2>1, <2>2, <2>3
<1>4. \A z \in DoneSteps(w), y \in todo[w] : Stage(r, z) < Stage(r, y)
  BY DEF OrderInv
<1> QED BY <1>1, <1>2, <1>3, <1>4 DEF OrderInv

LEMMA LockKeeps ==
  ASSUME LockInv, NEW w \in Workers, Lock(w)
  PROVE  LockInv'
<1>1. PICK x \in todo[w] :
        /\ x # Recheck /\ holder[x] = Nobody /\ IsNext(w, x)
        /\ holder' = [holder EXCEPT ![x] = w]
        /\ todo' = [todo EXCEPT ![w] = todo[w] \ {x}]
        /\ UNCHANGED <<authority, serving>>
  BY DEF Lock
<1>2. LockTypeOK /\ x \in Rows
  BY <1>1 DEF LockInv, LockTypeOK
<1>3. LockTypeOK'
  BY <1>1, <1>2 DEF LockTypeOK
<1>4. serving[w] # Idle /\ OrderInv(w) /\ HoldInv(w) /\ RecheckInv(w)
  BY <1>1 DEF LockInv, WorkerInv, IdleInv
<1>5. serving' = serving /\ todo'[w] = todo[w] \ {x} /\ authority' = authority
  BY <1>1, <1>2 DEF LockTypeOK
<1>6. \A z \in Rows : holder'[z] = IF z = x THEN w ELSE holder[z]
  BY <1>1, <1>2 DEF LockTypeOK
<1>7. WorkerInv(w)'
  <2>1. OrderInv(w)' /\ DoneSteps(w)' = DoneSteps(w) \union {x}
    BY <1>1, <1>2, <1>4, <1>5, NextStepKeepsOrder
  <2>2. HoldInv(w)'
    BY <1>4, <1>6, <2>1 DEF HoldInv
  <2>3. RecheckInv(w)'
    BY <1>1, <1>4, <1>5 DEF RecheckInv, Rechecked
  <2> QED BY <1>4, <1>5, <2>1, <2>2, <2>3 DEF WorkerInv
<1>8. ASSUME NEW v \in Workers, v # w PROVE WorkerInv(v)'
  <2>1. WorkerInv(v) /\ todo'[v] = todo[v]
    BY <1>1, <1>2, <1>8 DEF LockInv, LockTypeOK
  <2>2. \A z \in Rows : holder'[z] = v <=> holder[z] = v
    BY <1>1, <1>6, <1>8, WorkerAssumption
  <2> QED BY <1>5, <1>8, <2>1, <2>2, OthersKeep
<1> QED BY <1>3, <1>7, <1>8 DEF LockInv

(* A transaction that ends frees its own rows and no others.                *)
LEMMA EndKeeps ==
  ASSUME LockInv, NEW w \in Workers, End(w), authority' \in [Users -> BOOLEAN],
         \A v \in Workers \ {w} :
           Rechecked(v) /\ authority[serving[v].actor] => authority'[serving[v].actor]
  PROVE  LockInv'
<1>1. LockTypeOK
  BY DEF LockInv
<1>2. /\ serving' = [serving EXCEPT ![w] = Idle]
      /\ todo' = [todo EXCEPT ![w] = {}]
      /\ holder' = [x \in Rows |-> IF holder[x] = w THEN Nobody ELSE holder[x]]
  BY DEF End
<1>3. LockTypeOK'
  BY <1>1, <1>2 DEF LockTypeOK
<1>4. WorkerInv(w)'
  BY <1>1, <1>2, WorkerAssumption DEF LockTypeOK, WorkerInv, IdleInv
<1>5. ASSUME NEW v \in Workers, v # w PROVE WorkerInv(v)'
  <2>1. WorkerInv(v) /\ serving'[v] = serving[v] /\ todo'[v] = todo[v]
    BY <1>1, <1>2, <1>5 DEF LockInv, LockTypeOK
  <2>2. \A x \in Rows : holder'[x] = v <=> holder[x] = v
    BY <1>2, <1>5, WorkerAssumption
  <2> QED BY <1>5, <2>1, <2>2, OthersKeep
<1> QED BY <1>3, <1>4, <1>5 DEF LockInv

LEMMA RevalidateKeeps ==
  ASSUME LockInv, NEW w \in Workers, Revalidate(w)
  PROVE  LockInv'
<1>1. LockTypeOK /\ IsNext(w, Recheck) /\ Recheck \in todo[w]
  BY DEF LockInv, Revalidate, IsNext
<1>2. serving[w] # Idle /\ OrderInv(w) /\ HoldInv(w)
  BY <1>1 DEF LockInv, WorkerInv, IdleInv
<1>3. CASE /\ authority[serving[w].actor]
           /\ todo' = [todo EXCEPT ![w] = todo[w] \ {Recheck}]
           /\ UNCHANGED <<authority, holder, serving>>
  <2>1. LockTypeOK'
    BY <1>1, <1>3 DEF LockTypeOK
  <2>2. serving'[w] = serving[w] /\ todo'[w] = todo[w] \ {Recheck}
    BY <1>1, <1>3 DEF LockTypeOK
  <2>3. OrderInv(w)' /\ DoneSteps(w)' = DoneSteps(w) \union {Recheck}
    BY <1>1, <1>2, <2>2, NextStepKeepsOrder
  <2>4. HoldInv(w)'
    BY <1>2, <1>3, <2>3, OrderAssumption DEF HoldInv
  <2>5. WorkerInv(w)'
    BY <1>2, <1>3, <2>2, <2>3, <2>4 DEF WorkerInv, RecheckInv
  <2>6. ASSUME NEW v \in Workers, v # w PROVE WorkerInv(v)'
    BY <1>1, <1>3, <2>6, OthersKeep DEF LockInv, LockTypeOK
  <2> QED BY <2>1, <2>5, <2>6 DEF LockInv
<1>4. CASE End(w) /\ UNCHANGED authority
  BY <1>1, <1>4, EndKeeps DEF LockTypeOK
<1> QED BY <1>3, <1>4 DEF Revalidate

(* Whoever has checked the actor's authority holds the actor's row.         *)
LEMMA RecheckedHoldsActor ==
  ASSUME LockInv, NEW w \in Workers, Rechecked(w)
  PROVE  serving[w].actor \in Users /\ holder[serving[w].actor] = w
<1> DEFINE r == serving[w]
<1>1. r \in Requests /\ OrderInv(w) /\ HoldInv(w)
  BY DEF LockInv, LockTypeOK, WorkerInv, Rechecked
<1>2. r.op \in {"mutate", "return"} /\ Recheck \notin todo[w]
  BY DEF Rechecked
<1>3. r.actor \in Users /\ r.actor \in AuthorityRows /\ r.ticket \in Tickets
  BY <1>1, RequestAssumption, OrderAssumption DEF Tickets
<1>4. r.actor \in Steps(r) /\ Recheck \in Steps(r)
  BY <1>2 DEF Steps, AuthorityOf
<1>5. Stage(r, r.actor) = Position[r.actor] /\ Stage(r, Recheck) = Len(LockOrder) + 1
  BY <1>3, OrderAssumption DEF Stage, Rows
<1>6. r.actor \notin todo[w]
  <2>1. Position[r.actor] < Len(LockOrder) + 1
    BY <1>3, PositionIsNat, LengthIsNat
  <2>2. Recheck \in DoneSteps(w)
    BY <1>2, <1>4 DEF DoneSteps
  <2> QED BY <1>5, <2>1, <2>2, <1>1, PositionIsNat, <1>3, LengthIsNat DEF OrderInv
<1> QED BY <1>1, <1>3, <1>4, <1>6 DEF HoldInv, DoneSteps, Rows

LEMMA CommitKeeps ==
  ASSUME LockInv, NEW w \in Workers, Commit(w)
  PROVE  LockInv'
<1>1. LockTypeOK /\ serving[w] # Idle /\ todo[w] = {} /\ End(w)
  BY DEF LockInv, Commit
<1>2. serving[w] \in Requests /\ HoldInv(w)
  BY <1>1 DEF LockInv, LockTypeOK, WorkerInv
<1>3. authority' \in [Users -> BOOLEAN]
  BY <1>1 DEF Commit, LockTypeOK
<1>4. ASSUME NEW v \in Workers \ {w}, Rechecked(v)
      PROVE  authority'[serving[v].actor] = authority[serving[v].actor]
  <2>1. serving[v].actor \in Users /\ holder[serving[v].actor] = v
    BY <1>4, RecheckedHoldsActor
  <2>2. CASE serving[w].op = "authority"
    <3>1. \A u \in serving[w].users : u \in Rows /\ holder[u] = w
      <4>1. serving[w].users \subseteq Rows
        BY <1>2, RequestAssumption, OrderAssumption DEF Rows
      <4>2. serving[w].users \subseteq DoneSteps(w)
        BY <1>1, <2>2 DEF DoneSteps, Steps, AuthorityOf
      <4> QED BY <1>2, <4>1, <4>2 DEF HoldInv
    <3>2. serving[v].actor \notin serving[w].users
      BY <1>4, <2>1, <3>1
    <3> QED BY <2>1, <2>2, <3>2 DEF Commit
  <2>3. CASE serving[w].op # "authority"
    BY <2>3 DEF Commit
  <2> QED BY <2>2, <2>3
<1> QED BY <1>1, <1>3, <1>4, EndKeeps

LEMMA LockStepInv == LockInv /\ [LockNext]_lockVars => LockInv'
<1> SUFFICES ASSUME LockInv, [LockNext]_lockVars PROVE LockInv'
  OBVIOUS
<1>1. CASE UNCHANGED lockVars
  BY <1>1 DEF lockVars, LockInv, LockTypeOK, WorkerInv, IdleInv, OrderInv, HoldInv,
              RecheckInv, Rechecked, DoneSteps
<1>2. ASSUME NEW w \in Workers, NEW r \in Requests, Begin(w, r) PROVE LockInv'
  BY <1>2, BeginKeeps
<1>3. ASSUME NEW w \in Workers, Lock(w) PROVE LockInv'
  BY <1>3, LockKeeps
<1>4. ASSUME NEW w \in Workers, Revalidate(w) PROVE LockInv'
  BY <1>4, RevalidateKeeps
<1>5. ASSUME NEW w \in Workers, Commit(w) PROVE LockInv'
  BY <1>5, CommitKeeps
<1>6. ASSUME NEW w \in Workers, DeadlockVictim(w) PROVE LockInv'
  BY <1>6, EndKeeps DEF DeadlockVictim, LockInv, LockTypeOK
<1> QED BY <1>1, <1>2, <1>3, <1>4, <1>5, <1>6 DEF LockNext

(* Transactions hold what they have locked, in order, and the rechecked     *)
(* authority is the current one.                                            *)
THEOREM LockInvariant == LockSpec => []LockInv
BY LockInitInv, LockStepInv, PTL DEF LockSpec

(* Every lock has one holder, and what is left to do is a row or a recheck. *)
THEOREM LockTypes == LockSpec => []LockTypeOK
BY LockInvariant, PTL DEF LockInv

-----------------------------------------------------------------------------
(* Deadlocks.                                                               *)

(* If w waits for v, and neither serves a return, v waits in a later stage. *)
LEMMA StagesAscend ==
  ASSUME LockInv, NEW w \in Workers, NEW v \in Workers,
         NEW x \in todo[w], x # Recheck, holder[x] = v, NEW y \in todo[v],
         serving[w].op # "return", serving[v].op # "return"
  PROVE  Stage(serving[w], x) < Stage(serving[v], y)
<1>1. LockTypeOK /\ WorkerInv(w) /\ WorkerInv(v)
  BY DEF LockInv
<1>2. serving[w] # Idle /\ serving[v] # Idle
  BY <1>1 DEF WorkerInv, IdleInv
<1>3. /\ serving[w] \in Requests /\ serving[v] \in Requests /\ x \in Rows
      /\ OrderInv(w) /\ OrderInv(v) /\ HoldInv(v)
  BY <1>1, <1>2 DEF LockTypeOK, WorkerInv
<1>4. x \in Steps(serving[w]) /\ x \in DoneSteps(v) /\ x \in Steps(serving[v])
  BY <1>3 DEF OrderInv, HoldInv, DoneSteps
<1>5. Stage(serving[w], x) = Stage(serving[v], x)
  BY <1>3, <1>4, StageIsShared
<1>6. Stage(serving[v], x) < Stage(serving[v], y)
  BY <1>3, <1>4 DEF OrderInv
<1> QED BY <1>5, <1>6

LEMMA InvImpliesOnlyReturns == LockInv => OnlyReturnsDeadlock
<1> SUFFICES ASSUME LockInv, NEW ws \in SUBSET Workers, Deadlocked(ws),
                    \A w \in ws : serving[w].op # "return"
             PROVE  FALSE
  BY DEF OnlyReturnsDeadlock
<1> DEFINE Awaits(w, x) == x \in todo[w] /\ x # Recheck /\ \E v \in ws : holder[x] = v
           Distance(w, x) == Len(LockOrder) + 2 - Stage(serving[w], x)
           T == {n \in Nat : \E w \in ws : \E x \in todo[w] : Awaits(w, x) /\ n = Distance(w, x)}
<1>1. ASSUME NEW w \in ws PROVE \E x \in todo[w] : Awaits(w, x)
  BY <1>1 DEF Deadlocked, WaitsFor
<1>2. ASSUME NEW w \in ws, NEW x \in todo[w] PROVE Distance(w, x) \in Nat
  <2>1. LockTypeOK /\ WorkerInv(w) /\ w \in Workers
    BY DEF LockInv
  <2>2. serving[w] \in Requests /\ x \in Steps(serving[w])
    BY <1>2, <2>1 DEF WorkerInv, IdleInv, OrderInv, LockTypeOK
  <2> QED BY <2>2, StageIsNat, LengthIsNat
<1> HIDE DEF Distance, Awaits
<1>3. T # {}
  <2>1. PICK w \in ws : TRUE
    BY DEF Deadlocked
  <2>2. PICK x \in todo[w] : Awaits(w, x)
    BY <1>1
  <2> QED BY <1>2, <2>2
<1>4. \E n \in T : \A m \in T : ~(<<m, n>> \in OpToRel(<, Nat))
  <2>1. T \subseteq Nat
    OBVIOUS
  <2> HIDE DEF T
  <2> QED BY <1>3, <2>1, NatLessThanWellFounded, WFMin
<1>5. PICK n \in T : \A m \in T : ~(m < n)
  BY <1>4 DEF OpToRel
<1>6. PICK w \in ws : \E x \in todo[w] : Awaits(w, x) /\ n = Distance(w, x)
  BY <1>5
<1>7. PICK x \in todo[w] : Awaits(w, x) /\ n = Distance(w, x)
  BY <1>6
<1>8. PICK v \in ws : holder[x] = v
  BY <1>7 DEF Awaits
<1>9. PICK y \in todo[v] : Awaits(v, y)
  BY <1>1
<1>10. Stage(serving[w], x) < Stage(serving[v], y)
  BY <1>7, <1>8, StagesAscend DEF Awaits
<1>11. Distance(v, y) \in T
  BY <1>2, <1>9
<1>12. ~(Distance(v, y) < Distance(w, x))
  BY <1>5, <1>7, <1>11
<1>13. ASSUME NEW u \in ws, NEW z \in todo[u] PROVE Stage(serving[u], z) \in Nat
  <2>1. LockTypeOK /\ WorkerInv(u) /\ u \in Workers
    BY DEF LockInv
  <2>2. serving[u] \in Requests /\ z \in Steps(serving[u])
    BY <1>13, <2>1 DEF WorkerInv, IdleInv, OrderInv, LockTypeOK
  <2> QED BY <2>2, StageIsNat, LengthIsNat
<1>14. Stage(serving[w], x) \in Nat /\ Stage(serving[v], y) \in Nat
  BY <1>13
<1> QED BY <1>10, <1>12, <1>14, LengthIsNat DEF Distance

(* Whatever requests the workers serve, some transaction of every circle is *)
(* the return of an IT child.                                               *)
THEOREM OnlyReturnsTheorem == LockSpec => []OnlyReturnsDeadlock
BY LockInvariant, InvImpliesOnlyReturns, PTL

(* Without returns of IT children, no two transactions ever wait for each   *)
(* other in a circle.                                                       *)
THEOREM OthersNeverDeadlock ==
  ASSUME \A r \in Requests : r.op # "return"
  PROVE  LockSpec => []NoDeadlock
<1>1. LockInv => NoDeadlock
  <2> SUFFICES ASSUME LockInv, NEW ws \in SUBSET Workers, Deadlocked(ws) PROVE FALSE
    BY DEF NoDeadlock
  <2>1. PICK w \in ws : serving[w].op = "return"
    BY InvImpliesOnlyReturns DEF OnlyReturnsDeadlock
  <2>2. todo[w] # {} /\ w \in Workers
    BY DEF Deadlocked, WaitsFor
  <2>3. serving[w] \in Requests
    BY <2>2 DEF LockInv, LockTypeOK, WorkerInv, IdleInv
  <2> QED BY <2>1, <2>3
<1> QED BY <1>1, LockInvariant, PTL

(* No request commits on authority that has been withdrawn, if none of them *)
(* creates an IT child.                                                     *)
THEOREM AuthorisedTheorem ==
  ASSUME \A r \in Requests : r.op # "create_child"
  PROVE  LockSpec => AuthorisedAtCommit
<1>1. LockInv /\ [LockNext]_lockVars =>
        [\A w \in Workers :
           Commits(w) /\ serving[w].op # "authority" => authority[serving[w].actor]]_lockVars
  <2> SUFFICES ASSUME LockInv, NEW w \in Workers, Commits(w), serving[w].op # "authority"
               PROVE  authority[serving[w].actor]
    OBVIOUS
  <2>1. serving[w] # Idle /\ todo[w] = {}
    BY DEF Commits
  <2>2. serving[w] \in Requests /\ RecheckInv(w)
    BY <2>1 DEF LockInv, LockTypeOK, WorkerInv
  <2>3. serving[w].op \in {"mutate", "return"}
    BY <2>2, RequestAssumption
  <2> QED BY <2>1, <2>2, <2>3 DEF RecheckInv, Rechecked
<1> QED BY <1>1, LockInvariant, PTL DEF LockSpec, AuthorisedAtCommit
=============================================================================
