----------------------------- MODULE TicketProofs -----------------------------
(***************************************************************************)
(* What holds of SLA clocks, of a ticket and of the IT children created    *)
(* from it, for every staff, queue structure, workflow, role assignment,   *)
(* calendar and SLA policy:                                                *)
(*   - a clock's pauses, breach and escalation are what its policy says;   *)
(*   - a ticket drives its clocks only in the ways SlaClock allows, so what*)
(*     is proved of the clocks holds of its clocks;                        *)
(*   - no service acts on facts its user has not seen;                     *)
(*   - they implement CustodyLedger: appending an event that starts from   *)
(*     the present facts and leads to the next ones keeps a ledger unbroken*)
(*     and current (ChainOne, ChainSame), and every operation appends such *)
(*     events;                                                             *)
(*   - the transition history and the ledger tell the same changes of      *)
(*     status, and a resolution is on record exactly while it should be.   *)
(***************************************************************************)
EXTENDS ItChild, WorkflowSeed, FiniteSetTheorems, TLAPS

-----------------------------------------------------------------------------
(* The clocks.  Their invariant is a predicate on one clock, Sound, that   *)
(* each operator of SlaInstance preserves; the actions of SlaClock then    *)
(* preserve it clock by clock.                                             *)

(* The business time, in hundredths, after which a clock escalates.         *)
Share(k) == Target[k] * EscalationPercent

(* At instant t, a clock of this kind that has run for used ticks.  The    *)
(* deadline of a running clock is the first instant at which its target    *)
(* has gone by, which is what makes "due" and "used up" the same thing.    *)
Sound(k, inst, used, t) ==
  /\ inst.state = "absent" => ~inst.escalated
  /\ inst.state = "active" => inst.remaining \in {None, 0}
  /\ inst.state = "active" /\ inst.remaining = None =>
       /\ used + Elapsed[inst.due] = Target[k] + Elapsed[t]
       /\ \A u \in 0 .. inst.due - 1 : Elapsed[u] < Elapsed[inst.due]
  /\ inst.state = "active" /\ inst.remaining = 0 => inst.due <= t
  /\ inst.state \in Paused => inst.remaining \in 0 .. Target[k]
  /\ inst.state \in Paused /\ inst.remaining # 0 => used + inst.remaining = Target[k]
  /\ inst.state \in Open /\ inst.remaining = 0 => used >= Target[k]
  /\ inst.state = "met" => used < Target[k]
  /\ inst.state = "breached" => used + TicksPerSecond > Target[k]
  /\ inst.escalated => used * 100 >= Share(k)

ClockInv ==
  /\ ClockTypeOK
  /\ \A w \in Sweepers : sweep[w] # Idle => sweep[w].at \in Moments /\ sweep[w].at <= now
  /\ \A k \in Kinds : Sound(k, sla[k], ran[k], now)
  /\ \A k \in Kinds : alerts[k] = IF sla[k].escalated THEN 1 ELSE 0

-----------------------------------------------------------------------------
(* Facts about the calendar.                                                *)

(* The deadline exists and AddBusinessTime returns it.                      *)
LEMMA DeadlineFound ==
  ASSUME NEW k \in Kinds, NEW t \in Moments, NEW n \in 1 .. Target[k]
  PROVE  /\ AddBusinessTime(t, n) \in Instants
         /\ IsDeadline(t, n, AddBusinessTime(t, n))
<1>1. \E d \in Instants : IsDeadline(t, n, d)
  BY DeadlineAssumption
<1>2. ~(n <= 0)
  BY KindsAssumption
<1>3. AddBusinessTime(t, n) = CHOOSE d \in Instants : IsDeadline(t, n, d)
  BY <1>2 DEF AddBusinessTime
<1> QED BY <1>1, <1>3

(* Business time never runs backwards.                                      *)
LEMMA ElapsedMonotonic ==
  ASSUME NEW s \in Instants, NEW t \in Instants, s <= t
  PROVE  /\ Elapsed[s] \in Nat
         /\ Elapsed[t] \in Nat
         /\ Elapsed[s] <= Elapsed[t]
BY CalendarAssumption

(* An instant at which something happens is an instant of the calendar.     *)
LEMMA MomentsAreInstants == Moments \subseteq Instants
BY CalendarAssumption DEF Moments, Instants

(* Business time between two instants is a natural number.                  *)
LEMMA BetweenType ==
  ASSUME NEW s \in Instants, NEW t \in Instants
  PROVE  BusinessTimeBetween(s, t) \in Nat
<1>1. CASE t <= s
  BY <1>1 DEF BusinessTimeBetween
<1>2. CASE s < t
  BY <1>2, ElapsedMonotonic DEF BusinessTimeBetween, Instants
<1> QED BY <1>1, <1>2 DEF Instants

(* A target used up has passed its escalation share.                        *)
LEMMA UsedUpEscalates ==
  ASSUME NEW k \in Kinds, NEW used \in Nat, used >= Target[k]
  PROVE  used * 100 >= Share(k)
<1> DEFINE T == Target[k]
<1>1. T \in Nat /\ EscalationPercent \in 0 .. 100
  BY KindsAssumption
<1>2. T * EscalationPercent <= T * 100
  BY <1>1
<1> QED BY <1>1, <1>2 DEF Share

-----------------------------------------------------------------------------
(* Each operator of SlaInstance preserves Sound.                            *)

(* A clock started at s is sound at any later t, having run from s to t.    *)
LEMMA StartSound ==
  ASSUME NEW k \in Kinds, NEW s \in Moments, NEW t \in Moments, s <= t
  PROVE  /\ StartedAt(k, s) \in SlaInstances
         /\ Elapsed[t] - Elapsed[s] \in Nat
         /\ Sound(k, StartedAt(k, s), Elapsed[t] - Elapsed[s], t)
<1> DEFINE d == AddBusinessTime(s, Target[k])
<1>1. Target[k] \in 1 .. Target[k]
  BY KindsAssumption
<1>2. d \in Instants /\ IsDeadline(s, Target[k], d)
  BY <1>1, DeadlineFound
<1>3. s \in Instants /\ t \in Instants
  BY MomentsAreInstants
<1>4. Elapsed[s] \in Nat /\ Elapsed[t] \in Nat /\ Elapsed[s] <= Elapsed[t] /\ Elapsed[d] \in Nat
  BY <1>2, <1>3, ElapsedMonotonic, CalendarAssumption
<1>5. StartedAt(k, s) \in SlaInstances
  BY <1>2 DEF StartedAt, SlaInstances, SlaStates, Open, None
<1>6. Sound(k, StartedAt(k, s), Elapsed[t] - Elapsed[s], t)
  BY <1>1, <1>2, <1>4 DEF StartedAt, Sound, IsDeadline, None, Open, Paused
<1> QED BY <1>4, <1>5, <1>6

(* A clock frozen for this reason with this much entitlement left.          *)
Frozen(inst, reason, left) == [inst EXCEPT !.state = reason, !.remaining = left]

(* What it takes for a frozen clock to be sound.                            *)
LEMMA FrozenSound ==
  ASSUME NEW k \in Kinds, NEW inst \in SlaInstances, NEW used \in Nat, NEW t \in Moments,
         NEW left \in 0 .. Target[k], NEW reason \in Paused,
         left # 0 => used + left = Target[k],
         left = 0 => used >= Target[k],
         Sound(k, inst, used, t)
  PROVE  /\ Frozen(inst, reason, left) \in SlaInstances
         /\ Sound(k, Frozen(inst, reason, left), used, t)
<1> DEFINE new == Frozen(inst, reason, left)
<1>1. /\ new.state = reason /\ new.remaining = left
      /\ new.due = inst.due /\ new.escalated = inst.escalated
  BY DEF Frozen, SlaInstances
<1>2. reason \notin {"absent", "active", "met", "breached"} /\ reason \in Open
  BY DEF Paused, Open
<1>3. new \in SlaInstances
  <2>1. left \in Nat /\ reason \in SlaStates
    BY <1>2, KindsAssumption DEF SlaStates
  <2> QED BY <2>1 DEF Frozen, SlaInstances
<1>4. inst.escalated => used * 100 >= Share(k)
  BY DEF Sound
<1> HIDE DEF new
<1>5. new \in SlaInstances /\ Sound(k, new, used, t)
  BY <1>1, <1>2, <1>3, <1>4 DEF Sound
<1> QED BY <1>5 DEF new

(* Pausing, or relabelling a pause, keeps the entitlement.                  *)
LEMMA PauseSound ==
  ASSUME NEW k \in Kinds, NEW inst \in SlaInstances, NEW used \in Nat, NEW t \in Moments,
         NEW reason \in Paused,
         inst.state \in Open, Sound(k, inst, used, t)
  PROVE  /\ PauseSla(inst, reason, t) \in SlaInstances
         /\ Sound(k, PauseSla(inst, reason, t), used, t)
<1> DEFINE new == PauseSla(inst, reason, t)
<1>0. t \in Instants /\ inst.due \in Instants /\ Target[k] \in Nat /\ Target[k] > 0
      /\ TicksPerSecond \in Nat
  BY MomentsAreInstants, KindsAssumption DEF SlaInstances
<1>1. CASE inst.state = "active" /\ inst.due <= t
  <2>1. Elapsed[inst.due] <= Elapsed[t] /\ Elapsed[t] \in Nat /\ Elapsed[inst.due] \in Nat
    BY <1>0, <1>1, ElapsedMonotonic
  <2>2. new = Frozen(inst, reason, 0)
    BY <1>1 DEF Frozen, PauseSla, BusinessTimeBetween
  <2>3. used >= Target[k]
    BY <1>0, <1>1, <2>1 DEF Sound, Open
  <2>4. Elapsed[t] \in Nat /\ 0 \in 0 .. Target[k]
    BY <1>0, <2>1
  <2> QED BY <2>2, <2>3, <2>4, FrozenSound
<1>2. CASE inst.state = "active" /\ ~(inst.due <= t)
  <2>1. t <= inst.due /\ t \in 0 .. inst.due - 1
    BY <1>0, <1>2 DEF Instants
  <2>2. Elapsed[t] <= Elapsed[inst.due] /\ Elapsed[t] \in Nat /\ Elapsed[inst.due] \in Nat
    BY <1>0, <2>1, ElapsedMonotonic
  <2>3. new = Frozen(inst, reason, Elapsed[inst.due] - Elapsed[t])
    BY <1>2 DEF Frozen, PauseSla, BusinessTimeBetween
  <2>4. inst.remaining = None
    BY <1>2 DEF Sound
  <2>5. used + Elapsed[inst.due] = Target[k] + Elapsed[t] /\ Elapsed[t] < Elapsed[inst.due]
    BY <1>2, <2>1, <2>4 DEF Sound
  <2>6. Elapsed[inst.due] - Elapsed[t] \in 1 .. Target[k]
    BY <1>0, <2>2, <2>5
  <2>7. used + (Elapsed[inst.due] - Elapsed[t]) = Target[k]
    BY <1>0, <2>2, <2>5
  <2> DEFINE left == Elapsed[inst.due] - Elapsed[t]
  <2>8. left \in 0 .. Target[k] /\ left # 0 /\ used + left = Target[k]
    BY <1>0, <2>6, <2>7
  <2>9. new = Frozen(inst, reason, left)
    BY <2>3
  <2> HIDE DEF left
  <2> QED BY <2>8, <2>9, FrozenSound
<1>3. CASE inst.state \in Paused
  <2>1. inst.state # "active"
    BY <1>3 DEF Paused
  <2>2. new = [inst EXCEPT !.state = reason]
    BY <2>1 DEF PauseSla, SlaInstances
  <2>3. new = Frozen(inst, reason, inst.remaining)
    BY <2>2 DEF Frozen, SlaInstances
  <2>4. /\ inst.remaining \in 0 .. Target[k]
        /\ inst.remaining # 0 => used + inst.remaining = Target[k]
        /\ inst.remaining = 0 => used >= Target[k]
    BY <1>3 DEF Sound
  <2> QED BY <2>3, <2>4, FrozenSound
<1> QED BY <1>1, <1>2, <1>3 DEF Open

(* Resuming places the deadline where the rest of the target ends.          *)
LEMMA ResumeSound ==
  ASSUME NEW k \in Kinds, NEW inst \in SlaInstances, NEW used \in Nat, NEW t \in Moments,
         inst.state \in Paused, Sound(k, inst, used, t)
  PROVE  /\ ResumeSla(inst, t) \in SlaInstances
         /\ Sound(k, ResumeSla(inst, t), used, t)
<1> DEFINE new == ResumeSla(inst, t)
<1>0. t \in Instants /\ t \in Nat /\ Elapsed[t] \in Nat /\ Target[k] \in Nat /\ Target[k] > 0
  BY MomentsAreInstants, KindsAssumption, CalendarAssumption DEF Instants
<1>1. inst.state # "active"
  BY DEF Paused
<1>2. inst.remaining \in 0 .. Target[k]
  BY DEF Sound
<1>3. CASE inst.remaining = 0
  <2>1. new = [inst EXCEPT !.state = "active", !.due = t, !.remaining = 0]
    BY <1>1, <1>3 DEF ResumeSla, AddBusinessTime
  <2>2. used >= Target[k] /\ (inst.escalated => used * 100 >= Share(k))
    BY <1>3 DEF Sound, Open
  <2>3. new \in SlaInstances
    <3>1. t \in Instants /\ 0 \in Nat /\ "active" \in SlaStates
      BY <1>0 DEF SlaStates, Open
    <3> QED BY <2>1, <3>1 DEF SlaInstances
  <2>4. /\ new.state = "active" /\ new.due = t /\ new.remaining = 0
        /\ new.escalated = inst.escalated
    BY <2>1 DEF SlaInstances
  <2> QED BY <1>0, <2>2, <2>3, <2>4 DEF Sound, Open, Paused, None
<1>4. CASE inst.remaining # 0
  <2> DEFINE d == AddBusinessTime(t, inst.remaining)
  <2>1. inst.remaining \in 1 .. Target[k]
    BY <1>0, <1>2, <1>4
  <2>2. d \in Instants /\ IsDeadline(t, inst.remaining, d)
    BY <2>1, DeadlineFound
  <2>3. new = [inst EXCEPT !.state = "active", !.due = d, !.remaining = None]
    BY <1>1, <1>4 DEF ResumeSla
  <2>4. used + inst.remaining = Target[k] /\ Elapsed[d] = Elapsed[t] + inst.remaining
    BY <1>4, <2>2 DEF Sound, IsDeadline
  <2>5. \A u \in 0 .. d - 1 : Elapsed[u] < Elapsed[d]
    BY <2>2 DEF IsDeadline
  <2>6. new \in SlaInstances
    BY <2>2, <2>3 DEF SlaInstances, SlaStates, Open
  <2>7. used + Elapsed[d] = Target[k] + Elapsed[t]
    BY <1>0, <2>1, <2>4
  <2> HIDE DEF d
  <2> QED BY <2>3, <2>5, <2>6, <2>7 DEF Sound, Open, Paused, SlaInstances, None
<1> QED BY <1>3, <1>4

(* What is known of a running clock that its row calls overdue, or not.     *)
LEMMA RunningVerdict ==
  ASSUME NEW k \in Kinds, NEW inst \in SlaInstances, NEW used \in Nat, NEW t \in Moments,
         inst.state = "active", Sound(k, inst, used, t)
  PROVE  /\ inst.due <= t => used >= Target[k]
         /\ ~IsOverdue(inst, t) => used < Target[k]
         /\ IsOverdue(inst, t) => used >= Target[k]
<1>0. /\ t \in Instants /\ t \in Nat /\ inst.due \in Instants /\ inst.due \in Nat
      /\ Target[k] \in Nat /\ Elapsed[t] \in Nat /\ Elapsed[inst.due] \in Nat
      /\ TicksPerSecond \in Nat /\ TicksPerSecond > 0
  BY MomentsAreInstants, KindsAssumption, CalendarAssumption DEF Instants, SlaInstances
<1>1. CASE inst.remaining = 0
  <2>1. used >= Target[k]
    BY <1>1 DEF Sound, Open
  <2>2. IsOverdue(inst, t)
    BY <1>0, <1>1 DEF IsOverdue, RemainingSeconds, None
  <2> QED BY <2>1, <2>2
<1>2. CASE inst.remaining = None
  <2>1. used + Elapsed[inst.due] = Target[k] + Elapsed[t]
    BY <1>2 DEF Sound
  <2>2. inst.due <= t => Elapsed[inst.due] <= Elapsed[t]
    BY <1>0, ElapsedMonotonic
  <2>3. ~(inst.due <= t) => Elapsed[t] < Elapsed[inst.due]
    <3>1. SUFFICES ASSUME ~(inst.due <= t) PROVE Elapsed[t] < Elapsed[inst.due]
      OBVIOUS
    <3>2. t \in 0 .. inst.due - 1
      BY <1>0, <3>1
    <3> QED BY <1>2, <3>2 DEF Sound
  <2>4. IsOverdue(inst, t) <=> inst.due <= t
    BY <1>0, <1>2 DEF IsOverdue, RemainingSeconds, None, Paused
  <2> QED BY <1>0, <2>1, <2>2, <2>3, <2>4
<1> QED BY <1>1, <1>2 DEF Sound

(* What is known of a frozen clock that its row calls overdue, or not: the  *)
(* row's whole seconds are short of the truth by less than a second.        *)
LEMMA FrozenVerdict ==
  ASSUME NEW k \in Kinds, NEW inst \in SlaInstances, NEW used \in Nat, NEW t \in Moments,
         inst.state \in Paused, Sound(k, inst, used, t)
  PROVE  /\ ~IsOverdue(inst, t) => used < Target[k]
         /\ IsOverdue(inst, t) => used + TicksPerSecond > Target[k]
<1>0. /\ Target[k] \in Nat /\ TicksPerSecond \in Nat /\ TicksPerSecond > 0
      /\ inst.remaining \in Nat /\ inst.state # "active" /\ inst.remaining # None
  <2>1. Target[k] \in Nat /\ TicksPerSecond \in Nat /\ TicksPerSecond > 0
    BY KindsAssumption
  <2>2. inst.remaining \in 0 .. Target[k]
    BY DEF Sound
  <2> QED BY <2>1, <2>2 DEF Paused, None
<1>1. IsOverdue(inst, t) <=> inst.remaining \div TicksPerSecond = 0
  <2>1. RemainingSeconds(inst) = inst.remaining \div TicksPerSecond
    BY <1>0 DEF RemainingSeconds
  <2>2. inst.remaining \div TicksPerSecond # None
    BY <1>0 DEF None
  <2> QED BY <1>0, <2>1, <2>2 DEF IsOverdue
<1>2. inst.remaining \div TicksPerSecond = 0 <=> inst.remaining < TicksPerSecond
  BY <1>0
<1>3. CASE inst.remaining = 0
  <2>1. used >= Target[k]
    BY <1>3 DEF Sound, Open
  <2> QED BY <1>0, <1>1, <1>2, <1>3, <2>1
<1>4. CASE inst.remaining # 0
  <2>1. used + inst.remaining = Target[k]
    BY <1>4 DEF Sound
  <2> QED BY <1>0, <1>1, <1>2, <1>4, <2>1
<1> QED BY <1>3, <1>4

(* A verdict does not disturb what is known of the clock.                   *)
LEMMA ClosedSound ==
  ASSUME NEW k \in Kinds, NEW inst \in SlaInstances, NEW used \in Nat, NEW t \in Moments,
         NEW new \in SlaInstances,
         new.state \in {"met", "breached"},
         new.state = "met" => used < Target[k],
         new.state = "breached" => used + TicksPerSecond > Target[k],
         new.escalated => used * 100 >= Share(k)
  PROVE  Sound(k, new, used, t)
BY DEF Sound, Open, Paused

(* Completing a clock gives the verdict it has earned.                      *)
LEMMA CompleteSound ==
  ASSUME NEW k \in Kinds, NEW inst \in SlaInstances, NEW used \in Nat, NEW t \in Moments,
         Sound(k, inst, used, t)
  PROVE  /\ CompleteSla(inst, t) \in SlaInstances
         /\ Sound(k, CompleteSla(inst, t), used, t)
         /\ CompleteSla(inst, t).escalated = inst.escalated
<1> DEFINE new == CompleteSla(inst, t)
<1>1. CASE inst.state \in {"absent", "met"}
  BY <1>1 DEF CompleteSla
<1>2. CASE inst.state \notin {"absent", "met"}
  <2> DEFINE verdict == IF inst.state = "breached" \/ IsOverdue(inst, t) THEN "breached" ELSE "met"
  <2>1. new = [inst EXCEPT !.state = verdict, !.completed = TRUE]
    BY <1>2 DEF CompleteSla, SlaInstances
  <2>2. verdict \in {"met", "breached"} /\ verdict \in SlaStates
    BY DEF SlaStates
  <2>3. /\ verdict = "met" => used < Target[k]
        /\ verdict = "breached" => used + TicksPerSecond > Target[k]
    <3>0. Target[k] \in Nat /\ TicksPerSecond \in Nat /\ TicksPerSecond > 0
      BY KindsAssumption
    <3>1. CASE inst.state = "active"
      BY <3>0, <3>1, RunningVerdict
    <3>2. CASE inst.state \in Paused
      BY <3>2, FrozenVerdict DEF Paused
    <3>3. CASE inst.state = "breached"
      BY <3>3 DEF Sound
    <3> QED BY <1>2, <3>1, <3>2, <3>3 DEF SlaInstances, SlaStates, Open
  <2> HIDE DEF verdict
  <2>4. new.state = verdict /\ new.escalated = inst.escalated /\ new \in SlaInstances
    BY <2>1, <2>2 DEF SlaInstances
  <2>5. inst.escalated => used * 100 >= Share(k)
    BY DEF Sound
  <2> HIDE DEF new
  <2>6. Sound(k, new, used, t)
    BY <2>2, <2>3, <2>4, <2>5, ClosedSound
  <2> QED BY <2>4, <2>6 DEF new
<1> QED BY <1>1, <1>2

(* One tick consumes business time of a running clock and of no other.      *)
LEMMA TickSound ==
  ASSUME NEW k \in Kinds, NEW inst \in SlaInstances, NEW used \in Nat,
         NEW t \in Moments, t < MaxTime, Sound(k, inst, used, t)
  PROVE  LET new == IF inst.state = "active"
                      THEN used + (Elapsed[t + 1] - Elapsed[t]) ELSE used
         IN  new \in Nat /\ Sound(k, inst, new, t + 1)
<1> DEFINE new == IF inst.state = "active"
                    THEN used + (Elapsed[t + 1] - Elapsed[t]) ELSE used
<1>1. t \in Instants /\ t + 1 \in Instants /\ t \in Nat
  BY CalendarAssumption DEF Moments, Instants
<1>2. Elapsed[t] \in Nat /\ Elapsed[t + 1] \in Nat /\ Elapsed[t] <= Elapsed[t + 1]
  BY <1>1, CalendarAssumption
<1>3. new \in Nat /\ new >= used
  BY <1>2
<1>4. CASE inst.state = "active"
  <2>1. new = used + (Elapsed[t + 1] - Elapsed[t])
    BY <1>4
  <2>2. inst.due \in Instants /\ inst.due \in Nat /\ Elapsed[inst.due] \in Nat
        /\ Target[k] \in Nat
    BY CalendarAssumption, KindsAssumption DEF SlaInstances, Instants
  <2>3. inst.remaining = None => new + Elapsed[inst.due] = Target[k] + Elapsed[t + 1]
    BY <1>2, <1>4, <2>1, <2>2 DEF Sound
  <2>4. inst.remaining = 0 => inst.due <= t + 1 /\ new >= Target[k]
    BY <1>1, <1>3, <1>4, <2>2 DEF Sound, Open
  <2>5. inst.escalated => new * 100 >= Share(k)
    <3>1. Share(k) \in Int
      BY <2>2, KindsAssumption DEF Share
    <3> QED BY <1>3, <3>1 DEF Sound
  <2>6. inst.state \notin Paused
    BY <1>4 DEF Paused
  <2>7. /\ inst.remaining \in {None, 0}
        /\ inst.remaining = None =>
             \A u \in 0 .. inst.due - 1 : Elapsed[u] < Elapsed[inst.due]
    BY <1>4 DEF Sound
  <2> HIDE DEF new
  <2>8. Sound(k, inst, new, t + 1)
    BY <1>4, <2>3, <2>4, <2>5, <2>6, <2>7 DEF Sound
  <2> QED BY <1>3, <2>8 DEF new
<1>5. CASE inst.state # "active"
  <2>1. Sound(k, inst, used, t + 1)
    BY <1>5 DEF Sound
  <2> QED BY <1>5, <2>1
<1> QED BY <1>4, <1>5

(* A clock escalates only when it has run for the escalation share of its   *)
(* target, even when the sweep's time is old.                               *)
LEMMA EscalatesEarned ==
  ASSUME NEW k \in Kinds, NEW inst \in SlaInstances, NEW used \in Nat, NEW t \in Moments,
         NEW s \in Moments, s <= t,
         Sound(k, inst, used, t), Escalates(k, inst, s)
  PROVE  used * 100 >= Share(k)
<1>0. /\ inst.state = "active" /\ CrossedEscalationThreshold(k, inst, s)
  BY DEF Escalates
<1>1. /\ s \in Instants /\ t \in Instants /\ inst.due \in Instants
      /\ s \in Nat /\ t \in Nat /\ inst.due \in Nat
      /\ Elapsed[s] \in Nat /\ Elapsed[t] \in Nat /\ Elapsed[inst.due] \in Nat
      /\ Elapsed[s] <= Elapsed[t] /\ Target[k] \in Nat /\ Target[k] > 0
  BY MomentsAreInstants, CalendarAssumption, KindsAssumption DEF SlaInstances, Instants
<1>2. CASE inst.due <= s
  <2>1. used >= Target[k]
    BY <1>0, <1>1, <1>2, RunningVerdict
  <2> QED BY <2>1, UsedUpEscalates
<1>3. CASE ~(inst.due <= s) /\ inst.remaining = 0
  <2>1. used >= Target[k]
    BY <1>0, <1>3 DEF Sound, Open
  <2> QED BY <2>1, UsedUpEscalates
<1>4. CASE ~(inst.due <= s) /\ inst.remaining = None
  <2> DEFINE left == Elapsed[inst.due] - Elapsed[s]
             consumed == IF left >= Target[k] THEN 0 ELSE Target[k] - left
  <2>1. used + Elapsed[inst.due] = Target[k] + Elapsed[t]
    BY <1>0, <1>4 DEF Sound
  <2>2. consumed \in Nat /\ consumed <= used
    <3>1. Elapsed[s] <= Elapsed[inst.due]
      BY <1>1, <1>4, ElapsedMonotonic
    <3> QED BY <1>1, <2>1, <3>1
  <2>3. consumed * 100 >= Share(k)
    BY <1>0, <1>4 DEF CrossedEscalationThreshold, BusinessTimeBetween, Share
  <2>4. Share(k) \in Int
    BY <1>1, KindsAssumption DEF Share
  <2> HIDE DEF consumed
  <2> QED BY <2>2, <2>3, <2>4
<1> QED BY <1>0, <1>2, <1>3, <1>4 DEF Sound

(* A sweep that works with an old time gives no verdict that is not earned. *)
LEMMA EvaluateSound ==
  ASSUME NEW k \in Kinds, NEW inst \in SlaInstances, NEW used \in Nat, NEW t \in Moments,
         NEW s \in Moments, s <= t, Sound(k, inst, used, t)
  PROVE  /\ EvaluateSla(k, inst, s) \in SlaInstances
         /\ Sound(k, EvaluateSla(k, inst, s), used, t)
         /\ EvaluateSla(k, inst, s).escalated = (inst.escalated \/ Escalates(k, inst, s))
<1> DEFINE new == EvaluateSla(k, inst, s)
<1>1. CASE inst.state # "active"
  BY <1>1 DEF EvaluateSla, Escalates, SlaInstances
<1>2. CASE inst.state = "active"
  <2> DEFINE verdict == IF inst.due <= s THEN "breached" ELSE "active"
             esc == inst.escalated \/ Escalates(k, inst, s)
  <2>1. new = [inst EXCEPT !.escalated = esc, !.state = verdict]
    BY <1>2 DEF EvaluateSla
  <2>2. esc \in BOOLEAN /\ verdict \in SlaStates
    BY DEF SlaStates, Open, Escalates, SlaInstances
  <2>3. /\ new \in SlaInstances /\ new.state = verdict /\ new.escalated = esc
        /\ new.due = inst.due /\ new.remaining = inst.remaining
    <3> HIDE DEF esc, verdict
    <3> QED BY <2>1, <2>2 DEF SlaInstances
  <2>4. esc => used * 100 >= Share(k)
    BY EscalatesEarned DEF Sound
  <2>5. CASE inst.due <= s
    <3>1. inst.due <= t
      BY <2>5, CalendarAssumption DEF SlaInstances, Instants, Moments
    <3>2. used >= Target[k]
      BY <1>2, <3>1, RunningVerdict
    <3>3. Target[k] \in Nat /\ TicksPerSecond \in Nat /\ TicksPerSecond > 0
      BY KindsAssumption
    <3>4. used + TicksPerSecond > Target[k]
      BY <3>2, <3>3
    <3>5. new.state = "breached"
      BY <2>3, <2>5
    <3> HIDE DEF new, esc, verdict
    <3>6. Sound(k, new, used, t)
      BY <2>3, <2>4, <3>4, <3>5, ClosedSound
    <3> QED BY <2>3, <3>6 DEF new, esc
  <2>6. CASE ~(inst.due <= s)
    <3>1. new.state = "active"
      BY <2>3, <2>6
    <3> HIDE DEF new, esc, verdict
    <3>2. Sound(k, new, used, t)
      BY <1>2, <2>3, <2>4, <3>1 DEF Sound, Open, Paused
    <3> QED BY <2>3, <3>2 DEF new, esc
  <2> QED BY <2>5, <2>6
<1> QED BY <1>1, <1>2

(* Synchronising a clock with a status change.                              *)
LEMMA FreezeOrReleaseSound ==
  ASSUME NEW k \in Kinds, NEW inst \in SlaInstances, NEW used \in Nat, NEW t \in Moments,
         NEW from \in Statuses, NEW to \in Statuses, Sound(k, inst, used, t)
  PROVE  LET new == FreezeOrRelease(inst, Waiting, from, to, t)
         IN  new \in SlaInstances /\ Sound(k, new, used, t) /\ new.escalated = inst.escalated
<1> DEFINE new == FreezeOrRelease(inst, Waiting, from, to, t)
<1>1. CASE to \in DOMAIN Waiting /\ inst.state \in Open \ {Waiting[to]}
  <2>1. new = PauseSla(inst, Waiting[to], t) /\ Waiting[to] \in Paused
    BY <1>1, WaitingAssumption DEF FreezeOrRelease
  <2>2. new.escalated = inst.escalated
    BY <2>1 DEF PauseSla, SlaInstances
  <2>3. new \in SlaInstances /\ Sound(k, new, used, t)
    BY <1>1, <2>1, PauseSound
  <2> QED BY <2>2, <2>3
<1>2. CASE to \notin DOMAIN Waiting /\ from \in DOMAIN Waiting /\ inst.state \in Paused
  <2>1. new = ResumeSla(inst, t)
    BY <1>2 DEF FreezeOrRelease
  <2>2. new.escalated = inst.escalated
    BY <2>1 DEF ResumeSla, SlaInstances
  <2>3. new \in SlaInstances /\ Sound(k, new, used, t)
    BY <1>2, <2>1, ResumeSound
  <2> QED BY <2>2, <2>3
<1>3. CASE new = inst
  BY <1>3
<1> QED BY <1>1, <1>2, <1>3 DEF FreezeOrRelease

-----------------------------------------------------------------------------
(* The invariant, action by action.                                         *)

(* What ClockInv says of one clock and its alerts.                          *)
LEMMA ClockFacts ==
  ASSUME ClockInv, NEW k \in Kinds
  PROVE  /\ sla[k] \in SlaInstances /\ ran[k] \in Nat /\ alerts[k] \in Nat /\ now \in Moments
         /\ Sound(k, sla[k], ran[k], now)
         /\ alerts[k] = IF sla[k].escalated THEN 1 ELSE 0
BY DEF ClockInv, ClockTypeOK

(* A new ticket has no clock.                                               *)
LEMMA InitInv == ClockInit => ClockInv
<1> SUFFICES ASSUME ClockInit PROVE ClockInv
  OBVIOUS
<1>1. NoInstance \in SlaInstances
  BY CalendarAssumption DEF NoInstance, SlaInstances, SlaStates, Instants
<1>2. ClockTypeOK
  <2>1. 0 \in Moments /\ InitialStatus \in Statuses
    BY CalendarAssumption DEF Moments, Statuses
  <2>2. Idle \in [at : Moments \union {None}, pending : SUBSET Kinds]
    BY DEF Idle
  <2> QED BY <1>1, <2>1, <2>2 DEF ClockInit, ClockTypeOK
<1>3. \A k \in Kinds : Sound(k, NoInstance, 0, 0)
  BY DEF Sound, NoInstance, Open, Paused
<1>4. \A w \in Sweepers : sweep[w] = Idle
  BY DEF ClockInit
<1> QED BY <1>2, <1>3, <1>4 DEF ClockInit, ClockInv, NoInstance

(* One case for each kind of clock a transition can meet.                   *)
LEMMA SyncSound ==
  ASSUME ClockInv, NEW from \in Statuses, NEW to \in Statuses, NEW k \in Kinds
  PROVE  LET new  == SyncSlasForTransition(sla, Waiting, from, to, now)[k]
             anew == k = "resolution" /\ to = "reopened"
         IN  /\ new \in SlaInstances
             /\ Sound(k, new, IF anew THEN 0 ELSE ran[k], now)
             /\ new.escalated = IF anew THEN FALSE ELSE sla[k].escalated
<1> DEFINE mid == FreezeOrRelease(sla[k], Waiting, from, to, now)
           new == SyncSlasForTransition(sla, Waiting, from, to, now)[k]
<1>0. mid \in SlaInstances /\ Sound(k, mid, ran[k], now) /\ mid.escalated = sla[k].escalated
  BY ClockFacts, FreezeOrReleaseSound
<1>1. new = IF k = "resolution" /\ to = "resolved" THEN CompleteSla(mid, now)
            ELSE IF k = "resolution" /\ to = "reopened" THEN RestartResolutionSla(now)
            ELSE mid
  BY DEF SyncSlasForTransition
<1>2. CASE k = "resolution" /\ to = "resolved"
  <2>1. new = CompleteSla(mid, now)
    BY <1>1, <1>2
  <2> HIDE DEF mid, new
  <2>2. /\ new \in SlaInstances /\ Sound(k, new, ran[k], now)
        /\ new.escalated = mid.escalated
    BY <1>0, <2>1, ClockFacts, CompleteSound
  <2> QED BY <1>0, <1>2, <2>2 DEF new
<1>3. CASE k = "resolution" /\ to = "reopened"
  <2>1. new = StartedAt(k, now) /\ new.escalated = FALSE
    BY <1>1, <1>3 DEF RestartResolutionSla, StartedAt
  <2>2. now \in Moments /\ Elapsed[now] - Elapsed[now] = 0 /\ now <= now
    BY ClockFacts, MomentsAreInstants, CalendarAssumption DEF Moments
  <2>3. new \in SlaInstances /\ Sound(k, new, 0, now)
    BY <2>1, <2>2, StartSound
  <2> QED BY <1>3, <2>1, <2>3
<1>4. CASE ~(k = "resolution" /\ to \in {"resolved", "reopened"})
  BY <1>0, <1>1, <1>4
<1> QED BY <1>2, <1>3, <1>4

(* Every action preserves the invariant.                                    *)
LEMMA NextInv == ClockInv /\ [ClockNext]_clockVars => ClockInv'
<1> SUFFICES ASSUME ClockInv, [ClockNext]_clockVars PROVE ClockInv'
  OBVIOUS
<1> USE DEF ClockInv
<1>1. ASSUME NEW i \in Kinds, InstantiateSla(i) PROVE ClockInv'
  <2> USE <1>1 DEF InstantiateSla
  <2>1. 0 \in Moments /\ 0 <= now /\ now \in Moments
    BY CalendarAssumption DEF ClockTypeOK, Moments
  <2>2. /\ StartedAt(i, 0) \in SlaInstances
        /\ Elapsed[now] - Elapsed[0] \in Nat
        /\ Sound(i, StartedAt(i, 0), Elapsed[now] - Elapsed[0], now)
    BY <2>1, StartSound
  <2>3. ClockTypeOK'
    BY <2>2 DEF ClockTypeOK
  <2>4. \A k \in Kinds : Sound(k, sla[k], ran[k], now)'
    BY <2>2 DEF ClockTypeOK
  <2>5. alerts[i] = 0 /\ ~StartedAt(i, 0).escalated
    BY DEF Sound, StartedAt
  <2>6. \A k \in Kinds : alerts'[k] = IF sla'[k].escalated THEN 1 ELSE 0
    BY <2>5 DEF ClockTypeOK
  <2> QED BY <2>3, <2>4, <2>6
<1>2. ASSUME NEW to \in Statuses, SyncStatus(to) PROVE ClockInv'
  <2> USE <1>2 DEF SyncStatus
  <2>1. status \in Statuses
    BY DEF ClockTypeOK
  <2>2. \A k \in Kinds :
          LET anew == k = "resolution" /\ to = "reopened"
          IN  /\ sla'[k] \in SlaInstances
              /\ Sound(k, sla'[k], IF anew THEN 0 ELSE ran[k], now)
              /\ sla'[k].escalated = IF anew THEN FALSE ELSE sla[k].escalated
    BY <2>1, SyncSound
  <2>3. sla' \in [Kinds -> SlaInstances]
    BY <2>2 DEF SyncSlasForTransition
  <2>4. ClockTypeOK'
    BY <2>3 DEF ClockTypeOK
  <2>5. \A k \in Kinds : Sound(k, sla[k], ran[k], now)'
    BY <2>2
  <2>6. \A k \in Kinds : alerts'[k] = IF sla'[k].escalated THEN 1 ELSE 0
    BY <2>2
  <2> QED BY <2>4, <2>5, <2>6
<1>3. CASE FirstResponse
  <2> USE <1>3 DEF FirstResponse
  <2> DEFINE new == CompleteSla(sla["first_response"], now)
  <2>1. "first_response" \in Kinds
    BY KindsAssumption
  <2>2. /\ new \in SlaInstances /\ new.escalated = sla["first_response"].escalated
        /\ Sound("first_response", new, ran["first_response"], now)
    BY <2>1, ClockFacts, CompleteSound
  <2>3. sla' = [sla EXCEPT !["first_response"] = new]
    OBVIOUS
  <2> HIDE DEF new
  <2>4. ClockTypeOK'
    BY <2>2, <2>3 DEF ClockTypeOK
  <2>5. \A k \in Kinds : Sound(k, sla[k], ran[k], now)'
    BY <2>2, <2>3 DEF ClockTypeOK
  <2>6. \A k \in Kinds : alerts'[k] = IF sla'[k].escalated THEN 1 ELSE 0
    BY <2>2, <2>3 DEF ClockTypeOK
  <2> QED BY <2>4, <2>5, <2>6
<1>4. CASE Tick
  <2> USE <1>4 DEF Tick
  <2>1. \A k \in Kinds : ran'[k] \in Nat /\ Sound(k, sla[k], ran'[k], now + 1)
    BY ClockFacts, TickSound
  <2>2. now + 1 \in Moments
    BY CalendarAssumption DEF ClockTypeOK, Moments
  <2>3. ClockTypeOK'
    BY <2>1, <2>2 DEF ClockTypeOK
  <2>4. \A w \in Sweepers :
          sweep'[w] # Idle => sweep'[w].at \in Moments /\ sweep'[w].at <= now'
    BY CalendarAssumption DEF ClockTypeOK, Moments
  <2> QED BY <2>1, <2>3, <2>4
<1>5. ASSUME NEW w \in Sweepers, SweepStart(w) PROVE ClockInv'
  <2> USE <1>5 DEF SweepStart
  <2>1. ClockTypeOK'
    BY DEF ClockTypeOK
  <2>2. \A x \in Sweepers :
          sweep'[x] # Idle => sweep'[x].at \in Moments /\ sweep'[x].at <= now'
    BY CalendarAssumption DEF ClockTypeOK, Moments
  <2> QED BY <2>1, <2>2
<1>6. ASSUME NEW w \in Sweepers, NEW due \in SUBSET Kinds, SweepTicket(w, due) PROVE ClockInv'
  <2> USE <1>6 DEF SweepTicket
  <2> DEFINE at == sweep[w].at
  <2>1. at \in Moments /\ at <= now
    OBVIOUS
  <2>2. \A k \in Kinds :
          LET new == EvaluateSla(k, sla[k], at)
          IN  /\ new \in SlaInstances
              /\ Sound(k, new, ran[k], now)
              /\ new.escalated = (sla[k].escalated \/ Escalates(k, sla[k], at))
    BY <2>1, ClockFacts, EvaluateSound
  <2>3. sla' \in [Kinds -> SlaInstances]
    BY <2>2, ClockFacts
  <2>4. \A k \in Kinds : Sound(k, sla'[k], ran[k], now)
    BY <2>2, ClockFacts
  <2>5. \A k \in Kinds : Escalates(k, sla[k], at) => ~sla[k].escalated
    BY DEF Escalates
  <2>6. \A k \in Kinds : alerts'[k] = IF sla'[k].escalated THEN 1 ELSE 0
    <3> SUFFICES ASSUME NEW k \in Kinds
                 PROVE  alerts'[k] = IF sla'[k].escalated THEN 1 ELSE 0
      OBVIOUS
    <3> DEFINE new == EvaluateSla(k, sla[k], at)
    <3>1. alerts[k] \in Nat /\ alerts[k] = IF sla[k].escalated THEN 1 ELSE 0
      BY ClockFacts
    <3>2. CASE k \notin due
      BY <3>1, <3>2
    <3>3. CASE k \in due /\ Escalates(k, sla[k], at)
      <4>1. new.escalated /\ ~sla[k].escalated
        BY <2>2, <2>5, <3>3
      <4>2. sla'[k] = new /\ alerts'[k] = alerts[k] + 1
        BY <3>3, ClockFacts DEF ClockTypeOK
      <4> QED BY <3>1, <4>1, <4>2
    <3>4. CASE k \in due /\ ~Escalates(k, sla[k], at)
      <4>1. new.escalated <=> sla[k].escalated
        BY <2>2, <3>4
      <4>2. sla'[k] = new /\ alerts'[k] = alerts[k]
        BY <3>4
      <4> QED BY <3>1, <4>1, <4>2
    <3> QED BY <3>2, <3>3, <3>4
  <2>7. ClockTypeOK'
    <3>1. alerts' \in [Kinds -> Nat]
      BY DEF ClockTypeOK
    <3>2. sweep' \in [Sweepers -> [at : Moments \union {None}, pending : SUBSET Kinds]]
      BY DEF ClockTypeOK, Idle
    <3> QED BY <2>3, <3>1, <3>2 DEF ClockTypeOK
  <2>8. \A x \in Sweepers :
          sweep'[x] # Idle => sweep'[x].at \in Moments /\ sweep'[x].at <= now'
    BY DEF ClockTypeOK
  <2> QED BY <2>4, <2>6, <2>7, <2>8
<1>7. ASSUME NEW w \in Sweepers, SweepSkip(w) PROVE ClockInv'
  <2> USE <1>7 DEF SweepSkip
  <2>1. ClockTypeOK'
    BY DEF ClockTypeOK, Idle
  <2>2. \A x \in Sweepers :
          sweep'[x] # Idle => sweep'[x].at \in Moments /\ sweep'[x].at <= now'
    BY DEF ClockTypeOK
  <2> QED BY <2>1, <2>2
<1>8. CASE UNCHANGED clockVars
  BY <1>8 DEF clockVars, ClockTypeOK
<1> QED BY <1>1, <1>2, <1>3, <1>4, <1>5, <1>6, <1>7, <1>8 DEF ClockNext

(* The invariant holds in every behaviour of the clocks.                    *)
THEOREM ClockInvariant == ClockSpec => []ClockInv
<1> QED BY InitInv, NextInv, PTL DEF ClockSpec

(* The types of the ticket's clocks and of the running sweeps               *)
(* (sla/models.py and evaluate_open_slas).                                  *)
THEOREM ClockTypes == ClockSpec => []ClockTypeOK
<1>1. ClockInv => ClockTypeOK
  BY DEF ClockInv
<1> QED BY <1>1, ClockInvariant, PTL

(* Pausing and resuming never lose or create entitlement, for every         *)
(* calendar, target and workflow (pause_sla, resume_sla).                   *)
THEOREM EntitlementTheorem == ClockSpec => []EntitlementConserved
<1>1. ClockInv => EntitlementConserved
  <2> SUFFICES ASSUME ClockInv, NEW k \in Kinds PROVE EntitlementOf(k)
    BY DEF EntitlementConserved
  <2>1. Sound(k, sla[k], ran[k], now)
    BY ClockFacts
  <2> QED BY <2>1 DEF Sound, EntitlementOf
<1> QED BY <1>1, ClockInvariant, PTL

(* A clock is met or breached only as it has earned (complete_sla and       *)
(* evaluate_open_slas), whatever time the sweeps hold.                      *)
THEOREM VerdictTheorem == ClockSpec => []VerdictsEarned
<1>1. ClockInv => VerdictsEarned
  <2> SUFFICES ASSUME ClockInv PROVE VerdictsEarned
    OBVIOUS
  <2>1. \A k \in Kinds : Sound(k, sla[k], ran[k], now)
    BY ClockFacts
  <2> QED BY <2>1 DEF Sound, VerdictsEarned
<1> QED BY <1>1, ClockInvariant, PTL

(* A clock escalates at most once, and not before its share is used         *)
(* (_record_escalation), however many sweeps overlap.                       *)
THEOREM EscalationTheorem == ClockSpec => []EscalationEarnedOnce
<1>1. ClockInv => EscalationEarnedOnce
  <2> SUFFICES ASSUME ClockInv PROVE EscalationEarnedOnce
    OBVIOUS
  <2>1. \A k \in Kinds : /\ Sound(k, sla[k], ran[k], now)
                         /\ alerts[k] = IF sla[k].escalated THEN 1 ELSE 0
    BY ClockFacts
  <2> QED BY <2>1 DEF Sound, Share, EscalationEarnedOnce
<1> QED BY <1>1, ClockInvariant, PTL

-----------------------------------------------------------------------------
(* Freezing and the workflow.                                               *)

(* What a status change makes of the state of one clock.                    *)
LEMMA SyncStates ==
  ASSUME ClockTypeOK, NEW from \in Statuses, NEW to \in Statuses, NEW k \in Kinds
  PROVE  LET old == sla[k]
             new == SyncSlasForTransition(sla, Waiting, from, to, now)[k]
         IN  /\ to \in DOMAIN Waiting /\ old.state \in Open => new.state = Waiting[to]
             /\ to \in DOMAIN Waiting /\ old.state \notin Open => new.state = old.state
             /\ to \notin DOMAIN Waiting /\ new.state \in Paused =>
                  from \notin DOMAIN Waiting /\ old.state \in Paused
             /\ old.state = "breached" =>
                  new.state = "breached" \/ (k = "resolution" /\ to = "reopened")
<1> DEFINE old == sla[k]
           mid == FreezeOrRelease(old, Waiting, from, to, now)
           new == SyncSlasForTransition(sla, Waiting, from, to, now)[k]
<1>0. old \in SlaInstances
  BY DEF ClockTypeOK
<1>1. new = IF k = "resolution" /\ to = "resolved" THEN CompleteSla(mid, now)
            ELSE IF k = "resolution" /\ to = "reopened" THEN RestartResolutionSla(now)
            ELSE mid
  BY DEF SyncSlasForTransition
<1>2. CASE to \in DOMAIN Waiting
  <2>1. to \notin {"resolved", "reopened"} /\ Waiting[to] \in Paused
    BY <1>2, OutcomeAssumption, WaitingAssumption
  <2>2. new = mid
    BY <1>1, <2>1
  <2>3. CASE old.state \in Open \ {Waiting[to]}
    <3>1. new = PauseSla(old, Waiting[to], now)
      BY <1>2, <2>2, <2>3 DEF FreezeOrRelease
    <3>2. new.state = Waiting[to]
      BY <1>0, <3>1 DEF PauseSla, SlaInstances
    <3> QED BY <1>2, <2>3, <3>2 DEF Open, Paused
  <2>4. CASE old.state \notin Open \ {Waiting[to]}
    <3>1. new = old
      BY <1>2, <2>2, <2>4 DEF FreezeOrRelease
    <3> QED BY <1>2, <2>1, <2>4, <3>1 DEF Open, Paused
  <2> QED BY <2>3, <2>4
<1>3. CASE to \notin DOMAIN Waiting
  <2>1. CASE from \in DOMAIN Waiting /\ old.state \in Paused
    <3>1. mid = ResumeSla(old, now) /\ old.state # "active" /\ old.state # "breached"
      BY <1>3, <2>1 DEF FreezeOrRelease, Paused
    <3>2. mid.state = "active"
      BY <1>0, <3>1 DEF ResumeSla, SlaInstances
    <3>3. CompleteSla(mid, now).state \notin Paused
      BY <3>2 DEF CompleteSla, Paused
    <3>4. RestartResolutionSla(now).state \notin Paused /\ mid.state \notin Paused
      BY <3>2 DEF RestartResolutionSla, StartedAt, Paused
    <3> HIDE DEF mid, new
    <3>5. new.state \notin Paused
      BY <1>1, <3>3, <3>4
    <3> QED BY <1>3, <3>1, <3>5 DEF new
  <2>2. CASE ~(from \in DOMAIN Waiting /\ old.state \in Paused)
    <3>1. mid = old
      BY <1>3, <2>2 DEF FreezeOrRelease
    <3>2. /\ CompleteSla(old, now).state \in Paused => old.state \in Paused
          /\ old.state = "breached" => CompleteSla(old, now).state = "breached"
      BY <1>0 DEF CompleteSla, SlaInstances, Paused
    <3>3. RestartResolutionSla(now).state \notin Paused
      BY DEF RestartResolutionSla, StartedAt, Paused
    <3> HIDE DEF mid, new
    <3>4. new.state \in Paused => old.state \in Paused
      BY <1>1, <3>1, <3>2, <3>3
    <3>5. old.state = "breached" =>
            new.state = "breached" \/ (k = "resolution" /\ to = "reopened")
      BY <1>1, <3>1, <3>2
    <3> QED BY <1>3, <2>2, <3>4, <3>5 DEF new
  <2> QED BY <2>1, <2>2
<1> QED BY <1>2, <1>3

(* A verdict or a sweep freezes nothing and keeps every breach.             *)
LEMMA OtherStates ==
  ASSUME NEW k \in Kinds, NEW inst \in SlaInstances, NEW t
  PROVE  /\ CompleteSla(inst, t).state \in Paused => CompleteSla(inst, t).state = inst.state
         /\ inst.state = "breached" => CompleteSla(inst, t).state = "breached"
         /\ EvaluateSla(k, inst, t).state \in Paused => EvaluateSla(k, inst, t).state = inst.state
         /\ inst.state = "breached" => EvaluateSla(k, inst, t).state = "breached"
BY DEF CompleteSla, EvaluateSla, SlaInstances, Paused

(* No clock stays frozen when the ticket has left the waiting status        *)
(* (sync_slas_for_transition), in every workflow.                           *)
THEOREM FrozenTheorem == ClockSpec => []FrozenOnlyWhileWaiting
<1>1. ClockInit => FrozenOnlyWhileWaiting
  BY DEF ClockInit, FrozenOnlyWhileWaiting, NoInstance, Paused
<1>2. ClockTypeOK /\ FrozenOnlyWhileWaiting /\ [ClockNext]_clockVars => FrozenOnlyWhileWaiting'
  <2> SUFFICES ASSUME ClockTypeOK, FrozenOnlyWhileWaiting, [ClockNext]_clockVars,
                      NEW k \in Kinds, sla'[k].state \in Paused
               PROVE  status' \in DOMAIN Waiting /\ sla'[k].state = Waiting[status']
    BY DEF FrozenOnlyWhileWaiting
  <2>0. sla[k] \in SlaInstances
    BY DEF ClockTypeOK
  <2>1. ASSUME NEW i \in Kinds, InstantiateSla(i)
        PROVE  status' \in DOMAIN Waiting /\ sla'[k].state = Waiting[status']
    BY <2>1 DEF InstantiateSla, StartedAt, Paused, ClockTypeOK, FrozenOnlyWhileWaiting
  <2>2. ASSUME NEW to \in Statuses, SyncStatus(to) PROVE status' \in DOMAIN Waiting /\ sla'[k].state = Waiting[status']
    <3>1. sla'[k] = SyncSlasForTransition(sla, Waiting, status, to, now)[k] /\ status' = to
      BY <2>2 DEF SyncStatus
    <3>2. status \in Statuses
      BY DEF ClockTypeOK
    <3>3. CASE to \in DOMAIN Waiting
      BY <3>1, <3>2, <3>3, SyncStates DEF Open
    <3>4. CASE to \notin DOMAIN Waiting
      BY <3>1, <3>2, <3>4, SyncStates DEF FrozenOnlyWhileWaiting
    <3> QED BY <3>3, <3>4
  <2>3. CASE FirstResponse
    <3>1. sla'[k].state = sla[k].state
      BY <2>0, <2>3, OtherStates DEF FirstResponse, ClockTypeOK
    <3> QED BY <2>3, <3>1 DEF FirstResponse, FrozenOnlyWhileWaiting
  <2>4. CASE Tick
    BY <2>4 DEF Tick, FrozenOnlyWhileWaiting
  <2>5. ASSUME NEW w \in Sweepers, SweepStart(w) \/ SweepSkip(w) PROVE status' \in DOMAIN Waiting /\ sla'[k].state = Waiting[status']
    BY <2>5 DEF SweepStart, SweepSkip, FrozenOnlyWhileWaiting
  <2>6. ASSUME NEW w \in Sweepers, NEW due \in SUBSET Kinds, SweepTicket(w, due)
        PROVE  status' \in DOMAIN Waiting /\ sla'[k].state = Waiting[status']
    <3>1. sla'[k].state = sla[k].state
      BY <2>0, <2>6, OtherStates DEF SweepTicket
    <3> QED BY <2>6, <3>1 DEF SweepTicket, FrozenOnlyWhileWaiting
  <2>7. CASE UNCHANGED clockVars
    BY <2>7 DEF clockVars, FrozenOnlyWhileWaiting
  <2> QED BY <2>1, <2>2, <2>3, <2>4, <2>5, <2>6, <2>7 DEF ClockNext
<1> QED BY <1>1, <1>2, ClockTypes, PTL DEF ClockSpec

(* Entering a waiting status freezes every running clock.                   *)
THEOREM WaitingFreezesTheorem == ClockSpec => WaitingFreezes
<1>1. ClockTypeOK /\ [ClockNext]_clockVars =>
        [status' # status /\ status' \in DOMAIN Waiting =>
           \A k \in Kinds : sla'[k].state # "active"]_clockVars
  <2> SUFFICES ASSUME ClockTypeOK, ClockNext,
                      status' # status, status' \in DOMAIN Waiting, NEW k \in Kinds
               PROVE  sla'[k].state # "active"
    OBVIOUS
  <2>1. PICK to \in Statuses : SyncStatus(to)
    BY DEF ClockNext, InstantiateSla, FirstResponse, Tick, SweepStart, SweepTicket, SweepSkip
  <2>2. sla'[k] = SyncSlasForTransition(sla, Waiting, status, to, now)[k] /\ status' = to
    BY <2>1 DEF SyncStatus
  <2>3. status \in Statuses /\ Waiting[to] \in Paused
    BY <2>2, WaitingAssumption DEF ClockTypeOK
  <2> QED BY <2>2, <2>3, SyncStates DEF Open, Paused
<1> QED BY <1>1, ClockTypes, PTL DEF ClockSpec, WaitingFreezes

(* A recorded breach outlives everything but a reopening of the ticket.     *)
THEOREM BreachKeptTheorem == ClockSpec => BreachKept
<1>1. ClockTypeOK /\ [ClockNext]_clockVars =>
        [\A k \in Kinds :
           sla[k].state = "breached" =>
             \/ sla'[k].state = "breached"
             \/ k = "resolution" /\ status' = "reopened"]_clockVars
  <2> SUFFICES ASSUME ClockTypeOK, ClockNext, NEW k \in Kinds, sla[k].state = "breached",
                      ~(k = "resolution" /\ status' = "reopened")
               PROVE  sla'[k].state = "breached"
    OBVIOUS
  <2>0. sla[k] \in SlaInstances /\ status \in Statuses
    BY DEF ClockTypeOK
  <2>1. ASSUME NEW i \in Kinds, InstantiateSla(i) PROVE sla'[k].state = "breached"
    BY <2>1 DEF InstantiateSla
  <2>2. ASSUME NEW to \in Statuses, SyncStatus(to) PROVE sla'[k].state = "breached"
    <3>1. sla'[k] = SyncSlasForTransition(sla, Waiting, status, to, now)[k] /\ status' = to
      BY <2>2 DEF SyncStatus
    <3> QED BY <2>0, <3>1, SyncStates
  <2>3. CASE FirstResponse
    BY <2>0, <2>3, OtherStates DEF FirstResponse, ClockTypeOK
  <2>4. CASE Tick \/ \E w \in Sweepers : SweepStart(w) \/ SweepSkip(w)
    BY <2>4 DEF Tick, SweepStart, SweepSkip
  <2>5. ASSUME NEW w \in Sweepers, NEW due \in SUBSET Kinds, SweepTicket(w, due)
        PROVE  sla'[k].state = "breached"
    BY <2>0, <2>5, OtherStates DEF SweepTicket
  <2> QED BY <2>1, <2>2, <2>3, <2>4, <2>5 DEF ClockNext
<1> QED BY <1>1, ClockTypes, PTL DEF ClockSpec, BreachKept

-----------------------------------------------------------------------------
(* The ticket implements the clocks.                                       *)

(* A new ticket has no clocks yet.                                         *)
LEMMA InitClocks == TicketInit => ClockInit
BY DEF TicketInit

(* Whoever writes the status takes a synchronised edge between statuses.   *)
LEMMA EnteredStatus ==
  ASSUME NEW to, EnterStatus(to)
  PROVE  status' = to /\ status \in Statuses /\ to \in Statuses
<1>1. <<status, to>> \in Edges /\ status' = to
  BY DEF EnterStatus, SyncStatus
<1> QED BY <1>1 DEF Statuses

(* A status change of any service is a synchronised step of the clocks.    *)
LEMMA EnterIsSync ==
  ASSUME NEW to, EnterStatus(to)
  PROVE  ClockNext
<1>1. to \in Statuses
  BY EnteredStatus
<1>2. SyncStatus(to)
  BY DEF EnterStatus
<1> QED BY <1>1, <1>2 DEF ClockNext

(* What staff do to a ticket is a step of its clocks, or none.             *)
LEMMA StaffKeepsClocks ==
  ASSUME NEW a \in Staff, StaffStep(a)
  PROVE  ClockNext \/ UNCHANGED clockVars
<1>1. CASE Read(a)
  BY <1>1 DEF Read
<1>2. ASSUME NEW to \in Statuses, Transition(a, to) PROVE ClockNext
  BY <1>2, EnterIsSync DEF Transition
<1>3. ASSUME NEW to \in Statuses, NEW s \in Staff, Escalate(a, to, s) PROVE ClockNext
  BY <1>3, EnterIsSync DEF Escalate
<1>4. ASSUME NEW b \in Staff \union {Nobody}, AssignTicket(a, b)
      PROVE  ClockNext \/ UNCHANGED clockVars
  <2>1. CASE MovesToAssigned(a, b)
    BY <1>4, <2>1, EnterIsSync DEF AssignTicket, MovesToAssigned
  <2>2. CASE ~MovesToAssigned(a, b)
    BY <1>4, <2>2 DEF AssignTicket, KeepStatus
  <2> QED BY <2>1, <2>2
<1>5. ASSUME NEW q \in Queues \union {Nobody}, NEW b \in Staff \union {Nobody},
             RouteTicket(a, q, b)
      PROVE  UNCHANGED clockVars
  BY <1>5 DEF RouteTicket, Reallocate, KeepStatus
<1>6. CASE UpdateWorkState(a)
  BY <1>6 DEF UpdateWorkState, KeepStatus
<1> QED BY <1>1, <1>2, <1>3, <1>4, <1>5, <1>6 DEF StaffStep

(* What the system does to a ticket is a step of its clocks, or none.      *)
LEMMA SystemKeepsClocks ==
  ASSUME SystemStep
  PROVE  ClockNext \/ UNCHANGED clockVars
<1>1. ASSUME NEW b \in Staff \union {Nobody}, AssignTicketBySystem(b)
      PROVE  UNCHANGED clockVars
  BY <1>1 DEF AssignTicketBySystem, KeepStatus
<1>2. ASSUME NEW q \in Queues \union {Nobody}, NEW b \in Staff \union {Nobody},
             RouteTicketBySystem(q, b)
      PROVE  UNCHANGED clockVars
  BY <1>2 DEF RouteTicketBySystem, Reallocate, KeepStatus
<1>3. CASE AddMessage
  BY <1>3 DEF AddMessage, ClockNext
<1>4. ASSUME NEW w \in Sweepers, NEW due \in SUBSET Kinds, EvaluateSlas(w, due) PROVE ClockNext
  BY <1>4 DEF EvaluateSlas, ClockNext
<1>5. CASE ClockOnly
  BY <1>5 DEF ClockOnly, ClockNext
<1> QED BY <1>1, <1>2, <1>3, <1>4, <1>5 DEF SystemStep

(* The lifecycle implements SlaClock: staff, routing, replies and system   *)
(* processes change the clocks only as one of its actions does.            *)
THEOREM ClocksImplemented == TicketSpec => ClockSpec
<1>1. [TicketNext]_ticketVars => [ClockNext]_clockVars
  <2> SUFFICES ASSUME [TicketNext]_ticketVars PROVE ClockNext \/ UNCHANGED clockVars
    OBVIOUS
  <2>1. CASE SystemStep
    BY <2>1, SystemKeepsClocks
  <2>2. ASSUME NEW a \in Staff, StaffStep(a) PROVE ClockNext \/ UNCHANGED clockVars
    BY <2>2, StaffKeepsClocks
  <2>3. CASE UNCHANGED ticketVars
    BY <2>3 DEF ticketVars
  <2> QED BY <2>1, <2>2, <2>3 DEF TicketNext
<1> QED BY <1>1, InitClocks, PTL DEF TicketSpec, ClockSpec

(* No service of the ticket loses or creates SLA entitlement.              *)
THEOREM TicketEntitlement == TicketSpec => []EntitlementConserved
BY ClocksImplemented, EntitlementTheorem, PTL

(* No service of the ticket leaves a clock frozen outside the waiting      *)
(* status that froze it.                                                   *)
THEOREM TicketFrozen == TicketSpec => []FrozenOnlyWhileWaiting
BY ClocksImplemented, FrozenTheorem, PTL

-----------------------------------------------------------------------------
(* Version tokens.                                                         *)

(* A user whose token is current sees the ticket as it is; no token is from*)
(* the future.                                                             *)
TokenInv ==
  /\ version \in 0 .. MaxVersion
  /\ DOMAIN views = Staff
  /\ \A a \in Staff :
       /\ views[a].version \in 0 .. version
       /\ UpToDate(a) => views[a].facts = Facts

(* What every step does to the row and to the views of it.                 *)
ReadStep(a) ==
  views' = [views EXCEPT ![a] = View] /\ UNCHANGED <<status, owner, queue, version>>
Saved == version' \in 0 .. MaxVersion /\ version' > version
RequestStep(a) == UpToDate(a) /\ Respond(a) /\ Saved
UnseenStep ==
  /\ UNCHANGED views
  /\ \/ UNCHANGED <<status, owner, queue, version>>
     \/ Saved

(* A save gives the row a token it never had.                              *)
LEMMA SaveAdvances ==
  ASSUME version \in 0 .. MaxVersion, NEW n \in {1, 2}, Save(n)
  PROVE  Saved
BY BoundsAssumption DEF Save, Saved

(* A step lets a user read, answers one whose view was current, or nobody. *)
LEMMA StepKinds ==
  ASSUME version \in 0 .. MaxVersion, [TicketNext]_ticketVars
  PROVE  UnseenStep \/ \E a \in Staff : ReadStep(a) \/ RequestStep(a)
<1>1. CASE UNCHANGED ticketVars
  BY <1>1 DEF ticketVars, clockVars, rowVars, UnseenStep
<1>2. CASE SystemStep
  <2>1. ASSUME NEW b \in Staff \union {Nobody}, AssignTicketBySystem(b) PROVE UnseenStep
    BY <2>1, SaveAdvances DEF AssignTicketBySystem, UnseenStep
  <2>2. ASSUME NEW q \in Queues \union {Nobody}, NEW b \in Staff \union {Nobody},
               RouteTicketBySystem(q, b)
        PROVE  UnseenStep
    BY <2>2, SaveAdvances DEF RouteTicketBySystem, Reallocate, UnseenStep
  <2>3. CASE AddMessage
    BY <2>3, SaveAdvances DEF AddMessage, UnseenStep
  <2>4. ASSUME NEW w \in Sweepers, NEW due \in SUBSET Kinds, EvaluateSlas(w, due) PROVE UnseenStep
    BY <2>4 DEF EvaluateSlas, SweepTicket, rowVars, UnseenStep
  <2>5. CASE ClockOnly
    BY <2>5 DEF ClockOnly, InstantiateSla, Tick, SweepStart, SweepSkip, rowVars, UnseenStep
  <2> QED BY <1>2, <2>1, <2>2, <2>3, <2>4, <2>5 DEF SystemStep
<1>3. ASSUME NEW a \in Staff, StaffStep(a) PROVE ReadStep(a) \/ RequestStep(a)
  <2>1. CASE Read(a)
    BY <2>1 DEF Read, clockVars, rowVars, ReadStep
  <2>2. ASSUME NEW to \in Statuses, Transition(a, to) PROVE RequestStep(a)
    BY <2>2, SaveAdvances DEF Transition, RequestStep
  <2>3. ASSUME NEW to \in Statuses, NEW s \in Staff, Escalate(a, to, s) PROVE RequestStep(a)
    BY <2>3, SaveAdvances DEF Escalate, RequestStep
  <2>4. ASSUME NEW b \in Staff \union {Nobody}, AssignTicket(a, b) PROVE RequestStep(a)
    <3>1. Save(1) \/ Save(2)
      BY <2>4 DEF AssignTicket
    <3>2. Saved
      BY <3>1, SaveAdvances
    <3> QED BY <2>4, <3>2 DEF AssignTicket, RequestStep
  <2>5. ASSUME NEW q \in Queues \union {Nobody}, NEW b \in Staff \union {Nobody},
               RouteTicket(a, q, b)
        PROVE  RequestStep(a)
    BY <2>5, SaveAdvances DEF RouteTicket, Reallocate, RequestStep
  <2>6. CASE UpdateWorkState(a)
    BY <2>6, SaveAdvances DEF UpdateWorkState, RequestStep
  <2> QED BY <1>3, <2>1, <2>2, <2>3, <2>4, <2>5, <2>6 DEF StaffStep
<1> QED BY <1>1, <1>2, <1>3 DEF TicketNext

(* Every user starts with the token of the new ticket.                     *)
LEMMA TokenInit == TicketInit => TokenInv
<1> SUFFICES ASSUME TicketInit PROVE TokenInv
  OBVIOUS
<1>1. version = 0 /\ DOMAIN views = Staff
  BY DEF TicketInit
<1>2. ASSUME NEW a \in Staff PROVE views[a].version = version /\ views[a].facts = Facts
  BY DEF TicketInit, View
<1> QED BY <1>1, <1>2, BoundsAssumption DEF TokenInv, UpToDate

(* A view with the current token shows the current facts, after every step.*)
LEMMA TokenNext == TokenInv /\ [TicketNext]_ticketVars => TokenInv'
<1> SUFFICES ASSUME TokenInv, [TicketNext]_ticketVars PROVE TokenInv'
  OBVIOUS
<1>1. CASE UnseenStep
  BY <1>1, BoundsAssumption DEF TokenInv, UnseenStep, Saved, UpToDate, Facts
<1>2. ASSUME NEW a \in Staff, ReadStep(a) PROVE TokenInv'
  BY <1>2 DEF TokenInv, ReadStep, UpToDate, View, Facts
<1>3. ASSUME NEW a \in Staff, RequestStep(a) PROVE TokenInv'
  <2>1. /\ version' \in 0 .. MaxVersion /\ DOMAIN views' = Staff
        /\ views'[a].version = version' /\ views'[a].facts = Facts'
    BY <1>3 DEF TokenInv, RequestStep, Saved, Respond, View
  <2>2. ASSUME NEW b \in Staff, b # a
        PROVE  views'[b].version \in 0 .. version' /\ views'[b].version # version'
    BY <1>3, <2>2, BoundsAssumption DEF TokenInv, RequestStep, Saved, Respond
  <2> QED BY <2>1, <2>2 DEF TokenInv, UpToDate
<1> QED BY <1>1, <1>2, <1>3, StepKinds DEF TokenInv

(* No request changes facts that differ from those its user was shown,     *)
(* whichever other services committed in between.                          *)
THEOREM NoLostUpdateTheorem == TicketSpec => NoLostUpdate
<1>1. TokenInv /\ [TicketNext]_ticketVars =>
        [\A a \in Staff :
           Facts' # Facts /\ views'[a] # views[a] => views[a].facts = Facts]_ticketVars
  <2> SUFFICES ASSUME TokenInv, [TicketNext]_ticketVars, NEW a \in Staff,
                      Facts' # Facts, views'[a] # views[a]
               PROVE  views[a].facts = Facts
    OBVIOUS
  <2>1. PICK b \in Staff : RequestStep(b)
    BY StepKinds DEF TokenInv, UnseenStep, ReadStep, Facts
  <2>2. a = b
    BY <2>1 DEF TokenInv, RequestStep, Respond
  <2> QED BY <2>1, <2>2 DEF TokenInv, RequestStep
<1> QED BY <1>1, TokenInit, TokenNext, PTL DEF TicketSpec, NoLostUpdate

-----------------------------------------------------------------------------
(* Ledgers.                                                                *)

(* Appending an event: what the ledger tells of its first n events stays.  *)
LEMMA PrefixTells ==
  ASSUME NEW S, NEW l \in Seq(S), NEW m \in Seq(S), Custody!Extends(l, m),
         NEW n \in 0 .. Len(l), NEW x, NEW v, Custody!Tells(l, n, x, v)
  PROVE  Custody!Tells(m, n, x, v)
<1>1. \A i \in 1 .. n : i \in 1 .. Len(l) /\ m[i] = l[i]
  BY DEF Custody!Extends
<1>2. \A j \in 1 .. n : \A i \in j + 1 .. n : m[i] = l[i]
  BY <1>1
<1>3. CASE \E j \in 1 .. n : /\ x \in DOMAIN l[j].new /\ l[j].new[x] = v
                             /\ \A i \in j + 1 .. n : x \notin DOMAIN l[i].new
  <2>1. PICK j \in 1 .. n : /\ x \in DOMAIN l[j].new /\ l[j].new[x] = v
                            /\ \A i \in j + 1 .. n : x \notin DOMAIN l[i].new
    BY <1>3
  <2>2. /\ x \in DOMAIN m[j].new /\ m[j].new[x] = v
        /\ \A i \in j + 1 .. n : x \notin DOMAIN m[i].new
    BY <1>1, <1>2, <2>1
  <2> QED BY <2>2 DEF Custody!Tells
<1>4. CASE v = Nobody /\ \A i \in 1 .. n : x \notin DOMAIN l[i].new
  BY <1>1, <1>4 DEF Custody!Tells
<1> QED BY <1>3, <1>4 DEF Custody!Tells

(* One more event: it starts from the facts f and leads to the facts g.    *)
LEMMA ChainOne ==
  ASSUME NEW S, NEW l \in Seq(S), NEW e \in S, NEW f, NEW g,
         DOMAIN g = DOMAIN f, Custody!TellsAll(l, f), Custody!Continuous(l),
         \A x \in DOMAIN e.prev : x \in DOMAIN f /\ e.prev[x] = f[x],
         \A x \in DOMAIN f : g[x] = IF x \in DOMAIN e.new THEN e.new[x] ELSE f[x]
  PROVE  /\ Append(l, e) \in Seq(S)
         /\ Custody!Extends(l, Append(l, e))
         /\ Custody!Continuous(Append(l, e))
         /\ Custody!TellsAll(Append(l, e), g)
<1> DEFINE m == Append(l, e)
<1>1. /\ m \in Seq(S) /\ Len(m) = Len(l) + 1 /\ Len(l) \in Nat
      /\ m[Len(m)] = e /\ \A i \in 1 .. Len(l) : m[i] = l[i]
  OBVIOUS
<1> HIDE DEF m
<1>2. Custody!Extends(l, m)
  BY <1>1 DEF Custody!Extends
<1>3. ASSUME NEW i \in 1 .. Len(m), NEW x \in DOMAIN m[i].prev
      PROVE  Custody!Tells(m, i - 1, x, m[i].prev[x])
  <2>1. CASE i \in 1 .. Len(l)
    <3>1. Custody!Tells(l, i - 1, x, l[i].prev[x])
      BY <1>1, <1>3, <2>1 DEF Custody!Continuous
    <3>2. i - 1 \in 0 .. Len(l)
      BY <1>1, <2>1
    <3> QED BY <1>1, <1>2, <2>1, <3>1, <3>2, PrefixTells
  <2>2. CASE i = Len(m)
    <3>1. x \in DOMAIN f /\ m[i].prev[x] = f[x]
      BY <1>1, <1>3, <2>2
    <3>2. Custody!Tells(l, Len(l), x, f[x])
      BY <3>1 DEF Custody!TellsAll
    <3>3. Custody!Tells(m, Len(l), x, f[x])
      <4>1. Len(l) \in 0 .. Len(l)
        BY <1>1
      <4> QED BY <1>1, <1>2, <3>2, <4>1, PrefixTells
    <3> QED BY <1>1, <2>2, <3>1, <3>3
  <2> QED BY <1>1, <1>3, <2>1, <2>2
<1>4. ASSUME NEW x \in DOMAIN g PROVE Custody!Tells(m, Len(m), x, g[x])
  <2>1. CASE x \in DOMAIN e.new
    BY <1>1, <1>4, <2>1 DEF Custody!Tells
  <2>2. CASE x \notin DOMAIN e.new
    <3>1. Custody!Tells(l, Len(l), x, g[x])
      BY <1>4, <2>2 DEF Custody!TellsAll
    <3> QED BY <1>1, <2>2, <3>1 DEF Custody!Tells
  <2> QED BY <2>1, <2>2
<1> QED BY <1>1, <1>2, <1>3, <1>4 DEF m, Custody!Continuous, Custody!TellsAll

(* Events that restate a fact, as a sweep writes one for each clock.       *)
LEMMA ChainSame ==
  ASSUME NEW S, NEW l \in Seq(S), NEW e \in S, NEW n \in Nat, NEW f,
         Custody!TellsAll(l, f), Custody!Continuous(l), e.new = e.prev,
         \A x \in DOMAIN e.prev : x \in DOMAIN f /\ e.prev[x] = f[x]
  PROVE  LET m == l \o [i \in 1 .. n |-> e]
         IN  /\ m \in Seq(S)
             /\ Custody!Extends(l, m)
             /\ Custody!Continuous(m)
             /\ Custody!TellsAll(m, f)
<1> DEFINE m == l \o [i \in 1 .. n |-> e]
<1>1. /\ m \in Seq(S) /\ Len(m) = Len(l) + n /\ Len(l) \in Nat
      /\ \A i \in 1 .. Len(l) : m[i] = l[i]
      /\ \A i \in Len(l) + 1 .. Len(m) : m[i] = e
  <2>1. [i \in 1 .. n |-> e] \in Seq(S) /\ Len([i \in 1 .. n |-> e]) = n
    OBVIOUS
  <2> QED BY <2>1
<1> HIDE DEF m
<1>2. Custody!Extends(l, m)
  BY <1>1 DEF Custody!Extends
<1>3. ASSUME NEW j \in Len(l) .. Len(m), NEW x \in DOMAIN f PROVE Custody!Tells(m, j, x, f[x])
  <2>1. Custody!Tells(l, Len(l), x, f[x])
    BY DEF Custody!TellsAll
  <2>2. CASE x \notin DOMAIN e.new
    <3>1. Len(l) \in 0 .. Len(l)
      BY <1>1
    <3>2. Custody!Tells(m, Len(l), x, f[x])
      BY <1>1, <1>2, <2>1, <3>1, PrefixTells
    <3>3. \A p \in Len(l) + 1 .. j : x \notin DOMAIN m[p].new
      BY <1>1, <2>2
    <3> QED BY <1>1, <3>2, <3>3 DEF Custody!Tells
  <2>3. CASE x \in DOMAIN e.new /\ j > Len(l)
    <3>1. j \in 1 .. j /\ m[j] = e
      BY <1>1, <2>3
    <3> QED BY <2>3, <3>1 DEF Custody!Tells
  <2>4. CASE j = Len(l)
    <3>1. Len(l) \in 0 .. Len(l)
      BY <1>1
    <3> QED BY <1>1, <1>2, <2>1, <2>4, <3>1, PrefixTells
  <2>5. j = Len(l) \/ j > Len(l)
    BY <1>1
  <2> QED BY <2>2, <2>3, <2>4, <2>5
<1>4. ASSUME NEW i \in 1 .. Len(m), NEW x \in DOMAIN m[i].prev
      PROVE  Custody!Tells(m, i - 1, x, m[i].prev[x])
  <2>1. CASE i \in 1 .. Len(l)
    <3>1. Custody!Tells(l, i - 1, x, l[i].prev[x])
      BY <1>1, <1>4, <2>1 DEF Custody!Continuous
    <3>2. i - 1 \in 0 .. Len(l)
      BY <1>1, <2>1
    <3> QED BY <1>1, <1>2, <2>1, <3>1, <3>2, PrefixTells
  <2>2. CASE i \in Len(l) + 1 .. Len(m)
    <3>1. x \in DOMAIN f /\ m[i].prev[x] = f[x] /\ i - 1 \in Len(l) .. Len(m)
      BY <1>1, <1>4, <2>2
    <3> QED BY <1>3, <3>1
  <2> QED BY <1>1, <2>1, <2>2
<1>5. Len(m) \in Len(l) .. Len(m)
  BY <1>1
<1> QED BY <1>1, <1>2, <1>3, <1>4, <1>5 DEF m, Custody!Continuous, Custody!TellsAll

-----------------------------------------------------------------------------
(* The ledger of the ticket.                                               *)

Owners == Staff \union {Nobody}
OwnerSources == {"ticket.assignment", "ticket.escalation", "ticket.routing", "system"}
ItSources == {"ticket.it_child.create", "ticket.it_child.sync"}

(* The event of ItChild, with the facts it is written from.                *)
ItEvent(p, s, t, q) ==
  [type |-> "status_changed", source |-> p,
   prev |-> [status |-> s, queue |-> q], new |-> [status |-> t, queue |-> q]]

CustodyEvents ==
  {CreatedEvent(s) : s \in Statuses}
  \union {TransitionEvent(s, t) : s, t \in Statuses}
  \union {OwnerEvent(p, o, u) : p \in OwnerSources, o, u \in Owners}
  \union {QueueEvent(q, r) : q, r \in Queues \union {Nobody}}
  \union {EscalationEvent(s) : s \in Statuses}
  \union {ItEvent(p, s, t, q) : p \in ItSources, s, t \in Statuses,
                               q \in Queues \union {Nobody}}

(* The ledger is unbroken and tells the present facts.                     *)
LedgerInv ==
  /\ status \in Statuses
  /\ owner \in Owners
  /\ queue \in Queues \union {Nobody}
  /\ ledger \in Seq(CustodyEvents)
  /\ Custody!Continuous(ledger)
  /\ Custody!TellsAll(ledger, Facts)

(* What a transaction must show of the ledger.                             *)
Recorded ==
  /\ ledger' \in Seq(CustodyEvents)
  /\ Custody!Extends(ledger, ledger')
  /\ Custody!Continuous(ledger')
  /\ Custody!TellsAll(ledger', Facts')
  /\ ledger' = ledger => Facts' = Facts

(* One event that goes from the old facts to the new ones.                 *)
Fits(e, f, g) ==
  /\ DOMAIN g = DOMAIN f
  /\ \A x \in DOMAIN e.prev : x \in DOMAIN f /\ e.prev[x] = f[x]
  /\ \A x \in DOMAIN f : g[x] = IF x \in DOMAIN e.new THEN e.new[x] ELSE f[x]

(* A transaction that writes one such event.                               *)
LEMMA OneRecorded ==
  ASSUME LedgerInv, NEW e \in CustodyEvents, ledger' = ledger \o <<e>>, Fits(e, Facts, Facts')
  PROVE  Recorded
<1>1. ledger' = Append(ledger, e) /\ ledger' # ledger
  BY DEF LedgerInv
<1>2. ledger \in Seq(CustodyEvents) /\ Custody!Continuous(ledger) /\ Custody!TellsAll(ledger, Facts)
  BY DEF LedgerInv
<1>3. /\ Append(ledger, e) \in Seq(CustodyEvents)
      /\ Custody!Extends(ledger, Append(ledger, e))
      /\ Custody!Continuous(Append(ledger, e))
      /\ Custody!TellsAll(Append(ledger, e), Facts')
  BY <1>2, ChainOne DEF Fits
<1> QED BY <1>1, <1>3 DEF Recorded

(* A transaction that writes two, with the facts h between them.           *)
LEMMA TwoRecorded ==
  ASSUME LedgerInv, NEW d \in CustodyEvents, NEW e \in CustodyEvents, NEW h,
         ledger' = ledger \o <<d, e>>, Fits(d, Facts, h), Fits(e, h, Facts')
  PROVE  Recorded
<1>1. ledger' = Append(Append(ledger, d), e) /\ ledger' # ledger
  BY DEF LedgerInv
<1>2. ledger \in Seq(CustodyEvents) /\ Custody!Continuous(ledger) /\ Custody!TellsAll(ledger, Facts)
  BY DEF LedgerInv
<1> DEFINE m == Append(ledger, d)
<1>3. /\ m \in Seq(CustodyEvents) /\ Custody!Extends(ledger, m)
      /\ Custody!Continuous(m) /\ Custody!TellsAll(m, h)
  BY <1>2, ChainOne DEF Fits
<1> HIDE DEF m
<1>4. /\ Append(m, e) \in Seq(CustodyEvents) /\ Custody!Extends(m, Append(m, e))
      /\ Custody!Continuous(Append(m, e)) /\ Custody!TellsAll(Append(m, e), Facts')
  BY <1>3, ChainOne DEF Fits
<1>5. Custody!Extends(ledger, Append(m, e))
  BY <1>3, <1>4 DEF Custody!Extends
<1> QED BY <1>1, <1>4, <1>5 DEF m, Recorded

(* A status event continues from the status it leaves.                     *)
LEMMA TransitionFits ==
  ASSUME NEW f, NEW g, NEW s \in Statuses, NEW t \in Statuses,
         DOMAIN f = {"status", "owner", "queue"}, f["status"] = s,
         DOMAIN g = DOMAIN f, g["status"] = t, g["owner"] = f["owner"], g["queue"] = f["queue"]
  PROVE  TransitionEvent(s, t) \in CustodyEvents /\ Fits(TransitionEvent(s, t), f, g)
<1>1. TransitionEvent(s, t) \in CustodyEvents
  BY DEF CustodyEvents
<1> QED BY <1>1 DEF TransitionEvent, Fits

(* An ownership event continues from the owner it takes the ticket from.   *)
LEMMA OwnerFits ==
  ASSUME NEW f, NEW g, NEW p \in OwnerSources, NEW o \in Owners, NEW u \in Owners,
         DOMAIN f = {"status", "owner", "queue"}, f["owner"] = o,
         DOMAIN g = DOMAIN f, g["owner"] = u, g["status"] = f["status"], g["queue"] = f["queue"]
  PROVE  OwnerEvent(p, o, u) \in CustodyEvents /\ Fits(OwnerEvent(p, o, u), f, g)
<1>1. OwnerEvent(p, o, u) \in CustodyEvents
  BY DEF CustodyEvents
<1> QED BY <1>1 DEF OwnerEvent, Fits

(* A routing event continues from the queue it takes the ticket from.      *)
LEMMA QueueFits ==
  ASSUME NEW f, NEW g, NEW q \in Queues \union {Nobody}, NEW r \in Queues \union {Nobody},
         DOMAIN f = {"status", "owner", "queue"}, f["queue"] = q,
         DOMAIN g = DOMAIN f, g["queue"] = r, g["status"] = f["status"], g["owner"] = f["owner"]
  PROVE  QueueEvent(q, r) \in CustodyEvents /\ Fits(QueueEvent(q, r), f, g)
<1>1. QueueEvent(q, r) \in CustodyEvents
  BY DEF CustodyEvents
<1> QED BY <1>1 DEF QueueEvent, Fits

(* The fields of the custody facts.                                        *)
LEMMA FactFields ==
  /\ DOMAIN Facts = {"status", "owner", "queue"}
  /\ Facts["status"] = status /\ Facts["owner"] = owner /\ Facts["queue"] = queue
BY DEF Facts

(* The fields of the custody facts after a step.                           *)
LEMMA NextFactFields ==
  /\ DOMAIN Facts' = {"status", "owner", "queue"}
  /\ Facts'["status"] = status' /\ Facts'["owner"] = owner' /\ Facts'["queue"] = queue'
BY DEF Facts

(* The facts between the two events of one transaction: the owner is new.  *)
LEMMA OwnerChanged ==
  ASSUME NEW u, NEW h, h = [Facts EXCEPT !.owner = u]
  PROVE  /\ DOMAIN h = {"status", "owner", "queue"}
         /\ h["status"] = status /\ h["owner"] = u /\ h["queue"] = queue
BY DEF Facts

(* The facts between the two events of a routing.                          *)
LEMMA QueueChanged ==
  ASSUME NEW q, NEW h, h = [Facts EXCEPT !.queue = q]
  PROVE  /\ DOMAIN h = {"status", "owner", "queue"}
         /\ h["status"] = status /\ h["owner"] = owner /\ h["queue"] = q
BY DEF Facts

(* A transition records its one event.                                     *)
LEMMA TransitionRecorded ==
  ASSUME LedgerInv, NEW a \in Staff, NEW to \in Statuses, Transition(a, to)
  PROVE  LedgerInv' /\ Recorded
<1>1. status' = to /\ owner' = owner /\ queue' = queue
  BY EnteredStatus DEF Transition
<1>2. ledger' = ledger \o <<TransitionEvent(status, to)>>
  BY DEF Transition, RecordCustody
<1>3. TransitionEvent(status, to) \in CustodyEvents
      /\ Fits(TransitionEvent(status, to), Facts, Facts')
  BY <1>1, FactFields, NextFactFields, TransitionFits DEF LedgerInv
<1>4. Recorded
  BY <1>2, <1>3, OneRecorded
<1> QED BY <1>1, <1>4 DEF LedgerInv, Recorded

(* An escalation records the change of owner before that of status.        *)
LEMMA EscalateRecorded ==
  ASSUME LedgerInv, NEW a \in Staff, NEW to \in Statuses, NEW s \in Staff, Escalate(a, to, s)
  PROVE  LedgerInv' /\ Recorded
<1>1. status' = to /\ owner' = s /\ queue' = queue
  BY EnteredStatus DEF Escalate
<1>2. Recorded
  <2>1. CASE owner = s
    <3>1. ledger' = ledger \o <<TransitionEvent(status, to)>>
      BY <2>1 DEF Escalate, RecordCustody, HandedTo
    <3>2. TransitionEvent(status, to) \in CustodyEvents
          /\ Fits(TransitionEvent(status, to), Facts, Facts')
      BY <1>1, <2>1, FactFields, NextFactFields, TransitionFits DEF LedgerInv
    <3> QED BY <3>1, <3>2, OneRecorded
  <2>2. CASE owner # s
    <3> DEFINE h == [Facts EXCEPT !.owner = s]
               d == OwnerEvent("ticket.escalation", owner, s)
               e == TransitionEvent(status, to)
    <3>1. ledger' = ledger \o <<d, e>>
      BY <2>2 DEF Escalate, RecordCustody, HandedTo
    <3>2. /\ DOMAIN h = {"status", "owner", "queue"}
          /\ h["status"] = status /\ h["owner"] = s /\ h["queue"] = queue
      BY OwnerChanged
    <3> HIDE DEF h
    <3>0. "ticket.escalation" \in OwnerSources /\ owner \in Owners /\ s \in Owners
      BY DEF LedgerInv, Owners, OwnerSources
    <3>3. d \in CustodyEvents /\ Fits(d, Facts, h)
      BY <3>0, <3>2, FactFields, OwnerFits
    <3>4. e \in CustodyEvents /\ Fits(e, h, Facts')
      BY <1>1, <3>2, NextFactFields, TransitionFits DEF LedgerInv
    <3> HIDE DEF d, e
    <3> QED BY <3>1, <3>3, <3>4, TwoRecorded
  <2> QED BY <2>1, <2>2
<1> QED BY <1>1, <1>2 DEF LedgerInv, Recorded, Owners

(* A change of owner alone.                                                *)
LEMMA OwnerRecorded ==
  ASSUME LedgerInv, NEW p \in OwnerSources, NEW u \in Owners,
         status' = status, queue' = queue, owner' = u,
         ledger' = ledger \o <<OwnerEvent(p, owner, u)>>
  PROVE  LedgerInv' /\ Recorded
<1>1. OwnerEvent(p, owner, u) \in CustodyEvents
      /\ Fits(OwnerEvent(p, owner, u), Facts, Facts')
  BY FactFields, NextFactFields, OwnerFits DEF LedgerInv
<1>2. Recorded
  BY <1>1, OneRecorded
<1> QED BY <1>2 DEF LedgerInv, Recorded

(* An assignment records the owner, then the transition it carries.        *)
LEMMA AssignRecorded ==
  ASSUME LedgerInv, NEW a \in Staff, NEW u \in Owners, AssignTicket(a, u)
  PROVE  LedgerInv' /\ Recorded
<1>1. CASE ~MovesToAssigned(a, u)
  <2>1. /\ status' = status /\ queue' = queue /\ owner' = u
        /\ ledger' = ledger \o <<OwnerEvent("ticket.assignment", owner, u)>>
    BY <1>1 DEF AssignTicket, RecordCustody, KeepStatus, clockVars
  <2>2. "ticket.assignment" \in OwnerSources
    BY DEF OwnerSources
  <2> QED BY <2>1, <2>2, OwnerRecorded
<1>2. CASE MovesToAssigned(a, u)
  <2> DEFINE h == [Facts EXCEPT !.owner = u]
             d == OwnerEvent("ticket.assignment", owner, u)
             e == TransitionEvent(status, "assigned")
  <2>1. /\ EnterStatus("assigned") /\ <<status, "assigned">> \in Workflow
        /\ queue' = queue /\ owner' = u /\ ledger' = ledger \o <<d, e>>
    BY <1>2 DEF AssignTicket, RecordCustody, MovesToAssigned
  <2>2. status' = "assigned" /\ "assigned" \in Statuses
    BY <2>1, EnteredStatus
  <2>3. /\ DOMAIN h = {"status", "owner", "queue"}
        /\ h["status"] = status /\ h["owner"] = u /\ h["queue"] = queue
    BY OwnerChanged
  <2> HIDE DEF h
  <2>0. "ticket.assignment" \in OwnerSources /\ owner \in Owners
    BY DEF LedgerInv, OwnerSources
  <2>4. d \in CustodyEvents /\ Fits(d, Facts, h)
    BY <2>0, <2>3, FactFields, OwnerFits
  <2>5. e \in CustodyEvents /\ Fits(e, h, Facts')
    BY <2>1, <2>2, <2>3, NextFactFields, TransitionFits DEF LedgerInv
  <2> HIDE DEF d, e
  <2>6. Recorded
    BY <2>1, <2>4, <2>5, TwoRecorded
  <2> QED BY <2>1, <2>2, <2>6 DEF LedgerInv, Recorded
<1> QED BY <1>1, <1>2

(* A routing records the queue, then the owner, as far as they change.     *)
LEMMA ReallocateRecorded ==
  ASSUME LedgerInv, NEW q \in Queues \union {Nobody}, NEW u \in Owners, Reallocate(q, u)
  PROVE  LedgerInv' /\ Recorded
<1>1. status' = status /\ owner' = u /\ queue' = q
  BY DEF Reallocate, KeepStatus, clockVars
<1>0. "ticket.routing" \in OwnerSources /\ owner \in Owners
  BY DEF LedgerInv, OwnerSources
<1> DEFINE d == QueueEvent(queue, q)
           e == OwnerEvent("ticket.routing", owner, u)
           h == [Facts EXCEPT !.queue = q]
<1>2. CASE u = owner
  <2>1. ledger' = ledger \o <<d>>
    BY <1>2 DEF Reallocate, RecordCustody
  <2>2. d \in CustodyEvents /\ Fits(d, Facts, Facts')
    BY <1>1, <1>2, FactFields, NextFactFields, QueueFits DEF LedgerInv
  <2> HIDE DEF d
  <2>3. Recorded
    BY <2>1, <2>2, OneRecorded
  <2> QED BY <1>1, <2>3 DEF LedgerInv, Recorded
<1>3. CASE u # owner /\ q = queue
  <2>1. ledger' = ledger \o <<e>>
    BY <1>3 DEF Reallocate, RecordCustody
  <2> QED BY <1>0, <1>1, <1>3, <2>1, OwnerRecorded
<1>4. CASE u # owner /\ q # queue
  <2>1. ledger' = ledger \o <<d, e>>
    BY <1>4 DEF Reallocate, RecordCustody
  <2>2. /\ DOMAIN h = {"status", "owner", "queue"}
        /\ h["status"] = status /\ h["owner"] = owner /\ h["queue"] = q
    BY QueueChanged
  <2> HIDE DEF h
  <2>3. d \in CustodyEvents /\ Fits(d, Facts, h)
    BY <2>2, FactFields, QueueFits DEF LedgerInv
  <2>4. e \in CustodyEvents /\ Fits(e, h, Facts')
    BY <1>0, <1>1, <2>2, NextFactFields, OwnerFits
  <2> HIDE DEF d, e
  <2>5. Recorded
    BY <2>1, <2>3, <2>4, TwoRecorded
  <2> QED BY <1>1, <2>5 DEF LedgerInv, Recorded
<1> QED BY <1>2, <1>3, <1>4

(* A sweep records one event for each clock that it escalates.             *)
LEMMA SweepRecorded ==
  ASSUME LedgerInv, NEW w \in Sweepers, NEW due \in SUBSET Kinds, EvaluateSlas(w, due)
  PROVE  LedgerInv' /\ Recorded
<1> DEFINE n == Cardinality(EscalatedBy(w, due))
           e == EscalationEvent(status)
<1>1. /\ UNCHANGED <<status, owner, queue>>
      /\ ledger' = ledger \o [i \in 1 .. n |-> e]
  BY DEF EvaluateSlas, SweepTicket, rowVars, RecordCustody
<1>2. n \in Nat
  <2>1. EscalatedBy(w, due) \subseteq Kinds
    BY DEF EscalatedBy
  <2> QED BY <2>1, BoundsAssumption, FS_Subset, FS_CardinalityType
<1>3. e \in CustodyEvents
  BY DEF CustodyEvents, LedgerInv
<1>4. e.new = e.prev /\ \A x \in DOMAIN e.prev : x \in DOMAIN Facts /\ e.prev[x] = Facts[x]
  BY DEF EscalationEvent, Facts
<1>5. Facts' = Facts
  BY <1>1 DEF Facts
<1> HIDE DEF n, e
<1>6. ledger \in Seq(CustodyEvents) /\ Custody!Continuous(ledger) /\ Custody!TellsAll(ledger, Facts)
  BY DEF LedgerInv
<1>7. LET m == ledger \o [i \in 1 .. n |-> e]
      IN  /\ m \in Seq(CustodyEvents) /\ Custody!Extends(ledger, m)
          /\ Custody!Continuous(m) /\ Custody!TellsAll(m, Facts)
  BY <1>2, <1>3, <1>4, <1>6, ChainSame
<1>8. Recorded
  BY <1>1, <1>5, <1>7 DEF Recorded
<1> QED BY <1>1, <1>8 DEF LedgerInv, Recorded

(* The rest writes nothing custody is about.                               *)
LEMMA Unrecorded ==
  ASSUME LedgerInv, UNCHANGED <<status, owner, queue, ledger>>
  PROVE  LedgerInv' /\ UNCHANGED <<Facts, ledger>>
BY DEF LedgerInv, Facts

(* Every step keeps the ledger invariant and records what it changes.      *)
LEMMA LedgerStep ==
  ASSUME LedgerInv, [TicketNext]_ticketVars
  PROVE  LedgerInv' /\ (Recorded \/ UNCHANGED <<Facts, ledger>>)
<1>1. CASE UNCHANGED ticketVars
  BY <1>1, Unrecorded DEF ticketVars, clockVars, rowVars, logVars
<1>2. CASE SystemStep
  <2>1. ASSUME NEW b \in Staff \union {Nobody}, AssignTicketBySystem(b)
        PROVE  LedgerInv' /\ Recorded
    <3>1. /\ status' = status /\ queue' = queue /\ owner' = b
          /\ ledger' = ledger \o <<OwnerEvent("system", owner, b)>>
      BY <2>1 DEF AssignTicketBySystem, RecordCustody, KeepStatus, clockVars
    <3>2. "system" \in OwnerSources /\ b \in Owners
      BY DEF Owners, OwnerSources
    <3> QED BY <3>1, <3>2, OwnerRecorded
  <2>2. ASSUME NEW q \in Queues \union {Nobody}, NEW b \in Staff \union {Nobody},
               RouteTicketBySystem(q, b)
        PROVE  LedgerInv' /\ Recorded
    BY <2>2, ReallocateRecorded DEF RouteTicketBySystem, Owners
  <2>3. CASE AddMessage
    BY <2>3, Unrecorded DEF AddMessage, FirstResponse, logVars
  <2>4. ASSUME NEW w \in Sweepers, NEW due \in SUBSET Kinds, EvaluateSlas(w, due)
        PROVE  LedgerInv' /\ Recorded
    BY <2>4, SweepRecorded
  <2>5. CASE ClockOnly
    BY <2>5, Unrecorded
       DEF ClockOnly, InstantiateSla, Tick, SweepStart, SweepSkip, rowVars, logVars
  <2> QED BY <1>2, <2>1, <2>2, <2>3, <2>4, <2>5 DEF SystemStep
<1>3. ASSUME NEW a \in Staff, StaffStep(a)
      PROVE  LedgerInv' /\ (Recorded \/ UNCHANGED <<Facts, ledger>>)
  <2>1. CASE Read(a)
    BY <2>1, Unrecorded DEF Read, clockVars, rowVars, logVars
  <2>2. ASSUME NEW to \in Statuses, Transition(a, to) PROVE LedgerInv' /\ Recorded
    BY <2>2, TransitionRecorded
  <2>3. ASSUME NEW to \in Statuses, NEW s \in Staff, Escalate(a, to, s)
        PROVE  LedgerInv' /\ Recorded
    BY <2>3, EscalateRecorded
  <2>4. ASSUME NEW b \in Staff \union {Nobody}, AssignTicket(a, b)
        PROVE  LedgerInv' /\ Recorded
    BY <2>4, AssignRecorded DEF Owners
  <2>5. ASSUME NEW q \in Queues \union {Nobody}, NEW b \in Staff \union {Nobody},
               RouteTicket(a, q, b)
        PROVE  LedgerInv' /\ Recorded
    BY <2>5, ReallocateRecorded DEF RouteTicket, Owners
  <2>6. CASE UpdateWorkState(a)
    BY <2>6, Unrecorded DEF UpdateWorkState, KeepStatus, clockVars
  <2> QED BY <1>3, <2>1, <2>2, <2>3, <2>4, <2>5, <2>6 DEF StaffStep
<1> QED BY <1>1, <1>2, <1>3 DEF TicketNext

(* The creation of a ticket establishes the ledger invariant.              *)
LEMMA LedgerStart == TicketInit => LedgerInv /\ Custody!LedgerInit
<1> SUFFICES ASSUME TicketInit PROVE LedgerInv /\ Custody!LedgerInit
  OBVIOUS
<1>1. /\ status = InitialStatus /\ owner = Nobody /\ queue = Nobody
      /\ ledger = <<CreatedEvent(InitialStatus)>> /\ InitialStatus \in Statuses
  BY DEF TicketInit, ClockInit, Statuses
<1> DEFINE e == CreatedEvent(InitialStatus)
<1>2. /\ e \in CustodyEvents /\ e.type = "created" /\ \A x \in DOMAIN e.prev : FALSE
      /\ DOMAIN e.new = {"status", "queue"}
      /\ e.new["status"] = InitialStatus /\ e.new["queue"] = Nobody
  <2>1. e \in CustodyEvents
    BY <1>1 DEF CustodyEvents
  <2> QED BY <2>1 DEF CreatedEvent, NoAspects
<1> HIDE DEF e
<1>3. Len(ledger) = 1 /\ ledger[1] = e /\ ledger \in Seq(CustodyEvents)
  BY <1>1, <1>2 DEF e
<1>4. Custody!Continuous(ledger)
  BY <1>2, <1>3 DEF Custody!Continuous
<1>5. ASSUME NEW x \in DOMAIN Facts PROVE Custody!Tells(ledger, 1, x, Facts[x])
  <2>1. CASE x = "owner"
    BY <1>1, <1>2, <1>3, <2>1, FactFields DEF Custody!Tells
  <2>2. CASE x \in {"status", "queue"}
    BY <1>1, <1>2, <1>3, <2>2, FactFields DEF Custody!Tells
  <2> QED BY <1>5, <2>1, <2>2, FactFields
<1>6. Custody!TellsAll(ledger, Facts)
  BY <1>3, <1>5 DEF Custody!TellsAll
<1> QED BY <1>1, <1>2, <1>3, <1>4, <1>6 DEF LedgerInv, Custody!LedgerInit, Owners

(* The custody ledger of a ticket is append-only and unbroken, and tells   *)
(* the ticket's status, owner and queue after every transaction: the ticket*)
(* implements CustodyLedger.                                               *)
THEOREM CustodyTheorem == TicketSpec => CustodyLedgerSpec
<1>1. LedgerInv /\ [TicketNext]_ticketVars => LedgerInv'
  BY LedgerStep
<1>2. LedgerInv /\ [TicketNext]_ticketVars => [Custody!Record]_<<Facts, ledger>>
  BY LedgerStep DEF Recorded, Custody!Record
<1> QED BY <1>1, <1>2, LedgerStart, PTL
        DEF TicketSpec, CustodyLedgerSpec, Custody!LedgerSpec

-----------------------------------------------------------------------------
(* History and ledger.                                                     *)

(* The ledger m continues l with events that are not about a status change.*)
QuietTail(l, m) ==
  Custody!Extends(l, m) /\ \A i \in Len(l) + 1 .. Len(m) : ~IsWorkflow(m[i])

(* Such events change nothing of what the records have in common.          *)
LEMMA QuietKeeps ==
  ASSUME NEW S, NEW l \in Seq(S), NEW m \in Seq(S), NEW h,
         QuietTail(l, m), SameChanges(h, l)
  PROVE  SameChanges(h, m)
<1>1. /\ Len(l) \in Nat /\ Len(m) \in Nat /\ Len(l) <= Len(m)
      /\ \A i \in 1 .. Len(l) : m[i] = l[i]
      /\ \A i \in Len(l) + 1 .. Len(m) : ~IsWorkflow(m[i])
  BY DEF QuietTail, Custody!Extends
<1>2. WorkflowEvents(m) = WorkflowEvents(l)
  <2>1. ASSUME NEW i PROVE i \in WorkflowEvents(m) <=> i \in WorkflowEvents(l)
    <3>1. CASE i \in 1 .. Len(l)
      BY <1>1, <3>1 DEF WorkflowEvents
    <3>2. CASE i \in Len(l) + 1 .. Len(m)
      <4>1. ~IsWorkflow(m[i])
        BY <3>2, Zenon DEF QuietTail
      <4>2. i \notin 1 .. Len(l)
        BY <1>1, <3>2
      <4> QED BY <4>1, <4>2 DEF WorkflowEvents
    <3>3. CASE i \notin 1 .. Len(m)
      BY <1>1, <3>3 DEF WorkflowEvents
    <3> QED BY <1>1, <3>1, <3>2, <3>3
  <2> QED BY <2>1
<1>3. \A i \in WorkflowEvents(l) : m[i] = l[i] /\ RowOf(i, m) = RowOf(i, l)
  BY <1>1, <1>2 DEF WorkflowEvents, RowOf
<1> QED BY <1>2, <1>3 DEF SameChanges

(* One status change adds one row and one event at the same place.         *)
LEMMA ChangeAdded ==
  ASSUME NEW S, NEW l \in Seq(S), NEW e \in S, NEW T, NEW h \in Seq(T), NEW row \in T,
         IsWorkflow(e), row[2] = e.new["status"], SameChanges(h, l)
  PROVE  SameChanges(Append(h, row), Append(l, e))
<1> DEFINE m == Append(l, e)
           k == Append(h, row)
           n == Len(l) + 1
           W == WorkflowEvents(l)
<1>1. /\ Len(l) \in Nat /\ Len(m) = n /\ m[n] = e /\ \A i \in 1 .. Len(l) : m[i] = l[i]
      /\ Len(h) \in Nat /\ Len(k) = Len(h) + 1 /\ k[Len(h) + 1] = row
      /\ \A i \in 1 .. Len(h) : k[i] = h[i]
  OBVIOUS
<1> HIDE DEF m, k
<1>2. IsFiniteSet(W) /\ W \subseteq 1 .. Len(l) /\ Cardinality(W) = Len(h)
  <2>1. W \subseteq 1 .. Len(l)
    BY DEF WorkflowEvents
  <2>2. IsFiniteSet(1 .. Len(l))
    BY <1>1, FS_Interval
  <2> QED BY <2>1, <2>2, FS_Subset DEF SameChanges
<1>3. WorkflowEvents(m) = W \union {n}
  <2>1. ASSUME NEW i PROVE i \in WorkflowEvents(m) <=> i \in W \union {n}
    <3>1. CASE i \in 1 .. Len(l)
      BY <1>1, <3>1 DEF WorkflowEvents
    <3>2. CASE i = n
      BY <1>1, <3>2 DEF WorkflowEvents
    <3>3. CASE i \notin 1 .. n
      BY <1>1, <3>3 DEF WorkflowEvents
    <3> QED BY <1>1, <3>1, <3>2, <3>3
  <2> QED BY <2>1
<1> HIDE DEF W
<1>4. Cardinality(W \union {n}) = Len(h) + 1
  <2>1. n \notin W
    BY <1>1, <1>2
  <2> QED BY <1>2, <2>1, FS_AddElement
<1>5. ASSUME NEW i \in W PROVE k[RowOf(i, m)][2] = m[i].new["status"]
  <2> DEFINE upTo == {j \in W : j <= i}
  <2>1. {j \in WorkflowEvents(m) : j <= i} = upTo
    BY <1>1, <1>2, <1>3, <1>5
  <2>2. RowOf(i, m) = Cardinality(upTo) /\ RowOf(i, l) = Cardinality(upTo)
    BY <2>1 DEF RowOf, W
  <2>3. i \in upTo /\ upTo \subseteq W
    BY <1>1, <1>2
  <2> HIDE DEF upTo
  <2>4. Cardinality(upTo) \in 1 .. Len(h)
    <3>1. IsFiniteSet(upTo) /\ Cardinality(upTo) <= Len(h)
      BY <1>2, <2>3, FS_Subset
    <3>2. Cardinality(upTo) \in Nat /\ Cardinality(upTo) # 0
      BY <2>3, <3>1, FS_CardinalityType, FS_EmptySet
    <3> QED BY <3>1, <3>2
  <2>5. h[Cardinality(upTo)][2] = l[i].new["status"]
    BY <1>5, <2>2 DEF SameChanges, W
  <2> QED BY <1>1, <1>2, <2>2, <2>4, <2>5
<1>6. k[RowOf(n, m)][2] = m[n].new["status"]
  <2>0. n \in Nat /\ \A j \in W : j <= n
    BY <1>1, <1>2
  <2>1. {j \in W \union {n} : j <= n} = W \union {n}
    BY <2>0
  <2>2. RowOf(n, m) = Len(h) + 1
    BY <1>3, <1>4, <2>1 DEF RowOf
  <2> QED BY <1>1, <2>2
<1>7. Cardinality(WorkflowEvents(m)) = Len(k)
  BY <1>1, <1>3, <1>4
<1> QED BY <1>3, <1>5, <1>6, <1>7 DEF SameChanges, m, k

(* Which custody events are about a change of status.                      *)
LEMMA EventKinds ==
  /\ \A t : IsWorkflow(TransitionEvent(status, t)) /\ TransitionEvent(status, t).new["status"] = t
  /\ \A p, o, u : ~IsWorkflow(OwnerEvent(p, o, u))
  /\ \A q, r : ~IsWorkflow(QueueEvent(q, r))
  /\ \A u : ~IsWorkflow(EscalationEvent(u))
BY DEF IsWorkflow, TransitionEvent, OwnerEvent, QueueEvent, EscalationEvent

(* No event, one, or two, none of them about a status change.              *)
LEMMA QuietNothing ==
  ASSUME NEW S, NEW l \in Seq(S)
  PROVE  QuietTail(l, l)
<1>1. Len(l) \in Nat /\ \A i \in Len(l) + 1 .. Len(l) : FALSE
  OBVIOUS
<1> QED BY <1>1 DEF QuietTail, Custody!Extends

(* One event.                                                              *)
LEMMA QuietOne ==
  ASSUME NEW S, NEW l \in Seq(S), NEW m \in Seq(S), NEW e \in S, QuietTail(l, m), ~IsWorkflow(e)
  PROVE  Append(m, e) \in Seq(S) /\ QuietTail(l, Append(m, e))
<1> DEFINE k == Append(m, e)
<1>1. /\ k \in Seq(S) /\ Len(k) = Len(m) + 1 /\ Len(l) \in Nat /\ Len(m) \in Nat
      /\ k[Len(m) + 1] = e /\ \A i \in 1 .. Len(m) : k[i] = m[i]
  OBVIOUS
<1> HIDE DEF k
<1>2. Custody!Extends(l, k)
  BY <1>1 DEF QuietTail, Custody!Extends
<1>3. ASSUME NEW i \in Len(l) + 1 .. Len(k) PROVE ~IsWorkflow(k[i])
  <2>1. CASE i = Len(m) + 1
    BY <1>1, <2>1, Zenon
  <2>2. CASE i \in Len(l) + 1 .. Len(m)
    <3>1. ~IsWorkflow(m[i])
      BY <2>2, Zenon DEF QuietTail
    <3>2. k[i] = m[i]
      BY <1>1, <2>2
    <3> QED BY <3>1, <3>2, Zenon
  <2> QED BY <1>1, <2>1, <2>2
<1> QED BY <1>1, <1>2, <1>3, Zenon DEF QuietTail, k

(* The status changes, and one event of the transaction, its last, says so.*)
MovedTo(to) ==
  /\ EnterStatus(to)
  /\ \E l \in Seq(CustodyEvents), e \in CustodyEvents :
       /\ QuietTail(ledger, l)
       /\ ledger' = Append(l, e)
       /\ IsWorkflow(e) /\ e.new["status"] = to

(* Neither the status nor what the two records say of it changes.          *)
StatusKept ==
  /\ UNCHANGED <<status, resolution, history>>
  /\ ledger' \in Seq(CustodyEvents)
  /\ QuietTail(ledger, ledger')

(* A transition after an event of its transaction, or on its own.          *)
LEMMA MovedAfter ==
  ASSUME LedgerInv, NEW to, EnterStatus(to), NEW l \in Seq(CustodyEvents), QuietTail(ledger, l),
         ledger' = Append(l, TransitionEvent(status, to))
  PROVE  MovedTo(to)
<1>1. TransitionEvent(status, to) \in CustodyEvents
  BY EnteredStatus DEF CustodyEvents
<1>2. IsWorkflow(TransitionEvent(status, to)) /\ TransitionEvent(status, to).new["status"] = to
  BY EventKinds, Zenon
<1> QED BY <1>1, <1>2, Zenon DEF MovedTo

(* An owner handed over and a transition.                                  *)
LEMMA MovedWithOwner ==
  ASSUME LedgerInv, NEW p \in OwnerSources, NEW u \in Owners, NEW to, EnterStatus(to),
         ledger' = ledger \o <<OwnerEvent(p, owner, u), TransitionEvent(status, to)>>
  PROVE  MovedTo(to)
<1> DEFINE d == OwnerEvent(p, owner, u)
           e == TransitionEvent(status, to)
<1>1. d \in CustodyEvents
  BY DEF LedgerInv, CustodyEvents
<1>2. ~IsWorkflow(d)
  BY EventKinds, Zenon
<1>3. ledger \in Seq(CustodyEvents) /\ e \in CustodyEvents
  BY EnteredStatus DEF LedgerInv, CustodyEvents
<1>4. ledger' = ledger \o <<d, e>>
  OBVIOUS
<1> HIDE DEF d
<1>5. Append(ledger, d) \in Seq(CustodyEvents) /\ QuietTail(ledger, Append(ledger, d))
  BY <1>1, <1>2, <1>3, QuietNothing, QuietOne
<1>6. ledger' = Append(Append(ledger, d), e)
  <2> HIDE DEF e
  <2> QED BY <1>1, <1>3, <1>4
<1> QED BY <1>5, <1>6, MovedAfter

(* A transition on its own.                                                *)
LEMMA MovedAlone ==
  ASSUME LedgerInv, NEW to, EnterStatus(to),
         ledger' = ledger \o <<TransitionEvent(status, to)>>
  PROVE  MovedTo(to)
<1>1. ledger \in Seq(CustodyEvents)
  BY DEF LedgerInv
<1>2. ledger' = Append(ledger, TransitionEvent(status, to))
  BY <1>1
<1>3. QuietTail(ledger, ledger)
  BY <1>1, QuietNothing
<1> QED BY <1>1, <1>2, <1>3, MovedAfter

(* A transaction that only records an owner.                               *)
LEMMA KeptWithOwner ==
  ASSUME LedgerInv, NEW p \in OwnerSources, NEW u \in Owners,
         UNCHANGED <<status, resolution, history>>,
         ledger' = ledger \o <<OwnerEvent(p, owner, u)>>
  PROVE  StatusKept
<1> DEFINE d == OwnerEvent(p, owner, u)
<1>1. d \in CustodyEvents /\ ledger \in Seq(CustodyEvents)
  BY DEF LedgerInv, CustodyEvents
<1>2. ~IsWorkflow(d)
  BY EventKinds, Zenon
<1> HIDE DEF d
<1>3. Append(ledger, d) \in Seq(CustodyEvents) /\ QuietTail(ledger, Append(ledger, d))
  BY <1>1, <1>2, QuietNothing, QuietOne
<1>4. ledger' = Append(ledger, d)
  BY <1>1 DEF d
<1> QED BY <1>3, <1>4 DEF StatusKept

(* A routing.                                                              *)
LEMMA KeptByRouting ==
  ASSUME LedgerInv, NEW q \in Queues \union {Nobody}, NEW u \in Owners, Reallocate(q, u)
  PROVE  StatusKept
<1> DEFINE d == QueueEvent(queue, q)
           e == OwnerEvent("ticket.routing", owner, u)
<1>1. UNCHANGED <<status, resolution, history>> /\ "ticket.routing" \in OwnerSources
  BY DEF Reallocate, KeepStatus, clockVars, OwnerSources
<1>2. d \in CustodyEvents /\ e \in CustodyEvents /\ ledger \in Seq(CustodyEvents)
  BY <1>1 DEF LedgerInv, CustodyEvents
<1>3. ~IsWorkflow(d) /\ ~IsWorkflow(e)
  BY EventKinds, Zenon
<1>4. /\ u = owner => ledger' = ledger \o <<d>>
      /\ u # owner /\ q = queue => ledger' = ledger \o <<e>>
      /\ u # owner /\ q # queue => ledger' = ledger \o <<d, e>>
  BY DEF Reallocate, RecordCustody
<1> HIDE DEF d, e
<1>5. /\ Append(ledger, d) \in Seq(CustodyEvents) /\ QuietTail(ledger, Append(ledger, d))
      /\ Append(ledger, e) \in Seq(CustodyEvents) /\ QuietTail(ledger, Append(ledger, e))
  BY <1>2, <1>3, QuietNothing, QuietOne
<1>6. /\ Append(Append(ledger, d), e) \in Seq(CustodyEvents)
      /\ QuietTail(ledger, Append(Append(ledger, d), e))
  BY <1>2, <1>3, <1>5, QuietOne
<1>7. /\ ledger \o <<d>> = Append(ledger, d) /\ ledger \o <<e>> = Append(ledger, e)
      /\ ledger \o <<d, e>> = Append(Append(ledger, d), e)
  BY <1>2
<1> QED BY <1>1, <1>4, <1>5, <1>6, <1>7 DEF StatusKept

(* A sweep's events are not about a status change.                         *)
LEMMA KeptBySweep ==
  ASSUME LedgerInv, NEW w \in Sweepers, NEW due \in SUBSET Kinds, EvaluateSlas(w, due)
  PROVE  StatusKept
<1> DEFINE n == Cardinality(EscalatedBy(w, due))
           e == EscalationEvent(status)
           m == ledger \o [i \in 1 .. n |-> e]
<1>1. ledger' = m /\ UNCHANGED <<status, resolution, history>>
  BY DEF EvaluateSlas, SweepTicket, rowVars, RecordCustody
<1>2. n \in Nat
  <2>1. EscalatedBy(w, due) \subseteq Kinds
    BY DEF EscalatedBy
  <2> QED BY <2>1, BoundsAssumption, FS_Subset, FS_CardinalityType
<1>3. ~IsWorkflow(e)
  BY EventKinds, Zenon
<1>4. ledger \in Seq(CustodyEvents) /\ e \in CustodyEvents
  BY DEF LedgerInv, CustodyEvents
<1> HIDE DEF n, e
<1>5. /\ m \in Seq(CustodyEvents) /\ Len(m) = Len(ledger) + n /\ Len(ledger) \in Nat
      /\ \A i \in 1 .. Len(ledger) : m[i] = ledger[i]
      /\ \A i \in Len(ledger) + 1 .. Len(m) : m[i] = e
  <2>1. [i \in 1 .. n |-> e] \in Seq(CustodyEvents) /\ Len([i \in 1 .. n |-> e]) = n
    BY <1>2, <1>4
  <2> QED BY <1>2, <1>4, <2>1
<1> HIDE DEF m
<1>6. Custody!Extends(ledger, m)
  BY <1>2, <1>5 DEF Custody!Extends
<1>7. \A i \in Len(ledger) + 1 .. Len(m) : ~IsWorkflow(m[i])
  BY <1>3, <1>5, Zenon
<1>8. QuietTail(ledger, m)
  BY <1>6, <1>7, Zenon DEF QuietTail
<1> QED BY <1>1, <1>5, <1>8 DEF StatusKept

(* The rest writes neither record.                                         *)
LEMMA KeptUnwritten ==
  ASSUME LedgerInv, UNCHANGED <<status, resolution, history, ledger>>
  PROVE  StatusKept
<1>1. ledger \in Seq(CustodyEvents)
  BY DEF LedgerInv
<1>2. QuietTail(ledger, ledger)
  BY <1>1, QuietNothing
<1> QED BY <1>1, <1>2, Zenon DEF StatusKept

(* Every step of the ticket takes one transition, or none.                 *)
LEMMA LogSteps ==
  ASSUME LedgerInv, [TicketNext]_ticketVars
  PROVE  StatusKept \/ \E to \in Statuses : <<status, to>> \in Workflow /\ MovedTo(to)
<1>1. CASE UNCHANGED ticketVars
  BY <1>1, KeptUnwritten DEF ticketVars, clockVars, rowVars, logVars
<1>2. CASE SystemStep
  <2>1. ASSUME NEW b \in Staff \union {Nobody}, AssignTicketBySystem(b) PROVE StatusKept
    <3>1. "system" \in OwnerSources /\ b \in Owners
      BY DEF OwnerSources, Owners
    <3>2. UNCHANGED <<status, resolution, history>>
          /\ ledger' = ledger \o <<OwnerEvent("system", owner, b)>>
      BY <2>1 DEF AssignTicketBySystem, RecordCustody, KeepStatus, clockVars
    <3> QED BY <3>1, <3>2, KeptWithOwner
  <2>2. ASSUME NEW q \in Queues \union {Nobody}, NEW b \in Staff \union {Nobody},
               RouteTicketBySystem(q, b)
        PROVE  StatusKept
    BY <2>2, KeptByRouting DEF RouteTicketBySystem, Owners
  <2>3. CASE AddMessage
    BY <2>3, KeptUnwritten DEF AddMessage, FirstResponse, logVars
  <2>4. ASSUME NEW w \in Sweepers, NEW due \in SUBSET Kinds, EvaluateSlas(w, due)
        PROVE  StatusKept
    BY <2>4, KeptBySweep
  <2>5. CASE ClockOnly
    BY <2>5, KeptUnwritten
       DEF ClockOnly, InstantiateSla, Tick, SweepStart, SweepSkip, rowVars, logVars
  <2> QED BY <1>2, <2>1, <2>2, <2>3, <2>4, <2>5 DEF SystemStep
<1>3. ASSUME NEW a \in Staff, StaffStep(a)
      PROVE  StatusKept \/ \E to \in Statuses : <<status, to>> \in Workflow /\ MovedTo(to)
  <2>1. CASE Read(a)
    BY <2>1, KeptUnwritten DEF Read, clockVars, rowVars, logVars
  <2>2. ASSUME NEW to \in Statuses, Transition(a, to)
        PROVE  <<status, to>> \in Workflow /\ MovedTo(to)
    BY <2>2, MovedAlone DEF Transition, RecordCustody
  <2>3. ASSUME NEW to \in Statuses, NEW s \in Staff, Escalate(a, to, s)
        PROVE  <<status, to>> \in Workflow /\ MovedTo(to)
    <3>1. <<status, to>> \in Workflow /\ EnterStatus(to)
          /\ ledger' = ledger \o (HandedTo(s) \o <<TransitionEvent(status, to)>>)
      BY <2>3 DEF Escalate, RecordCustody
    <3>2. CASE owner = s
      BY <3>1, <3>2, MovedAlone DEF HandedTo
    <3>3. CASE owner # s
      <4>1. "ticket.escalation" \in OwnerSources /\ s \in Owners
        BY DEF OwnerSources, Owners
      <4>2. ledger' = ledger \o <<OwnerEvent("ticket.escalation", owner, s),
                                  TransitionEvent(status, to)>>
        BY <3>1, <3>3 DEF HandedTo
      <4> QED BY <3>1, <4>1, <4>2, MovedWithOwner
    <3> QED BY <3>2, <3>3
  <2>4. ASSUME NEW b \in Staff \union {Nobody}, AssignTicket(a, b)
        PROVE  StatusKept \/ \E to \in Statuses : <<status, to>> \in Workflow /\ MovedTo(to)
    <3>0. "ticket.assignment" \in OwnerSources /\ b \in Owners
      BY DEF OwnerSources, Owners
    <3>1. CASE MovesToAssigned(a, b)
      <4>1. /\ EnterStatus("assigned") /\ <<status, "assigned">> \in Workflow
            /\ ledger' = ledger \o <<OwnerEvent("ticket.assignment", owner, b),
                                     TransitionEvent(status, "assigned")>>
        BY <2>4, <3>1 DEF AssignTicket, RecordCustody, MovesToAssigned
      <4>2. MovedTo("assigned") /\ "assigned" \in Statuses
        BY <3>0, <4>1, EnteredStatus, MovedWithOwner
      <4> QED BY <4>1, <4>2
    <3>2. CASE ~MovesToAssigned(a, b)
      <4>1. UNCHANGED <<status, resolution, history>>
            /\ ledger' = ledger \o <<OwnerEvent("ticket.assignment", owner, b)>>
        BY <2>4, <3>2 DEF AssignTicket, RecordCustody, KeepStatus, clockVars
      <4> QED BY <3>0, <4>1, KeptWithOwner
    <3> QED BY <3>1, <3>2
  <2>5. ASSUME NEW q \in Queues \union {Nobody}, NEW b \in Staff \union {Nobody},
               RouteTicket(a, q, b)
        PROVE  StatusKept
    BY <2>5, KeptByRouting DEF RouteTicket, Owners
  <2>6. CASE UpdateWorkState(a)
    BY <2>6, KeptUnwritten DEF UpdateWorkState, KeepStatus, clockVars
  <2> QED BY <1>3, <2>1, <2>2, <2>3, <2>4, <2>5, <2>6 DEF StaffStep
<1> QED BY <1>1, <1>2, <1>3 DEF TicketNext

-----------------------------------------------------------------------------
(* The two records of status changes, and the resolution.                  *)

Codes == Statuses \union {""}

(* The records agree and end in the present status.                        *)
LogsInv ==
  /\ history \in Seq(Codes \X Codes)
  /\ Len(history) >= 1
  /\ history[Len(history)][2] = status
  /\ LogsAgree

(* The row of a status change.                                             *)
LEMMA RowAppended ==
  ASSUME LogsInv, NEW to, EnterStatus(to)
  PROVE  /\ history' \in Seq(Codes \X Codes)
         /\ Len(history) \in Nat /\ Len(history) >= 1 /\ Len(history') = Len(history) + 1
         /\ history'[Len(history')] = <<status, to>>
         /\ \A i \in 1 .. Len(history) : history'[i] = history[i]
         /\ history' = Append(history, <<status, to>>)
<1>1. history' = Append(history, <<status, to>>) /\ <<status, to>> \in Codes \X Codes
  BY EnteredStatus DEF EnterStatus, Codes
<1>2. history \in Seq(Codes \X Codes) /\ Len(history) >= 1
  BY DEF LogsInv
<1> QED BY <1>1, <1>2

(* A status change keeps the records in step.                              *)
LEMMA LogsMove ==
  ASSUME LedgerInv, LogsInv, NEW to, MovedTo(to)
  PROVE  LogsInv'
<1>1. EnterStatus(to) /\ status' = to
  BY EnteredStatus DEF MovedTo
<1>2. PICK l \in Seq(CustodyEvents), e \in CustodyEvents :
        /\ QuietTail(ledger, l) /\ ledger' = Append(l, e)
        /\ IsWorkflow(e) /\ e.new["status"] = to
  BY Zenon DEF MovedTo
<1> DEFINE row == <<status, to>>
<1>3. row \in Codes \X Codes /\ row[2] = e.new["status"] /\ row[1] = status
  BY <1>1, <1>2, EnteredStatus DEF Codes
<1>4. SameChanges(history, l)
  <2>1. SameChanges(history, ledger)
    BY DEF LogsInv, LogsAgree
  <2> QED BY <1>2, <2>1, QuietKeeps DEF LedgerInv
<1>5. /\ history' \in Seq(Codes \X Codes)
      /\ Len(history) \in Nat /\ Len(history) >= 1 /\ Len(history') = Len(history) + 1
      /\ history'[Len(history')] = row
      /\ \A i \in 1 .. Len(history) : history'[i] = history[i]
      /\ history' = Append(history, row)
  BY <1>1, RowAppended
<1> HIDE DEF row
<1>6. SameChanges(history', ledger')
  BY <1>2, <1>3, <1>4, <1>5, ChangeAdded DEF LogsInv
<1>7. ASSUME NEW i \in 2 .. Len(history') PROVE history'[i][1] = history'[i - 1][2]
  <2>1. CASE i \in 2 .. Len(history)
    <3>1. history[i][1] = history[i - 1][2]
      BY <2>1 DEF LogsInv, LogsAgree
    <3> QED BY <1>5, <2>1, <3>1
  <2>2. CASE i = Len(history')
    BY <1>3, <1>5, <2>2 DEF LogsInv
  <2> QED BY <1>5, <2>1, <2>2
<1>8. history'[Len(history')][2] = status'
  BY <1>1, <1>5 DEF row
<1> QED BY <1>5, <1>6, <1>7, <1>8 DEF LogsInv, LogsAgree

(* Everything else leaves them in step.                                    *)
LEMMA LogsKept ==
  ASSUME LedgerInv, LogsInv, StatusKept
  PROVE  LogsInv'
<1>1. SameChanges(history, ledger')
  BY QuietKeeps DEF LedgerInv, LogsInv, LogsAgree, StatusKept
<1> QED BY <1>1 DEF LogsInv, LogsAgree, StatusKept

(* They begin in step.                                                     *)
LEMMA LogsStart == TicketInit => LogsInv
<1> SUFFICES ASSUME TicketInit PROVE LogsInv
  OBVIOUS
<1> DEFINE e == CreatedEvent(InitialStatus)
           W == WorkflowEvents(<<e>>)
<1>1. /\ history = << <<"", InitialStatus>> >> /\ ledger = <<e>> /\ status = InitialStatus
      /\ InitialStatus \in Statuses
  BY DEF TicketInit, ClockInit, Statuses
<1>2. IsWorkflow(e) /\ e.new["status"] = InitialStatus
  BY DEF CreatedEvent, IsWorkflow
<1> HIDE DEF e
<1>3. W = {1}
  <2>1. Len(<<e>>) = 1 /\ <<e>>[1] = e
    OBVIOUS
  <2> QED BY <1>2, <2>1 DEF WorkflowEvents
<1>4. RowOf(1, <<e>>) = 1
  <2>1. {j \in W : j <= 1} = {1}
    BY <1>3
  <2> QED BY <2>1, FS_Singleton DEF RowOf
<1>5. Cardinality(W) = 1
  BY <1>3, FS_Singleton
<1> HIDE DEF W
<1>6. /\ Len(history) = 1 /\ history[1][2] = InitialStatus
      /\ history \in Seq(Codes \X Codes) /\ ledger[1] = e
  <2> DEFINE row == <<"", InitialStatus>>
  <2>1. row \in Codes \X Codes /\ row[2] = InitialStatus
    BY <1>1 DEF Codes
  <2>2. history = <<row>>
    BY <1>1
  <2>3. ledger[1] = e
    BY <1>1
  <2> DEFINE rows == Codes \X Codes
  <2> HIDE DEF row, rows
  <2>4. <<row>> \in Seq(rows) /\ Len(<<row>>) = 1 /\ <<row>>[1] = row
    BY <2>1 DEF rows
  <2> QED BY <2>1, <2>2, <2>3, <2>4 DEF rows
<1>7. SameChanges(history, ledger)
  <2>1. WorkflowEvents(ledger) = {1} /\ Cardinality(WorkflowEvents(ledger)) = 1
    BY <1>1, <1>3, <1>5 DEF W
  <2>2. history[RowOf(1, ledger)][2] = ledger[1].new["status"]
    BY <1>1, <1>2, <1>4, <1>6
  <2>3. ASSUME NEW i \in WorkflowEvents(ledger)
        PROVE  history[RowOf(i, ledger)][2] = ledger[i].new["status"]
    <3>1. i = 1
      BY <2>1
    <3> QED BY <2>2, <3>1
  <2>4. Cardinality(WorkflowEvents(ledger)) = Len(history)
    BY <1>6, <2>1
  <2> QED BY <2>3, <2>4, Zenon DEF SameChanges
<1>8. ASSUME NEW i \in 2 .. Len(history) PROVE history[i][1] = history[i - 1][2]
  <2>1. Len(history) = 1
    BY <1>6
  <2> QED BY <2>1
<1>9. LogsAgree
  BY <1>7, <1>8 DEF LogsAgree
<1>10. history[Len(history)][2] = status /\ Len(history) >= 1
  <2>1. status = InitialStatus
    BY <1>1
  <2>2. Len(history) = 1 /\ history[1][2] = InitialStatus
    BY <1>6
  <2> QED BY <2>1, <2>2
<1> QED BY <1>6, <1>9, <1>10, Zenon DEF LogsInv

(* The transition history and the custody ledger, two append-only records  *)
(* that every service writes separately, tell the same changes of status.  *)
THEOREM LogsTheorem == TicketSpec => []LogsAgree
<1>1. LedgerInv /\ LogsInv /\ [TicketNext]_ticketVars => LogsInv'
  BY LogSteps, LogsMove, LogsKept
<1>2. LedgerInv /\ [TicketNext]_ticketVars => LedgerInv'
  BY LedgerStep
<1>3. LogsInv => LogsAgree
  BY DEF LogsInv
<1> QED BY <1>1, <1>2, <1>3, LedgerStart, LogsStart, PTL DEF TicketSpec

HasResolution == resolution \in BOOLEAN

(* The row of a ticket has its types, and no view of it is from the future.*)
THEOREM TicketTypes == TicketSpec => []TicketTypeOK
<1>1. LedgerInv /\ HasResolution /\ [TicketNext]_ticketVars => HasResolution'
  BY LogSteps DEF HasResolution, StatusKept, MovedTo, EnterStatus
<1>2. LedgerInv /\ [TicketNext]_ticketVars => LedgerInv'
  BY LedgerStep
<1>3. TicketInit => HasResolution
  BY DEF TicketInit, HasResolution
<1>4. LedgerInv /\ TokenInv /\ HasResolution => TicketTypeOK
  BY DEF LedgerInv, Owners, TokenInv, HasResolution, TicketTypeOK
<1> QED BY <1>1, <1>2, <1>3, <1>4, LedgerStart, TokenInit, TokenNext, PTL DEF TicketSpec

(* What the resolution needs of the workflow: a resolved ticket is reopened*)
(* or closed, and a closed one stays closed.                               *)
KeepsOutcome(edges) ==
  \A e \in edges :
    /\ e[1] = "resolved" => e[2] \in {"reopened", "closed"}
    /\ e[1] # "closed"

(* The delivered workflows are of that kind.                               *)
LEMMA DeliveredKeepOutcome ==
  KeepsOutcome(OperationalTransitions) /\ KeepsOutcome(ItTransitions)
<1>1. KeepsOutcome(OperationalTransitions)
  BY DEF KeepsOutcome, OperationalTransitions, From
<1>2. KeepsOutcome(ItTransitions)
  BY DEF KeepsOutcome, ItTransitions, From
<1> QED BY <1>1, <1>2

(* A status change along such edges keeps the resolution true to the status*)
LEMMA OutcomeMove ==
  ASSUME LogsInv, ResolutionOnRecord, NEW edges, KeepsOutcome(edges),
         NEW to, <<status, to>> \in edges, EnterStatus(to)
  PROVE  ResolutionOnRecord'
<1>1. /\ status' = to
      /\ resolution' = CASE to = "resolved" -> TRUE
                         [] to = "reopened" -> FALSE
                         [] OTHER -> resolution
  BY EnteredStatus DEF EnterStatus
<1>2. history'[Len(history')][1] = status
  BY RowAppended
<1>3. (status = "resolved" => to \in {"reopened", "closed"}) /\ status # "closed"
  BY DEF KeepsOutcome
<1>4. resolution <=> status = "resolved"
  BY <1>3 DEF ResolutionOnRecord
<1>5. resolution' <=> to = "resolved" \/ (to = "closed" /\ status = "resolved")
  BY <1>1, <1>3, <1>4
<1> QED BY <1>1, <1>2, <1>5 DEF ResolutionOnRecord

(* No other step touches what the resolution depends on.                   *)
LEMMA OutcomeKept ==
  ASSUME ResolutionOnRecord, StatusKept
  PROVE  ResolutionOnRecord'
BY DEF ResolutionOnRecord, StatusKept

(* A new ticket has no resolution.                                         *)
LEMMA OutcomeStart ==
  ASSUME TicketInit, InitialStatus \notin {"resolved", "closed"}
  PROVE  ResolutionOnRecord
BY DEF TicketInit, ClockInit, ResolutionOnRecord

(* With a workflow like the delivered ones, a resolution is on record      *)
(* exactly while the ticket is resolved or closed from resolved, whoever   *)
(* moves it.                                                               *)
THEOREM ResolutionTheorem ==
  ASSUME KeepsOutcome(Workflow), InitialStatus \notin {"resolved", "closed"}
  PROVE  TicketSpec => []ResolutionOnRecord
<1>1. LedgerInv /\ LogsInv /\ [TicketNext]_ticketVars => LogsInv'
  BY LogSteps, LogsMove, LogsKept
<1>2. LedgerInv /\ [TicketNext]_ticketVars => LedgerInv'
  BY LedgerStep
<1>3. LedgerInv /\ LogsInv /\ ResolutionOnRecord /\ [TicketNext]_ticketVars => ResolutionOnRecord'
  BY LogSteps, OutcomeMove, OutcomeKept DEF MovedTo
<1>4. TicketInit => ResolutionOnRecord
  BY OutcomeStart
<1> QED BY <1>1, <1>2, <1>3, <1>4, LedgerStart, LogsStart, PTL DEF TicketSpec

-----------------------------------------------------------------------------
(* The IT children.  What they do to the parent is one more status change. *)

(* The parent begins to wait for IT, or goes back to work.                 *)
ParentMoves ==
  \/ MoveParent("waiting_it", "ticket.it_child.create")
  \/ MoveParent("in_progress", "ticket.it_child.sync")

(* A step of the parent and its children is one of the ticket's services,  *)
(* or moves the parent along an edge of the hand-over.                     *)
LEMMA ItSteps ==
  ASSUME [ItNext]_itVars
  PROVE  \/ [TicketNext]_ticketVars
         \/ ParentMoves /\ <<status, status'>> \in ItEdges
<1>1. CASE TicketNext \/ UNCHANGED itVars
  BY <1>1 DEF itVars
<1>2. ASSUME NEW c \in Children, CreateItChild(c)
      PROVE  ParentMoves /\ <<status, status'>> \in ItEdges
  <2>1. MoveParent("waiting_it", "ticket.it_child.create")
        /\ status \notin TerminalCodes \union {"resolved"}
    BY <1>2 DEF CreateItChild
  <2>2. status' = "waiting_it" /\ status \in Statuses
    BY <2>1, EnteredStatus DEF MoveParent
  <2> QED BY <2>1, <2>2 DEF ParentMoves, ItEdges
<1>3. ASSUME NEW c \in Children, NEW to \in ItStatuses, ChildTransition(c, to)
      PROVE  \/ [TicketNext]_ticketVars
             \/ ParentMoves /\ <<status, status'>> \in ItEdges
  <2>1. CASE to \in Returned /\ status = "waiting_it"
    <3>1. MoveParent("in_progress", "ticket.it_child.sync")
      BY <1>3, <2>1 DEF ChildTransition
    <3>2. status' = "in_progress"
      BY <3>1, EnteredStatus DEF MoveParent
    <3> QED BY <2>1, <3>1, <3>2 DEF ParentMoves, ItEdges
  <2>2. CASE ~(to \in Returned /\ status = "waiting_it")
    BY <1>3, <2>2 DEF ChildTransition
  <2> QED BY <2>1, <2>2
<1> QED BY <1>1, <1>2, <1>3 DEF ItNext

(* The hand-over drives the parent's clocks as SlaClock allows, so that    *)
(* what is proved of the clocks holds of a ticket with IT children.        *)
THEOREM ItClocksImplemented == ItSpec => ClockSpec
<1>1. [TicketNext]_ticketVars => [ClockNext]_clockVars
  BY SystemKeepsClocks, StaffKeepsClocks DEF TicketNext, ticketVars
<1>2. ParentMoves => ClockNext
  BY EnterIsSync DEF ParentMoves, MoveParent
<1>3. [ItNext]_itVars => [ClockNext]_clockVars
  BY <1>1, <1>2, ItSteps
<1>4. ItInit => ClockInit
  BY InitClocks DEF ItInit
<1> QED BY <1>3, <1>4, PTL DEF ItSpec, ClockSpec

(* No clock of a ticket with IT children stays frozen for a reason that is *)
(* no longer the ticket's.                                                 *)
THEOREM ItFrozen == ItSpec => []FrozenOnlyWhileWaiting
BY ItClocksImplemented, FrozenTheorem, PTL

(* A child is absent, new, or in a status of the IT workflow.              *)
THEOREM ItTypes == ItSpec => []ItTypeOK
<1>1. ItInit => ItTypeOK
  BY DEF ItInit, ItTypeOK, ItStatuses
<1>2. ItTypeOK /\ [ItNext]_itVars => ItTypeOK'
  BY DEF ItTypeOK, ItNext, CreateItChild, ChildTransition, ItStatuses, itVars
<1> QED BY <1>1, <1>2, PTL DEF ItSpec

(* The return of a child puts the parent back to work: afterwards it is not*)
(* waiting for IT and no clock of it is frozen on IT's account, however    *)
(* many children there are and whatever was done to the parent meanwhile.  *)
THEOREM ReturnTheorem == ItSpec => ReturnResumesWork
<1>1. ItTypeOK /\ FrozenOnlyWhileWaiting' /\ [ItNext]_itVars =>
        [\A c \in Children :
           child'[c] # child[c] /\ child'[c] \in {"resolved", "closed"} =>
             status' # "waiting_it" /\ \A k \in Kinds : sla'[k].state # "paused_it"]_itVars
  <2> SUFFICES ASSUME ItTypeOK, FrozenOnlyWhileWaiting', ItNext, NEW c \in Children,
                      child'[c] # child[c], child'[c] \in {"resolved", "closed"}
               PROVE  status' # "waiting_it" /\ \A k \in Kinds : sla'[k].state # "paused_it"
    BY DEF itVars
  <2>1. status' # "waiting_it"
    <3>1. ~(TicketNext /\ UNCHANGED child)
      OBVIOUS
    <3>2. ~ \E d \in Children : CreateItChild(d)
      BY DEF CreateItChild, ItTypeOK
    <3>3. PICK d \in Children, to \in ItStatuses : ChildTransition(d, to)
      BY <3>1, <3>2 DEF ItNext
    <3>4. to \in Returned
      BY <3>3 DEF ChildTransition, Returned, ItTypeOK
    <3>5. CASE status = "waiting_it"
      BY <3>3, <3>4, <3>5, EnteredStatus DEF ChildTransition, MoveParent
    <3>6. CASE status # "waiting_it"
      BY <3>3, <3>6 DEF ChildTransition, ticketVars, clockVars
    <3> QED BY <3>5, <3>6
  <2>2. ASSUME NEW k \in Kinds, sla'[k].state = "paused_it" PROVE FALSE
    <3>1. status' \in DOMAIN Waiting /\ Waiting[status'] = "paused_it"
      BY <2>2 DEF FrozenOnlyWhileWaiting, Paused
    <3> QED BY <2>1, <3>1, ItWaitingAssumption
  <2> QED BY <2>1, <2>2
<1> QED BY <1>1, ItTypes, ItFrozen, PTL DEF ItSpec, ReturnResumesWork

(* A request about the parent is refused when a child has moved the parent *)
(* since its user looked.                                                  *)
THEOREM ItNoLostUpdate == ItSpec => NoLostUpdate
<1>1. TokenInv /\ ParentMoves => UnseenStep
  BY SaveAdvances DEF TokenInv, ParentMoves, MoveParent, UnseenStep
<1>2. TokenInv /\ UnseenStep => TokenInv'
  BY BoundsAssumption DEF TokenInv, UnseenStep, Saved, UpToDate, Facts
<1>3. TokenInv /\ [ItNext]_itVars => TokenInv'
  BY <1>1, <1>2, ItSteps, TokenNext
<1>4. TokenInv /\ [ItNext]_itVars =>
        [\A a \in Staff :
           Facts' # Facts /\ views'[a] # views[a] => views[a].facts = Facts]_ticketVars
  <2> SUFFICES ASSUME TokenInv, [ItNext]_itVars, NEW a \in Staff,
                      Facts' # Facts, views'[a] # views[a]
               PROVE  views[a].facts = Facts
    OBVIOUS
  <2>1. ~UnseenStep
    BY DEF UnseenStep
  <2>2. [TicketNext]_ticketVars
    BY <1>1, <2>1, ItSteps
  <2>3. PICK b \in Staff : RequestStep(b)
    BY <2>1, <2>2, StepKinds DEF TokenInv, ReadStep, Facts
  <2>4. a = b
    BY <2>3 DEF TokenInv, RequestStep, Respond
  <2> QED BY <2>3, <2>4 DEF TokenInv, RequestStep
<1>5. ItInit => TokenInv
  BY TokenInit DEF ItInit
<1> QED BY <1>3, <1>4, <1>5, PTL DEF ItSpec, NoLostUpdate

(* The event of the hand-over continues the parent's ledger.               *)
LEMMA ParentRecorded ==
  ASSUME LedgerInv, ParentMoves
  PROVE  LedgerInv' /\ Recorded /\ MovedTo(status')
<1>1. PICK to, source : MoveParent(to, source) /\ source \in ItSources
  BY DEF ParentMoves, ItSources
<1> DEFINE e == ItChildEvent(source, to)
<1>2. /\ EnterStatus(to) /\ status' = to /\ status \in Statuses /\ to \in Statuses
      /\ owner' = owner /\ queue' = queue /\ ledger' = ledger \o <<e>>
  BY <1>1, EnteredStatus DEF MoveParent, RecordCustody
<1>3. e \in CustodyEvents
  <2>1. e = ItEvent(source, status, to, queue)
    BY DEF ItChildEvent, ItEvent
  <2>2. queue \in Queues \union {Nobody}
    BY DEF LedgerInv
  <2> QED BY <1>1, <1>2, <2>1, <2>2 DEF CustodyEvents
<1>4. Fits(e, Facts, Facts')
  BY <1>2, FactFields, NextFactFields DEF ItChildEvent, Fits
<1>5. IsWorkflow(e) /\ e.new["status"] = to
  BY <1>1 DEF IsWorkflow, ItChildEvent, ItSources
<1> HIDE DEF e
<1>6. Recorded
  BY <1>2, <1>3, <1>4, OneRecorded
<1>7. ledger \in Seq(CustodyEvents) /\ ledger' = Append(ledger, e)
  BY <1>2, <1>3 DEF LedgerInv
<1>8. MovedTo(to)
  BY <1>2, <1>3, <1>5, <1>7, QuietNothing, Zenon DEF MovedTo
<1> QED BY <1>2, <1>6, <1>8 DEF LedgerInv, Recorded

(* The parent implements CustodyLedger, whatever IT does.                  *)
THEOREM ItCustody == ItSpec => CustodyLedgerSpec
<1>1. LedgerInv /\ [ItNext]_itVars => LedgerInv'
  BY ItSteps, LedgerStep, ParentRecorded
<1>2. LedgerInv /\ [ItNext]_itVars => [Custody!Record]_<<Facts, ledger>>
  BY ItSteps, LedgerStep, ParentRecorded DEF Recorded, Custody!Record
<1>3. ItInit => LedgerInv /\ Custody!LedgerInit
  BY LedgerStart DEF ItInit
<1> QED BY <1>1, <1>2, <1>3, PTL DEF ItSpec, CustodyLedgerSpec, Custody!LedgerSpec

(* The two records of a ticket with IT children tell the same changes.     *)
THEOREM ItLogs == ItSpec => []LogsAgree
<1>1. LedgerInv /\ LogsInv /\ [ItNext]_itVars => LogsInv'
  BY ItSteps, LogSteps, LogsMove, LogsKept, ParentRecorded
<1>2. LedgerInv /\ [ItNext]_itVars => LedgerInv'
  BY ItSteps, LedgerStep, ParentRecorded
<1>3. ItInit => LedgerInv /\ LogsInv
  BY LedgerStart, LogsStart DEF ItInit
<1>4. LogsInv => LogsAgree
  BY DEF LogsInv
<1> QED BY <1>1, <1>2, <1>3, <1>4, PTL DEF ItSpec

(* The hand-over never leaves a resolution behind, nor loses one.          *)
THEOREM ItResolution ==
  ASSUME KeepsOutcome(Workflow), InitialStatus \notin {"resolved", "closed"},
         "closed" \in TerminalCodes
  PROVE  ItSpec => []ResolutionOnRecord
<1>1. KeepsOutcome(ItEdges)
  BY DEF KeepsOutcome, ItEdges
<1>2. LogsInv /\ ResolutionOnRecord /\ ParentMoves /\ <<status, status'>> \in ItEdges
        => ResolutionOnRecord'
  <2> SUFFICES ASSUME LogsInv, ResolutionOnRecord, ParentMoves, <<status, status'>> \in ItEdges
               PROVE  ResolutionOnRecord'
    OBVIOUS
  <2>1. PICK to : EnterStatus(to)
    BY DEF ParentMoves, MoveParent
  <2>2. status' = to
    BY <2>1, EnteredStatus
  <2> QED BY <1>1, <2>1, <2>2, OutcomeMove
<1>3. LedgerInv /\ LogsInv /\ ResolutionOnRecord /\ [ItNext]_itVars => ResolutionOnRecord'
  BY <1>2, ItSteps, LogSteps, OutcomeMove, OutcomeKept DEF MovedTo
<1>4. LedgerInv /\ LogsInv /\ [ItNext]_itVars => LogsInv'
  BY ItSteps, LogSteps, LogsMove, LogsKept, ParentRecorded
<1>5. LedgerInv /\ [ItNext]_itVars => LedgerInv'
  BY ItSteps, LedgerStep, ParentRecorded
<1>6. ItInit => LedgerInv /\ LogsInv /\ ResolutionOnRecord
  BY LedgerStart, LogsStart, OutcomeStart DEF ItInit
<1> QED BY <1>3, <1>4, <1>5, <1>6, PTL DEF ItSpec
=============================================================================
