------------------------- MODULE ChannelIntakeProofs -------------------------
(***************************************************************************)
(* For any number of workers, batches and faults: every message is         *)
(* recorded once, none is confirmed before, and ChannelIntake implements   *)
(* MessageFiling.  Unique keys carry the argument.  What a transaction has *)
(* claimed nobody else has, so what it records nobody else records; and    *)
(* when it commits, each of its messages is either on a ticket of its own  *)
(* making or was found claimed, and then is on record already.             *)
(***************************************************************************)
EXTENDS ChannelIntake, FiniteSetTheorems, TLAPS

-----------------------------------------------------------------------------
(* The inductive invariant.                                                *)

Works == [batch : Seq(Events), sent : Seq(Events),
          step : {"idle", "claim", "contact", "record"},
          claims : SUBSET (Events \union Mails), made : SUBSET Senders,
          homes : SUBSET (Events \X Events)]

Types ==
  /\ offered \in Scenarios
  /\ acked \subseteq Events /\ expired \subseteq Events
  /\ claimed \subseteq Events \union Mails
  /\ contacts \in [Senders -> Nat]
  /\ home \subseteq Events \X Events
  /\ copies \in [Events -> Nat]
  /\ worker \in [Workers -> Works]
  /\ ready \in BOOLEAN
  /\ faults \in 0 .. MaxFaults

(* A set of pairs holds a message, at most once each.                      *)
Holds(pairs, mail) == \E p \in pairs : Mail[p[1]] = mail
OncePerMail(pairs) == \A p, q \in pairs : Mail[p[1]] = Mail[q[1]] => p = q

(* An event is claimed together with its message, and a message that is    *)
(* claimed is recorded, but for the one that a worker has in hand.         *)
InHand(k, mail) == k.step \in {"contact", "record"} /\ mail = Mail[Head(k.batch)]

TablesInv ==
  /\ \A e \in Events : e \in claimed => Mail[e] \in claimed
  /\ \A mail \in Mails : mail \in claimed => Holds(home, mail)
  /\ \A p \in home : Mail[p[1]] \in claimed
  /\ OncePerMail(home)
  /\ \A e \in Events : copies[e] = IF \E p \in home : p[1] = e THEN 1 ELSE 0
  /\ \A e \in acked : Mail[e] \in claimed

WorkInv(k) ==
  /\ k.step = "idle" => k = Idle
  /\ k.step \in {"contact", "record"} =>
       /\ k.batch # <<>>
       /\ Mail[Head(k.batch)] \in k.claims
       /\ ~Holds(k.homes, Mail[Head(k.batch)])
  /\ \A e \in Events : e \in k.claims => Mail[e] \in k.claims
  /\ \A mail \in Mails : mail \in k.claims => Holds(k.homes, mail) \/ InHand(k, mail)
  /\ \A p \in k.homes : Mail[p[1]] \in k.claims
  /\ OncePerMail(k.homes)
  /\ \A e \in Range(k.sent) : e \in Range(k.batch) \/ Mail[e] \in k.claims \union claimed

(* Nobody has claimed what another has, or what is committed.              *)
ClaimsInv ==
  /\ \A w \in Workers : worker[w].claims \intersect claimed = {}
  /\ \A v, w \in Workers : v # w => worker[v].claims \intersect worker[w].claims = {}

(* A ticket holds what its opener sent, and its opening is in sight.       *)
Threaded(pairs, all) ==
  \A p \in pairs : /\ <<p[2], p[2]>> \in all
                   /\ Domain[p[1]] = Domain[p[2]] /\ Sender[p[1]] = Sender[p[2]]

ThreadInv ==
  /\ Threaded(home, home)
  /\ \A w \in Workers : Threaded(worker[w].homes, home \union worker[w].homes)

(* An address has one contact, and one transaction at a time makes it.     *)
Address(s) == s \in Senders \ Numbers

ContactInv ==
  \A s \in Senders : Address(s) =>
    /\ contacts[s] <= 1
    /\ \A w \in Workers : s \in worker[w].made =>
         contacts[s] = 0 /\ \A v \in Workers \ {w} : s \notin worker[v].made

DeliveryInv ==
  /\ delivery.receipts \subseteq {"failed", "bounced"}
  /\ delivery = Delivery(delivery.row, delivery.mirror, delivery.receipts)
  /\ BounceIsTerminal

IInv ==
  /\ Types /\ TablesInv /\ ClaimsInv /\ ThreadInv /\ ContactInv /\ DeliveryInv
  /\ \A w \in Workers : WorkInv(worker[w])

-----------------------------------------------------------------------------
(* Operators.                                                              *)

(* What is left of a batch when its first event is dropped.                *)
LEMMA TailRange ==
  ASSUME NEW s \in Seq(Events), s # <<>>
  PROVE  /\ Head(s) \in Events /\ Tail(s) \in Seq(Events)
         /\ \A e \in Range(s) : e = Head(s) \/ e \in Range(Tail(s))
         /\ Range(s) \subseteq Events
<1>1. /\ Head(s) \in Events /\ Head(s) = s[1] /\ Tail(s) \in Seq(Events)
      /\ DOMAIN s = 1 .. Len(s) /\ DOMAIN Tail(s) = 1 .. Len(s) - 1 /\ Len(s) \in Nat
      /\ \A i \in 1 .. Len(s) - 1 : Tail(s)[i] = s[i + 1]
      /\ \A i \in 1 .. Len(s) : s[i] \in Events
  OBVIOUS
<1>2. ASSUME NEW i \in DOMAIN s PROVE s[i] = Head(s) \/ s[i] \in Range(Tail(s))
  <2>1. CASE i = 1
    BY <1>1, <2>1
  <2>2. CASE i # 1
    <3>1. i - 1 \in DOMAIN Tail(s) /\ Tail(s)[i - 1] = s[i]
      BY <1>1, <1>2, <2>2
    <3> QED BY <3>1 DEF Range
  <2> QED BY <2>1, <2>2
<1> QED BY <1>1, <1>2 DEF Range

(* The keys of an event are its message's and perhaps its own.             *)
LEMMA KeyFacts ==
  ASSUME NEW e \in Events
  PROVE  /\ Mail[e] \in Mails /\ Mail[e] \in Keys(e)
         /\ Keys(e) \subseteq {e, Mail[e]} /\ Keys(e) \subseteq Events \union Mails
         /\ \A f \in Events : f \in Keys(e) => f = e
         /\ \A mail \in Mails : mail \in Keys(e) => mail = Mail[e]
<1>1. /\ Mail \in [Events -> Mails] /\ Events \intersect Mails = {}
  BY IntakeAssumption
<1> QED BY <1>1 DEF Keys

(* A set of at most one pair for each message counts each event once.      *)
LEMMA CountOnce ==
  ASSUME NEW pairs \in SUBSET (Events \X Events), OncePerMail(pairs), NEW e \in Events
  PROVE  Cardinality({p \in pairs : p[1] = e}) = IF \E p \in pairs : p[1] = e THEN 1 ELSE 0
<1> DEFINE S == {p \in pairs : p[1] = e}
<1>1. CASE \E p \in pairs : p[1] = e
  <2>1. PICK p \in pairs : p[1] = e
    BY <1>1
  <2>2. S = {p}
    BY <2>1 DEF OncePerMail
  <2> QED BY <1>1, <2>2, FS_Singleton
<1>2. CASE ~ \E p \in pairs : p[1] = e
  <2>1. S = {}
    BY <1>2
  <2> QED BY <1>2, <2>1, FS_EmptySet
<1> QED BY <1>1, <1>2

(* A transaction makes a contact of a sender or it does not.               *)
LEMMA SeenFacts ==
  ASSUME NEW w \in Workers, NEW s \in Senders, contacts \in [Senders -> Nat]
  PROVE  /\ ContactsSeen(w, s) \in Nat
         /\ s \in worker[w].made => ContactsSeen(w, s) = contacts[s] + 1
         /\ s \notin worker[w].made => ContactsSeen(w, s) = contacts[s]
<1>1. CASE s \in worker[w].made
  <2>1. worker[w].made \intersect {s} = {s}
    BY <1>1
  <2>2. Cardinality(worker[w].made \intersect {s}) = 1
    BY <2>1, FS_Singleton
  <2> QED BY <1>1, <2>2 DEF ContactsSeen
<1>2. CASE s \notin worker[w].made
  <2>1. worker[w].made \intersect {s} = {}
    BY <1>2
  <2> QED BY <1>2, <2>1, FS_EmptySet DEF ContactsSeen
<1> QED BY <1>1, <1>2

(* A worker at rest satisfies every part of the invariant.                 *)
LEMMA IdleWork ==
  /\ Idle \in Works /\ WorkInv(Idle)
  /\ Idle.claims = {} /\ Idle.homes = {} /\ Idle.made = {} /\ Idle.step = "idle"
<1>1. /\ Idle.batch = <<>> /\ Idle.sent = <<>> /\ Idle.step = "idle"
      /\ Idle.claims = {} /\ Idle.homes = {} /\ Idle.made = {}
  BY DEF Idle
<1>2. Idle \in Works
  BY DEF Idle, Works
<1>3. Range(Idle.sent) = {}
  BY <1>1 DEF Range
<1>4. WorkInv(Idle)
  BY <1>1, <1>3 DEF WorkInv, OncePerMail
<1> QED BY <1>1, <1>2, <1>4

-----------------------------------------------------------------------------
(* A transaction goes on.                                                  *)

(* What the new work k of a worker must satisfy when the tables stay.      *)
Sound(w, k) ==
  /\ k \in Works /\ WorkInv(k)
  /\ k.claims \intersect claimed = {}
  /\ \A v \in Workers \ {w} : worker[v].claims \intersect k.claims = {}
  /\ Threaded(k.homes, home \union k.homes)
  /\ \A s \in k.made : Address(s) =>
       contacts[s] = 0 /\ \A v \in Workers \ {w} : s \notin worker[v].made

(* What a worker has done so far satisfies it.                             *)
LEMMA SoundSoFar ==
  ASSUME IInv, NEW w \in Workers
  PROVE  Sound(w, worker[w])
<1>1. worker[w] \in Works /\ WorkInv(worker[w])
  BY DEF IInv, Types
<1>2. /\ worker[w].claims \intersect claimed = {}
      /\ \A v \in Workers \ {w} : worker[v].claims \intersect worker[w].claims = {}
  BY DEF IInv, ClaimsInv
<1>3. Threaded(worker[w].homes, home \union worker[w].homes)
  BY DEF IInv, ThreadInv
<1>4. ASSUME NEW s \in worker[w].made, Address(s)
      PROVE  contacts[s] = 0 /\ \A v \in Workers \ {w} : s \notin worker[v].made
  BY <1>4 DEF IInv, ContactInv, Address
<1> QED BY <1>1, <1>2, <1>3, <1>4 DEF Sound

(* A step of one worker that touches no table.                             *)
LEMMA WorkGoesOn ==
  ASSUME IInv, NEW w \in Workers, NEW k, Sound(w, k),
         worker' = [worker EXCEPT ![w] = k],
         UNCHANGED <<tableVars, offered, acked, expired, delivery>>,
         ready' \in BOOLEAN, faults' \in 0 .. MaxFaults
  PROVE  IInv'
<1>1. /\ worker' \in [Workers -> Works] /\ worker'[w] = k
      /\ \A v \in Workers \ {w} : worker'[v] = worker[v]
      /\ UNCHANGED <<claimed, contacts, home, copies, offered, acked, expired, delivery>>
  BY DEF IInv, Types, Sound, tableVars
<1>2. Types'
  BY <1>1 DEF IInv, Types
<1>3. TablesInv'
  BY <1>1 DEF IInv, TablesInv
<1>4. ClaimsInv'
  BY <1>1 DEF IInv, ClaimsInv, Sound
<1>5. ThreadInv'
  BY <1>1 DEF IInv, ThreadInv, Sound
<1>6. ContactInv'
  BY <1>1 DEF IInv, ContactInv, Sound
<1>7. DeliveryInv'
  BY <1>1 DEF IInv, DeliveryInv, BounceIsTerminal
<1>8. ASSUME NEW v \in Workers PROVE WorkInv(worker[v])'
  BY <1>1 DEF IInv, WorkInv, Sound
<1> QED BY <1>2, <1>3, <1>4, <1>5, <1>6, <1>7, <1>8 DEF IInv

-----------------------------------------------------------------------------
(* The steps of a transaction.                                             *)

(* A batch is taken up.                                                    *)
LEMMA DeliverKeeps ==
  ASSUME IInv, NEW w \in Workers, NEW batch, Deliver(w, batch)
  PROVE  IInv'
<1> DEFINE k == [Idle EXCEPT !.batch = batch, !.sent = batch, !.step = "claim"]
<1>1. batch \in Seq(Events)
  BY IntakeAssumption DEF IInv, Types, Deliver
<1>2. /\ k.batch = batch /\ k.sent = batch /\ k.step = "claim"
      /\ k.claims = {} /\ k.homes = {} /\ k.made = {} /\ k \in Works
  BY <1>1 DEF Idle, Works
<1>3. worker' = [worker EXCEPT ![w] = k]
  BY DEF Deliver
<1> HIDE DEF k
<1>4. WorkInv(k)
  BY <1>2 DEF WorkInv, OncePerMail, InHand
<1>5. Sound(w, k)
  BY <1>2, <1>4 DEF Sound, Threaded
<1> QED BY <1>3, <1>5, WorkGoesOn DEF Deliver, providerVars, IInv, Types

(* The event that a worker has in hand.                                    *)
LEMMA CurrentFacts ==
  ASSUME IInv, NEW w \in Workers, worker[w].batch # <<>>
  PROVE  /\ Current(w) \in Events /\ Current(w) = Head(worker[w].batch)
         /\ worker[w] \in Works /\ worker[w].batch \in Seq(Events)
         /\ WorkInv(worker[w])
<1>1. worker[w] \in Works /\ WorkInv(worker[w])
  BY DEF IInv, Types
<1>2. worker[w].batch \in Seq(Events)
  BY <1>1 DEF Works
<1> QED BY <1>1, <1>2, TailRange DEF Current

(* An event is claimed: its keys are nobody else's.                        *)
LEMMA ClaimKeeps ==
  ASSUME IInv, NEW w \in Workers, ClaimEvent(w),
         Keys(Current(w)) \intersect (claimed \union worker[w].claims) = {}
  PROVE  IInv'
<1> DEFINE e == Current(w)
           old == worker[w]
           k == [old EXCEPT !.claims = @ \union Keys(e), !.step = "contact"]
<1>1. /\ e \in Events /\ e = Head(old.batch) /\ old \in Works /\ WorkInv(old)
      /\ old.step = "claim" /\ old.batch # <<>>
  BY CurrentFacts DEF ClaimEvent, InBatch
<1>2. /\ k.batch = old.batch /\ k.sent = old.sent /\ k.step = "contact"
      /\ k.claims = old.claims \union Keys(e) /\ k.homes = old.homes /\ k.made = old.made
  BY <1>1 DEF Works
<1>3. worker' = [worker EXCEPT ![w] = k]
  BY DEF ClaimEvent, Claims
<1>4. k \in Works
  BY <1>1, KeyFacts DEF Works
<1>5. Keys(e) \intersect (claimed \union old.claims) = {}
  OBVIOUS
<1>6. \A v \in Workers \ {w} : worker[v].claims \intersect Keys(e) = {}
  BY DEF ClaimEvent, Blockers
<1> HIDE DEF k, e, old
<1>7. WorkInv(k)
  <2>1. ~Holds(k.homes, Mail[e])
    BY <1>1, <1>2, <1>5, KeyFacts DEF WorkInv, Holds
  <2>2. \A f \in Events : f \in k.claims => Mail[f] \in k.claims
    BY <1>1, <1>2, KeyFacts DEF WorkInv
  <2>3. \A mail \in Mails : mail \in k.claims => Holds(k.homes, mail) \/ InHand(k, mail)
    BY <1>1, <1>2, KeyFacts DEF WorkInv, InHand
  <2>4. /\ \A p \in k.homes : Mail[p[1]] \in k.claims
        /\ \A f \in Range(k.sent) : f \in Range(k.batch) \/ Mail[f] \in k.claims \union claimed
        /\ OncePerMail(k.homes)
    BY <1>1, <1>2 DEF WorkInv
  <2> QED BY <1>1, <1>2, <2>1, <2>2, <2>3, <2>4, KeyFacts DEF WorkInv
<1>8. Sound(w, k)
  BY <1>2, <1>4, <1>5, <1>6, <1>7, SoundSoFar DEF Sound, old
<1> QED BY <1>3, <1>8, WorkGoesOn DEF ClaimEvent, providerVars, IInv, Types

(* A duplicate is skipped: it is claimed, by this transaction or before.   *)
LEMMA SkipKeeps ==
  ASSUME IInv, NEW w \in Workers, ClaimEvent(w),
         Keys(Current(w)) \intersect (claimed \union worker[w].claims) # {}
  PROVE  IInv'
<1> DEFINE e == Current(w)
           old == worker[w]
           k == [old EXCEPT !.batch = Tail(@)]
<1>1. /\ e \in Events /\ e = Head(old.batch) /\ old \in Works /\ WorkInv(old)
      /\ old.step = "claim" /\ old.batch # <<>> /\ old.batch \in Seq(Events)
  BY CurrentFacts DEF ClaimEvent, InBatch
<1>2. /\ k.batch = Tail(old.batch) /\ k.sent = old.sent /\ k.step = "claim"
      /\ k.claims = old.claims /\ k.homes = old.homes /\ k.made = old.made
  BY <1>1 DEF Works
<1>3. worker' = [worker EXCEPT ![w] = k]
  BY DEF ClaimEvent, Skips
<1>4. k \in Works
  BY <1>1, TailRange DEF Works
<1>5. Mail[e] \in old.claims \union claimed
  BY <1>1, KeyFacts DEF IInv, TablesInv, WorkInv
<1> HIDE DEF k, e, old
<1>6. WorkInv(k)
  <2>1. \A f \in Range(k.sent) : f \in Range(k.batch) \/ Mail[f] \in k.claims \union claimed
    BY <1>1, <1>2, <1>5, TailRange DEF WorkInv
  <2> QED BY <1>1, <1>2, <2>1 DEF WorkInv, InHand
<1>7. Sound(w, k)
  BY <1>2, <1>4, <1>6, SoundSoFar DEF Sound, old
<1> QED BY <1>3, <1>7, WorkGoesOn DEF ClaimEvent, providerVars, IInv, Types

(* The sender's contact is found or made.                                  *)
LEMMA ReconcileKeeps ==
  ASSUME IInv, NEW w \in Workers, ReconcileContact(w)
  PROVE  IInv'
<1> DEFINE e == Current(w)
           s == Sender[e]
           old == worker[w]
           k == [old EXCEPT !.step = "record",
                            !.made = IF ContactsSeen(w, s) = 0 THEN @ \union {s} ELSE @]
<1>1. /\ e \in Events /\ e = Head(old.batch) /\ old \in Works /\ WorkInv(old)
      /\ old.step = "contact" /\ old.batch # <<>> /\ s \in Senders
  BY CurrentFacts, IntakeAssumption DEF ReconcileContact, InBatch
<1>2. /\ k.batch = old.batch /\ k.sent = old.sent /\ k.step = "record"
      /\ k.claims = old.claims /\ k.homes = old.homes
      /\ k.made = IF ContactsSeen(w, s) = 0 THEN old.made \union {s} ELSE old.made
  BY <1>1 DEF Works
<1>3. worker' = [worker EXCEPT ![w] = k]
  BY DEF ReconcileContact
<1>4. k \in Works
  BY <1>1 DEF Works
<1>5. contacts \in [Senders -> Nat]
  BY DEF IInv, Types
<1>6. \A t \in k.made : Address(t) =>
        contacts[t] = 0 /\ \A v \in Workers \ {w} : t \notin worker[v].made
  <2>1. ASSUME s \in k.made, s \notin old.made, Address(s)
        PROVE  contacts[s] = 0 /\ \A v \in Workers \ {w} : s \notin worker[v].made
    <3>1. ContactsSeen(w, s) = 0
      BY <1>2, <2>1
    <3>2. contacts[s] = 0
      BY <1>1, <1>5, <2>1, <3>1, SeenFacts
    <3>3. \A v \in Workers \ {w} : s \notin worker[v].made
      BY <2>1 DEF ReconcileContact, Address
    <3> QED BY <3>2, <3>3
  <2>2. ASSUME NEW t \in old.made, Address(t)
        PROVE  contacts[t] = 0 /\ \A v \in Workers \ {w} : t \notin worker[v].made
    BY <2>2 DEF IInv, ContactInv, Address
  <2> QED BY <1>2, <2>1, <2>2
<1> HIDE DEF k, e, old, s
<1>7. WorkInv(k)
  BY <1>1, <1>2 DEF WorkInv, InHand
<1>8. Sound(w, k)
  BY <1>2, <1>4, <1>6, <1>7, SoundSoFar DEF Sound, old
<1> QED BY <1>3, <1>8, WorkGoesOn DEF ReconcileContact, providerVars, IInv, Types

(* A ticket found for a message is its requester's and was opened.         *)
LEMMA TargetFacts ==
  ASSUME IInv, NEW w \in Workers, NEW e \in Events, NEW h \in Targets(w, e)
  PROVE  /\ h \in Events
         /\ h = e \/ (<<h, h>> \in home \union worker[w].homes /\ Eligible(e, h))
<1>1. \A p \in Visible(w) : p[2] \in Events /\ <<p[2], p[2]>> \in home \union worker[w].homes
  <2>1. home \subseteq Events \X Events /\ worker[w].homes \subseteq Events \X Events
    BY DEF IInv, Types, Works
  <2>2. Threaded(home, home) /\ Threaded(worker[w].homes, home \union worker[w].homes)
    BY DEF IInv, ThreadInv
  <2> QED BY <2>1, <2>2 DEF Visible, Threaded
<1>2. h = e \/ (Eligible(e, h) /\ \E p \in Visible(w) : h = p[2])
  BY DEF Targets
<1> QED BY <1>1, <1>2

(* The message is recorded, on a ticket that was found or on a new one.    *)
LEMMA RecordKeeps ==
  ASSUME IInv, NEW w \in Workers, RecordMessage(w)
  PROVE  IInv'
<1> DEFINE e == Current(w)
           old == worker[w]
<1>1. PICK h \in Targets(w, e) :
        worker' = [worker EXCEPT ![w].homes = @ \union {<<e, h>>},
                                 ![w].batch = Tail(@), ![w].step = "claim"]
  BY DEF RecordMessage
<1> DEFINE k == [old EXCEPT !.homes = @ \union {<<e, h>>}, !.batch = Tail(@), !.step = "claim"]
<1>2. /\ e \in Events /\ e = Head(old.batch) /\ old \in Works /\ WorkInv(old)
      /\ old.step = "record" /\ old.batch # <<>> /\ old.batch \in Seq(Events)
  BY CurrentFacts DEF RecordMessage, InBatch
<1>3. /\ k.batch = Tail(old.batch) /\ k.sent = old.sent /\ k.step = "claim"
      /\ k.claims = old.claims /\ k.homes = old.homes \union {<<e, h>>} /\ k.made = old.made
  BY <1>2 DEF Works
<1>4. worker' = [worker EXCEPT ![w] = k]
  BY <1>1
<1>5. h \in Events /\ (h = e \/ (<<h, h>> \in home \union old.homes /\ Eligible(e, h)))
  BY <1>2, TargetFacts
<1>6. k \in Works
  <2>1. Tail(old.batch) \in Seq(Events)
    BY <1>2, TailRange
  <2>2. old.homes \union {<<e, h>>} \subseteq Events \X Events
    BY <1>2, <1>5 DEF Works
  <2> QED BY <1>2, <2>1, <2>2 DEF Works
<1>7. old.homes \subseteq Events \X Events
  BY <1>2 DEF Works
<1> HIDE DEF k, e
<1>8. WorkInv(k)
  <2>1. Mail[e] \in old.claims /\ ~Holds(old.homes, Mail[e])
    BY <1>2 DEF WorkInv
  <2>2. OncePerMail(k.homes)
    BY <1>2, <1>3, <2>1 DEF WorkInv, OncePerMail, Holds
  <2>3. \A mail \in Mails : mail \in k.claims => Holds(k.homes, mail)
    <3>1. <<e, h>> \in k.homes /\ <<e, h>>[1] = e
      BY <1>3
    <3>2. ASSUME NEW mail \in Mails, mail \in old.claims PROVE Holds(old.homes, mail) \/ mail = Mail[e]
      BY <1>2, <3>2 DEF WorkInv, InHand
    <3> QED BY <1>3, <3>1, <3>2 DEF Holds
  <2>4. \A p \in k.homes : Mail[p[1]] \in k.claims
    BY <1>2, <1>3, <2>1 DEF WorkInv
  <2>5. \A f \in Range(k.sent) : f \in Range(k.batch) \/ Mail[f] \in k.claims \union claimed
    BY <1>2, <1>3, <2>1, TailRange DEF WorkInv
  <2> QED BY <1>2, <1>3, <2>2, <2>3, <2>4, <2>5 DEF WorkInv
<1>9. Threaded(k.homes, home \union k.homes)
  <2>1. Threaded(old.homes, home \union old.homes)
    BY DEF IInv, ThreadInv
  <2>2. ASSUME NEW p \in old.homes
        PROVE  /\ <<p[2], p[2]>> \in home \union k.homes
               /\ Domain[p[1]] = Domain[p[2]] /\ Sender[p[1]] = Sender[p[2]]
    BY <1>3, <2>1 DEF Threaded
  <2>3. <<h, h>> \in home \union k.homes /\ Domain[e] = Domain[h] /\ Sender[e] = Sender[h]
    BY <1>3, <1>5 DEF Eligible
  <2>4. <<e, h>>[1] = e /\ <<e, h>>[2] = h
    OBVIOUS
  <2>5. ASSUME NEW p \in k.homes
        PROVE  /\ <<p[2], p[2]>> \in home \union k.homes
               /\ Domain[p[1]] = Domain[p[2]] /\ Sender[p[1]] = Sender[p[2]]
    BY <1>3, <2>2, <2>3, <2>4
  <2> QED BY <2>5 DEF Threaded
<1>10. Sound(w, k)
  BY <1>3, <1>6, <1>8, <1>9, SoundSoFar DEF Sound
<1> QED BY <1>4, <1>10, WorkGoesOn DEF RecordMessage, providerVars, IInv, Types

(* A transaction is rolled back: its claims are free again.                *)
LEMMA RollBackKeeps ==
  ASSUME IInv, NEW w \in Workers, RollBack(w), faults' \in 0 .. MaxFaults
  PROVE  IInv'
<1>1. Sound(w, Idle)
  BY IdleWork DEF Sound, Threaded
<1> QED BY <1>1, WorkGoesOn DEF RollBack, providerVars, IInv, Types

-----------------------------------------------------------------------------
(* A transaction commits.                                                  *)

(* A worker that has come to the end of its batch.                         *)
LEMMA BatchDone ==
  ASSUME IInv, NEW w \in Workers, worker[w].step = "claim", worker[w].batch = <<>>
  PROVE  /\ \A mail \in Mails : mail \in worker[w].claims => Holds(worker[w].homes, mail)
         /\ \A e \in Range(worker[w].sent) : Mail[e] \in worker[w].claims \union claimed
         /\ Range(worker[w].sent) \subseteq Events
<1>1. worker[w] \in Works /\ WorkInv(worker[w])
  BY DEF IInv, Types
<1>2. Range(worker[w].batch) = {}
  BY DEF Range
<1>3. Range(worker[w].sent) \subseteq Events
  BY <1>1 DEF Works, Range
<1> QED BY <1>1, <1>2, <1>3 DEF WorkInv, InHand

(* What two sets of pairs hold apart from each other they hold once.       *)
LEMMA OnceTogether ==
  ASSUME NEW P, NEW Q, OncePerMail(P), OncePerMail(Q),
         \A p \in P, q \in Q : Mail[p[1]] # Mail[q[1]]
  PROVE  OncePerMail(P \union Q)
BY DEF OncePerMail

(* The claims, contacts and records of a transaction become visible.       *)
LEMMA CommitKeeps ==
  ASSUME IInv, NEW w \in Workers, NEW lost \in BOOLEAN, CommitBatch(w, lost)
  PROVE  IInv'
<1> DEFINE k == worker[w]
<1>1. /\ k.step = "claim" /\ k.batch = <<>>
      /\ claimed' = claimed \union k.claims
      /\ contacts' = [s \in Senders |-> ContactsSeen(w, s)]
      /\ home' = home \union k.homes
      /\ copies' = [e \in Events |-> copies[e] + Cardinality({p \in k.homes : p[1] = e})]
      /\ worker' = [worker EXCEPT ![w] = Idle]
      /\ UNCHANGED <<offered, expired, ready, delivery>>
  BY DEF CommitBatch
<1>2. (acked' = acked /\ faults' \in 0 .. MaxFaults)
        \/ (acked' = acked \union Range(k.sent) /\ faults' = faults)
  BY IntakeAssumption DEF CommitBatch, Fault, IInv, Types
<1>3. k \in Works /\ WorkInv(k) /\ Sound(w, k)
  BY SoundSoFar DEF Sound
<1>4. /\ \A mail \in Mails : mail \in k.claims => Holds(k.homes, mail)
      /\ \A e \in Range(k.sent) : Mail[e] \in k.claims \union claimed
      /\ Range(k.sent) \subseteq Events
  BY <1>1, BatchDone
<1>5. k.homes \in SUBSET (Events \X Events) /\ home \subseteq Events \X Events
      /\ k.claims \subseteq Events \union Mails /\ OncePerMail(k.homes)
  BY <1>3 DEF Works, WorkInv, IInv, Types
<1>6. \A p \in home, q \in k.homes : Mail[p[1]] # Mail[q[1]]
  BY <1>3 DEF IInv, TablesInv, WorkInv, Sound
<1>7. worker' \in [Workers -> Works] /\ worker'[w] = Idle
      /\ \A v \in Workers \ {w} : worker'[v] = worker[v]
  BY <1>1, IdleWork DEF IInv, Types
<1>8. contacts \in [Senders -> Nat] /\ copies \in [Events -> Nat]
  BY DEF IInv, Types
<1> HIDE DEF k
<1>9. \A e \in Events :
        Cardinality({p \in k.homes : p[1] = e}) = IF \E p \in k.homes : p[1] = e THEN 1 ELSE 0
  BY <1>5, CountOnce
<1>10. Types'
  <2>1. contacts' \in [Senders -> Nat]
    BY <1>1, <1>8, SeenFacts
  <2>2. copies' \in [Events -> Nat]
    <3> DEFINE filedNow(e) == Cardinality({p \in k.homes : p[1] = e})
    <3>1. \A e \in Events : filedNow(e) \in Nat
      BY <1>9
    <3>2. copies' = [e \in Events |-> copies[e] + filedNow(e)]
      BY <1>1
    <3> HIDE DEF filedNow
    <3>3. \A e \in Events : copies[e] + filedNow(e) \in Nat
      BY <1>8, <3>1
    <3> QED BY <3>2, <3>3
  <2>3. acked' \subseteq Events /\ faults' \in 0 .. MaxFaults
    BY <1>2, <1>4 DEF IInv, Types
  <2>4. claimed' \subseteq Events \union Mails /\ home' \subseteq Events \X Events
    BY <1>1, <1>5 DEF IInv, Types
  <2>5. offered' \in Scenarios /\ expired' \subseteq Events /\ ready' \in BOOLEAN
    BY <1>1 DEF IInv, Types
  <2> QED BY <1>7, <2>1, <2>2, <2>3, <2>4, <2>5 DEF Types
<1>11. TablesInv'
  <2>1. ASSUME NEW e \in Events, e \in claimed' PROVE Mail[e] \in claimed'
    BY <1>1, <1>3, <2>1 DEF IInv, TablesInv, WorkInv
  <2>2. ASSUME NEW mail \in Mails, mail \in claimed' PROVE Holds(home', mail)
    BY <1>1, <1>4, <2>2 DEF IInv, TablesInv, Holds
  <2>3. ASSUME NEW p \in home' PROVE Mail[p[1]] \in claimed'
    BY <1>1, <1>3, <2>3 DEF IInv, TablesInv, WorkInv
  <2>4. OncePerMail(home')
    <3>1. OncePerMail(home)
      BY DEF IInv, TablesInv
    <3> QED BY <1>1, <1>5, <1>6, <3>1, OnceTogether
  <2>5. ASSUME NEW e \in Events
        PROVE  copies'[e] = IF \E p \in home' : p[1] = e THEN 1 ELSE 0
    <3>1. copies[e] = IF \E p \in home : p[1] = e THEN 1 ELSE 0
      BY DEF IInv, TablesInv
    <3>2. ~((\E p \in home : p[1] = e) /\ (\E p \in k.homes : p[1] = e))
      BY <1>6
    <3>3. copies'[e] = copies[e] + IF \E p \in k.homes : p[1] = e THEN 1 ELSE 0
      BY <1>1, <1>9
    <3> QED BY <1>1, <3>1, <3>2, <3>3
  <2>6. ASSUME NEW e \in acked' PROVE Mail[e] \in claimed'
    BY <1>1, <1>2, <1>4, <2>6 DEF IInv, TablesInv
  <2> QED BY <2>1, <2>2, <2>3, <2>4, <2>5, <2>6 DEF TablesInv, Holds
<1>12. ClaimsInv'
  <2>1. \A v \in Workers \ {w} : worker[v].claims \intersect k.claims = {}
    BY <1>3 DEF Sound
  <2> QED BY <1>1, <1>7, <2>1, IdleWork DEF IInv, ClaimsInv
<1>13. ThreadInv'
  <2>1. Threaded(home, home) /\ Threaded(k.homes, home \union k.homes)
    BY <1>3 DEF IInv, ThreadInv, Sound
  <2>2. Threaded(home', home')
    BY <1>1, <2>1 DEF Threaded
  <2>3. ASSUME NEW v \in Workers PROVE Threaded(worker'[v].homes, home' \union worker'[v].homes)
    <3>1. CASE v = w
      BY <1>7, <3>1, IdleWork DEF Threaded
    <3>2. CASE v # w
      BY <1>1, <1>7, <3>2 DEF IInv, ThreadInv, Threaded
    <3> QED BY <3>1, <3>2
  <2> QED BY <2>2, <2>3 DEF ThreadInv
<1>14. ContactInv'
  <2> SUFFICES ASSUME NEW s \in Senders, Address(s)
               PROVE  /\ contacts'[s] <= 1
                      /\ \A v \in Workers : s \in worker'[v].made =>
                           contacts'[s] = 0 /\ \A u \in Workers \ {v} : s \notin worker'[u].made
    BY DEF ContactInv, Address
  <2>1. contacts'[s] = ContactsSeen(w, s)
    BY <1>1
  <2>2. /\ contacts[s] <= 1
        /\ \A v \in Workers : s \in worker[v].made =>
             contacts[s] = 0 /\ \A u \in Workers \ {v} : s \notin worker[u].made
    BY DEF IInv, ContactInv
  <2>3. CASE s \in k.made
    <3>1. contacts'[s] = 1
      BY <1>8, <2>1, <2>2, <2>3, SeenFacts DEF k
    <3>2. \A v \in Workers : s \notin worker'[v].made
      BY <1>7, <2>2, <2>3, IdleWork DEF k
    <3> QED BY <3>1, <3>2
  <2>4. CASE s \notin k.made
    <3>1. contacts'[s] = contacts[s]
      BY <1>8, <2>1, <2>4, SeenFacts DEF k
    <3>2. \A v \in Workers : s \in worker'[v].made => s \in worker[v].made
      BY <1>7, IdleWork
    <3> QED BY <1>7, <2>2, <3>1, <3>2
  <2> QED BY <2>3, <2>4
<1>15. DeliveryInv'
  BY <1>1 DEF IInv, DeliveryInv, BounceIsTerminal
<1>16. ASSUME NEW v \in Workers PROVE WorkInv(worker[v])'
  <2>1. CASE v = w
    <3>1. Idle.claims = {} /\ Idle.homes = {} /\ Idle.step = "idle" /\ Range(Idle.sent) = {}
      BY IdleWork DEF Idle, Range
    <3> QED BY <1>7, <2>1, <3>1 DEF WorkInv, OncePerMail
  <2>2. CASE v # w
    BY <1>1, <1>7, <2>2 DEF IInv, WorkInv
  <2> QED BY <2>1, <2>2
<1> QED BY <1>10, <1>11, <1>12, <1>13, <1>14, <1>15, <1>16 DEF IInv

(* Steps that change neither tables nor workers.                           *)
LEMMA RestKeeps ==
  ASSUME IInv, UNCHANGED <<tableVars, worker, offered, acked>>, DeliveryInv',
         expired' \subseteq Events, ready' \in BOOLEAN, faults' \in 0 .. MaxFaults
  PROVE  IInv'
<1>1. UNCHANGED <<claimed, contacts, home, copies, worker, offered, acked>>
  BY DEF tableVars
<1>2. Types' /\ TablesInv' /\ ClaimsInv' /\ ThreadInv' /\ ContactInv'
  BY <1>1 DEF IInv, Types, TablesInv, ClaimsInv, ThreadInv, ContactInv
<1>3. ASSUME NEW v \in Workers PROVE WorkInv(worker[v])'
  BY <1>1 DEF IInv, WorkInv
<1> QED BY <1>2, <1>3 DEF IInv

(* A receipt: what was bounced stays bounced.                              *)
LEMMA BounceKeeps ==
  ASSUME IInv, NEW type \in {"failed", "bounced"}, OutboundBounce(type)
  PROVE  IInv'
<1> DEFINE d == delivery
           more == d.receipts \union {type}
<1>1. /\ d = Delivery(d.row, d.mirror, d.receipts) /\ d.receipts \subseteq {"failed", "bounced"}
      /\ BounceIsTerminal
  BY DEF IInv, DeliveryInv
<1>2. delivery' = Delivery(type, type, more) \/ delivery' = Delivery(d.row, d.mirror, more)
  BY <1>1 DEF OutboundBounce, Delivery
<1>3. DeliveryInv'
  <2>1. CASE d.row = "bounced" /\ type = "failed"
    <3>1. delivery' = Delivery(d.row, d.mirror, more)
      BY <1>1, <2>1 DEF OutboundBounce, Delivery
    <3> QED BY <1>1, <2>1, <3>1 DEF DeliveryInv, BounceIsTerminal, Delivery
  <2>2. CASE ~(d.row = "bounced" /\ type = "failed")
    <3>1. delivery' = Delivery(type, type, more)
      BY <2>2 DEF OutboundBounce
    <3>2. type = "failed" => "bounced" \notin d.receipts
      BY <1>1, <2>2 DEF BounceIsTerminal
    <3> QED BY <1>1, <3>1, <3>2 DEF DeliveryInv, BounceIsTerminal, Delivery
  <2> QED BY <2>1, <2>2
<1> QED BY <1>3, RestKeeps DEF OutboundBounce, providerVars, IInv, Types

(* Nothing is claimed or recorded to begin with.                           *)
LEMMA InitIInv == IntakeInit => IInv
<1> SUFFICES ASSUME IntakeInit PROVE IInv
  OBVIOUS
<1>1. \A w \in Workers : worker[w] = Idle
  BY DEF IntakeInit
<1>2. Types
  BY IdleWork, IntakeAssumption DEF IntakeInit, Types
<1>3. TablesInv /\ ClaimsInv /\ ThreadInv
  BY <1>1, IdleWork DEF IntakeInit, TablesInv, ClaimsInv, ThreadInv, Threaded, OncePerMail
<1>4. ContactInv
  BY <1>1, IdleWork DEF IntakeInit, ContactInv
<1>5. DeliveryInv
  BY DEF IntakeInit, DeliveryInv, BounceIsTerminal, Delivery
<1> QED BY <1>1, <1>2, <1>3, <1>4, <1>5, IdleWork DEF IInv

(* Every step of the provider and of the workers keeps the invariant.      *)
LEMMA NextIInv == IInv /\ [IntakeNext]_intakeVars => IInv'
<1> SUFFICES ASSUME IInv, [IntakeNext]_intakeVars PROVE IInv'
  OBVIOUS
<1>0. /\ faults \in 0 .. MaxFaults /\ MaxFaults \in Nat /\ ready \in BOOLEAN
      /\ expired \subseteq Events
  BY IntakeAssumption DEF IInv, Types
<1>1. ASSUME NEW w \in Workers, NEW batch \in offered, Deliver(w, batch) PROVE IInv'
  BY <1>1, DeliverKeeps
<1>2. ASSUME NEW w \in Workers, ClaimEvent(w) PROVE IInv'
  BY <1>2, ClaimKeeps, SkipKeeps
<1>3. ASSUME NEW w \in Workers, ReconcileContact(w) PROVE IInv'
  BY <1>3, ReconcileKeeps
<1>4. ASSUME NEW w \in Workers, RecordMessage(w) PROVE IInv'
  BY <1>4, RecordKeeps
<1>5. ASSUME NEW w \in Workers, NEW lost \in BOOLEAN, CommitBatch(w, lost) PROVE IInv'
  BY <1>5, CommitKeeps
<1>6. ASSUME NEW w \in Workers, IntakeFails(w) \/ DeadlockVictim(w) PROVE IInv'
  BY <1>0, <1>6, RollBackKeeps DEF IntakeFails, DeadlockVictim
<1>7. ASSUME NEW w \in Workers, WorkerCrash(w) PROVE IInv'
  <2>1. faults' \in 0 .. MaxFaults
    BY <1>0, <1>7 DEF WorkerCrash, Fault
  <2> QED BY <1>7, <2>1, RollBackKeeps DEF WorkerCrash
<1>8. ASSUME NEW e \in Events, BecomeStale(e) PROVE IInv'
  <2>1. UNCHANGED <<tableVars, worker, offered, acked, ready, faults, delivery>>
        /\ expired' \subseteq Events
    BY <1>0, <1>8 DEF BecomeStale
  <2>2. DeliveryInv'
    BY <2>1 DEF IInv, DeliveryInv, BounceIsTerminal
  <2> QED BY <1>0, <2>1, <2>2, RestKeeps
<1>9. CASE SetReady
  <2>1. UNCHANGED <<tableVars, worker, offered, acked, expired, delivery>>
    BY <1>9 DEF SetReady, providerVars
  <2>2. ready' \in BOOLEAN /\ faults' \in 0 .. MaxFaults
    BY <1>0, <1>9 DEF SetReady, Fault
  <2>3. DeliveryInv'
    BY <2>1 DEF IInv, DeliveryInv, BounceIsTerminal
  <2> QED BY <1>0, <2>1, <2>2, <2>3, RestKeeps
<1>10. ASSUME NEW type \in {"failed", "bounced"}, OutboundBounce(type) PROVE IInv'
  BY <1>10, BounceKeeps
<1>11. CASE UNCHANGED intakeVars
  <2>1. UNCHANGED <<tableVars, worker, offered, acked, expired, ready, faults, delivery>>
    BY <1>11 DEF intakeVars, providerVars
  <2>2. DeliveryInv'
    BY <2>1 DEF IInv, DeliveryInv, BounceIsTerminal
  <2> QED BY <1>0, <2>1, <2>2, RestKeeps
<1> QED BY <1>1, <1>2, <1>3, <1>4, <1>5, <1>6, <1>7, <1>8, <1>9, <1>10, <1>11
        DEF IntakeNext, WorkerStep

-----------------------------------------------------------------------------
(* The theorems.                                                           *)

(* The inductive invariant holds for any number of workers, batches and    *)
(* faults.                                                                 *)
THEOREM IntakeInvariant == IntakeSpec => []IInv
BY InitIInv, NextIInv, PTL DEF IntakeSpec

(* Tables, workers and provider keep their types, and no address ever has  *)
(* two contacts, however many workers meet its first messages at once.     *)
THEOREM IntakeTypes == IntakeSpec => []IntakeTypeOK
<1>1. IInv => IntakeTypeOK
  BY DEF IInv, Types, Works, ContactInv, Address, IntakeTypeOK
<1> QED BY <1>1, IntakeInvariant, PTL

(* A message is recorded at most once, however often and through however   *)
(* many mailboxes and workers it is delivered.                             *)
THEOREM OneRecordTheorem == IntakeSpec => []OneRecordEach
<1>1. IInv => OneRecordEach
  <2> SUFFICES ASSUME IInv, NEW e \in Events, NEW f \in Events,
                      Mail[e] = Mail[f], copies[e] > 0, copies[f] > 0
               PROVE  e = f /\ copies[e] = 1
    BY DEF OneRecordEach
  <2>1. PICK p \in home : p[1] = e
    BY DEF IInv, TablesInv
  <2>2. PICK q \in home : q[1] = f
    BY DEF IInv, TablesInv
  <2> QED BY <2>1, <2>2 DEF IInv, TablesInv, OncePerMail
<1> QED BY <1>1, IntakeInvariant, PTL

(* The provider is told that a message is done with only when it is on     *)
(* record, whatever failed, crashed or was rolled back.                    *)
THEOREM AckedTheorem == IntakeSpec => []AckedIsRecorded
<1>1. IInv => AckedIsRecorded
  <2> SUFFICES ASSUME IInv, NEW e \in acked PROVE Recorded(Mail[e])
    BY DEF AckedIsRecorded
  <2>1. e \in Events /\ Mail[e] \in Mails /\ Mail[e] \in claimed
    BY IntakeAssumption DEF IInv, Types, TablesInv
  <2> QED BY <2>1 DEF IInv, TablesInv, Holds, Recorded
<1> QED BY <1>1, IntakeInvariant, PTL

(* No message reaches a ticket of another requester or domain.             *)
THEOREM ThreadTheorem == IntakeSpec => []ThreadsStayWithRequester
<1>1. IInv => ThreadsStayWithRequester
  BY DEF IInv, ThreadInv, Threaded, ThreadsStayWithRequester
<1> QED BY <1>1, IntakeInvariant, PTL

(* A bounce is never undone by a failure that comes after it.              *)
THEOREM BounceTheorem == IntakeSpec => []BounceIsTerminal
<1>1. IInv => BounceIsTerminal
  BY DEF IInv, DeliveryInv
<1> QED BY <1>1, IntakeInvariant, PTL

(* Filed messages are in order.                                            *)
LEMMA FiledInOrder == IInv => Filing!InOrder
<1> SUFFICES ASSUME IInv PROVE Filing!InOrder
  OBVIOUS
<1>1. \A p, q \in home : Mail[p[1]] = Mail[q[1]] => p = q
  BY DEF IInv, TablesInv, OncePerMail
<1>2. \A p \in home : /\ p[1] \in Events /\ p[2] \in Events /\ <<p[2], p[2]>> \in home
                      /\ Domain[p[1]] = Domain[p[2]] /\ Sender[p[1]] = Sender[p[2]]
  BY DEF IInv, Types, ThreadInv, Threaded
<1>3. ASSUME NEW e \in acked PROVE \E p \in home : Mail[p[1]] = Mail[e]
  <2>1. e \in Events /\ Mail[e] \in Mails /\ Mail[e] \in claimed
    BY IntakeAssumption DEF IInv, Types, TablesInv
  <2> QED BY <2>1 DEF IInv, TablesInv, Holds
<1> QED BY <1>1, <1>2, <1>3 DEF Filing!InOrder, Filing!IsFiled

(* No step takes back a record or a confirmation.                          *)
LEMMA FilingGrows ==
  ASSUME IInv, [IntakeNext]_intakeVars
  PROVE  home \subseteq home' /\ acked \subseteq acked'
<1>1. CASE UNCHANGED <<home, acked>>
  BY <1>1
<1>2. ASSUME NEW w \in Workers, NEW lost \in BOOLEAN, CommitBatch(w, lost)
      PROVE  home \subseteq home' /\ acked \subseteq acked'
  BY <1>2 DEF CommitBatch
<1> QED BY <1>1, <1>2
        DEF IntakeNext, WorkerStep, Deliver, ClaimEvent, ReconcileContact, RecordMessage, IntakeFails,
            DeadlockVictim, WorkerCrash, RollBack, BecomeStale, SetReady, OutboundBounce, intakeVars,
            tableVars, providerVars

(* Inbound channels implement MessageFiling: a message is filed once,      *)
(* stays there, on a ticket that was opened and is its requester's, and is *)
(* confirmed only then.                                                    *)
THEOREM FilingTheorem == IntakeSpec => MessagesAreFiled
<1>1. IntakeInit => Filing!FilingInit
  BY DEF IntakeInit, Filing!FilingInit
<1>2. IInv /\ [IntakeNext]_intakeVars /\ Filing!InOrder' => [Filing!File]_<<home, acked>>
  BY FilingGrows DEF Filing!File
<1> QED BY <1>1, <1>2, FiledInOrder, IntakeInvariant, PTL
        DEF IntakeSpec, MessagesAreFiled, Filing!FilingSpec
=============================================================================
