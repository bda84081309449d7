------------------------------ MODULE ChannelIntake ------------------------------
(***************************************************************************)
(* Messages that come in by email and WhatsApp (email_channel/views.py and *)
(* services.py, whatsapp/views.py and services.py), and the bounces of     *)
(* messages that went out.  The provider delivers a batch until it is      *)
(* confirmed: late, twice, to two workers at once.  A worker handles it in *)
(* one transaction: it claims each message by unique keys, finds or makes  *)
(* the sender's contact, and records the message on the ticket it answers  *)
(* or on a new one.                                                        *)
(***************************************************************************)
EXTENDS Naturals, Sequences, FiniteSets, Functions

CONSTANTS
  Workers,
  Events,           \* what the provider has to deliver
  Mails,            \* message ids; two events may carry one message
  Senders,          \* addresses and numbers
  Numbers,          \* the senders that are numbers: their events are WhatsApp's
  Known,            \* the senders who are contacts to begin with
  Mail, Sender, Domain,   \* of each event
  References,       \* of each event: the messages its headers name
  Token,            \* of each event: the event whose ticket its subject names
  Scenarios,        \* sets of batches the provider may have to deliver
  MaxFaults,        \* bound of crashes, lost confirmations and misconfigurations
  None

ASSUME IntakeAssumption ==
  /\ Mail \in [Events -> Mails] /\ Sender \in [Events -> Senders]
  /\ Numbers \subseteq Senders
  /\ References \in [Events -> SUBSET Mails]
  /\ Token \in [Events -> Events \union {None}]
  /\ None \notin Events /\ Events \intersect Mails = {}
  /\ \A offer \in Scenarios : \A batch \in offer : batch \in Seq(Events)
  /\ MaxFaults \in Nat

VARIABLES
  offered,    \* the batches of this behaviour
  acked,      \* events whose confirmation has reached the provider
  expired,    \* WhatsApp events older than the age window
  claimed,    \* committed unique keys
  contacts,   \* committed contacts of each sender
  home,       \* committed messages: pairs of an event and the event that opened its ticket
  copies,     \* committed recordings of each event
  worker,     \* the batch of each worker and its uncommitted work
  ready,      \* mailbox, account, service and office are configured and active
  faults,
  delivery    \* an outbound email: its row, its ticket message, the receipts claimed

tableVars == <<claimed, contacts, home, copies>>
providerVars == <<offered, acked, expired>>
intakeVars == <<providerVars, tableVars, worker, ready, faults, delivery>>

Idle == [batch |-> <<>>, sent |-> <<>>, step |-> "idle",
         claims |-> {}, made |-> {}, homes |-> {}]
Delivery(row, mirror, receipts) == [row |-> row, mirror |-> mirror, receipts |-> receipts]

IntakeInit ==
  /\ offered \in Scenarios
  /\ acked = {} /\ expired = {}
  /\ claimed = {} /\ home = {}
  /\ contacts = [s \in Senders |-> IF s \in Known THEN 1 ELSE 0]
  /\ copies = [e \in Events |-> 0]
  /\ worker = [w \in Workers |-> Idle]
  /\ ready = TRUE /\ faults = 0
  /\ delivery = IF offered = {} THEN Delivery("sent", "sent", {})
                                 ELSE Delivery("none", "none", {})

ByNumber(e) == Sender[e] \in Numbers

(* Unique: the adapter's event id, and the message id of each type; for     *)
(* WhatsApp the provider's message id.                                      *)
Keys(e) == {Mail[e]} \union (IF ByNumber(e) THEN {} ELSE {e})

Current(w) == Head(worker[w].batch)

(* Mutant: what other transactions have not committed is seen too.          *)
Visible_Uncommitted(w) == home \union UNION {worker[v].homes : v \in Workers}

Visible(w) == home \union worker[w].homes

Fault == faults < MaxFaults /\ faults' = faults + 1

-----------------------------------------------------------------------------
(* A batch has a valid signature; one with a message that is too old or an  *)
(* account that is not active is refused before anything is written.        *)
Deliver(w, batch) ==
  /\ worker[w].step = "idle"
  /\ batch \in offered
  /\ ~(Range(batch) \subseteq acked)
  /\ Range(batch) \intersect expired = {}
  /\ (\E e \in Range(batch) : ByNumber(e)) => ready
  /\ worker' = [worker EXCEPT ![w] =
       [Idle EXCEPT !.batch = batch, !.sent = batch, !.step = "claim"]]
  /\ UNCHANGED <<providerVars, tableVars, ready, faults, delivery>>

BecomeStale(e) ==
  /\ e \in Events \ (acked \union expired)
  /\ ByNumber(e)
  /\ \E batch \in offered : e \in Range(batch)
  /\ expired' = expired \union {e}
  /\ UNCHANGED <<offered, acked, tableVars, worker, ready, faults, delivery>>

InBatch(w, step) == worker[w].step = step /\ worker[w].batch # <<>>

Claims(w, e) == [worker EXCEPT ![w].claims = @ \union Keys(e), ![w].step = "contact"]
Skips(w) == [worker EXCEPT ![w].batch = Tail(@)]

(* Mutant: the claim is looked up, by no unique index.                      *)
ClaimEvent_LooksUp(w) ==
  LET e == Current(w) IN
  /\ InBatch(w, "claim")
  /\ worker' = IF Keys(e) \intersect claimed = {} THEN Claims(w, e) ELSE Skips(w)
  /\ UNCHANGED <<providerVars, tableVars, ready, faults, delivery>>

(* Mutant: a claim is committed at once, in a transaction of its own.       *)
ClaimEvent_CommitsAtOnce(w) ==
  LET e == Current(w) IN
  /\ InBatch(w, "claim")
  /\ worker' = IF Keys(e) \intersect claimed = {} THEN Claims(w, e) ELSE Skips(w)
  /\ claimed' = claimed \union Keys(e)
  /\ UNCHANGED <<providerVars, contacts, home, copies, ready, faults, delivery>>

Blockers(w) == {v \in Workers \ {w} :
  InBatch(w, "claim") /\ Keys(Current(w)) \intersect worker[v].claims # {}}

(* The insert waits for another's uncommitted insert of one of the keys;    *)
(* where a key is taken the event is a duplicate.                           *)
ClaimEvent(w) ==
  LET e == Current(w) IN
  /\ InBatch(w, "claim")
  /\ Blockers(w) = {}
  /\ worker' = IF Keys(e) \intersect (claimed \union worker[w].claims) = {}
               THEN Claims(w, e) ELSE Skips(w)
  /\ UNCHANGED <<providerVars, tableVars, ready, faults, delivery>>

ContactsSeen(w, s) == contacts[s] + Cardinality(worker[w].made \intersect {s})

(* Mutant: an address is looked up like a number.                           *)
ReconcileContact_LooksUp(w) ==
  LET s == Sender[Current(w)] IN
  /\ InBatch(w, "contact") /\ ready
  /\ worker' = [worker EXCEPT ![w].step = "record",
                  ![w].made = IF ContactsSeen(w, s) = 0 THEN @ \union {s} ELSE @]
  /\ UNCHANGED <<providerVars, tableVars, ready, faults, delivery>>

(* An address is unique: the insert of a second contact waits for the first *)
(* and then finds it.  A number is not, and several contacts are an error.  *)
ReconcileContact(w) ==
  LET s == Sender[Current(w)] IN
  /\ InBatch(w, "contact")
  /\ ready
  /\ IF s \in Numbers THEN ContactsSeen(w, s) <= 1
     ELSE \A v \in Workers \ {w} : s \notin worker[v].made
  /\ worker' = [worker EXCEPT ![w].step = "record",
                  ![w].made = IF ContactsSeen(w, s) = 0 THEN @ \union {s} ELSE @]
  /\ UNCHANGED <<providerVars, tableVars, ready, faults, delivery>>

(* Only tickets of the mailbox's domain and of the same requester.          *)
Eligible(e, h) == Domain[h] = Domain[e] /\ Sender[h] = Sender[e]

(* By the message headers, else by the token in the subject, else none.     *)
Targets(w, e) ==
  LET answered == {p[2] : p \in {q \in Visible(w) : Mail[q[1]] \in References[e]}}
      named == {p[2] : p \in {q \in Visible(w) : q[2] = Token[e]}}
      threads == {h \in answered : Eligible(e, h)}
      tokens == {h \in named : Eligible(e, h)} IN
  IF threads # {} THEN threads ELSE IF tokens # {} THEN tokens ELSE {e}

(* find_target_ticket or create_ticket, then add_message.                   *)
RecordMessage(w) ==
  LET e == Current(w) IN
  /\ InBatch(w, "record")
  /\ \E h \in Targets(w, e) :
       worker' = [worker EXCEPT ![w].homes = @ \union {<<e, h>>},
                                ![w].batch = Tail(@), ![w].step = "claim"]
  /\ UNCHANGED <<providerVars, tableVars, ready, faults, delivery>>

(* The transaction commits and the answer is given, or lost on its way.     *)
CommitBatch(w, lost) ==
  LET work == worker[w] IN
  /\ work.step = "claim" /\ work.batch = <<>>
  /\ claimed' = claimed \union work.claims
  /\ contacts' = [s \in Senders |-> ContactsSeen(w, s)]
  /\ home' = home \union work.homes
  /\ copies' = [e \in Events |->
       copies[e] + Cardinality({p \in work.homes : p[1] = e})]
  /\ worker' = [worker EXCEPT ![w] = Idle]
  /\ IF lost THEN Fault /\ UNCHANGED acked
     ELSE acked' = acked \union Range(work.sent) /\ UNCHANGED faults
  /\ UNCHANGED <<offered, expired, ready, delivery>>

RollBack(w) ==
  /\ worker' = [worker EXCEPT ![w] = Idle]
  /\ UNCHANGED <<providerVars, tableVars, ready, delivery>>

(* Mutant: the claims outlive the error.                                    *)
IntakeFails_KeepsClaims(w) ==
  /\ InBatch(w, "contact")
  /\ ~ready
  /\ claimed' = claimed \union worker[w].claims
  /\ worker' = [worker EXCEPT ![w] = Idle]
  /\ UNCHANGED <<providerVars, contacts, home, copies, ready, faults, delivery>>

(* Mailbox, service or office are missing: 400.  Two contacts have the      *)
(* number: an exception.  Either way the whole batch is rolled back.        *)
IntakeFails(w) ==
  /\ InBatch(w, "contact")
  /\ ~ready \/ (Sender[Current(w)] \in Numbers /\ ContactsSeen(w, Sender[Current(w)]) > 1)
  /\ RollBack(w)
  /\ UNCHANGED faults

DeadlockVictim(w) ==
  /\ \E v \in Blockers(w) : w \in Blockers(v)
  /\ RollBack(w)
  /\ UNCHANGED faults

WorkerCrash(w) ==
  /\ worker[w].step # "idle"
  /\ Fault
  /\ RollBack(w)

SetReady ==
  /\ ready' = ~ready
  /\ IF ready THEN Fault ELSE UNCHANGED faults
  /\ UNCHANGED <<providerVars, tableVars, worker, delivery>>

-----------------------------------------------------------------------------
(* Outbound email.  Rows are entered by hand, no code of the channel makes  *)
(* them; they share nothing with intake, so a scenario has the one or the   *)
(* other.                                                                   *)

(* Mutant: the last receipt wins.                                           *)
OutboundBounce_LastWins(type) ==
  /\ delivery.row # "none"
  /\ type \notin delivery.receipts
  /\ delivery' = Delivery(type, type, delivery.receipts \union {type})
  /\ UNCHANGED <<providerVars, tableVars, worker, ready, faults>>

(* A receipt of an unknown message is refused, a second of one type is a    *)
(* duplicate; a failure after a bounce is claimed and otherwise ignored.    *)
OutboundBounce(type) ==
  /\ delivery.row # "none"
  /\ type \notin delivery.receipts
  /\ delivery' = IF delivery.row = "bounced" /\ type = "failed"
       THEN [delivery EXCEPT !.receipts = @ \union {type}]
       ELSE Delivery(type, type, delivery.receipts \union {type})
  /\ UNCHANGED <<providerVars, tableVars, worker, ready, faults>>

-----------------------------------------------------------------------------
WorkerStep(w) ==
  \/ ClaimEvent(w) \/ ReconcileContact(w) \/ RecordMessage(w)
  \/ CommitBatch(w, FALSE) \/ IntakeFails(w) \/ DeadlockVictim(w)

IntakeNext ==
  \/ \E w \in Workers :
       \/ \E batch \in offered : Deliver(w, batch)
       \/ WorkerStep(w) \/ CommitBatch(w, TRUE) \/ WorkerCrash(w)
  \/ \E e \in Events : BecomeStale(e)
  \/ SetReady
  \/ \E type \in {"failed", "bounced"} : OutboundBounce(type)

IntakeSpec == IntakeInit /\ [][IntakeNext]_intakeVars

ClaimsAgain(w) == worker[w].claims # {} /\ ClaimEvent(w)

(* Workers run, an insert that waits is woken when its blocker ends, a      *)
(* misconfiguration is put right, and every batch has its turn again and    *)
(* again until it is confirmed.                                             *)
FairIntakeSpec ==
  /\ IntakeSpec
  /\ \A w \in Workers : WF_intakeVars(WorkerStep(w)) /\ SF_intakeVars(ClaimsAgain(w))
  /\ WF_intakeVars(~ready /\ SetReady)
  /\ \A batch \in UNION Scenarios : SF_intakeVars(\E w \in Workers : Deliver(w, batch))

-----------------------------------------------------------------------------
(* What the channels promise.                                               *)

Recorded(mail) == \E p \in home : Mail[p[1]] = mail

(* Types; an address never has two contacts, whoever made them at once.     *)
IntakeTypeOK ==
  /\ offered \in Scenarios
  /\ acked \subseteq Events /\ expired \subseteq Events
  /\ claimed \subseteq Events \union Mails
  /\ contacts \in [Senders -> Nat]
  /\ \A s \in Senders \ Numbers : contacts[s] <= 1
  /\ home \subseteq Events \X Events
  /\ copies \in [Events -> Nat]
  /\ \A w \in Workers : worker[w].step \in {"idle", "claim", "contact", "record"}
  /\ ready \in BOOLEAN /\ faults \in 0 .. MaxFaults

(* A message is recorded at most once, however often, by however many       *)
(* workers and through however many mailboxes it is delivered.              *)
OneRecordEach ==
  \A e, f \in Events :
    Mail[e] = Mail[f] /\ copies[e] > 0 /\ copies[f] > 0 => e = f /\ copies[e] = 1

(* What the provider has been told is done with is on record.               *)
AckedIsRecorded == \A e \in acked : Recorded(Mail[e])

(* A ticket only ever holds messages of the requester who opened it, in its *)
(* own domain.  MessagesAreFiled, which runs check, says so and more.       *)
ThreadsStayWithRequester ==
  \A p \in home : Domain[p[1]] = Domain[p[2]] /\ Sender[p[1]] = Sender[p[2]]

(* A message stays on the ticket where it was recorded, and the ticket has  *)
(* the message that opened it: no answer follows a ticket whose opening was *)
(* rolled back.                                                             *)
Filing == INSTANCE MessageFiling WITH
  Message <- Mail, Requester <- [e \in Events |-> <<Sender[e], Domain[e]>>],
  filed <- home, confirmed <- acked
MessagesAreFiled == Filing!FilingSpec

(* After a bounce the row and the ticket's message say bounced, after a     *)
(* failure at least failed, in whatever order the receipts come.            *)
BounceIsTerminal ==
  /\ "bounced" \in delivery.receipts => delivery.row = "bounced"
  /\ "failed" \in delivery.receipts => delivery.row \in {"failed", "bounced"}
  /\ delivery.mirror = delivery.row

(* Every message is recorded in the end, unless its batch holds one that    *)
(* grew too old or whose number has two contacts.                           *)
IntakeGetsThrough ==
  <>[](\A batch \in offered :
         \/ \A e \in Range(batch) : Recorded(Mail[e])
         \/ \E e \in Range(batch) : e \in expired \/ contacts[Sender[e]] > 1)

(* A number names one contact, as the WhatsApp channel takes it to.         *)
NumberNamesOneContact == \A s \in Numbers : contacts[s] <= 1
=============================================================================
